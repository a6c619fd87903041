--------------------------- MODULE AgentSessionProofs ---------------------------
(***************************************************************************)
(* Proofs about the agent's session: with any number of requests, faults   *)
(* and other writers, runs do not mix, what they report is on the branch,  *)
(* and what failed stays off it.                                           *)
(***************************************************************************)
EXTENDS AgentSession, SequenceTheorems, TLAPS

\* The change a handler makes, and all changes of a sequence of commits.
Own(a) == IF a = Serve THEN "seed" ELSE a
Changes(s) == UNION Range(s)
Single(s) == \A i \in DOMAIN s : \A r, q \in s[i] : r = q

\* One handler at a time; the flag and the port say which.
Alone ==
  /\ \A a, b \in Actors : pc[a] # "none" /\ pc[b] # "none" => a = b
  /\ pc[Serve] # "none" => ~ listening /\ ~ busy /\ pc[Serve] # "model"
  /\ \A r \in Requests : pc[r] # "none" => listening /\ busy /\ pc[r] # "seed"

\* Commits hold one change, and so do the edits of a handler that synced.
Pure ==
  /\ Single(remote) /\ Single(head)
  /\ pc[Serve] = "seed" => edits = {}
  /\ \A a \in Actors : pc[a] \in {"model", "commit"} => edits \subseteq {Own(a)}

\* What is pushed ends in the handler's own commit, and is on the branch
\* before it is reported.
Reported ==
  /\ ~ exists => remote = <<>>
  /\ \A a \in Actors : pc[a] \in {"push", "revParse"} => head # <<>> /\ Last(head) = {Own(a)}
  /\ \A a \in Actors : pc[a] = "revParse" => IsPrefix(head, remote)

\* A change is nowhere; or nobody will commit it any more, since the next
\* handler resets the working copy to the branch.
Synced == {"seed", "model", "commit", "push", "revParse"}
Untouched(r) == r \notin Changes(remote) \cup Changes(head) \cup edits
Discarded(r) ==
  /\ exists /\ r \notin Changes(remote)
  /\ \A a \in Actors : pc[a] \in Synced => r \notin Changes(head) \cup edits

\* What becomes of the change of a request.
Traced ==
  /\ \A a \in Actors : pc[a] = "fetch" => exists
  /\ \A r \in Requests :
       /\ stream[r] = "none" => Untouched(r) /\ pc[r] = "none" /\ record[r].status = "unset"
       /\ pc[r] # "none" => record[r].status = "running"
       /\ pc[r] \in {"clone", "lsRemote", "fetch"} => Untouched(r)
       /\ pc[r] \in {"model", "commit", "push"} /\ r \notin excused => exists /\ r \notin Changes(remote)
       /\ record[r].status = "failed" /\ r \notin excused => Untouched(r) \/ Discarded(r)

\* The inductive invariant.
IInv == TypeOK /\ Alone /\ Pure /\ Reported /\ Traced /\ ReportsAreTrue
\* What every step of the proof shows of the branch.
Grows == (exists => exists') /\ IsPrefix(remote, remote')
Safe == IInv' /\ Grows

-----------------------------------------------------------------------------
(* Branches.                                                               *)

\* A prefix agrees with the longer sequence element by element.
LEMMA PrefixElements ==
  ASSUME NEW s \in Branch, NEW t \in Branch
  PROVE  IsPrefix(s, t) <=> Len(s) <= Len(t) /\ \A i \in 1 .. Len(s) : s[i] = t[i]
<1>1. CASE Len(s) <= Len(t)
  <2>1. /\ SubSeq(s, 1, Len(s)) \in Seq(SUBSET Change) /\ Len(SubSeq(s, 1, Len(s))) = Len(s)
        /\ SubSeq(t, 1, Len(s)) \in Seq(SUBSET Change) /\ Len(SubSeq(t, 1, Len(s))) = Len(s)
        /\ \A i \in 1 .. Len(s) : SubSeq(s, 1, Len(s))[i] = s[i] /\ SubSeq(t, 1, Len(s))[i] = t[i]
    BY <1>1 DEF Branch
  <2>2. (\A i \in 1 .. Len(s) : s[i] = t[i]) => SubSeq(s, 1, Len(s)) = SubSeq(t, 1, Len(s))
    <3> SUFFICES ASSUME \A i \in 1 .. Len(s) : s[i] = t[i]
                 PROVE  SubSeq(s, 1, Len(s)) = SubSeq(t, 1, Len(s))
      OBVIOUS
    <3> DEFINE u == SubSeq(s, 1, Len(s))
               v == SubSeq(t, 1, Len(s))
    <3>1. u \in Seq(SUBSET Change) /\ v \in Seq(SUBSET Change) /\ Len(u) = Len(v)
          /\ \A i \in 1 .. Len(u) : u[i] = v[i]
      BY <2>1
    <3> HIDE DEF u, v
    <3> QED
      BY <3>1, SeqEqual DEF u, v
  <2> QED
    BY <1>1, <2>1, <2>2 DEF IsPrefix
<1>2. CASE ~ (Len(s) <= Len(t))
  BY <1>2 DEF IsPrefix
<1> QED
  BY <1>1, <1>2

\* Being a prefix is reflexive and transitive.
LEMMA PrefixSelf == ASSUME NEW s \in Branch PROVE IsPrefix(s, s)
BY PrefixElements DEF Branch

\* A prefix of a prefix is a prefix.
LEMMA PrefixTransitive ==
  ASSUME NEW s \in Branch, NEW t \in Branch, NEW u \in Branch, IsPrefix(s, t), IsPrefix(t, u)
  PROVE  IsPrefix(s, u)
<1>1. /\ Len(s) <= Len(t) /\ \A i \in 1 .. Len(s) : s[i] = t[i]
      /\ Len(t) <= Len(u) /\ \A i \in 1 .. Len(t) : t[i] = u[i]
  BY PrefixElements
<1>2. Len(s) \in Nat /\ Len(t) \in Nat /\ Len(u) \in Nat
  BY DEF Branch
<1>3. Len(s) <= Len(u) /\ \A i \in 1 .. Len(s) : s[i] = u[i]
  BY <1>1, <1>2
<1> QED
  BY <1>3, PrefixElements

\* The empty branch is a prefix of every branch.
LEMMA PrefixOfAll == ASSUME NEW s \in Branch PROVE IsPrefix(<<>>, s)
BY DEF Branch, IsPrefix

\* One more commit, which brings its own changes.
LEMMA OneMore ==
  ASSUME NEW s \in Branch, NEW e \in SUBSET Change
  PROVE  /\ Append(s, e) \in Branch /\ IsPrefix(s, Append(s, e))
         /\ Append(s, e) # <<>> /\ Last(Append(s, e)) = e
         /\ Changes(Append(s, e)) = Changes(s) \cup e
         /\ Single(s) /\ (\A r, q \in e : r = q) => Single(Append(s, e))
<1> DEFINE t == Append(s, e)
<1>1. /\ t \in Branch /\ Len(t) = Len(s) + 1 /\ DOMAIN t = 1 .. Len(s) + 1
      /\ DOMAIN s = 1 .. Len(s) /\ Len(s) \in Nat
      /\ t[Len(s) + 1] = e /\ \A i \in 1 .. Len(s) : t[i] = s[i]
  BY DEF Branch
<1> HIDE DEF t
<1>2. IsPrefix(s, t)
  BY <1>1, PrefixElements
<1>3. t # <<>> /\ Last(t) = e
  BY <1>1 DEF Last
<1>4. Changes(t) = Changes(s) \cup e
  <2>1. Range(t) = Range(s) \cup {e}
    BY <1>1 DEF Range
  <2> QED
    BY <2>1 DEF Changes
<1>5. Single(s) /\ (\A r, q \in e : r = q) => Single(t)
  BY <1>1 DEF Single
<1> QED
  BY <1>1, <1>2, <1>3, <1>4, <1>5 DEF t

\* Where the repository starts.
LEMMA BaseFacts ==
  ASSUME TypeOK
  PROVE  Base \in Branch /\ Single(Base) /\ \A r \in Requests : r \notin Changes(Base)
<1>1. <<>> \in Branch /\ Single(<<>>) /\ Changes(<<>>) = {}
  BY DEF Branch, Single, Changes, Range
<1>2. <<{"base"}>> \in Branch /\ Single(<<{"base"}>>) /\ Changes(<<{"base"}>>) = {"base"}
  BY DEF Branch, Change, Single, Changes, Range
<1> QED
  BY <1>1, <1>2, RequestsAssumption DEF Base

\* A longer branch and no new reports: what was reported stays true.
LEMMA ReportsKept ==
  ASSUME TypeOK, TypeOK', ReportsAreTrue, IsPrefix(remote, remote'),
         \A r \in Requests : record'[r].commit # None => record'[r].commit = record[r].commit,
         refreshed' \subseteq refreshed
  PROVE  ReportsAreTrue'
<1>1. \A c \in Branch : IsPrefix(c, remote) => IsPrefix(c, remote')
  BY PrefixTransitive DEF TypeOK
<1>2. ASSUME NEW r \in Requests, record'[r].commit # None
      PROVE  IsPrefix(record'[r].commit, remote') /\ Last(record'[r].commit) = {r}
  <2>1. record'[r].commit = record[r].commit /\ record[r].commit \in Branch
    BY <1>2 DEF TypeOK
  <2> QED
    BY <1>1, <1>2, <2>1 DEF ReportsAreTrue
<1>3. ASSUME NEW c \in refreshed' PROVE IsPrefix(c, remote')
  BY <1>1, <1>3 DEF ReportsAreTrue, TypeOK
<1> QED
  BY <1>2, <1>3 DEF ReportsAreTrue

-----------------------------------------------------------------------------
(* The end of a handler.                                                   *)

\* The part of TypeOK that the end of a handler touches, and the rest.
SessionTypes ==
  /\ {listening, busy} \subseteq BOOLEAN
  /\ pc \in [Actors -> {"none", "clone", "lsRemote", "fetch", "seed", "model", "commit",
                        "push", "revParse"}]
  /\ runs \in Seq(Requests) /\ Len(runs) <= KeepRuns
  /\ record \in [Requests -> [status: {"unset", "running", "succeeded", "failed"},
                              commit: Branch \cup {None}]]
  /\ stream \in [Requests -> {"none", "open", "left", "cut", "busy", "unavailable",
                              "succeeded", "failed"}]
  /\ refreshed \subseteq Branch
WorkTypes ==
  /\ exists \in BOOLEAN /\ remote \in Branch /\ head \in Branch /\ edits \subseteq Change
  /\ plan \in Plan /\ cloned \in BOOLEAN /\ excused \subseteq Requests

\* The two parts are TypeOK.
LEMMA Types == (TypeOK <=> SessionTypes /\ WorkTypes) /\ (TypeOK' <=> SessionTypes' /\ WorkTypes')
BY DEF TypeOK, SessionTypes, WorkTypes

\* What holds once the handler of a has ended.
Ended(a, commit) ==
  /\ SessionTypes' /\ Alone'
  /\ \A b \in Actors : pc'[b] \in {"none", "clone"}
  /\ \A r \in Requests :
       /\ pc'[r] = "none"
       /\ record'[r] = record[r] \/ (r = a /\ record'[r].commit = commit)
       /\ stream'[r] = "none" => stream[r] = "none" /\ record'[r] = record[r]
  /\ refreshed' \subseteq refreshed \cup ({commit} \ {None})

\* Finish ends a run: its record is written and nobody else was active.
LEMMA FinishEnds ==
  ASSUME IInv, NEW r \in Requests, pc[r] # "none", NEW status \in {"succeeded", "failed"},
         NEW commit \in Branch \cup {None}, Finish(r, status, commit)
  PROVE  Ended(r, commit)
<1>1. r # Serve /\ r \in Actors /\ Serve \in Actors
  BY RequestsAssumption DEF Actors
<1>2. \A b \in Actors : b # r => pc[b] = "none"
  BY <1>1 DEF IInv, Alone
<1>3. SessionTypes
  BY Types DEF IInv
<1>4. pc' = [pc EXCEPT ![r] = "none"] /\ \A b \in Actors : pc'[b] = "none"
  BY <1>1, <1>2, <1>3 DEF Finish, Goto, SessionTypes
<1>5. SessionTypes'
  <2>1. {listening', busy'} \subseteq BOOLEAN /\ runs' = runs
    BY <1>3 DEF Finish, SessionTypes
  <2>2. pc' \in [Actors -> {"none", "clone", "lsRemote", "fetch", "seed", "model", "commit",
                            "push", "revParse"}]
    BY <1>3, <1>4 DEF SessionTypes
  <2>3. record' \in [Requests -> [status: {"unset", "running", "succeeded", "failed"},
                                  commit: Branch \cup {None}]]
    BY <1>3 DEF Finish, SessionTypes
  <2>4. stream' \in [Requests -> {"none", "open", "left", "cut", "busy", "unavailable",
                                  "succeeded", "failed"}]
    BY <1>3 DEF Finish, SessionTypes
  <2>5. refreshed' \subseteq Branch
    BY <1>3 DEF Finish, watchDone, SessionTypes
  <2> QED
    BY <1>3, <2>1, <2>2, <2>3, <2>4, <2>5 DEF SessionTypes
<1>6. Alone'
  BY <1>4, <1>1 DEF Alone, Actors
<1>7. ASSUME NEW q \in Requests
      PROVE  /\ record'[q] = record[q] \/ (q = r /\ record'[q].commit = commit)
             /\ stream'[q] = "none" => stream[q] = "none" /\ record'[q] = record[q]
  <2>1. stream[r] # "none"
    BY DEF IInv, Traced
  <2> QED
    BY <1>3, <2>1 DEF Finish, SessionTypes
<1>8. refreshed' \subseteq refreshed \cup ({commit} \ {None})
  BY DEF Finish, watchDone
<1> QED
  BY <1>4, <1>5, <1>6, <1>7, <1>8 DEF Ended, Actors

\* serve ends by listening, or by dying and starting over.
LEMMA ServeEnds ==
  ASSUME IInv, pc[Serve] # "none", NEW commit,
         \/ Listen
         \/ Goto(Serve, "clone") /\ UNCHANGED <<session, client>>
  PROVE  Ended(Serve, commit)
<1>1. Serve \in Actors /\ Serve \notin Requests
  BY RequestsAssumption DEF Actors
<1>2. ~ listening /\ ~ busy /\ \A b \in Actors : b # Serve => pc[b] = "none"
  BY <1>1 DEF IInv, Alone
<1>3. SessionTypes
  BY Types DEF IInv
<1>4. PICK l \in {"none", "clone"} : pc' = [pc EXCEPT ![Serve] = l] /\ (l = "clone" => listening' = listening)
  BY DEF Listen, Goto, session
<1>5. /\ UNCHANGED <<busy, runs, record, client>> /\ listening' \in BOOLEAN
  BY <1>3 DEF Listen, session, SessionTypes
<1>6. pc'[Serve] = l /\ \A b \in Actors : b # Serve => pc'[b] = "none"
  BY <1>1, <1>2, <1>3, <1>4 DEF SessionTypes
<1>7. SessionTypes'
  BY <1>3, <1>4, <1>5 DEF SessionTypes, client
<1>8. Alone'
  BY <1>1, <1>2, <1>4, <1>5, <1>6 DEF Alone, Actors
<1> QED
  BY <1>1, <1>5, <1>6, <1>7, <1>8 DEF Ended, Actors, client

\* A handler that ends without touching host or working copy.
LEMMA EndStep ==
  ASSUME IInv, NEW a \in Actors, pc[a] # "none", NEW commit \in Branch \cup {None}, Ended(a, commit),
         UNCHANGED <<host, work, excused>>, plan' \in Plan,
         commit # None => IsPrefix(commit, remote) /\ Last(commit) = {a},
         a \in Requests /\ record'[a].status = "failed" => pc[a] # "revParse"
  PROVE  Safe
<1>1. UNCHANGED <<exists, remote, cloned, head, edits, excused>>
  BY DEF host, work
<1>2. TypeOK' /\ SessionTypes' /\ WorkTypes /\ SessionTypes
  BY <1>1, Types DEF IInv, Ended, WorkTypes
<1>3. Grows
  BY <1>1, <1>2, PrefixSelf DEF Grows, WorkTypes
<1>4. Pure'
  BY <1>1 DEF IInv, Pure, Ended, Single, Actors
<1>5. Reported'
  BY <1>1 DEF IInv, Reported, Ended
<1>6. ReportsAreTrue'
  <2>1. \A r \in Requests : record'[r].commit # None =>
          IsPrefix(record'[r].commit, remote) /\ Last(record'[r].commit) = {r}
    BY DEF IInv, ReportsAreTrue, Ended
  <2>2. \A c \in refreshed' : IsPrefix(c, remote)
    BY DEF IInv, ReportsAreTrue, Ended
  <2> QED
    BY <1>1, <2>1, <2>2 DEF ReportsAreTrue
<1>7. Traced'
  <2>1. \A r \in Requests : Untouched(r)' <=> Untouched(r)
    BY <1>1 DEF Untouched, Changes, Range
  <2>2. ASSUME NEW r \in Requests, stream'[r] = "none"
        PROVE  Untouched(r)' /\ pc'[r] = "none" /\ record'[r].status = "unset"
    BY <2>1, <2>2 DEF IInv, Traced, Ended
  <2>3. ASSUME NEW r \in Requests, record'[r].status = "failed", r \notin excused
        PROVE  Untouched(r)' \/ Discarded(r)'
    <3>1. CASE record'[r] = record[r]
      <4>1. Untouched(r) \/ Discarded(r)
        BY <2>3, <3>1 DEF IInv, Traced
      <4>2. Discarded(r) => Discarded(r)'
        BY <1>1 DEF Discarded, Synced, Ended, Changes, Range
      <4> QED
        BY <2>1, <4>1, <4>2
    <3>2. CASE r = a
      <4>1. pc[a] \in {"clone", "lsRemote", "fetch", "model", "commit", "push"}
        BY <1>2, <2>3, <3>2 DEF SessionTypes, IInv, Alone
      <4>2. Untouched(r) \/ (exists /\ r \notin Changes(remote))
        BY <2>3, <3>2, <4>1 DEF IInv, Traced
      <4>3. exists /\ r \notin Changes(remote) => Discarded(r)'
        BY <1>1 DEF Discarded, Synced, Ended, Changes, Range
      <4> QED
        BY <2>1, <4>2, <4>3
    <3> QED
      BY <3>1, <3>2 DEF Ended
  <2> QED
    BY <1>1, <2>2, <2>3 DEF Traced, Ended
<1> QED
  BY <1>2, <1>3, <1>4, <1>5, <1>6, <1>7 DEF Safe, IInv, Ended

-----------------------------------------------------------------------------
(* The steps of a handler.                                                 *)

Labels == {"clone", "lsRemote", "fetch", "seed", "model", "commit", "push", "revParse"}

\* A handler that goes on is still the only one.
LEMMA Moves ==
  ASSUME IInv, NEW a \in Actors, pc[a] # "none", NEW l \in Labels,
         l = "seed" => a = Serve, l = "model" => a \in Requests,
         Goto(a, l), UNCHANGED <<session, client>>
  PROVE  /\ SessionTypes' /\ Alone' /\ pc'[a] = l
         /\ \A b \in Actors : b # a => pc[b] = "none" /\ pc'[b] = "none"
         /\ UNCHANGED <<listening, busy, runs, record, stream, refreshed>>
<1>1. SessionTypes /\ UNCHANGED <<listening, busy, runs, record, stream, refreshed>>
  BY Types DEF IInv, session, client
<1>2. \A b \in Actors : b # a => pc[b] = "none"
  BY DEF IInv, Alone
<1>3. pc'[a] = l /\ \A b \in Actors : b # a => pc'[b] = "none"
  BY <1>1, <1>2 DEF Goto, SessionTypes
<1>4. SessionTypes'
  BY <1>1 DEF SessionTypes, Goto, Labels
<1>5. Alone'
  BY <1>1, <1>3, RequestsAssumption DEF Alone, IInv, Actors
<1> QED
  BY <1>1, <1>2, <1>3, <1>4, <1>5

\* A call that fails ends the handler.
LEMMA ThrowEnds ==
  ASSUME IInv, NEW a \in Actors, pc[a] # "none", Throw(a)
  PROVE  Ended(a, None)
BY FinishEnds, ServeEnds DEF Throw, Actors

\* A handler that is through ends.
LEMMA DoneEnds ==
  ASSUME IInv, NEW a \in Actors, pc[a] # "none", NEW commit \in Branch \cup {None}, Done(a, commit)
  PROVE  Ended(a, commit)
BY FinishEnds, ServeEnds DEF Done, Actors

\* A fault uses up one of those planned.
LEMMA FaultPlan == ASSUME TypeOK, NEW kind, Fault(kind) PROVE plan' \in Plan
<1>1. plan \in Plan /\ plan.left \in Nat
  BY DEF TypeOK, Plan
<1>2. plan.left > 0 /\ plan' = [plan EXCEPT !.left = plan.left - 1]
  BY DEF Fault
<1>3. plan.left - 1 \in Nat
  BY <1>1, <1>2
<1> QED
  BY <1>1, <1>2, <1>3 DEF Plan

\* A git call that fails.
LEMMA NetFailsSafe ==
  ASSUME IInv, NEW a \in Actors, pc[a] \notin {"none", "revParse"}, NetFails(a)
  PROVE  Safe
<1>1. Ended(a, None) /\ plan' \in Plan /\ None \in Branch \cup {None}
  BY ThrowEnds, FaultPlan DEF NetFails, IInv
<1> QED
  BY <1>1, EndStep DEF NetFails

\* A handler that goes on and leaves the host alone: what has to be shown of
\* the working copy.
LEMMA MoveStep ==
  ASSUME IInv, NEW a \in Actors, pc[a] # "none", NEW l \in Labels,
         l = "seed" => a = Serve, l = "model" => a \in Requests,
         Goto(a, l), UNCHANGED <<host, session, client>>,
         WorkTypes', excused \subseteq excused', Single(head'),
         l = "seed" => edits' = {},
         l \in {"model", "commit"} => edits' \subseteq {Own(a)},
         l = "fetch" => exists,
         l \in {"push", "revParse"} => head' # <<>> /\ Last(head') = {Own(a)},
         l = "revParse" => IsPrefix(head', remote),
         \A r \in Requests : Untouched(r) /\ (r = a => l \in {"clone", "lsRemote", "fetch"}) => Untouched(r)',
         \A r \in Requests \ {a} : Discarded(r) /\ l \in Synced => r \notin Changes(head') \cup edits',
         a \in Requests /\ l \in {"clone", "lsRemote", "fetch"} => pc[a] \in {"clone", "lsRemote", "fetch"},
         a \in Requests /\ l \in {"model", "commit", "push"} /\ a \notin excused' => exists /\ a \notin Changes(remote)
  PROVE  Safe
<1>1. /\ SessionTypes' /\ Alone' /\ pc'[a] = l
      /\ \A b \in Actors : b # a => pc[b] = "none" /\ pc'[b] = "none"
      /\ UNCHANGED <<listening, busy, runs, record, stream, refreshed>>
  BY Moves
<1>2. UNCHANGED <<exists, remote>> /\ TypeOK' /\ TypeOK
  BY <1>1, Types DEF IInv, host
<1>3. Grows
  BY <1>2, PrefixSelf DEF Grows, TypeOK
<1>4. ReportsAreTrue'
  BY <1>1, <1>2, <1>3, ReportsKept DEF IInv, Grows
<1>5. Pure'
  BY <1>1, <1>2, RequestsAssumption DEF Pure, IInv, Single, Actors
<1>6. Reported'
  BY <1>1, <1>2 DEF Reported, IInv
<1>7. Traced'
  <2>1. \A b \in Actors : pc'[b] = "fetch" => exists'
    BY <1>1, <1>2 DEF IInv, Traced
  <2>2. ASSUME NEW r \in Requests
        PROVE  /\ stream'[r] = "none" => Untouched(r)' /\ pc'[r] = "none" /\ record'[r].status = "unset"
               /\ pc'[r] # "none" => record'[r].status = "running"
               /\ pc'[r] \in {"clone", "lsRemote", "fetch"} => Untouched(r)'
               /\ pc'[r] \in {"model", "commit", "push"} /\ r \notin excused' => exists' /\ r \notin Changes(remote)'
               /\ record'[r].status = "failed" /\ r \notin excused' => Untouched(r)' \/ Discarded(r)'
    <3>1. r \in Actors /\ (r # a => pc'[r] = "none")
      BY <1>1 DEF Actors
    <3>2. Changes(remote)' = Changes(remote)
      BY <1>2 DEF Changes, Range
    <3>3. r = a => stream[r] # "none" /\ record[r].status = "running"
      BY DEF IInv, Traced
    <3>4. Discarded(r) /\ r # a => Discarded(r)'
      <4> SUFFICES ASSUME Discarded(r), r # a, NEW b \in Actors, pc'[b] \in Synced
                   PROVE  r \notin Changes(head)' \cup edits'
        BY <1>2, <3>2 DEF Discarded
      <4>1. b = a /\ l \in Synced
        BY <1>1 DEF Synced
      <4> QED
        BY <4>1 DEF Changes, Range
    <3> QED
      BY <1>1, <1>2, <3>1, <3>2, <3>3, <3>4 DEF IInv, Traced
  <2> QED
    BY <2>1, <2>2 DEF Traced
<1> QED
  BY <1>1, <1>2, <1>3, <1>4, <1>5, <1>6, <1>7 DEF Safe, IInv

-----------------------------------------------------------------------------
(* The actions.                                                            *)

\* The clone, which may be there already.
LEMMA CloneSafe ==
  ASSUME IInv, NEW a \in Actors, Clone(a) PROVE Safe
<1>0. TypeOK /\ WorkTypes /\ "lsRemote" \in Labels
  BY Types DEF IInv, Labels
<1>1. CASE cloned /\ Goto(a, "lsRemote") /\ UNCHANGED <<work, plan, session, client>>
  <2>1. UNCHANGED <<exists, remote, cloned, head, edits, plan, excused>>
    BY <1>1 DEF Clone, host, work
  <2>2. WorkTypes' /\ Single(head') /\ \A r \in Requests : Untouched(r)' <=> Untouched(r)
    BY <1>0, <2>1 DEF WorkTypes, IInv, Pure, Single, Untouched, Changes, Range
  <2> QED
    BY <1>0, <1>1, <2>1, <2>2, MoveStep DEF Clone, Synced
<1>2. CASE /\ ~ cloned /\ cloned' = TRUE /\ head' = (IF exists THEN remote ELSE Base) /\ edits' = {}
           /\ Goto(a, "lsRemote") /\ UNCHANGED <<plan, session, client>>
  <2>1. UNCHANGED <<exists, remote, plan, excused>>
    BY <1>2 DEF Clone, host
  <2>2. Base \in Branch /\ Single(Base) /\ \A r \in Requests : r \notin Changes(Base)
    BY <1>0, BaseFacts
  <2>3. WorkTypes' /\ Single(head')
    BY <1>0, <1>2, <2>1, <2>2 DEF WorkTypes, IInv, Pure
  <2>4. ASSUME NEW r \in Requests, Untouched(r) PROVE Untouched(r)'
    <3>1. r \notin Changes(remote)
      BY <2>4 DEF Untouched
    <3>2. Changes(remote)' = Changes(remote) /\ Changes(head)' \in {Changes(remote), Changes(Base)}
      BY <1>2, <2>1 DEF Changes, Range
    <3> QED
      BY <1>2, <2>2, <3>1, <3>2 DEF Untouched
  <2> QED
    BY <1>0, <1>2, <2>1, <2>3, <2>4, MoveStep DEF Clone, Synced
<1>3. CASE NetFails(a)
  BY <1>3, NetFailsSafe DEF Clone
<1> QED
  BY <1>1, <1>2, <1>3 DEF Clone

\* ls-remote: a run that finds no branch is excused.
LEMMA RemoteHasBranchSafe ==
  ASSUME IInv, NEW a \in Actors, RemoteHasBranch(a) PROVE Safe
<1>0. TypeOK /\ WorkTypes /\ {"fetch", "seed", "model"} \subseteq Labels
  BY Types DEF IInv, Labels
<1>1. CASE exists /\ Goto(a, "fetch") /\ UNCHANGED <<edits, plan, session, client, excused>>
  <2>1. UNCHANGED <<exists, remote, cloned, head, edits, plan, excused>>
    BY <1>1 DEF RemoteHasBranch, host
  <2>2. WorkTypes' /\ Single(head') /\ \A r \in Requests : Untouched(r)' <=> Untouched(r)
    BY <1>0, <2>1 DEF WorkTypes, IInv, Pure, Single, Untouched, Changes, Range
  <2> QED
    BY <1>0, <1>1, <2>1, <2>2, MoveStep DEF RemoteHasBranch, Synced
<1>2. CASE /\ ~ exists /\ edits' = {} /\ excused' = excused \cup ({a} \cap Requests)
           /\ Prepared(a) /\ UNCHANGED <<plan, session, client>>
  <2>1. UNCHANGED <<exists, remote, cloned, head, plan>>
    BY <1>2 DEF RemoteHasBranch, host
  <2>2. WorkTypes' /\ Single(head')
    BY <1>0, <1>2, <2>1 DEF WorkTypes, IInv, Pure, Single
  <2>3. \A r \in Requests : (Untouched(r) => Untouched(r)') /\ ~ Discarded(r)
    BY <1>2, <2>1 DEF Untouched, Discarded, Changes, Range
  <2>4. PICK l \in {"seed", "model"} :
          Goto(a, l) /\ (l = "seed" => a = Serve) /\ (l = "model" => a \in Requests)
    BY <1>2 DEF Prepared, Actors
  <2> QED
    BY <1>0, <1>2, <2>1, <2>2, <2>3, <2>4, MoveStep DEF RemoteHasBranch, Synced
<1>3. CASE NetFails(a)
  BY <1>3, NetFailsSafe DEF RemoteHasBranch
<1> QED
  BY <1>1, <1>2, <1>3 DEF RemoteHasBranch

\* A fetch that fails, or a checkout that is refused, changes nothing.
LEMMA FetchFailsSafe ==
  ASSUME IInv, NEW a \in Actors, pc[a] = "fetch", FetchFails(a)
  PROVE  Safe
<1>1. CASE NetFails(a)
  BY <1>1, NetFailsSafe
<1>2. CASE Clash /\ Throw(a) /\ UNCHANGED <<host, work, plan, excused>>
  <2>1. Ended(a, None) /\ plan' \in Plan /\ None \in Branch \cup {None}
    BY <1>2, ThrowEnds DEF IInv, TypeOK
  <2> QED
    BY <1>2, <2>1, EndStep
<1> QED
  BY <1>1, <1>2 DEF FetchFails

\* The reset to the branch, which discards what failed runs left.
LEMMA FetchSafe ==
  ASSUME IInv, NEW a \in Actors, Fetch(a) PROVE Safe
<1>0. TypeOK /\ WorkTypes /\ {"seed", "model"} \subseteq Labels
  BY Types DEF IInv, Labels
<1>1. CASE ~ Clash /\ head' = remote /\ edits' = {} /\ Prepared(a) /\ UNCHANGED <<plan, session, client>>
  <2>1. UNCHANGED <<exists, remote, cloned, plan, excused>>
    BY <1>1 DEF Fetch, host
  <2>2. WorkTypes' /\ Single(head')
    BY <1>0, <1>1, <2>1 DEF WorkTypes, IInv, Pure
  <2>3. Changes(remote)' = Changes(remote) /\ Changes(head') = Changes(remote) /\ Changes(head)' = Changes(remote)
    BY <1>1, <2>1 DEF Changes, Range
  <2>4. \A r \in Requests : (Untouched(r) => Untouched(r)')
                         /\ (Discarded(r) => r \notin Changes(head') \cup edits')
    BY <1>1, <2>3 DEF Untouched, Discarded
  <2>5. PICK l \in {"seed", "model"} :
          Goto(a, l) /\ (l = "seed" => a = Serve) /\ (l = "model" => a \in Requests)
    BY <1>1 DEF Prepared, Actors
  <2>6. exists /\ (a \in Requests => a \notin Changes(remote))
    BY DEF Fetch, IInv, Traced, Untouched
  <2> QED
    BY <1>0, <1>1, <2>1, <2>2, <2>4, <2>5, <2>6, MoveStep DEF Fetch
<1>2. CASE FetchFails(a)
  BY <1>2, FetchFailsSafe DEF Fetch
<1> QED
  BY <1>1, <1>2 DEF Fetch

\* serve looks for the branch and writes the README.
LEMMA SeedSafe ==
  ASSUME IInv, Seed PROVE Safe
<1>0. TypeOK /\ WorkTypes /\ "commit" \in Labels /\ Serve \in Actors /\ Serve \notin Requests
  BY Types, RequestsAssumption DEF IInv, Labels, Actors
<1>1. CASE exists /\ Listen /\ UNCHANGED <<edits, plan>>
  <2>1. UNCHANGED <<host, work, excused>> /\ plan' \in Plan
    BY <1>0, <1>1 DEF Seed, work, WorkTypes
  <2>2. Ended(Serve, None)
    BY <1>1, ServeEnds DEF Seed
  <2> QED
    BY <1>0, <2>1, <2>2, EndStep DEF Seed
<1>2. CASE /\ ~ exists /\ Goto(Serve, "commit")
           /\ \/ "seed" \notin UNION Range(head) /\ edits' = edits \cup {"seed"}
              \/ head # <<>> /\ UNCHANGED edits
           /\ UNCHANGED <<plan, session, client>>
  <2>1. UNCHANGED <<exists, remote, cloned, head, plan, excused>>
    BY <1>2 DEF Seed, host
  <2>2. edits = {} /\ edits' \subseteq {"seed"} /\ edits' \subseteq {Own(Serve)}
    BY <1>2 DEF Seed, IInv, Pure, Own
  <2>3. WorkTypes' /\ Single(head')
    BY <1>0, <2>1, <2>2 DEF WorkTypes, IInv, Pure, Single, Change
  <2>4. \A r \in Requests : (Untouched(r) => Untouched(r)') /\ ~ Discarded(r)
    BY <1>2, <2>1, <2>2, RequestsAssumption DEF Untouched, Discarded, Changes, Range
  <2> QED
    BY <1>0, <1>2, <2>1, <2>2, <2>3, <2>4, MoveStep DEF Seed
<1>3. CASE NetFails(Serve)
  BY <1>0, <1>3, NetFailsSafe DEF Seed
<1> QED
  BY <1>1, <1>2, <1>3 DEF Seed

\* A tool edits the working copy: the edits are those of this run.
LEMMA RunToolSafe ==
  ASSUME IInv, NEW r \in Requests, RunTool(r) PROVE Safe
<1>0. TypeOK /\ WorkTypes /\ SessionTypes /\ "model" \in Labels /\ r \in Actors /\ r # Serve /\ r \in Change
  BY Types, RequestsAssumption DEF IInv, Labels, Actors, Change
<1>1. UNCHANGED <<exists, remote, cloned, head, plan, excused>> /\ edits' = edits \cup {r}
  BY DEF RunTool, host
<1>2. Goto(r, "model")
  BY <1>0 DEF RunTool, Goto, SessionTypes
<1>3. edits' \subseteq {Own(r)} /\ WorkTypes' /\ Single(head')
  BY <1>0, <1>1 DEF RunTool, IInv, Pure, Own, WorkTypes, Single
<1>4. \A q \in Requests : Untouched(q) /\ q # r => Untouched(q)'
  BY <1>1 DEF Untouched, Changes, Range
<1>5. \A q \in Requests \ {r} : Discarded(q) => q \notin Changes(head') \cup edits'
  BY <1>0, <1>1 DEF RunTool, Discarded, Synced, Changes, Range
<1>6. r \notin excused => exists /\ r \notin Changes(remote)
  BY DEF RunTool, IInv, Traced
<1> QED
  BY <1>0, <1>1, <1>2, <1>3, <1>4, <1>5, <1>6, MoveStep DEF RunTool

\* The model answers or fails.
LEMMA AnswerSafe ==
  ASSUME IInv, NEW r \in Requests, Answer(r) PROVE Safe
<1>0. TypeOK /\ WorkTypes /\ "commit" \in Labels /\ r \in Actors
  BY Types DEF IInv, Labels, Actors
<1>1. CASE Goto(r, "commit") /\ UNCHANGED <<plan, session, client>>
  <2>1. UNCHANGED <<exists, remote, cloned, head, edits, plan, excused>>
    BY <1>1 DEF Answer, host, work
  <2>2. edits' \subseteq {Own(r)} /\ WorkTypes' /\ Single(head')
    BY <1>0, <2>1 DEF Answer, IInv, Pure, WorkTypes, Single
  <2>3. \A q \in Requests : Untouched(q) => Untouched(q)'
    BY <2>1 DEF Untouched, Changes, Range
  <2>4. \A q \in Requests : Discarded(q) => q \notin Changes(head') \cup edits'
    BY <1>0, <2>1 DEF Answer, Discarded, Synced, Changes, Range
  <2>5. r \notin excused => exists /\ r \notin Changes(remote)
    BY DEF Answer, IInv, Traced
  <2> QED
    BY <1>0, <1>1, <2>1, <2>2, <2>3, <2>4, <2>5, MoveStep DEF Answer
<1>2. CASE Fault("model") /\ Throw(r)
  <2>1. Ended(r, None) /\ plan' \in Plan /\ UNCHANGED <<host, work, excused>>
    BY <1>0, <1>2, ThrowEnds, FaultPlan DEF Answer
  <2> QED
    BY <1>0, <2>1, EndStep DEF Answer
<1> QED
  BY <1>1, <1>2 DEF Answer

\* The commit holds the change of this handler alone.
LEMMA CommitSafe ==
  ASSUME IInv, NEW a \in Actors, Commit(a) PROVE Safe
<1>0. TypeOK /\ WorkTypes /\ "push" \in Labels
  BY Types DEF IInv, Labels
<1>1. CASE edits = {} /\ Done(a, None) /\ UNCHANGED <<head, edits>>
  <2>1. UNCHANGED <<host, work, excused>> /\ plan' \in Plan
    BY <1>0, <1>1 DEF Commit, work, WorkTypes
  <2>2. Ended(a, None)
    BY <1>1, DoneEnds DEF Commit
  <2> QED
    BY <2>1, <2>2, EndStep DEF Commit
<1>2. CASE /\ edits # {} /\ head' = Append(head, edits) /\ edits' = {}
           /\ Goto(a, "push") /\ UNCHANGED <<session, client>>
  <2>1. UNCHANGED <<exists, remote, cloned, plan, excused>>
    BY <1>2 DEF Commit, host
  <2>2. edits = {Own(a)} /\ edits \in SUBSET Change /\ head \in Branch
    BY <1>0, <1>2 DEF Commit, IInv, Pure, WorkTypes
  <2>3. /\ head' \in Branch /\ head' # <<>> /\ Last(head') = {Own(a)}
        /\ Changes(head') = Changes(head) \cup edits /\ Single(head')
    BY <1>2, <2>2, OneMore DEF IInv, Pure
  <2>4. WorkTypes'
    BY <1>0, <1>2, <2>1, <2>3 DEF WorkTypes
  <2>5. Changes(remote)' = Changes(remote) /\ Changes(head)' = Changes(head) \cup edits
    BY <2>1, <2>3 DEF Changes, Range
  <2>6. \A q \in Requests : Untouched(q) => Untouched(q)'
    BY <1>2, <2>5 DEF Untouched
  <2>7. \A q \in Requests : Discarded(q) => q \notin Changes(head') \cup edits'
    BY <1>2, <2>3 DEF Commit, Discarded, Synced
  <2>8. a \in Requests /\ a \notin excused => exists /\ a \notin Changes(remote)
    BY DEF Commit, IInv, Traced
  <2> QED
    BY <1>0, <1>2, <2>1, <2>3, <2>4, <2>6, <2>7, <2>8, MoveStep DEF Commit
<1> QED
  BY <1>1, <1>2 DEF Commit

\* A push that is carried out, whether its answer arrives or not.
LEMMA Pushed ==
  ASSUME IInv, NEW a \in Actors, pc[a] = "push", FastForward, exists' = TRUE, remote' = head,
         UNCHANGED work
  PROVE  /\ Grows /\ Single(remote') /\ Single(head') /\ IsPrefix(head', remote')
         /\ head' # <<>> /\ Last(head') = {Own(a)}
         /\ \A q \in Requests : Untouched(q) \/ Discarded(q) => q \notin Changes(head)
         /\ Changes(head)' = Changes(head) /\ Changes(remote)' = Changes(head)
<1>1. TypeOK /\ head' = head /\ remote \in Branch /\ head \in Branch
  BY DEF IInv, TypeOK, work
<1>2. IsPrefix(remote, head)
  BY <1>1, PrefixOfAll DEF FastForward, IInv, Reported
<1>3. IsPrefix(head, head)
  BY <1>1, PrefixSelf
<1>4. \A q \in Requests : Untouched(q) \/ Discarded(q) => q \notin Changes(head)
  BY DEF Untouched, Discarded, Synced
<1>5. Changes(head)' = Changes(head) /\ Changes(remote)' = Changes(head)
  BY <1>1 DEF Changes, Range
<1> QED
  BY <1>1, <1>2, <1>3, <1>4, <1>5 DEF Grows, IInv, Pure, Reported

\* The push succeeds, is refused, fails, or its answer is lost.
LEMMA PushSafe ==
  ASSUME IInv, NEW a \in Actors, Push(a) PROVE Safe
<1>0. /\ TypeOK /\ WorkTypes /\ "revParse" \in Labels /\ pc[a] = "push" /\ Traced
      /\ UNCHANGED <<cloned, head, edits>>
  BY Types DEF IInv, Labels, Push, work
<1>1. CASE /\ FastForward /\ exists' = TRUE /\ remote' = head
           /\ Goto(a, "revParse") /\ UNCHANGED <<plan, session, client, excused>>
  <2>1. /\ SessionTypes' /\ Alone' /\ pc'[a] = "revParse"
        /\ \A b \in Actors : b # a => pc[b] = "none" /\ pc'[b] = "none"
        /\ UNCHANGED <<listening, busy, runs, record, stream, refreshed>>
    BY <1>0, <1>1, Moves
  <2>2. /\ Grows /\ Single(remote') /\ Single(head') /\ IsPrefix(head', remote')
        /\ head' # <<>> /\ Last(head') = {Own(a)}
        /\ \A q \in Requests : Untouched(q) \/ Discarded(q) => q \notin Changes(head)
        /\ Changes(head)' = Changes(head) /\ Changes(remote)' = Changes(head)
    BY <1>0, <1>1, Pushed DEF Push
  <2>3. TypeOK'
    BY <1>0, <1>1, <2>1, Types DEF WorkTypes
  <2>4. ReportsAreTrue'
    BY <1>0, <2>1, <2>2, <2>3, ReportsKept DEF IInv, Grows
  <2>5. Pure'
    BY <2>1, <2>2, RequestsAssumption DEF Pure, Single, Actors
  <2>6. Reported'
    BY <1>1, <2>1, <2>2 DEF Reported
  <2>7. ASSUME NEW r \in Requests
        PROVE  /\ stream'[r] = "none" => Untouched(r)' /\ pc'[r] = "none" /\ record'[r].status = "unset"
               /\ pc'[r] # "none" => record'[r].status = "running"
               /\ pc'[r] \notin {"clone", "lsRemote", "fetch", "model", "commit", "push"}
               /\ record'[r].status = "failed" /\ r \notin excused' => Untouched(r)' \/ Discarded(r)'
    <3>1. r \in Actors /\ (r # a => pc'[r] = "none")
      BY <2>1 DEF Actors
    <3>2. r = a => stream[r] # "none" /\ record[r].status = "running"
      BY <1>0 DEF Traced
    <3>3. Untouched(r) => Untouched(r)'
      BY <1>0, <2>2 DEF Untouched
    <3>4. Discarded(r) => Discarded(r)'
      <4> SUFFICES ASSUME Discarded(r) PROVE r \notin Changes(head) \cup edits
        BY <1>0, <1>1, <2>2 DEF Discarded
      <4> QED
        BY <1>0 DEF Discarded, Synced
    <3> QED
      BY <1>0, <1>1, <2>1, <3>1, <3>2, <3>3, <3>4 DEF Traced
  <2>8. Traced'
    BY <1>1, <2>7 DEF Traced
  <2> QED
    BY <2>1, <2>2, <2>3, <2>4, <2>5, <2>6, <2>8 DEF Safe, IInv
<1>2. CASE /\ FastForward /\ exists' = TRUE /\ remote' = head
           /\ Fault("lost") /\ Throw(a) /\ excused' = excused \cup ({a} \cap Requests)
  <2>1. Ended(a, None) /\ plan' \in Plan
    BY <1>0, <1>2, ThrowEnds, FaultPlan
  <2>2. /\ Grows /\ Single(remote') /\ Single(head')
        /\ \A q \in Requests : Untouched(q) \/ Discarded(q) => q \notin Changes(head)
        /\ Changes(head)' = Changes(head) /\ Changes(remote)' = Changes(head)
    BY <1>0, <1>2, Pushed DEF Push
  <2>3. TypeOK'
    BY <1>0, <1>2, <2>1, Types DEF WorkTypes, Ended
  <2>4. ReportsAreTrue'
    <3>1. \A r \in Requests : record'[r].commit # None => record'[r].commit = record[r].commit
      BY <2>1 DEF Ended
    <3>2. refreshed' \subseteq refreshed
      BY <2>1 DEF Ended
    <3> QED
      BY <1>0, <2>2, <2>3, <3>1, <3>2, ReportsKept DEF IInv, Grows
  <2>5. Pure'
    BY <2>1, <2>2, RequestsAssumption DEF Pure, Ended, Actors
  <2>6. Reported'
    BY <1>2, <2>1 DEF Reported, Ended
  <2>7. ASSUME NEW r \in Requests
        PROVE  /\ stream'[r] = "none" => Untouched(r)' /\ record'[r].status = "unset"
               /\ record'[r].status = "failed" /\ r \notin excused' => Untouched(r)' \/ Discarded(r)'
    <3>1. Untouched(r) => Untouched(r)'
      BY <1>0, <2>2 DEF Untouched
    <3>2. Discarded(r) => Discarded(r)'
      BY <1>0, <1>2, <2>1, <2>2 DEF Discarded, Ended, Synced
    <3>3. r \notin excused' => r # a /\ r \notin excused
      BY <1>2
    <3>4. r # a => record'[r] = record[r]
      BY <2>1 DEF Ended
    <3>5. stream'[r] = "none" => stream[r] = "none" /\ record'[r] = record[r]
      BY <2>1 DEF Ended
    <3> QED
      BY <1>0, <3>1, <3>2, <3>3, <3>4, <3>5 DEF Traced
  <2>8. Traced'
    BY <1>2, <2>1, <2>7 DEF Traced, Ended
  <2> QED
    BY <2>1, <2>2, <2>3, <2>4, <2>5, <2>6, <2>8 DEF Safe, IInv, Ended
<1>3. CASE ~ FastForward /\ Throw(a) /\ UNCHANGED <<host, plan, excused>>
  <2>1. Ended(a, None) /\ plan' \in Plan /\ UNCHANGED <<host, work, excused>>
    BY <1>0, <1>3, ThrowEnds DEF WorkTypes, Push
  <2> QED
    BY <1>0, <2>1, EndStep
<1>4. CASE NetFails(a)
  BY <1>0, <1>4, NetFailsSafe
<1> QED
  BY <1>1, <1>2, <1>3, <1>4 DEF Push

\* The commit that is reported is on the branch.
LEMMA RevParseSafe ==
  ASSUME IInv, NEW a \in Actors, RevParse(a) PROVE Safe
<1>0. TypeOK /\ WorkTypes /\ head \in Branch \cup {None} /\ pc[a] = "revParse"
  BY Types DEF IInv, WorkTypes, RevParse
<1>1. Ended(a, head)
  BY <1>0, DoneEnds DEF RevParse
<1>2. UNCHANGED <<host, work, excused>> /\ plan' \in Plan
  BY <1>0 DEF RevParse, WorkTypes
<1>3. IsPrefix(head, remote) /\ Last(head) = {Own(a)}
  BY <1>0 DEF IInv, Reported
<1>4. CASE a \in Requests
  <2>1. Own(a) = a
    BY <1>4, RequestsAssumption DEF Own
  <2>2. record'[a].status = "succeeded"
    <3>1. a # Serve /\ Finish(a, "succeeded", head)
      BY <1>4, RequestsAssumption DEF RevParse, Done
    <3>2. record \in [Requests -> [status: {"unset", "running", "succeeded", "failed"},
                                   commit: Branch \cup {None}]]
      BY <1>0 DEF TypeOK
    <3> QED
      BY <1>4, <3>1, <3>2 DEF Finish
  <2> QED
    BY <1>0, <1>1, <1>2, <1>3, <2>1, <2>2, EndStep
<1>5. CASE a = Serve
  <2>1. Ended(a, None)
    BY <1>0, <1>5, ServeEnds, RequestsAssumption DEF RevParse, Done
  <2> QED
    BY <1>0, <1>2, <1>5, <2>1, EndStep, RequestsAssumption
<1> QED
  BY <1>4, <1>5 DEF Actors

\* Steps outside the handlers leave the working copy alone, or empty it.
LEMMA Undisturbed ==
  ASSUME UNCHANGED <<exists, remote>>, UNCHANGED head \/ head' = <<>>, edits' \subseteq edits,
         UNCHANGED pc \/ \A b \in Actors : pc'[b] \notin Synced
  PROVE  \A r \in Requests : (Untouched(r) => Untouched(r)') /\ (Discarded(r) => Discarded(r)')
<1>1. Changes(remote)' = Changes(remote) /\ Changes(head)' \subseteq Changes(head)
  BY DEF Changes, Range
<1>2. \A r \in Requests : Untouched(r) => Untouched(r)'
  BY <1>1 DEF Untouched
<1>3. ASSUME NEW r \in Requests, Discarded(r) PROVE Discarded(r)'
  BY <1>1, <1>3 DEF Discarded
<1> QED
  BY <1>2, <1>3

\* No more than KEEP_RUNS runs are kept.
LEMMA KeptRuns ==
  ASSUME TypeOK, NEW r \in Requests
  PROVE  Kept(r) \in Seq(Requests) /\ Len(Kept(r)) <= KeepRuns
<1> DEFINE all == <<r>> \o runs
           n == IF Len(all) < KeepRuns THEN Len(all) ELSE KeepRuns
<1>1. all \in Seq(Requests) /\ Len(all) = Len(runs) + 1 /\ Len(runs) \in Nat
  <2>1. <<r>> \in Seq(Requests)
    OBVIOUS
  <2>2. Len(<<r>>) = 1
    OBVIOUS
  <2>3. runs \in Seq(Requests)
    BY Types DEF SessionTypes
  <2>4. Len(runs) \in Nat
    BY <2>3
  <2> QED
    BY <2>1, <2>2, <2>3, <2>4, ConcatProperties
<1> HIDE DEF all
<1>2. n \in 1 .. Len(all) /\ n <= KeepRuns /\ n \in Nat
  BY <1>1, KeepAssumption
<1> HIDE DEF n
<1>3. SubSeq(all, 1, n) \in Seq(Requests) /\ Len(SubSeq(all, 1, n)) = n
  BY <1>1, <1>2
<1> QED
  BY <1>2, <1>3 DEF Kept, all, n

\* A prompt is refused, or starts a run when no handler is active.
LEMMA StartRunSafe ==
  ASSUME IInv, NEW r \in Requests, StartRun(r) PROVE Safe
<1>0. /\ TypeOK /\ WorkTypes /\ SessionTypes /\ stream[r] = "none" /\ Traced
      /\ r \in Actors /\ r # Serve /\ Serve \in Actors
      /\ UNCHANGED <<exists, remote, cloned, head, edits, plan, listening, refreshed, excused>>
  BY Types, RequestsAssumption DEF IInv, Actors, StartRun, host, work
<1>1. WorkTypes' /\ Grows
  BY <1>0, PrefixSelf DEF WorkTypes, Grows
<1>2. Untouched(r) /\ record[r].status = "unset"
  BY <1>0 DEF Traced
<1>3. CASE /\ listening /\ ~ busy /\ stream' = [stream EXCEPT ![r] = "open"]
           /\ busy' = TRUE /\ Goto(r, "clone") /\ runs' = Kept(r)
           /\ record' = [record EXCEPT ![r] = [status |-> "running", commit |-> None]]
  <2>1. \A b \in Actors : pc[b] = "none"
    BY <1>3 DEF IInv, Alone, Actors
  <2>2. pc'[r] = "clone" /\ \A b \in Actors : b # r => pc'[b] = "none"
    BY <1>0, <1>3, <2>1 DEF Goto, SessionTypes
  <2>4. SessionTypes'
    <3>1. pc' \in [Actors -> {"none", "clone", "lsRemote", "fetch", "seed", "model", "commit",
                              "push", "revParse"}]
      BY <1>0, <1>3 DEF SessionTypes, Goto
    <3>2. record' \in [Requests -> [status: {"unset", "running", "succeeded", "failed"},
                                    commit: Branch \cup {None}]]
      BY <1>0, <1>3 DEF SessionTypes
    <3>3. stream' \in [Requests -> {"none", "open", "left", "cut", "busy", "unavailable",
                                    "succeeded", "failed"}]
      BY <1>0, <1>3 DEF SessionTypes
    <3>4. runs' \in Seq(Requests) /\ Len(runs') <= KeepRuns
      BY <1>0, <1>3, KeptRuns
    <3> QED
      BY <1>0, <1>3, <3>1, <3>2, <3>3, <3>4 DEF SessionTypes
  <2>5. TypeOK'
    BY <1>1, <2>4, Types
  <2>6. Alone'
    BY <1>0, <1>3, <2>2 DEF Alone, Actors
  <2>7. Pure' /\ Reported'
    BY <1>0, <2>2 DEF IInv, Pure, Reported, Single
  <2>8. /\ record'[r] = [status |-> "running", commit |-> None] /\ stream'[r] = "open"
        /\ \A q \in Requests : q # r => record'[q] = record[q] /\ stream'[q] = stream[q]
    BY <1>0, <1>3 DEF SessionTypes
  <2>9. ReportsAreTrue'
    BY <1>0, <1>1, <2>5, <2>8, ReportsKept DEF IInv, Grows
  <2>10. \A q \in Requests : (Untouched(q) => Untouched(q)') /\ (Discarded(q) => Discarded(q)')
    <3>1. \A b \in Actors : pc'[b] \notin Synced
      BY <2>2 DEF Synced
    <3> QED
      BY <1>0, <3>1, Undisturbed
  <2>11. ASSUME NEW q \in Requests
         PROVE  /\ stream'[q] = "none" => Untouched(q)' /\ pc'[q] = "none" /\ record'[q].status = "unset"
                /\ pc'[q] # "none" => record'[q].status = "running" /\ Untouched(q)'
                /\ pc'[q] \notin {"model", "commit", "push"}
                /\ record'[q].status = "failed" /\ q \notin excused => Untouched(q)' \/ Discarded(q)'
    <3>1. CASE q = r
      <4>1. stream'[q] = "open" /\ record'[q].status = "running" /\ pc'[q] = "clone"
        BY <2>2, <2>8, <3>1
      <4>2. Untouched(q)
        BY <1>2, <3>1, Zenon
      <4> QED
        BY <2>10, <4>1, <4>2
    <3>2. CASE q # r
      <4>1. q \in Actors /\ pc'[q] = "none" /\ record'[q] = record[q] /\ stream'[q] = stream[q]
        BY <2>2, <2>8, <3>2 DEF Actors
      <4> QED
        BY <1>0, <2>10, <4>1 DEF Traced
    <3> QED
      BY <3>1, <3>2
  <2>12. Traced'
    BY <1>0, <2>2, <2>11 DEF Traced
  <2> QED
    BY <1>1, <2>5, <2>6, <2>7, <2>9, <2>12 DEF Safe, IInv
<1>4. CASE /\ UNCHANGED <<pc, busy, runs, record>>
           /\ stream' = [stream EXCEPT ![r] = IF listening THEN "busy" ELSE "unavailable"]
  <2>1. SessionTypes'
    BY <1>0, <1>4 DEF SessionTypes
  <2>2. TypeOK'
    BY <1>1, <2>1, Types
  <2>3. Alone' /\ Pure' /\ Reported'
    BY <1>0, <1>4 DEF IInv, Alone, Pure, Reported, Single
  <2>4. ReportsAreTrue'
    BY <1>0, <1>4 DEF IInv, ReportsAreTrue
  <2>5. \A q \in Requests : (Untouched(q) => Untouched(q)') /\ (Discarded(q) => Discarded(q)')
    BY <1>0, <1>4, Undisturbed
  <2>6. Changes(remote)' = Changes(remote)
    BY <1>0 DEF Changes, Range
  <2>7. \A q \in Requests : stream'[q] = "none" => stream[q] = "none"
    BY <1>0, <1>4 DEF SessionTypes
  <2>8. Traced'
    BY <1>0, <1>4, <2>5, <2>6, <2>7 DEF Traced
  <2> QED
    BY <1>1, <2>2, <2>3, <2>4, <2>8 DEF Safe, IInv
<1> QED
  BY <1>3, <1>4 DEF StartRun

\* The client leaves and the run goes on.
LEMMA ClientLeavesSafe ==
  ASSUME IInv, NEW r \in Requests, ClientLeaves(r) PROVE Safe
<1>0. /\ TypeOK /\ WorkTypes /\ SessionTypes /\ Traced
      /\ UNCHANGED <<exists, remote, cloned, head, edits, pc, listening, busy, runs, record, refreshed, excused>>
  BY Types DEF IInv, ClientLeaves, host, work, session
<1>1. WorkTypes' /\ Grows
  BY <1>0, PrefixSelf, FaultPlan DEF WorkTypes, Grows, ClientLeaves
<1>2. SessionTypes' /\ \A q \in Requests : stream'[q] = "none" => stream[q] = "none"
  BY <1>0 DEF SessionTypes, ClientLeaves
<1>3. TypeOK'
  BY <1>1, <1>2, Types
<1>4. Alone' /\ Pure' /\ Reported' /\ ReportsAreTrue'
  BY <1>0 DEF IInv, Alone, Pure, Reported, Single, ReportsAreTrue
<1>5. \A q \in Requests : (Untouched(q) => Untouched(q)') /\ (Discarded(q) => Discarded(q)')
  BY <1>0, Undisturbed
<1>6. Changes(remote)' = Changes(remote)
  BY <1>0 DEF Changes, Range
<1>7. Traced'
  BY <1>0, <1>2, <1>5, <1>6 DEF Traced
<1> QED
  BY <1>1, <1>3, <1>4, <1>7 DEF Safe, IInv

\* Someone else's commit extends the branch.
LEMMA OthersPushSafe ==
  ASSUME IInv, OthersPush PROVE Safe
<1>0. /\ TypeOK /\ WorkTypes /\ SessionTypes /\ Traced
      /\ UNCHANGED <<cloned, head, edits, pc, listening, busy, runs, record, stream, refreshed, excused>>
  BY Types DEF IInv, OthersPush, work, session, client
<1>1. plan' \in Plan
  <2>1. plan \in Plan /\ plan.pushes \in Nat
    BY <1>0 DEF WorkTypes, Plan
  <2>2. plan.pushes > 0 /\ plan' = [plan EXCEPT !.pushes = plan.pushes - 1]
    BY DEF OthersPush
  <2>3. plan.pushes - 1 \in Nat
    BY <2>1, <2>2
  <2> QED
    BY <2>1, <2>2, <2>3 DEF Plan
<1> DEFINE s == IF exists THEN remote ELSE Base
<1>2. Base \in Branch /\ Single(Base) /\ \A r \in Requests : r \notin Changes(Base)
  BY <1>0, BaseFacts
<1>3. /\ s \in Branch /\ Single(s) /\ IsPrefix(remote, s)
      /\ \A r \in Requests : r \notin Changes(remote) => r \notin Changes(s)
  BY <1>0, <1>2, PrefixSelf, PrefixOfAll DEF WorkTypes, IInv, Pure, Reported
<1>4. exists' = TRUE /\ remote' = Append(s, {"theirs"})
  BY DEF OthersPush
<1> HIDE DEF s
<1>5. {"theirs"} \in SUBSET Change /\ (\A r, q \in {"theirs"} : r = q)
      /\ \A r \in Requests : r # "theirs"
  BY RequestsAssumption DEF Change
<1>6. /\ remote' \in Branch /\ IsPrefix(s, remote') /\ Single(remote')
      /\ Changes(remote') = Changes(s) \cup {"theirs"}
  BY <1>3, <1>4, <1>5, OneMore
<1>7. WorkTypes' /\ Grows
  BY <1>0, <1>1, <1>3, <1>4, <1>6, PrefixTransitive DEF WorkTypes, Grows
<1>8. TypeOK'
  BY <1>0, <1>7, Types DEF SessionTypes
<1>9. ReportsAreTrue'
  BY <1>0, <1>7, <1>8, ReportsKept DEF IInv, Grows
<1>10. Alone'
  BY <1>0 DEF IInv, Alone
<1>11. Pure'
  BY <1>0, <1>6 DEF IInv, Pure, Single
<1>12. Reported'
  <2>1. IsPrefix(head, remote) => IsPrefix(head, remote')
    BY <1>0, <1>6, <1>7, PrefixTransitive DEF WorkTypes, Grows
  <2> QED
    BY <1>0, <1>4, <2>1 DEF IInv, Reported
<1>13. Traced'
  <2>1. Changes(head)' = Changes(head) /\ Changes(remote)' = Changes(remote')
    BY <1>0 DEF Changes, Range
  <2>2. \A r \in Requests : r \notin Changes(remote) => r \notin Changes(remote)'
    BY <1>3, <1>5, <1>6, <2>1
  <2>3. \A r \in Requests : (Untouched(r) => Untouched(r)') /\ (Discarded(r) => Discarded(r)')
    BY <1>0, <1>4, <2>1, <2>2 DEF Untouched, Discarded
  <2> QED
    BY <1>0, <1>4, <2>2, <2>3 DEF Traced
<1> QED
  BY <1>7, <1>8, <1>9, <1>10, <1>11, <1>12, <1>13 DEF Safe, IInv

\* The process starts again, with its working copy or without.
LEMMA RestartSafe ==
  ASSUME IInv, Restart, plan' \in Plan, cloned' \in BOOLEAN, head' \in {head, <<>>}, edits' \subseteq edits
  PROVE  Safe
<1>0. /\ TypeOK /\ WorkTypes /\ SessionTypes /\ Traced /\ Serve \in Actors /\ Serve \notin Requests
      /\ UNCHANGED <<exists, remote, refreshed, excused>>
  BY Types, RequestsAssumption DEF IInv, Restart, host, Actors
<1>1. /\ pc' = [a \in Actors |-> IF a = Serve THEN "clone" ELSE "none"]
      /\ listening' = FALSE /\ busy' = FALSE /\ runs' = <<>> /\ record' = [r \in Requests |-> NoRecord]
      /\ stream' = [r \in Requests |-> IF stream[r] = "open" THEN "cut" ELSE stream[r]]
  BY DEF Restart
<1>2. <<>> \in Branch /\ Single(<<>>)
  BY DEF Branch, Single
<1>3. WorkTypes' /\ Grows /\ Single(head')
  BY <1>0, <1>2, PrefixSelf DEF WorkTypes, Grows, IInv, Pure
<1>4. SessionTypes'
  <2>1. record' \in [Requests -> [status: {"unset", "running", "succeeded", "failed"},
                                  commit: Branch \cup {None}]]
    BY <1>1 DEF NoRecord
  <2>2. stream' \in [Requests -> {"none", "open", "left", "cut", "busy", "unavailable",
                                  "succeeded", "failed"}]
    BY <1>0, <1>1 DEF SessionTypes
  <2>3. runs' \in Seq(Requests) /\ Len(runs') <= KeepRuns
    BY <1>1, KeepAssumption
  <2> QED
    BY <1>0, <1>1, <2>1, <2>2, <2>3 DEF SessionTypes
<1>5. TypeOK'
  BY <1>3, <1>4, Types
<1>6. /\ pc'[Serve] = "clone" /\ \A a \in Actors : a # Serve => pc'[a] = "none"
      /\ \A r \in Requests : pc'[r] = "none"
  BY <1>0, <1>1 DEF Actors
<1>7. \A r \in Requests : record'[r].status = "unset" /\ record'[r].commit = None
                        /\ (stream'[r] = "none" => stream[r] = "none")
  BY <1>1 DEF NoRecord
<1>8. Alone'
  BY <1>0, <1>1, <1>6 DEF Alone
<1>9. Pure' /\ Reported'
  BY <1>0, <1>3, <1>6 DEF IInv, Pure, Reported, Single
<1>10. ReportsAreTrue'
  BY <1>0, <1>3, <1>5, <1>7, ReportsKept DEF IInv, Grows
<1>11. \A r \in Requests : Untouched(r) => Untouched(r)'
  <2>1. \A b \in Actors : pc'[b] \notin Synced
    BY <1>6 DEF Synced
  <2> QED
    BY <1>0, <2>1, Undisturbed
<1>12. Traced'
  BY <1>0, <1>6, <1>7, <1>11 DEF Traced
<1> QED
  BY <1>3, <1>5, <1>8, <1>9, <1>10, <1>12 DEF Safe, IInv

\* Every step, one case per action.
LEMMA NextSafe == ASSUME IInv, [Next]_vars PROVE Safe
<1>1. CASE UNCHANGED vars
  <2>1. UNCHANGED <<exists, remote, plan, cloned, head, edits, pc, listening, busy, runs, record,
                    stream, refreshed, excused>>
    BY <1>1 DEF vars, host, work, session, client
  <2>2. TypeOK' /\ Alone' /\ Pure' /\ Reported' /\ ReportsAreTrue'
    BY <2>1 DEF IInv, TypeOK, Alone, Pure, Reported, ReportsAreTrue, Single
  <2>3. Traced'
    <3>1. \A r \in Requests : (Untouched(r) => Untouched(r)') /\ (Discarded(r) => Discarded(r)')
      BY <2>1, Undisturbed
    <3>2. Changes(remote)' = Changes(remote)
      BY <2>1 DEF Changes, Range
    <3> QED
      BY <2>1, <3>1, <3>2 DEF IInv, Traced
  <2>4. Grows
    BY <2>1, PrefixSelf DEF Grows, IInv, TypeOK
  <2> QED
    BY <2>2, <2>3, <2>4 DEF Safe, IInv
<1>2. CASE Prepare
  BY <1>2, CloneSafe, RemoteHasBranchSafe, FetchSafe DEF Prepare
<1>3. CASE Seed
  BY <1>3, SeedSafe
<1>4. CASE RunAgent
  BY <1>4, RunToolSafe, AnswerSafe DEF RunAgent
<1>5. CASE CommitAndPush
  BY <1>5, CommitSafe, PushSafe, RevParseSafe DEF CommitAndPush
<1>6. CASE \E r \in Requests : StartRun(r)
  BY <1>6, StartRunSafe
<1>7. CASE \E r \in Requests : ClientLeaves(r)
  BY <1>7, ClientLeavesSafe
<1>8. CASE OthersPush
  BY <1>8, OthersPushSafe
<1>9. CASE Crash
  <2>1. plan' \in Plan /\ UNCHANGED <<cloned, head, edits>> /\ cloned \in BOOLEAN
    BY <1>9, FaultPlan, Types DEF Crash, IInv, work, WorkTypes
  <2> QED
    BY <1>9, <2>1, RestartSafe DEF Crash
<1>10. CASE Evict
  <2>1. plan' \in Plan
    BY <1>10, FaultPlan DEF Evict, IInv
  <2> QED
    BY <1>10, <2>1, RestartSafe DEF Evict
<1> QED
  BY <1>1, <1>2, <1>3, <1>4, <1>5, <1>6, <1>7, <1>8, <1>9, <1>10 DEF Next

\* The initial states.
LEMMA InitIInv == Init => IInv
<1> SUFFICES ASSUME Init PROVE IInv
  OBVIOUS
<1>1. /\ Serve \in Actors /\ Serve \notin Requests /\ plan \in Plan
      /\ <<>> \in Branch /\ Single(<<>>) /\ Changes(<<>>) = {}
  BY RequestsAssumption, PlansAssumption DEF Actors, Init, Branch, Single, Changes, Range
<1>2. <<{"base"}>> \in Branch /\ Single(<<{"base"}>>) /\ Changes(<<{"base"}>>) = {"base"}
  BY DEF Branch, Change, Single, Changes, Range
<1>3. remote \in Branch /\ Single(remote) /\ \A r \in Requests : r \notin Changes(remote)
  BY <1>1, <1>2, RequestsAssumption DEF Init, Base
<1>4. /\ pc[Serve] = "clone" /\ \A a \in Actors : a # Serve => pc[a] = "none"
      /\ \A r \in Requests : /\ pc[r] = "none" /\ stream[r] = "none"
                            /\ record[r].status = "unset" /\ record[r].commit = None
  BY <1>1 DEF Init, NoRecord, Actors
<1>5. SessionTypes
  <2>1. record \in [Requests -> [status: {"unset", "running", "succeeded", "failed"},
                                 commit: Branch \cup {None}]]
    BY DEF Init, NoRecord
  <2>2. runs \in Seq(Requests) /\ Len(runs) <= KeepRuns
    BY KeepAssumption DEF Init
  <2>3. stream \in [Requests -> {"none", "open", "left", "cut", "busy", "unavailable",
                                 "succeeded", "failed"}]
    BY DEF Init
  <2> QED
    BY <2>1, <2>2, <2>3 DEF Init, SessionTypes
<1>6. WorkTypes
  BY <1>1, <1>3 DEF Init, WorkTypes
<1>7. TypeOK
  BY <1>5, <1>6, Types
<1>8. Alone
  BY <1>1, <1>4 DEF Init, Alone
<1>9. Pure /\ Reported
  BY <1>1, <1>3, <1>4 DEF Init, Pure, Reported
<1>10. Traced
  BY <1>1, <1>3, <1>4 DEF Init, Traced, Untouched
<1>11. ReportsAreTrue
  BY <1>4 DEF Init, ReportsAreTrue
<1> QED
  BY <1>7, <1>8, <1>9, <1>10, <1>11 DEF IInv

-----------------------------------------------------------------------------
(* The theorems.                                                           *)

\* The strengthened invariant holds throughout.
THEOREM AgentInvariant == Spec => []IInv
<1>1. IInv /\ [Next]_vars => IInv'
  BY NextSafe DEF Safe
<1> QED
  BY InitIInv, <1>1, PTL DEF Spec

\* All variables keep their types, and no more than KEEP_RUNS runs are kept.
THEOREM AgentTypeCorrect == Spec => []TypeOK
<1>1. IInv => TypeOK
  BY DEF IInv
<1> QED
  BY <1>1, AgentInvariant, PTL

\* No pushed commit mixes the work of two runs, however runs, crashes and
\* requests follow each other in the one working copy.
THEOREM RunsDoNotMix == Spec => []OneRunPerCommit
<1>1. IInv => OneRunPerCommit
  BY DEF IInv, Pure, Single, OneRunPerCommit
<1> QED
  BY <1>1, AgentInvariant, PTL

\* A commit that a run reports, or that the Service is refreshed for, is on
\* the branch and stays there.
THEOREM ReportsTheorem == Spec => []ReportsAreTrue
<1>1. IInv => ReportsAreTrue
  BY DEF IInv
<1> QED
  BY <1>1, AgentInvariant, PTL

\* The work of a failed run is not on the branch, unless the run began without
\* the branch or its push was carried out.
THEOREM FailureTheorem == Spec => []FailedLeavesNothing
<1>1. IInv => FailedLeavesNothing
  BY DEF IInv, Traced, Untouched, Discarded, Changes, FailedLeavesNothing, Published
<1> QED
  BY <1>1, AgentInvariant, PTL

\* The agent never takes a commit off the branch.
THEOREM BranchTheorem == Spec => BranchOnlyGrows
<1>1. IInv /\ [Next]_vars => [exists => IsPrefix(remote, remote')]_vars
  BY NextSafe DEF Safe, Grows
<1>2. Spec => [][exists => IsPrefix(remote, remote')]_vars
  BY <1>1, AgentInvariant, PTL DEF Spec
<1> QED
  BY <1>2 DEF BranchOnlyGrows
=============================================================================
