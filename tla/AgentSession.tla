---------------------------- MODULE AgentSession ----------------------------
(***************************************************************************)
(* A session of the coding agent (agent/src/session.js, git.js, cli.js,    *)
(* server.js) and the route of the UI backend that sends it prompts        *)
(* (koptan-backend, selfservice/agent.ts and routes/selfservice.ts).  Each *)
(* prompt becomes one run: sync the working copy, let the model edit it,   *)
(* commit and push.  Handlers of several requests interleave at every      *)
(* await, and share one working copy and one flag.                         *)
(*                                                                         *)
(* A commit is the set of changes it makes, a branch the sequence of its   *)
(* commits.  The model, the git host and the users are external.           *)
(***************************************************************************)
EXTENDS Naturals, Sequences, SequencesExt

CONSTANTS
  Requests,   \* the prompts users send, each its own change
  KeepRuns,   \* KEEP_RUNS
  None,       \* no commit
  Overlap,    \* pairs of changes that touch a file in common
  Plans       \* bound: what the outside world may do, see Plan

Serve  == "serve"                 \* the handler that starts the process
Actors == Requests \cup {Serve}
Change == Requests \cup {"seed", "theirs", "base"}
Branch == Seq(SUBSET Change)

\* Where the repository starts: empty, without the branch, or with it; which
\* faults may happen, how many together, and how often someone else pushes.
FaultKinds == {"net", "lost", "model", "crash", "evict", "leave"}
Plan == [start: {"empty", "other", "branch"}, faults: SUBSET FaultKinds, left: Nat, pushes: Nat]

ASSUME RequestsAssumption == {Serve, "seed", "theirs", "base"} \cap Requests = {}
ASSUME NoneAssumption == None \notin Branch
ASSUME KeepAssumption == KeepRuns \in Nat \ {0}
ASSUME OverlapAssumption == Overlap \subseteq SUBSET Change
ASSUME PlansAssumption == Plans \subseteq Plan

VARIABLES
  exists, remote,  \* the branch at the host: whether it is there, its commits
  plan,            \* what may still happen outside
  cloned,          \* the workspace has a clone
  head, edits,     \* its HEAD, and the changes that are not committed
  pc,              \* what each handler awaits
  listening, busy, \* the server is up; the flag of the session
  runs, record,    \* the runs it keeps, newest first, and what they say
  stream,          \* what the client of each request has seen
  refreshed,       \* history: the commits the Service was refreshed for
  excused          \* history: runs that began without the branch, or whose
                   \* push was carried out although it failed

host    == <<exists, remote>>
work    == <<cloned, head, edits>>
session == <<listening, busy, runs, record>>
client  == <<stream, refreshed>>
vars == <<host, plan, work, pc, session, client, excused>>

NoRecord == [status |-> "unset", commit |-> None]
Base == IF plan.start = "empty" THEN <<>> ELSE <<{"base"}>>

Init ==
  /\ plan \in Plans /\ exists = (plan.start = "branch")
  /\ remote = IF exists THEN Base ELSE <<>>
  /\ cloned = FALSE /\ head = <<>> /\ edits = {}
  /\ pc = [a \in Actors |-> IF a = Serve THEN "clone" ELSE "none"]
  /\ listening = FALSE /\ busy = FALSE /\ runs = <<>> /\ record = [r \in Requests |-> NoRecord]
  /\ stream = [r \in Requests |-> "none"] /\ refreshed = {} /\ excused = {}

Fault(kind) ==
  kind \in plan.faults /\ plan.left > 0 /\ plan' = [plan EXCEPT !.left = plan.left - 1]

Goto(a, label) == pc' = [pc EXCEPT ![a] = label]

-----------------------------------------------------------------------------
(* The end of a handler.                                                   *)

\* The backend passes the events on, and refreshes the Service when a done
\* event with a commit passes.
watchDone(r, commit) ==
  refreshed' = IF stream[r] = "open" /\ commit # None THEN refreshed \cup {commit} ELSE refreshed

\* Mutant: the flag is only reset by a run that succeeds.
Finish_busy(r, status, commit) ==
  /\ record' = [record EXCEPT ![r] = [status |-> status, commit |-> commit]]
  /\ busy' = (status = "failed") /\ Goto(r, "none")
  /\ stream' = [stream EXCEPT ![r] = IF @ = "open" THEN status ELSE @]
  /\ watchDone(r, commit)
  /\ UNCHANGED <<listening, runs>>

\* The record, the last event to the client if it is still there, and the flag.
Finish(r, status, commit) ==
  /\ record' = [record EXCEPT ![r] = [status |-> status, commit |-> commit]]
  /\ busy' = FALSE /\ Goto(r, "none")
  /\ stream' = [stream EXCEPT ![r] = IF @ = "open" THEN status ELSE @]
  /\ watchDone(r, commit)
  /\ UNCHANGED <<listening, runs>>

\* An error ends a run; in serve it ends the process, which is started again.
Throw(a) ==
  \/ a \in Requests /\ Finish(a, "failed", None)
  \/ a = Serve /\ Goto(Serve, "clone") /\ UNCHANGED <<session, client>>

\* A call of the git host that fails.
NetFails(a) == Fault("net") /\ Throw(a) /\ UNCHANGED <<host, work, excused>>

-----------------------------------------------------------------------------
(* Repo.prepare, which serve and every run begin with.                     *)

\* The clone is at the default branch, if there is one.
Clone(a) ==
  /\ pc[a] = "clone"
  /\ \/ cloned /\ Goto(a, "lsRemote") /\ UNCHANGED <<work, plan, session, client>>
     \/ /\ ~ cloned /\ cloned' = TRUE /\ head' = (IF exists THEN remote ELSE Base) /\ edits' = {}
        /\ Goto(a, "lsRemote") /\ UNCHANGED <<plan, session, client>>
     \/ ~ cloned /\ NetFails(a)
  /\ UNCHANGED <<host, excused>>

\* Without a branch it is named after whatever HEAD is at; in both cases the
\* working tree is reset and cleaned.
Prepared(a) == Goto(a, IF a = Serve THEN "seed" ELSE "model")

RemoteHasBranch(a) ==
  /\ pc[a] = "lsRemote"
  /\ \/ exists /\ Goto(a, "fetch") /\ UNCHANGED <<edits, plan, session, client, excused>>
     \/ /\ ~ exists /\ edits' = {} /\ excused' = excused \cup ({a} \cap Requests)
        /\ Prepared(a) /\ UNCHANGED <<plan, session, client>>
     \/ NetFails(a)
  /\ UNCHANGED <<host, cloned, head>>

\* The changes of the commits of b that c does not have.
Beyond(b, c) == UNION {b[i] : i \in {j \in DOMAIN b : ~ IsPrefix(SubSeq(b, 1, j), c)}}

\* An uncommitted edit is in a file in which HEAD and the branch differ: there
\* checkout -B, which comes before reset and clean, refuses to overwrite it.
Clash ==
  \E e \in edits, c \in Beyond(head, remote) \cup Beyond(remote, head) : {e, c} \in Overlap

FetchFails(a) ==
  \/ NetFails(a)
  \/ Clash /\ Throw(a) /\ UNCHANGED <<host, work, plan, excused>>

\* Mutants: the working tree is not cleaned; the local branch is not reset.
Fetch_unclean(a) ==
  /\ pc[a] = "fetch"
  /\ \/ ~ Clash /\ head' = remote /\ Prepared(a) /\ UNCHANGED <<edits, plan, session, client>>
     \/ FetchFails(a)
  /\ UNCHANGED <<host, cloned, excused>>
Fetch_noReset(a) ==
  /\ pc[a] = "fetch"
  /\ \/ ~ Clash /\ edits' = {} /\ Prepared(a) /\ UNCHANGED <<head, plan, session, client>>
     \/ FetchFails(a)
  /\ UNCHANGED <<host, cloned, excused>>

\* fetch, checkout -B, reset --hard and clean -fdx.
Fetch(a) ==
  /\ pc[a] = "fetch"
  /\ \/ /\ ~ Clash /\ head' = remote /\ edits' = {}
        /\ Prepared(a) /\ UNCHANGED <<plan, session, client>>
     \/ FetchFails(a)
  /\ UNCHANGED <<host, cloned, excused>>

-----------------------------------------------------------------------------
(* serve: seed an empty repository, then listen.                           *)

Listen == listening' = TRUE /\ Goto(Serve, "none") /\ UNCHANGED <<busy, runs, record, client>>

\* The README is only written where there is none; the default branch may
\* have one.
Seed ==
  /\ pc[Serve] = "seed"
  /\ \/ exists /\ Listen /\ UNCHANGED <<edits, plan>>
     \/ /\ ~ exists /\ Goto(Serve, "commit")
        /\ \/ "seed" \notin UNION Range(head) /\ edits' = edits \cup {"seed"}
           \/ head # <<>> /\ UNCHANGED edits
        /\ UNCHANGED <<plan, session, client>>
     \/ NetFails(Serve)
  /\ UNCHANGED <<host, cloned, head, excused>>

-----------------------------------------------------------------------------
(* Session.run after prepare: the tool loop, commitAndPush.                *)

\* A tool changes the working copy.
RunTool(r) ==
  /\ pc[r] = "model" /\ r \notin edits /\ edits' = edits \cup {r}
  /\ UNCHANGED <<host, plan, cloned, head, pc, session, client, excused>>

\* The model answers without a tool call, or the loop gives up.
Answer(r) ==
  /\ pc[r] = "model"
  /\ \/ Goto(r, "commit") /\ UNCHANGED <<plan, session, client>>
     \/ Fault("model") /\ Throw(r)
  /\ UNCHANGED <<host, work, excused>>

\* Everything went well: what serve and a run do next.
Done(a, commit) ==
  \/ a = Serve /\ Listen
  \/ a \in Requests /\ Finish(a, "succeeded", commit)

\* add, status and commit; there may be nothing to commit.
Commit(a) ==
  /\ pc[a] = "commit"
  /\ \/ edits = {} /\ Done(a, None) /\ UNCHANGED <<head, edits>>
     \/ /\ edits # {} /\ head' = Append(head, edits) /\ edits' = {}
        /\ Goto(a, "push") /\ UNCHANGED <<session, client>>
  /\ UNCHANGED <<host, plan, cloned, excused>>

FastForward == ~ exists \/ IsPrefix(remote, head)

\* Mutants: the push is forced; its answer is not awaited.
Push_forced(a) ==
  /\ pc[a] = "push" /\ UNCHANGED work
  /\ exists' = TRUE /\ remote' = head
  /\ Goto(a, "revParse") /\ UNCHANGED <<plan, session, client, excused>>
Push_unchecked(a) ==
  /\ pc[a] = "push" /\ UNCHANGED work
  /\ \/ FastForward /\ exists' = TRUE /\ remote' = head
     \/ ~ FastForward /\ UNCHANGED host
  /\ Goto(a, "revParse") /\ UNCHANGED <<plan, session, client, excused>>

\* The host refuses what is not a fast-forward, and its answer may be lost.
Push(a) ==
  /\ pc[a] = "push" /\ UNCHANGED work
  /\ \/ /\ FastForward /\ exists' = TRUE /\ remote' = head
        /\ \/ Goto(a, "revParse") /\ UNCHANGED <<plan, session, client, excused>>
           \/ Fault("lost") /\ Throw(a) /\ excused' = excused \cup ({a} \cap Requests)
     \/ ~ FastForward /\ Throw(a) /\ UNCHANGED <<host, plan, excused>>
     \/ NetFails(a)

RevParse(a) ==
  /\ pc[a] = "revParse" /\ Done(a, head)
  /\ UNCHANGED <<host, plan, work, excused>>

-----------------------------------------------------------------------------
(* The HTTP server and the backend in front of it.                         *)

\* The kept runs, with a new one in front.
Kept(r) == LET all == <<r>> \o runs IN SubSeq(all, 1, IF Len(all) < KeepRuns THEN Len(all) ELSE KeepRuns)

\* Mutant: the flag is not looked at.
StartRun_always(r) ==
  /\ stream[r] = "none"
  /\ \/ /\ listening /\ stream' = [stream EXCEPT ![r] = "open"]
        /\ busy' = TRUE /\ Goto(r, "clone") /\ runs' = Kept(r)
        /\ record' = [record EXCEPT ![r] = [status |-> "running", commit |-> None]]
     \/ ~ listening /\ stream' = [stream EXCEPT ![r] = "unavailable"] /\ UNCHANGED <<pc, busy, runs, record>>
  /\ UNCHANGED <<host, plan, work, listening, refreshed, excused>>

\* A prompt arrives: no agent, 409, or a new run; nothing is awaited between
\* the test of busy and its setting.
StartRun(r) ==
  /\ stream[r] = "none"
  /\ \/ /\ listening /\ ~ busy /\ stream' = [stream EXCEPT ![r] = "open"]
        /\ busy' = TRUE /\ Goto(r, "clone") /\ runs' = Kept(r)
        /\ record' = [record EXCEPT ![r] = [status |-> "running", commit |-> None]]
     \/ /\ ~ (listening /\ ~ busy) /\ UNCHANGED <<pc, busy, runs, record>>
        /\ stream' = [stream EXCEPT ![r] = IF listening THEN "busy" ELSE "unavailable"]
  /\ UNCHANGED <<host, plan, work, listening, refreshed, excused>>

\* The client goes away; the backend aborts the request, the run goes on.
ClientLeaves(r) ==
  /\ Fault("leave") /\ stream[r] = "open" /\ stream' = [stream EXCEPT ![r] = "left"]
  /\ UNCHANGED <<host, work, pc, session, refreshed, excused>>

-----------------------------------------------------------------------------
(* The world around.                                                       *)

OthersPush ==
  /\ plan.pushes > 0 /\ plan' = [plan EXCEPT !.pushes = plan.pushes - 1]
  /\ exists' = TRUE /\ remote' = Append(IF exists THEN remote ELSE Base, {"theirs"})
  /\ UNCHANGED <<work, pc, session, client, excused>>

\* The process dies, and with it the runs; the emptyDir stays.
Restart ==
  /\ pc' = [a \in Actors |-> IF a = Serve THEN "clone" ELSE "none"]
  /\ listening' = FALSE /\ busy' = FALSE /\ runs' = <<>> /\ record' = [r \in Requests |-> NoRecord]
  /\ stream' = [r \in Requests |-> IF stream[r] = "open" THEN "cut" ELSE stream[r]]
  /\ UNCHANGED <<host, refreshed, excused>>

Crash == Fault("crash") /\ Restart /\ UNCHANGED work

\* The Pod is replaced, and its emptyDir with it.
Evict == Fault("evict") /\ Restart /\ cloned' = FALSE /\ head' = <<>> /\ edits' = {}

Prepare       == \E a \in Actors : Clone(a) \/ RemoteHasBranch(a) \/ Fetch(a)
CommitAndPush == \E a \in Actors : Commit(a) \/ Push(a) \/ RevParse(a)
RunAgent      == \E r \in Requests : RunTool(r) \/ Answer(r)

Next ==
  \/ Prepare \/ Seed \/ RunAgent \/ CommitAndPush
  \/ \E r \in Requests : StartRun(r)
  \/ \E r \in Requests : ClientLeaves(r)
  \/ OthersPush \/ Crash \/ Evict

Spec == Init /\ [][Next]_vars

\* Calls of git and of the model end, well or not.
Fairness == WF_vars(Prepare \/ Seed \/ RunAgent \/ CommitAndPush)

FairSpec == Spec /\ Fairness

-----------------------------------------------------------------------------
(* Properties.                                                             *)

\* Types of all variables.
TypeOK ==
  /\ exists \in BOOLEAN /\ {remote, head} \subseteq Branch /\ edits \subseteq Change
  /\ plan \in Plan /\ {cloned, listening, busy} \subseteq BOOLEAN
  /\ pc \in [Actors -> {"none", "clone", "lsRemote", "fetch", "seed", "model", "commit",
                        "push", "revParse"}]
  /\ runs \in Seq(Requests) /\ Len(runs) <= KeepRuns
  /\ record \in [Requests -> [status: {"unset", "running", "succeeded", "failed"},
                              commit: Branch \cup {None}]]
  /\ stream \in [Requests -> {"none", "open", "left", "cut", "busy", "unavailable",
                              "succeeded", "failed"}]
  /\ refreshed \subseteq Branch /\ excused \subseteq Requests

\* The changes on the branch.
Published == UNION Range(remote)

\* Each commit that is pushed holds the work of one run, whatever earlier runs,
\* a crash in one, or a second request left in the working copy they share.
OneRunPerCommit ==
  \A i \in DOMAIN remote : \A r, q \in remote[i] : r = q

\* What a run reports is so: a commit it names is on the branch, with its work
\* on top, and the Service is only refreshed for commits that are there.
ReportsAreTrue ==
  /\ \A r \in Requests : record[r].commit # None =>
       IsPrefix(record[r].commit, remote) /\ Last(record[r].commit) = {r}
  /\ \A c \in refreshed : IsPrefix(c, remote)

\* A failed run leaves nothing behind: its work is not pushed later by another
\* run.  (The push of a failed run may have been carried out; and without a
\* branch at the host, the commit of a failed push stays in the working copy.)
FailedLeavesNothing ==
  \A r \in Requests \ excused : record[r].status = "failed" => r \notin Published

\* Nobody's commits are ever taken off the branch, also when someone else
\* pushes between the sync and the push of a run.
BranchOnlyGrows == [][exists => IsPrefix(remote, remote')]_vars

\* What a dead process left is in the way of what someone else has pushed.
Blocked == exists /\ "theirs" \in Published /\ Clash

\* However runs end, clients leave and processes die: every client gets an
\* answer, the session is free for the next prompt, and the server comes back,
\* unless its clone ends up blocked, which only a new Pod can help.
SessionRecovers ==
  /\ <>[](~ busy /\ \A r \in Requests : stream[r] # "open" /\ record[r].status # "running")
  /\ <>[]listening \/ <>[]Blocked
=============================================================================
