------------------------ MODULE MCServiceController ------------------------
(* TLC instances of ServiceController.                                     *)
EXTENDS ServiceController

\* Every commit changes the Dockerfile.
EachItsOwn == [c \in Commits |-> c]

\* A second commit and a crash; specs that are or become invalid, and a crash
\* or a build or rollout that fails; or two of the other faults.
LivePlans ==
  {[faults |-> {"crash"}, left |-> 1, gens |-> 1, commits |-> 2],
   [faults |-> {"invalid", "crash", "build", "rollout"}, left |-> 1, gens |-> 2, commits |-> 1],
   [faults |-> Needs \cup {"refresh", "delete", "deleteCI", "api"},
    left |-> 2, gens |-> 1, commits |-> 1]}

\* A second commit, and a forced push (also back to the first) or a build or
\* rollout that fails.
SafetyPlans ==
  {[faults |-> {"force", "build", "rollout"}, left |-> 1, gens |-> 1, commits |-> 2]}

\* Nothing goes wrong.
QuietPlans == {[faults |-> {}, left |-> 0, gens |-> 1, commits |-> 2]}
=============================================================================
