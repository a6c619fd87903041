--------------------------- MODULE MCAgentSession ---------------------------
(* TLC instances of AgentSession.                                          *)
EXTENDS AgentSession

CONSTANTS q1, q2, q3
Prompts == {q1, q2, q3}

\* One prompt and the README touch a file of the others' push, and two prompts
\* one of each other; the third prompt is alone with its files.
SomeFiles == {{q1, "theirs"}, {"seed", "theirs"}, {q1, q2}}

\* From every start, one push by someone else and two faults of any kind.
AllPlans ==
  {[start |-> s, faults |-> FaultKinds, left |-> 2, pushes |-> 1] : s \in {"empty", "other", "branch"}}
=============================================================================
