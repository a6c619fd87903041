--------------------------- MODULE MCSelfService ---------------------------
(* TLC instances of SelfServiceController.                                 *)
EXTENDS SelfServiceController

\* A repository to create, one that exists, and a suspended session on a host
\* that answers with an http URL.
CreateA == [create |-> TRUE, repo |-> "a", suspend |-> FALSE]
UseX    == [create |-> FALSE, repo |-> "x", suspend |-> FALSE]
OnHttp  == [create |-> TRUE, repo |-> "http", suspend |-> TRUE]

CreateB == [create |-> TRUE, repo |-> "b", suspend |-> FALSE]

MixedSpecs == {CreateA, UseX, OnHttp}
TwoSpecs   == {CreateA, CreateB}
HttpOnly   == {"http"}

\* A spec edit, and a crash or a fault around the repository; or any fault and
\* no edit.
MixedPlans ==
  {[faults |-> {"race", "crash", "host", "lost"}, left |-> 1, gens |-> 2],
   [faults |-> FaultKinds, left |-> 1, gens |-> 1]}

\* A spec edit, and a host that goes down.
HostPlans == {[faults |-> {"host"}, left |-> 1, gens |-> 2]}
=============================================================================
