--------------------------- MODULE MCCIController ---------------------------
(* TLC instances of CIController.                                          *)
EXTENDS CIController, TLC

\* Pod names are interchangeable (used by the safety run only).
PodSymmetry == Permutations(PodNames)

\* Two generations, any build may fail, and one more fault.
SafetyPlans ==
  {[faults |-> {"build", "crash", "service", "valid", "secrets"}, left |-> 1, gens |-> 2]}

\* A spec edit and one fault; or no edit and two faults of other kinds.
LivePlans ==
  {[faults |-> {"build", "crash", "creds", "plugins", "evict"}, left |-> 1, gens |-> 2],
   [faults |-> {"build", "delete", "cd", "api", "quota"}, left |-> 2, gens |-> 1]}

\* Nothing goes wrong.
QuietPlans == {[faults |-> {}, left |-> 0, gens |-> 1]}
=============================================================================
