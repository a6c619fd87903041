------------------------- MODULE MCPluginController -------------------------
(* A TLC instance of PluginController.                                     *)
EXTENDS PluginController

Lint == [order |-> 100, ref |-> TRUE, selector |-> "none", complete |-> TRUE,
         ignore |-> FALSE, command |-> FALSE, secret |-> "optional"]
Scan == [order |-> 20, ref |-> FALSE, selector |-> "label", complete |-> TRUE,
         ignore |-> TRUE, command |-> TRUE, secret |-> "required"]
\* An empty selector, and Ignore without a command.
Soft == [order |-> 100, ref |-> FALSE, selector |-> "empty", complete |-> TRUE,
         ignore |-> TRUE, command |-> FALSE, secret |-> "none"]

ThreeSpecs == {Lint, Scan, Soft}

\* Two changes of one plugin and the Service; or one change of either plugin or
\* the Service, and one fault.
Changes == [plugins |-> {1}, changes |-> 2, faults |-> {}, left |-> 0]
Faults  == [plugins |-> {1, 2}, changes |-> 1, faults |-> {"crash", "api"}, left |-> 1]

TwoPlans == {Changes, Faults}

\* Where each plan starts: with one plugin and a Secret that is fit to use; with
\* one plugin, which the Service may list, and no such Secret; or with two
\* plugins and no Secret.
PlanInit ==
  /\ Init
  /\ LET Only(s) == plugin = [p \in Plugins |-> IF p = 1 THEN Fresh(1, s) ELSE Absent(0)]
     IN  \/ plan = Changes /\ Only(Lint) /\ service.listed = {} /\ secret = "labelled"
         \/ /\ plan = Faults /\ (Only(Lint) \/ Only(Soft))
            /\ service.listed \in {{}, {2}} /\ secret # "labelled"
         \/ /\ plan = Faults /\ plugin = [p \in Plugins |-> Fresh(1, IF p = 1 THEN Lint ELSE Scan)]
            /\ service.listed = {} /\ secret = "missing"

PlanSpec == PlanInit /\ [][Next]_vars /\ Fairness
=============================================================================
