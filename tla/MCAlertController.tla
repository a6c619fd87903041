-------------------------- MODULE MCAlertController -------------------------
(* A TLC instance of AlertController.                                       *)
EXTENDS AlertController

\* One channel for the ends of builds; a second one, and everything; nothing;
\* another Service.
OneChannel  == [channels |-> <<"c1">>, wanted |-> {"CISucceeded", "CIFailed", "CDFailed"},
                suspend |-> FALSE, selects |-> TRUE]
TwoChannels == [OneChannel EXCEPT !.channels = <<"c1", "c2">>, !.wanted = {}]
Suspended   == [OneChannel EXCEPT !.suspend = TRUE]
Elsewhere   == [OneChannel EXCEPT !.selects = FALSE]

AllSpecs == {OneChannel, TwoChannels, Suspended, Elsewhere}
=============================================================================
