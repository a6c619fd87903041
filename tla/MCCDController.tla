--------------------------- MODULE MCCDController ---------------------------
(* TLC instances of CDController.                                          *)
EXTENDS CDController
=============================================================================
