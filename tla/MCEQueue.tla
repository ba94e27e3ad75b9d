------------------------------ MODULE MCEQueue -------------------------------
(* EQueue for TLC.                                                         *)
EXTENDS EQueue
=============================================================================
