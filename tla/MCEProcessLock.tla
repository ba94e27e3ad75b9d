--------------------------- MODULE MCEProcessLock ----------------------------
(* EProcessLock for TLC.                                                   *)
EXTENDS EProcessLock
=============================================================================
