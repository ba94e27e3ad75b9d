--------------------------- MODULE MCEQueueReaders ---------------------------
(* EQueueReaders for TLC.                                                  *)
EXTENDS EQueueReaders
=============================================================================
