----------------------------- MODULE MCEMemPool ------------------------------
(* EMemPool for TLC.                                                       *)
EXTENDS EMemPool
=============================================================================
