---------------------------- MODULE MCEThreadPool ----------------------------
(* EThreadPool for TLC.                                                    *)
EXTENDS EThreadPool
=============================================================================
