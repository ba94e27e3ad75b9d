------------------------------ MODULE Dictionary ------------------------------
(***************************************************************************)
(* What a table of key and data pairs promises: a function that changes    *)
(* one key at a time, or is given up.  HashMap implements it, and the      *)
(* tables of ServerConhash are taken to be it.                             *)
(***************************************************************************)
CONSTANTS Key, Data
VARIABLE dict

Start == dict = <<>>

Put(k, d) ==
  /\ k \in Key \ DOMAIN dict /\ d \in Data
  /\ dict' = [j \in DOMAIN dict \cup {k} |-> IF j = k THEN d ELSE dict[j]]
Keep(k)   == k \in DOMAIN dict /\ UNCHANGED dict
Drop(k)   == k \in DOMAIN dict /\ dict' = [j \in DOMAIN dict \ {k} |-> dict[j]]
GiveUp    == dict' = <<>>

Change ==
  \/ \E k \in Key : Keep(k) \/ Drop(k) \/ \E d \in Data : Put(k, d)
  \/ GiveUp
=============================================================================
