------------------------------ MODULE MCConHash -------------------------------
(***************************************************************************)
(* Three names with two replicas each.                                     *)
(***************************************************************************)
EXTENDS ConHash

CONSTANTS A, B, C

(* Every order of all points in which a name's replicas ascend, but for an *)
(* exchange of names, and some in which names share points.                *)
Ascend(f) == \A x \in Idens : f[<<x, 1>>] < f[<<x, 2>>]
Injective(f) == \A x, y \in DOMAIN f : x # y => f[x] # f[y]
OneOrder(f) == f[<<A, 1>>] < f[<<B, 1>>] /\ f[<<B, 1>>] < f[<<C, 1>>]
Shares(f) == /\ f[<<A, 1>>] = f[<<B, 1>>] /\ f[<<A, 2>>] \in {f[<<B, 2>>], f[<<C, 1>>]}
             /\ f[<<A, 1>>] = 2 /\ f[<<B, 2>>] = 4 /\ f[<<C, 2>>] = 5
MCHash ==
  {[x \in Idens \X (0..2) |-> IF x[2] = 0 THEN 2 ELSE f[x]] :
     f \in {g \in [Idens \X (1..2) -> Points] :
              Ascend(g) /\ ((Injective(g) /\ OneOrder(g)) \/ Shares(g))}}
=============================================================================
