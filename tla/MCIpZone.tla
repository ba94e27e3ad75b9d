------------------------------ MODULE MCIpZone -------------------------------
(* IpZone for TLC, with every file of at most four lines: addresses of     *)
(* three bits, and subnets that touch, are equal, contain each other, wrap *)
(* round, have host bits set, or are everything.                           *)
EXTENDS IpZone

Net(a, n)  == [addr |-> a, size |-> n]
MCSubnets  == {Net(0, 2), Net(0, 4), Net(2, 2), Net(4, 2), Net(5, 2),
               Net(6, 2), Net(7, 1), Net(0, 8)}
MCFiles    == UNION {[1..n -> Lines] : n \in 1..4}
=============================================================================
