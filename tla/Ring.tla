--------------------------------- MODULE Ring ---------------------------------
(***************************************************************************)
(* What consistent hashing promises: points of a circle belong to members, *)
(* and an object to the member of the first point from its own place on.   *)
(***************************************************************************)
EXTENDS Integers

CONSTANTS Point, Member        \* points are numbers

VARIABLE ring                  \* a function from the taken points to members

Taken == DOMAIN ring
IsLeast(p, S) == p \in S /\ \A q \in S : p <= q

(* The first point at or behind place x, or the first of all.              *)
IsFirstFrom(x, p) ==
  LET ahead == {q \in Taken : q >= x}
  IN IsLeast(p, IF ahead = {} THEN Taken ELSE ahead)

Belongs(x, m) == \E p \in Taken : IsFirstFrom(x, p) /\ ring[p] = m

Start == ring = [p \in {} |-> p]

(* A member takes some points of those that are free.                      *)
Join(m) ==
  \E S \in SUBSET (Point \ Taken) :
    ring' = [p \in Taken \cup S |-> IF p \in S THEN m ELSE ring[p]]

Leave(m) == ring' = [p \in {q \in Taken : ring[q] # m} |-> ring[p]]

Change == \E m \in Member : Join(m) \/ Leave(m)
Spec == Start /\ [][Change]_ring

TypeOK == Taken \subseteq Point /\ \A p \in Taken : ring[p] \in Member

-----------------------------------------------------------------------------
(* Who joins takes objects for itself only: whoever an object belongs to   *)
(* afterwards is who it belonged to before, or has just joined.  And who   *)
(* leaves gives away its own only.                                         *)
JoinTakesForItself ==
  \A m \in Member : Join(m) =>
    \A x \in Point : \A n, k \in Member : Belongs(x, n) /\ Belongs(x, k)' => k \in {n, m}

LeaveGivesItsOwn ==
  \A m \in Member : Leave(m) =>
    \A x \in Point : \A n \in Member : Belongs(x, n) /\ n # m => Belongs(x, n)'

MovesLittle == [][JoinTakesForItself /\ LeaveGivesItsOwn]_ring
=============================================================================
