------------------------------ MODULE UtilRbtree ------------------------------
(***************************************************************************)
(* util_rbtree.c, as operators on a tree [root, node, strayed].  A node is *)
(* a slot of the heap, 0 is the sentinel in the tree itself, NULL is what  *)
(* rbt_clear_node leaves; left and right mirror each other everywhere.     *)
(***************************************************************************)
EXTENDS Integers, FiniteSets

CONSTANT Slots                 \* a bound: the heap has room for nodes 1..Slots

NULL == -1
Cleared == [key |-> 0, parent |-> NULL, left |-> NULL, right |-> NULL, red |-> FALSE]
Sentinel == [Cleared EXCEPT !.parent = 0]

Other(s) == IF s = "left" THEN "right" ELSE "left"
Set(t, n, f, v) == [t EXCEPT !.node[n][f] = v]
Red(t, n) == t.node[n].red
Paint(t, n, red) == Set(t, n, "red", red)
Parent(t, n) == t.node[n].parent
SideOf(t, n) == IF t.node[Parent(t, n)].left = n THEN "left" ELSE "right"

util_rbtree_init ==
  [root |-> 0, strayed |-> FALSE,
   node |-> [n \in 0..Slots |-> IF n = 0 THEN Sentinel ELSE Cleared]]

(* The place of node n is given to c.                                      *)
Replace(t, n, c) ==
  IF n = t.root THEN [t EXCEPT !.root = c] ELSE Set(t, Parent(t, n), SideOf(t, n), c)

(* Mutant: the node that changes sides keeps its parent.                   *)
RotateForgets(t, n, s) ==
  LET c  == t.node[n][Other(s)]
      g  == t.node[c][s]
      t1 == Replace(Set(t, c, "parent", Parent(t, n)), n, c)
  IN Set(Set(Set(t1, n, "parent", c), c, s, n), n, Other(s), g)

(* rbtree_left_rotate and rbtree_right_rotate: n goes down to side s.      *)
Rotate(t, n, s) ==
  LET c  == t.node[n][Other(s)]
      g  == t.node[c][s]
      t1 == Replace(Set(t, c, "parent", Parent(t, n)), n, c)
      t2 == Set(Set(Set(t1, n, "parent", c), c, s, n), n, Other(s), g)
  IN IF g = 0 THEN t2 ELSE Set(t2, g, "parent", n)

-----------------------------------------------------------------------------
(* The loop looks at the colour of the parent even at the root.  That is   *)
(* the sentinel, but after a deletion that left the root without a new     *)
(* parent it is the node deleted then, or what has been allocated in its   *)
(* place: when that is red the loop goes astray, and is not followed.      *)
RECURSIVE rbtree_insert_fixup(_, _)
rbtree_insert_fixup(t, n) ==
  LET p == Parent(t, n)
      g == Parent(t, p)
      s == SideOf(t, p)
      u == t.node[g][Other(s)]
  IN IF ~Red(t, p) THEN Paint(t, t.root, FALSE)
     ELSE IF n = t.root THEN [t EXCEPT !.strayed = TRUE]
     ELSE IF Red(t, u)
     THEN rbtree_insert_fixup(Paint(Paint(Paint(t, u, FALSE), p, FALSE), g, TRUE), g)
     ELSE LET inner == n = t.node[p][Other(s)]
              t1 == IF inner THEN Rotate(t, p, s) ELSE t
              n1 == IF inner THEN p ELSE n
              t2 == Paint(Paint(t1, Parent(t1, n1), FALSE), g, TRUE)
          IN rbtree_insert_fixup(Rotate(t2, g, Other(s)), n1)

RECURSIVE Leaf(_, _, _)
Leaf(t, x, k) ==
  LET c == IF k < t.node[x].key THEN t.node[x].left ELSE t.node[x].right
  IN IF c = 0 THEN x ELSE Leaf(t, c, k)

util_rbtree_insert(t, n, k) ==
  LET y  == IF t.root = 0 THEN 0 ELSE Leaf(t, t.root, k)
      t1 == [t EXCEPT !.node[n] =
               [key |-> k, parent |-> y, left |-> 0, right |-> 0, red |-> TRUE]]
      t2 == IF y = 0 THEN [t1 EXCEPT !.root = n]
            ELSE Set(t1, y, IF k < t.node[y].key THEN "left" ELSE "right", n)
  IN rbtree_insert_fixup(t2, n)

-----------------------------------------------------------------------------
RECURSIVE rbtree_delete_fixup(_, _)
rbtree_delete_fixup(t, n) ==
  IF n = t.root \/ Red(t, n) THEN Paint(t, n, FALSE)
  ELSE
    LET p  == Parent(t, n)
        s  == SideOf(t, n)
        o  == Other(s)
        w  == t.node[p][o]
        t1 == IF Red(t, w) THEN Rotate(Paint(Paint(t, w, FALSE), p, TRUE), p, s) ELSE t
        w1 == t1.node[p][o]
        t2 == IF Red(t1, t1.node[w1][o]) THEN t1
              ELSE Rotate(Paint(Paint(t1, t1.node[w1][s], FALSE), w1, TRUE), w1, o)
        w2 == t2.node[p][o]
        t3 == Paint(Paint(Paint(t2, w2, Red(t2, p)), p, FALSE), t2.node[w2][o], FALSE)
        t4 == Rotate(t3, p, s)
    IN IF ~Red(t1, t1.node[w1].left) /\ ~Red(t1, t1.node[w1].right)
       THEN rbtree_delete_fixup(Paint(t1, w1, TRUE), p)
       ELSE Paint(t4, t4.root, FALSE)

RECURSIVE util_rbsubtree_min(_, _)
util_rbsubtree_min(t, n) ==
  IF t.node[n].left = 0 THEN n ELSE util_rbsubtree_min(t, t.node[n].left)

Adopt(t, n, p) == IF n = 0 THEN t ELSE Set(t, n, "parent", p)

(* temp is taken out of its place and then put in the place of node; the   *)
(* sentinel too is given a parent, which the fix-up needs.  The colour of  *)
(* the node stays in memory; nobody looks at it but where the root still   *)
(* has it for its parent: then it was the root, and black.                 *)
util_rbtree_delete(t, n) ==
  LET d     == t.node[n]
      temp  == IF d.left = 0 \/ d.right = 0 THEN n ELSE util_rbsubtree_min(t, d.right)
      subst == IF t.node[temp].left # 0 THEN t.node[temp].left ELSE t.node[temp].right
      clear(u) == [u EXCEPT !.node[n] = Cleared]
      t1 == Set(t, subst, "parent", IF Parent(t, temp) = n THEN temp ELSE Parent(t, temp))
      t2 == Set(t1, Parent(t, temp), SideOf(t, temp), subst)
      t3 == Replace(Set(t2, temp, "parent", d.parent), n, temp)
      t4 == Set(Set(t3, temp, "right", t2.node[n].right), temp, "left", t2.node[n].left)
      t5 == Paint(Adopt(Adopt(t4, t4.node[temp].left, temp), t4.node[temp].right, temp),
                  temp, d.red)
      out == clear(IF temp = n THEN t2 ELSE t5)
  IN IF temp = t.root THEN clear(Paint([t EXCEPT !.root = subst], subst, FALSE))
     ELSE IF Red(t, temp) THEN out ELSE rbtree_delete_fixup(out, subst)

-----------------------------------------------------------------------------
RECURSIVE SearchFrom(_, _, _)
SearchFrom(t, n, k) ==
  IF n = 0 \/ t.node[n].key = k THEN n
  ELSE SearchFrom(t, IF k < t.node[n].key THEN t.node[n].left ELSE t.node[n].right, k)

util_rbtree_search(t, k) == SearchFrom(t, t.root, k)

(* Mutant: a node with the key itself is passed over.                      *)
GoesLeftStrictly(t, n, k) == k < t.node[n].key

GoesLeft(t, n, k) == k <= t.node[n].key

RECURSIVE LookupFrom(_, _, _, _)
LookupFrom(t, n, k, best) ==
  IF n = 0 THEN best
  ELSE IF GoesLeft(t, n, k) THEN LookupFrom(t, t.node[n].left, k, n)
  ELSE LookupFrom(t, t.node[n].right, k, best)

(* 0 for the NULL that is returned when the tree is empty.                 *)
util_rbtree_lookup(t, k) ==
  IF t.root = 0 THEN 0
  ELSE LET n == LookupFrom(t, t.root, k, 0)
       IN IF n # 0 THEN n ELSE util_rbsubtree_min(t, t.root)

-----------------------------------------------------------------------------
(* The nodes of a subtree, and the black nodes on every way down from it.  *)
RECURSIVE NodesOf(_, _)
NodesOf(t, n) ==
  IF n = 0 THEN {} ELSE {n} \cup NodesOf(t, t.node[n].left) \cup NodesOf(t, t.node[n].right)

RECURSIVE BlackHeights(_, _)
BlackHeights(t, n) ==
  IF n = 0 THEN {0}
  ELSE {h + (IF Red(t, n) THEN 0 ELSE 1) :
          h \in BlackHeights(t, t.node[n].left) \cup BlackHeights(t, t.node[n].right)}

InOrder(t, n) ==
  /\ \A m \in NodesOf(t, t.node[n].left) : t.node[m].key < t.node[n].key
  /\ \A m \in NodesOf(t, t.node[n].right) : t.node[m].key > t.node[n].key

(* util_rbtree.h:92-106, and the links up, but that of the root.            *)
IsRbTree(t) ==
  /\ ~Red(t, t.root) /\ ~Red(t, 0)
  /\ Cardinality(BlackHeights(t, t.root)) = 1
  /\ \A n \in NodesOf(t, t.root) :
       /\ InOrder(t, n)
       /\ \A c \in {t.node[n].left, t.node[n].right} \ {0} :
            Parent(t, c) = n /\ ~(Red(t, n) /\ Red(t, c))
=============================================================================
