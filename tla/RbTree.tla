-------------------------------- MODULE RbTree --------------------------------
(***************************************************************************)
(* thirdparty/rbtree/rbtree.c, the tree that ip_zone.c keeps its ranges    *)
(* in, with the ways rbtree_insert and ip_zones_destroy use it.  The nodes *)
(* are members of their users' structures: a pointer names one, 0 is NULL. *)
(* left and right mirror each other.                                       *)
(***************************************************************************)
EXTENDS Integers, FiniteSets

CONSTANT Keys                  \* a bound: keys 1..Keys

Spare == Keys + 1              \* a node to replace another by
Nodes == 1..Spare

VARIABLES
  root, node,    \* node[n]: key, parent, left, right and red
  held,          \* history: the keys inserted and not erased
  walk           \* the next node ip_zones_destroy will erase, or -1

vars == <<root, node, held, walk>>
tree == [root |-> root, node |-> node]

Unlinked == [key |-> 0, parent |-> 0, left |-> 0, right |-> 0, red |-> FALSE]
Other(s) == IF s = "left" THEN "right" ELSE "left"
Set(t, n, f, v) == [t EXCEPT !.node[n][f] = v]
SetParent(t, n, p) == IF n = 0 THEN t ELSE Set(t, n, "parent", p)
Red(t, n) == n # 0 /\ t.node[n].red
Paint(t, n, red) == Set(t, n, "red", red)
Parent(t, n) == t.node[n].parent
SideOf(t, n) == IF t.node[Parent(t, n)].left = n THEN "left" ELSE "right"
Replace(t, n, c) ==
  IF Parent(t, n) = 0 THEN [t EXCEPT !.root = c] ELSE Set(t, Parent(t, n), SideOf(t, n), c)

(* __rb_rotate_left and __rb_rotate_right: n goes down to side s.          *)
Rotate(t, n, s) ==
  LET c  == t.node[n][Other(s)]
      g  == t.node[c][s]
      t1 == SetParent(Set(t, n, Other(s), g), g, n)
      t2 == Set(Set(t1, c, s, n), c, "parent", Parent(t, n))
  IN Set(Replace(t2, n, c), n, "parent", c)

-----------------------------------------------------------------------------
RECURSIVE rb_insert_color(_, _)
rb_insert_color(t, n) ==
  LET p == Parent(t, n)
      g == Parent(t, p)
      s == SideOf(t, p)
      uncle == t.node[g][Other(s)]
      inner == t.node[p][Other(s)] = n
      t1 == IF inner THEN Rotate(t, p, s) ELSE t
      t2 == Paint(Paint(t1, IF inner THEN n ELSE p, FALSE), g, TRUE)
  IN IF ~Red(t, p) THEN Paint(t, t.root, FALSE)
     ELSE IF Red(t, uncle)
     THEN rb_insert_color(Paint(Paint(Paint(t, uncle, FALSE), p, FALSE), g, TRUE), g)
     ELSE rb_insert_color(Rotate(t2, g, Other(s)), IF inner THEN p ELSE n)

RECURSIVE Leaf(_, _, _)
Leaf(t, x, k) ==
  LET c == IF k < t.node[x].key THEN t.node[x].left ELSE t.node[x].right
  IN IF c = 0 THEN x ELSE Leaf(t, c, k)

(* The descent of rbtree_insert, rb_link_node and rb_insert_color.         *)
Inserted(t, n, k) ==
  LET p  == IF t.root = 0 THEN 0 ELSE Leaf(t, t.root, k)
      t1 == [t EXCEPT !.node[n] = [Unlinked EXCEPT !.key = k, !.parent = p, !.red = TRUE]]
      t2 == IF p = 0 THEN [t1 EXCEPT !.root = n]
            ELSE Set(t1, p, IF k < t.node[p].key THEN "left" ELSE "right", n)
  IN rb_insert_color(t2, n)

-----------------------------------------------------------------------------
RECURSIVE __rb_erase_color(_, _, _)
__rb_erase_color(t, n, p) ==
  IF Red(t, n) \/ n = t.root THEN (IF n = 0 THEN t ELSE Paint(t, n, FALSE))
  ELSE
    LET s  == IF t.node[p].left = n THEN "left" ELSE "right"
        o  == Other(s)
        w  == t.node[p][o]
        t1 == IF Red(t, w) THEN Rotate(Paint(Paint(t, w, FALSE), p, TRUE), p, s) ELSE t
        w1 == t1.node[p][o]
        t2 == IF Red(t1, t1.node[w1][o]) THEN t1
              ELSE Rotate(Paint(Paint(t1, t1.node[w1][s], FALSE), w1, TRUE), w1, o)
        w2 == t2.node[p][o]
        t3 == Paint(Paint(Paint(t2, w2, Red(t2, p)), p, FALSE), t2.node[w2][o], FALSE)
        t4 == Rotate(t3, p, s)
    IN IF ~Red(t1, t1.node[w1].left) /\ ~Red(t1, t1.node[w1].right)
       THEN __rb_erase_color(Paint(t1, w1, TRUE), p, Parent(t1, p))
       ELSE Paint(t4, t4.root, FALSE)

RECURSIVE Down(_, _, _)
Down(t, n, s) == IF t.node[n][s] = 0 THEN n ELSE Down(t, t.node[n][s], s)

(* The node that leaves its place is the one to erase or, when that has    *)
(* two children, its successor, which then takes its place, and colour.    *)
rb_erase(t, old) ==
  LET two   == t.node[old].left # 0 /\ t.node[old].right # 0
      n     == IF two THEN Down(t, t.node[old].right, "left") ELSE old
      child == IF t.node[n].left = 0 THEN t.node[n].right ELSE t.node[n].left
      p     == IF Parent(t, n) = old THEN n ELSE Parent(t, n)
      one   == Replace(SetParent(t, child, p), n, child)
      t1    == Replace(t, old, n)
      t2    == IF Parent(t, n) = old THEN t1
               ELSE LET u == Set(SetParent(t1, child, p), p, "left", child)
                    IN SetParent(Set(u, n, "right", u.node[old].right),
                                 u.node[old].right, n)
      t3    == Paint(Set(Set(t2, n, "parent", Parent(t, old)), n, "left",
                         t.node[old].left), n, Red(t, old))
      both  == SetParent(t3, t.node[old].left, n)
      u     == [(IF two THEN both ELSE one) EXCEPT !.node[old] = Unlinked]
  IN IF Red(t, n) THEN u ELSE __rb_erase_color(u, child, p)

(* Mutant: the children keep their parent.                                 *)
rb_replace_node_Alone(t, victim, new) ==
  [Replace(t, victim, new) EXCEPT !.node[new] = t.node[victim], !.node[victim] = Unlinked]

rb_replace_node(t, victim, new) ==
  LET t1 == Replace(t, victim, new)
      t2 == SetParent(SetParent(t1, t.node[victim].left, new), t.node[victim].right, new)
  IN [t2 EXCEPT !.node[new] = t.node[victim], !.node[victim] = Unlinked]

rb_first(t) == IF t.root = 0 THEN 0 ELSE Down(t, t.root, "left")
rb_last(t) == IF t.root = 0 THEN 0 ELSE Down(t, t.root, "right")

RECURSIVE UpFrom(_, _, _)
UpFrom(t, n, s) ==
  IF Parent(t, n) # 0 /\ t.node[Parent(t, n)][s] = n THEN UpFrom(t, Parent(t, n), s)
  ELSE Parent(t, n)

(* Mutant: without climbing further than the parent.                       *)
BesideOrAbove(t, n, s) ==
  IF t.node[n][s] # 0 THEN Down(t, t.node[n][s], Other(s)) ELSE Parent(t, n)

(* rb_next on the side "right", rb_prev on the side "left".                *)
Beside(t, n, s) ==
  IF t.node[n][s] # 0 THEN Down(t, t.node[n][s], Other(s)) ELSE UpFrom(t, n, s)

-----------------------------------------------------------------------------
RECURSIVE NodesOf(_, _)
NodesOf(t, n) ==
  IF n = 0 THEN {} ELSE {n} \cup NodesOf(t, t.node[n].left) \cup NodesOf(t, t.node[n].right)
InTree == NodesOf(tree, root)
KeyOf(n) == node[n].key

Become(t) == root' = t.root /\ node' = t.node

Init ==
  /\ root = 0 /\ node = [n \in Nodes |-> Unlinked] /\ held = {} /\ walk = -1

Insert(k) ==
  /\ walk = -1 /\ k \notin held /\ Become(Inserted(tree, k, k))
  /\ held' = held \cup {k} /\ UNCHANGED walk

Erase(n) ==
  /\ walk = -1 /\ Become(rb_erase(tree, n))
  /\ held' = held \ {KeyOf(n)} /\ UNCHANGED walk

(* By the spare node, or that by the key's own.                            *)
ReplaceNode(n) ==
  LET new == IF n = Spare THEN KeyOf(n) ELSE Spare IN
  /\ walk = -1 /\ new \notin InTree
  /\ Become(rb_replace_node(tree, n, new)) /\ UNCHANGED <<held, walk>>

(* ip_zones_destroy: the next node is looked up before the node goes.      *)
DestroyBegin == walk = -1 /\ walk' = rb_first(tree) /\ UNCHANGED <<root, node, held>>

(* Mutant: the node is asked for its parent instead.                       *)
FollowerAbove(n) == Parent(tree, n)

Follower(n) == Beside(tree, n, "right")

DestroyNode ==
  /\ walk > 0 /\ walk' = Follower(walk)
  /\ Become(rb_erase(tree, walk)) /\ held' = held \ {KeyOf(walk)}

DestroyEnd == walk = 0 /\ walk' = -1 /\ UNCHANGED <<root, node, held>>

Next ==
  \/ \E k \in 1..Keys : Insert(k)
  \/ \E n \in InTree : Erase(n) \/ ReplaceNode(n)
  \/ DestroyBegin \/ DestroyNode \/ DestroyEnd

Spec == Init /\ [][Next]_vars

-----------------------------------------------------------------------------
RECURSIVE BlackHeights(_, _)
BlackHeights(t, n) ==
  IF n = 0 THEN {0}
  ELSE {h + (IF Red(t, n) THEN 0 ELSE 1) :
          h \in BlackHeights(t, t.node[n].left) \cup BlackHeights(t, t.node[n].right)}

(* The tree is a red-black tree with the links up right.                   *)
IsRedBlack ==
  /\ ~Red(tree, root) /\ (root # 0 => node[root].parent = 0)
  /\ Cardinality(BlackHeights(tree, root)) = 1
  /\ \A n \in InTree : \A c \in {node[n].left, node[n].right} \ {0} :
       node[c].parent = n /\ ~(node[n].red /\ node[c].red)

IsNeighbour(n, m, less(_, _)) ==
  IF m = 0 THEN \A k \in held : ~less(KeyOf(n), k)
  ELSE m \in InTree /\ less(KeyOf(n), KeyOf(m))
       /\ \A k \in held : less(KeyOf(n), k) => ~less(k, KeyOf(m))
Below(k, l) == k < l
Above(k, l) == k > l

(* It holds what was put in and not erased, in the order in which first,   *)
(* last, next and prev go through it.                                      *)
WalksAreSorted ==
  /\ {KeyOf(n) : n \in InTree} = held /\ Cardinality(InTree) = Cardinality(held)
  /\ held # {} =>
       /\ \A k \in held : KeyOf(rb_first(tree)) <= k /\ k <= KeyOf(rb_last(tree))
       /\ \A n \in InTree :
            /\ IsNeighbour(n, Beside(tree, n, "right"), Below)
            /\ IsNeighbour(n, Beside(tree, n, "left"), Above)

(* Destroying the tree while walking through it, the node looked up ahead  *)
(* is still the first of the tree, and nothing is left behind.             *)
DestroyMeetsAll == walk # -1 => walk = rb_first(tree)
=============================================================================
