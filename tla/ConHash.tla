------------------------------- MODULE ConHash --------------------------------
(***************************************************************************)
(* conhash.c and conhash_inter.c on the tree of UtilRbtree, and the calls  *)
(* of easy_lua.c, which is how scripts use them.  A node's replicas are    *)
(* hashed to points; the hash function is any that the configuration names.*)
(* One thread uses a ring.                                                 *)
(***************************************************************************)
EXTENDS UtilRbtree

CONSTANTS
  Idens,         \* the names of nodes, which serve as objects too
  Replicas,      \* the number of replicas of a node
  Lacking,       \* sets of replicas that may all find no memory
  Points,        \* hash values
  HashFunctions  \* each from Idens \X (0..Replicas) to Points

None == 0
NoNode == [replicas |-> 0, in |-> FALSE]

VARIABLES
  hash,          \* the hash function, of iden with 1..Replicas, or alone (0)
  conhash,       \* conhash_s, with vnode[n]: the node_s of a tree node
  node,          \* node[s]: the node_s of the name s, if it is allocated
  ending,        \* conhash_fini has begun
  partial        \* history: a replica found its point taken, or no memory

vars == <<hash, conhash, node, ending, partial>>
tree == conhash.tree
Usable == ~tree.strayed /\ ~ending

New == [tree |-> util_rbtree_init, vnode |-> [n \in 1..Slots |-> None], ivnodes |-> 0]

Init ==
  /\ hash \in HashFunctions /\ conhash = New
  /\ node = [s \in Idens |-> NoNode] /\ ending = FALSE /\ partial = FALSE

conhash_init ==
  /\ ending /\ tree.root = 0 /\ conhash' = New
  /\ node' = [s \in Idens |-> NoNode] /\ ending' = FALSE /\ partial' = FALSE
  /\ UNCHANGED hash

-----------------------------------------------------------------------------
(* malloc may give a new tree node any free slot; here it is the one that  *)
(* has the number of the point.                                            *)
SlotFor(p) == p

Passed(c, p, i, lacking) == i \in lacking \/ util_rbtree_search(c.tree, p) # 0

(* Replica i of s, unless its point is taken or there is no memory for it. *)
AddReplica(c, s, p, i, lacking) ==
  LET n == SlotFor(p) IN
  IF Passed(c, p, i, lacking) THEN c
  ELSE [tree |-> util_rbtree_insert(c.tree, n, p),
        vnode |-> [c.vnode EXCEPT ![n] = s], ivnodes |-> c.ivnodes + 1]

RECURSIVE __conhash_add_replicas(_, _, _, _)
__conhash_add_replicas(c, s, i, lacking) ==
  IF i = 0 \/ c.tree.strayed THEN c
  ELSE AddReplica(__conhash_add_replicas(c, s, i - 1, lacking),
                  s, hash[<<s, i>>], i, lacking)

(* lua_conhash_add_node: malloc, conhash_set_node and conhash_add_node,    *)
(* which answers 0 whether or not all replicas found a place.  There is    *)
(* one node_s for a name: a second one would be as a name that is hashed   *)
(* to the same points.                                                     *)
conhash_add_node(s, replicas, lacking) ==
  LET c == __conhash_add_replicas(conhash, s, replicas, lacking) IN
  /\ Usable /\ node[s] = NoNode
  /\ node' = [node EXCEPT ![s] = [replicas |-> replicas, in |-> TRUE]]
  /\ conhash' = c
  /\ partial' = (partial \/ c.ivnodes # conhash.ivnodes + replicas)
  /\ UNCHANGED <<hash, ending>>

-----------------------------------------------------------------------------
(* Mutants: the last replica stays; what others have there goes as well.   *)
DelReplicaNotLast(c, s, p, i) ==
  LET n == util_rbtree_search(c.tree, p) IN
  IF n = 0 \/ c.vnode[n] # s \/ i = node[s].replicas THEN c
  ELSE [tree |-> util_rbtree_delete(c.tree, n),
        vnode |-> [c.vnode EXCEPT ![n] = None], ivnodes |-> c.ivnodes - 1]
DelReplicaAny(c, s, p, i) ==
  LET n == util_rbtree_search(c.tree, p) IN
  IF n = 0 THEN c
  ELSE [tree |-> util_rbtree_delete(c.tree, n),
        vnode |-> [c.vnode EXCEPT ![n] = None], ivnodes |-> c.ivnodes - 1]

DelReplica(c, s, p, i) ==
  LET n == util_rbtree_search(c.tree, p) IN
  IF n = 0 \/ c.vnode[n] # s THEN c
  ELSE [tree |-> util_rbtree_delete(c.tree, n),
        vnode |-> [c.vnode EXCEPT ![n] = None], ivnodes |-> c.ivnodes - 1]

RECURSIVE __conhash_del_replicas(_, _, _)
__conhash_del_replicas(c, s, i) ==
  IF i = 0 THEN c
  ELSE DelReplica(__conhash_del_replicas(c, s, i - 1), s, hash[<<s, i>>], i)

(* Mutant: the node_s is not freed.                                        *)
DeleteKeepsNode(s) ==
  /\ node[s].in
  /\ conhash' = __conhash_del_replicas(conhash, s, node[s].replicas)
  /\ node' = [node EXCEPT ![s].in = FALSE]
  /\ UNCHANGED <<hash, ending, partial>>

(* A node that is not in (a freed one) is refused with -1.                 *)
Delete(s) ==
  /\ node[s].in
  /\ conhash' = __conhash_del_replicas(conhash, s, node[s].replicas)
  /\ node' = [node EXCEPT ![s] = NoNode]
  /\ UNCHANGED <<hash, ending, partial>>

conhash_del_node(s) == Usable /\ Delete(s)

(* The node_s at the first virtual node from point p on.                   *)
Owner(p) ==
  IF conhash.ivnodes = 0 THEN None ELSE conhash.vnode[util_rbtree_lookup(tree, p)]

(* What the script names is looked up like an object.                      *)
lua_conhash_del_node(object) ==
  /\ Usable /\ Owner(hash[<<object, 0>>]) # None
  /\ Delete(Owner(hash[<<object, 0>>]))

conhash_fini == Usable /\ ending' = TRUE /\ UNCHANGED <<hash, conhash, node, partial>>

(* One turn of its loop: the node of the root of the tree.                 *)
FiniNode == ending /\ tree.root # 0 /\ Delete(conhash.vnode[tree.root])

Next ==
  \/ \E s \in Idens :
       \/ conhash_del_node(s)
       \/ \E lacking \in Lacking : conhash_add_node(s, Replicas, lacking)
  \/ \E object \in Idens : lua_conhash_del_node(object)
  \/ conhash_fini \/ FiniNode \/ conhash_init

Spec == Init /\ [][Next]_vars

-----------------------------------------------------------------------------
InTree == NodesOf(tree, tree.root)
RingOf == [p \in {tree.node[n].key : n \in InTree} |->
             conhash.vnode[CHOOSE n \in InTree : tree.node[n].key = p]]
PointsOf(s) == {hash[<<s, i>>] : i \in 1..node[s].replicas}

(* util_rbtree.h:92-106: the tree is a red-black search tree, and its nodes *)
(* are those that are allocated and counted.                               *)
TreeIsSound ==
  ~tree.strayed =>
    /\ IsRbTree(tree) /\ conhash.ivnodes = Cardinality(InTree)
    /\ InTree = {n \in 1..Slots : conhash.vnode[n] # None}

(* No virtual node outlives its node_s: what is in the tree belongs to a   *)
(* node that is in, at one of its points.  So a lookup never answers with  *)
(* freed memory, and conhash_fini never meets a node it cannot delete.     *)
VnodesBelong ==
  ~tree.strayed =>
    \A n \in InTree : LET s == conhash.vnode[n] IN
      node[s].in /\ tree.node[n].key \in PointsOf(s)

(* As long as no point was taken twice and memory sufficed, every node has *)
(* all its points, whatever came and went before; and conhash_fini leaves  *)
(* no node_s behind.                                                       *)
RingIsWhole ==
  ~tree.strayed /\ ~partial =>
    /\ \A s \in Idens : node[s].in => \A p \in PointsOf(s) :
         p \in DOMAIN RingOf /\ RingOf[p] = s
    /\ ending /\ tree.root = 0 => \A s \in Idens : node[s] = NoNode

R == INSTANCE Ring WITH Point <- Points, Member <- Idens, ring <- RingOf

(* Seen from outside the tree is a ring, which joining and leaving change. *)
IsRing == tree'.strayed \/ [R!Change]_RingOf

(* conhash.h:75-80: an object is looked up at the first point of the ring  *)
(* from its own on, or behind the last at the first of all.                *)
LookupIsClockwise ==
  ~tree.strayed =>
    \A p \in Points :
      IF InTree = {} THEN Owner(p) = None ELSE R!Belongs(p, Owner(p))

-----------------------------------------------------------------------------
(* lua/t/conhash.lua:27-32, "del one node": what is deleted is the node of *)
(* that name.                                                              *)
DeletesTheNamed ==
  [][\A object \in Idens : lua_conhash_del_node(object) =>
       \A s \in Idens : node[s].in /\ ~node'[s].in => s = object]_vars

(* util_rbtree.c:86: after an insertion the tree is fixed up; the loop     *)
(* never takes a node for the root's parent.                               *)
FixupStaysInTree == ~tree.strayed
=============================================================================
