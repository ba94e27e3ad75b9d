------------------------------- MODULE HashMap --------------------------------
(***************************************************************************)
(* hashmap.c: rows of doubly linked nodes, and one cursor that belongs to  *)
(* findfirst and findnext but that a hashmap_add of a known key moves too. *)
(* A pointer is a slot of the heap, 0 is NULL.  One thread uses a table.   *)
(***************************************************************************)
EXTENDS Integers, Sequences, FiniteSets

CONSTANTS
  Keys, Null,    \* the data stored under a key is NULL or named like the key
  Slots,         \* a bound: the heap has room for nodes 1..Slots
  nrows          \* the rows are 0..nrows - 1

VARIABLES
  made,          \* hashmap_new has been called, hashmap_delete has not
  userfree,      \* the table frees data
  rowOf,         \* the hash function, in effect a random one
  table,         \* table[r]: the first node of row r
  node,          \* node[n]: key, data, next and prev
  live,          \* the nodes that are allocated
  count, crow, cnode,
  owed,          \* history: what the table has to free and has not
  steady,        \* history: since findfirst nothing else touched the cursor
  stayed, seen,  \* history: keys there since findfirst; the keys handed out
  fault          \* "none", "freed": a freed node is read, "twice": data is
                 \* freed that is not owed, "lost": a node is in no row

dataVars == <<made, userfree, rowOf, table, node, live, count, owed>>
walkVars == <<crow, cnode, steady, stayed, seen>>
vars == <<dataVars, walkVars, fault>>

Nodes == 1..Slots
Rows == 0..(nrows - 1)
Blank == [key |-> Null, data |-> Null, next |-> 0, prev |-> 0]

(* The nodes of a row, in the order a walk meets them.                     *)
Chain(r) ==
  LET from[n \in 0..Slots] == IF n = 0 THEN <<>> ELSE <<n>> \o from[node[n].next]
  IN from[table[r]]
InRow(r) == {Chain(r)[i] : i \in DOMAIN Chain(r)}
Held == UNION {InRow(r) : r \in Rows}
KeyOf(n) == node[n].key

(* The node a walk for the key ends at, 0 if it ends at none.              *)
NodeOf(k) ==
  LET c == Chain(rowOf[k])
      hits == {i \in DOMAIN c : KeyOf(c[i]) = k}
  IN IF hits = {} THEN 0 ELSE c[CHOOSE i \in hits : \A j \in hits : i <= j]

Contents ==
  IF ~made THEN <<>>
  ELSE [k \in {KeyOf(n) : n \in Held} |-> node[CHOOSE n \in Held : KeyOf(n) = k].data]

-----------------------------------------------------------------------------
Empty ==
  /\ table' = [r \in Rows |-> 0] /\ node' = [n \in Nodes |-> Blank]
  /\ live' = {} /\ count' = 0

Init ==
  /\ made = FALSE /\ userfree = FALSE /\ rowOf = [k \in Keys |-> 0]
  /\ table = [r \in Rows |-> 0] /\ node = [n \in Nodes |-> Blank]
  /\ live = {} /\ count = 0 /\ crow = 0 /\ cnode = 0
  /\ owed = {} /\ steady = FALSE /\ stayed = {} /\ seen = <<>> /\ fault = "none"

Still == steady' = FALSE /\ stayed' = {} /\ seen' = <<>>

(* A failed hashmap_new gives back what it got and changes nothing.        *)
hashmap_new(rows, frees) ==
  /\ ~made /\ made' = TRUE /\ userfree' = frees /\ rowOf' = rows
  /\ Empty /\ owed' = {} /\ Still /\ crow' = 0 /\ cnode' = 0
  /\ UNCHANGED fault

(* userfree is called for the data of the nodes at f's places.             *)
Free(f) ==
  LET given(p) == node[f[p]].data
      them == {given(p) : p \in DOMAIN f} \ {Null}
      Once == \A p, q \in DOMAIN f : p # q /\ given(p) = given(q) => given(p) = Null
  IN IF ~userfree THEN UNCHANGED <<owed, fault>>
     ELSE /\ owed' = owed \ them
          /\ fault' = IF them \subseteq owed /\ Once THEN fault ELSE "twice"

(* The places in the rows, as pairs of a row and a position in it.         *)
Places == UNION {{r} \X DOMAIN Chain(r) : r \in Rows}

(* Mutant: only the first node of each row.                                *)
AllNodesFirst == [p \in {q \in Places : q[2] = 1} |-> Chain(p[1])[p[2]]]

AllNodes == [p \in Places |-> Chain(p[1])[p[2]]]

hashmap_delete ==
  /\ made /\ made' = FALSE /\ Free(AllNodes) /\ Empty
  /\ crow' = 0 /\ cnode' = 0 /\ Still /\ UNCHANGED <<userfree, rowOf>>

hashmap_set_keyops(rows) ==
  /\ made /\ count = 0 /\ rowOf' = rows
  /\ UNCHANGED <<made, userfree, table, node, live, count, owed, walkVars, fault>>

-----------------------------------------------------------------------------
(* HASHMAP_INTABLE: the cursor is moved, the data stays the caller's.      *)
AddKnown(k) ==
  /\ made /\ NodeOf(k) # 0
  /\ cnode' = NodeOf(k) /\ Still
  /\ UNCHANGED <<dataVars, crow, fault>>

(* Mutant: the old head keeps its prev.                                    *)
LinkedInNoPrev(n, k, d, head) ==
  [node EXCEPT ![n] = [key |-> k, data |-> d, next |-> head, prev |-> 0]]

(* The new node goes in front of its row.                                  *)
LinkedIn(n, k, d, head) ==
  [m \in Nodes |->
    CASE m = n -> [key |-> k, data |-> d, next |-> head, prev |-> 0]
      [] m = head -> [node[m] EXCEPT !.prev = n]
      [] OTHER -> node[m]]

(* The first free slot: which one it is shows only when a freed node is    *)
(* read, and such a step is a fault whatever is in the slot.               *)
AddNew(k, d) ==
  /\ made /\ NodeOf(k) = 0
  /\ \E n \in Nodes \ live :
       /\ \A m \in 1..(n - 1) : m \in live
       /\ live' = live \cup {n}
       /\ node' = LinkedIn(n, k, d, table[rowOf[k]])
       /\ table' = [table EXCEPT ![rowOf[k]] = n]
  /\ count' = count + 1
  /\ owed' = IF userfree THEN owed \cup ({d} \ {Null}) ELSE owed
  /\ UNCHANGED <<made, userfree, rowOf, walkVars, fault>>

(* Mutant: the new head keeps its prev.                                    *)
LinkedOutKeepsPrev(n) ==
  [m \in Nodes |->
    CASE m = n -> Blank
      [] m = node[n].prev -> [node[m] EXCEPT !.next = node[n].next]
      [] m = node[n].next /\ node[n].prev # 0 -> [node[m] EXCEPT !.prev = node[n].prev]
      [] OTHER -> node[m]]

LinkedOut(n) ==
  [m \in Nodes |->
    CASE m = n -> Blank
      [] m = node[n].prev -> [node[m] EXCEPT !.next = node[n].next]
      [] m = node[n].next -> [node[m] EXCEPT !.prev = node[n].prev]
      [] OTHER -> node[m]]

(* hashmap_free_node; what it leaves in the node is not written down.      *)
hashmap_remove(k) ==
  LET n == NodeOf(k) IN
  /\ made /\ n # 0
  /\ Free(<<n>>) /\ node' = LinkedOut(n) /\ live' = live \ {n}
  /\ table' = IF node[n].prev # 0 THEN table
              ELSE [table EXCEPT ![rowOf[k]] = node[n].next]
  /\ count' = count - 1
  /\ IF cnode = n THEN Still
     ELSE stayed' = stayed \ {k} /\ UNCHANGED <<steady, seen>>
  /\ UNCHANGED <<made, userfree, rowOf, crow, cnode>>

(* hashmap_find changes the table in splay mode only: movetofront unlinks  *)
(* the node but does not make it the head of its row, which loses it.      *)
(* Nothing but a lookup looks at the mode: setting it is part of this.     *)
FindMoves(k) ==
  /\ made
  /\ NodeOf(k) \notin {0, table[rowOf[k]]}
  /\ LET n == NodeOf(k)  head == table[rowOf[k]]
         out == [m \in Nodes |->
           CASE m = node[n].prev -> [node[m] EXCEPT !.next = node[n].next]
             [] m = node[n].next -> [node[m] EXCEPT !.prev = node[n].prev]
             [] OTHER -> node[m]]
     IN node' = [out EXCEPT ![n].prev = 0, ![n].next = head, ![head].prev = n]
  /\ fault' = "lost"
  /\ UNCHANGED <<made, userfree, rowOf, table, live, count, owed, walkVars>>

-----------------------------------------------------------------------------
FirstRowFrom(r) ==
  LET full == {s \in Rows : s >= r /\ table[s] # 0} IN
  IF full = {} THEN nrows ELSE CHOOSE s \in full : \A t \in full : s <= t
FirstOf(r) == IF r = nrows THEN 0 ELSE table[r]

(* Mutant: the row after the next one.                                     *)
AfterSkips(n, r) ==
  IF node[n].next # 0 THEN <<r, node[n].next>>
  ELSE <<FirstRowFrom(r + 2), FirstOf(FirstRowFrom(r + 2))>>

(* hashmap_next: the row and the node behind node n, met in row r.         *)
After(n, r) ==
  IF node[n].next # 0 THEN <<r, node[n].next>>
  ELSE <<FirstRowFrom(r + 1), FirstOf(FirstRowFrom(r + 1))>>

HandOut(n, r) == crow' = After(n, r)[1] /\ cnode' = After(n, r)[2]

(* Both hand out a node whose successor they have looked up already.       *)
hashmap_findfirst ==
  /\ made /\ steady' = TRUE /\ stayed' = DOMAIN Contents
  /\ LET r == FirstRowFrom(0)  n == FirstOf(r) IN
     IF n = 0 THEN crow' = nrows /\ cnode' = 0 /\ seen' = <<>>
     ELSE HandOut(n, r) /\ seen' = <<KeyOf(n)>>
  /\ UNCHANGED <<dataVars, fault>>

hashmap_findnext ==
  /\ made /\ cnode # 0 /\ cnode \in live /\ Len(seen) <= Cardinality(Keys)
  /\ HandOut(cnode, crow)
  /\ seen' = IF steady THEN Append(seen, KeyOf(cnode)) ELSE seen
  /\ UNCHANGED <<dataVars, steady, stayed, fault>>

FindNextFreed ==
  /\ made /\ cnode # 0 /\ cnode \notin live /\ fault' = "freed"
  /\ UNCHANGED <<dataVars, walkVars>>

(* After a fault nothing is promised, and nothing more is looked at.       *)
Next ==
  /\ fault = "none"
  /\ \/ \E rows \in [Keys -> Rows] :
          \/ \E b \in BOOLEAN : hashmap_new(rows, b)
          \/ hashmap_set_keyops(rows)
     \/ hashmap_delete \/ hashmap_findfirst \/ hashmap_findnext \/ FindNextFreed
     \/ \E k \in Keys :
          \/ AddKnown(k) \/ hashmap_remove(k) \/ FindMoves(k)
          \/ \E d \in {k, Null} : AddNew(k, d)

Spec == Init /\ [][Next]_vars

-----------------------------------------------------------------------------
(* The lists and the bookkeeping agree: what is allocated is in one row,   *)
(* the one its key belongs to; prev undoes next; count is the number of    *)
(* nodes.  So a walk for a key finds its only node.                        *)
ListsAgree ==
  fault = "none" /\ made =>
    /\ live = Held /\ count = Cardinality(live)
    /\ \A r \in Rows : \A n \in InRow(r) : rowOf[KeyOf(n)] = r
    /\ \A n, m \in live : n # m => KeyOf(n) # KeyOf(m)
    /\ \A r \in Rows : table[r] # 0 => node[table[r]].prev = 0
    /\ \A n \in live : node[n].next # 0 => node[node[n].next].prev = n

Dict == INSTANCE Dictionary
          WITH Key <- Keys, Data <- Keys \cup {Null}, dict <- Contents

(* hashmap.c:216-234, 474-478: as seen from outside the table is a         *)
(* dictionary, but for a lookup in splay mode.                             *)
IsDictionary == fault' # "none" \/ [Dict!Change]_Contents

(* hashmap.c:92-97: a table that frees its data owes a free for just what  *)
(* it holds: nothing is freed early or twice, nothing left by a remove or  *)
(* by hashmap_delete.                                                      *)
FreesWhatGoes ==
  /\ fault # "twice"
  /\ fault = "none" /\ userfree =>
       owed = {Contents[k] : k \in DOMAIN Contents} \ {Null}

(* A walk with findfirst and findnext meets every key that was there all   *)
(* the time, whatever is added and removed meanwhile, none twice, and no   *)
(* freed node; as long as nobody removes the node looked up ahead, or adds *)
(* a known key.                                                            *)
WalkMeetsAll ==
  fault = "none" /\ made /\ steady =>
    /\ \A i, j \in DOMAIN seen : seen[i] = seen[j] => i = j
    /\ cnode # 0 => cnode \in live
    /\ cnode = 0 => \A k \in stayed : \E i \in DOMAIN seen : seen[i] = k
=============================================================================
