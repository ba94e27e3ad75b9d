------------------------------- MODULE IpZone --------------------------------
(***************************************************************************)
(* ip_zone.c: a file of lines `subnet;|zone' is loaded into a tree of      *)
(* address ranges, in which addresses are looked up.                       *)
(*                                                                         *)
(* The tree is the red-black tree of thirdparty/rbtree: balancing keeps    *)
(* the order of its nodes and may give it any shape.  So the tree is the   *)
(* sequence of its nodes in order, and a descent from the root, which      *)
(* narrows that sequence to lo..hi, meets any of those as the next node.   *)
(***************************************************************************)
EXTENDS Integers, Sequences

CONSTANTS
  Space,     \* the number of addresses, 2^32
  Subnets,   \* what a line can name: [addr, size], size being 2^(32 - mask)
  Files,     \* the files: sequences of lines
  Null

Addresses == 0..Space-1
Zones     == [start : Addresses, end : Addresses]

Lines == [kind : {"zone"}, net : Subnets]
           \cup [kind : {"blank", "comment", "bad"}]

ASSUME SpaceAssumption ==
  /\ Space \in Nat \ {0}
  /\ Subnets \subseteq [addr : 0..Space-1, size : 1..Space]
  /\ Files \subseteq Seq(Lines)
  /\ Null \notin Zones

VARIABLES
  file, ended,  \* the lines, and whether the last one has its end
  i,            \* the line at &ip_zones_buffer[i]
  zones, count, \* the tree, and its count of the zones that were added
  data,         \* the zone of the line, being inserted
  lo, hi,       \* the subtree the descent has come to
  ip, answer,   \* the lookup
  phase

fileVars == <<file, ended>>
vars == <<fileVars, i, zones, count, data, lo, hi, ip, answer, phase>>

-----------------------------------------------------------------------------
(* Mutant: the sum of start and size is not computed in 32 bits.           *)
EndAbove(n) == IF n.size = Space THEN Space - 1 ELSE n.addr + n.size

(* The range of a subnet, from start up to but not including end, computed *)
(* in 32 bits; the netmask 0 is a case of its own.                         *)
StartOf(n) == IF n.size = Space THEN 0 ELSE n.addr
EndOf(n)   == IF n.size = Space THEN Space - 1 ELSE (n.addr + n.size) % Space
ZoneOf(n)  == [start |-> StartOf(n), end |-> EndOf(n)]

(* Mutant: the last byte of the file is not looked at.                     *)
EndedEarly == i < Len(file)

(* The end of line i was found, and i moves behind it.                     *)
Ended     == i < Len(file) \/ ended
NextLine  == i' = IF Ended THEN i + 1 ELSE i

Descend   == lo' = 1 /\ hi' = Len(zones)
Keep      == UNCHANGED <<zones, lo, hi>>
Destroy   == zones' = <<>> /\ lo' = 1 /\ hi' = 0
GoLeft(m)  == hi' = m - 1 /\ UNCHANGED lo
GoRight(m) == lo' = m + 1 /\ UNCHANGED hi

-----------------------------------------------------------------------------
Init ==
  /\ file \in Files /\ file # <<>>
  /\ ended \in BOOLEAN
  /\ i = 1 /\ zones = <<>> /\ count = 0 /\ data = Null
  /\ lo = 1 /\ hi = 0 /\ ip = 0 /\ answer = Null
  /\ phase = "load"

Reading(kind) == phase = "load" /\ i <= Len(file) /\ file[i].kind = kind

(* When the last line has no end i stays where it is.                      *)
Skip ==
  /\ Reading("blank") \/ Reading("comment")
  /\ NextLine
  /\ UNCHANGED <<fileVars, zones, count, data, lo, hi, ip, answer, phase>>

(* No ;| or no / in the line, a \r without \n, or no memory for the zone:    *)
(* the load gives up.  A last blank without its end may go on as whatever  *)
(* follows the buffer.                                                     *)
Reject ==
  /\ Reading("bad") \/ Reading("zone") \/ (Reading("blank") /\ ~Ended)
  /\ phase' = "failed" /\ Destroy
  /\ UNCHANGED <<fileVars, i, count, data, ip, answer>>

ReadZone ==
  /\ Reading("zone")
  /\ data' = ZoneOf(file[i].net) /\ count' = count + 1 /\ Descend
  /\ phase' = "insert"
  /\ UNCHANGED <<fileVars, i, zones, ip, answer>>

(* The insertion is over.  A last line without its end is read again, but  *)
(* its separators are gone by then: it is rejected.                        *)
LineDone ==
  /\ phase' = (IF Ended THEN "load" ELSE "failed")
  /\ NextLine /\ data' = Null
  /\ UNCHANGED <<fileVars, count, ip, answer>>

(* Mutant: ranges that touch are taken for overlapping.                    *)
PastStrictly(m) == data.start > zones[m].end

Past(m) == data.end >= zones[m].end

(* Mutant: a range inside that of a node goes to its left.                 *)
InsertLeftOrInside(m) ==
  (data.start < zones[m].start \/ ~Past(m)) /\ GoLeft(m)

InsertLeft(m)  == data.start < zones[m].start /\ GoLeft(m)
InsertRight(m) == data.start >= zones[m].start /\ Past(m) /\ GoRight(m)

(* rbtree_insert, one node of its descent.                                 *)
InsertDescend ==
  /\ phase = "insert"
  /\ \E m \in lo..hi : InsertLeft(m) \/ InsertRight(m)
  /\ UNCHANGED <<fileVars, i, zones, count, data, ip, answer, phase>>

(* The new zone fits neither side of a node: rbtree_insert returns 0, and  *)
(* ip_zones_add does not look at what it returns.                          *)
InsertDrop ==
  /\ phase = "insert"
  /\ \E m \in lo..hi : data.start >= zones[m].start /\ ~Past(m)
  /\ LineDone
  /\ IF Ended THEN Keep ELSE Destroy

With(z, k, new) ==
  [j \in 1..Len(z)+1 |-> IF j < k THEN z[j] ELSE IF j = k THEN new ELSE z[j-1]]

InsertPlace ==
  /\ phase = "insert" /\ lo > hi
  /\ LineDone
  /\ IF Ended THEN zones' = With(zones, lo, data) /\ UNCHANGED <<lo, hi>>
     ELSE Destroy

Loaded ==
  /\ phase = "load" /\ i > Len(file)
  /\ phase' = "ready"
  /\ UNCHANGED <<fileVars, i, zones, count, data, lo, hi, ip, answer>>

-----------------------------------------------------------------------------
(* ip_zones_find.                                                          *)
Find(a) ==
  /\ phase \in {"ready", "answered"}
  /\ ip' = a /\ answer' = Null /\ Descend
  /\ phase' = "search"
  /\ UNCHANGED <<fileVars, i, zones, count, data>>

(* Mutant: the last address of a range is taken to be outside it.          *)
SearchRightEarly(m) == ip >= zones[m].end - 1 /\ GoRight(m)

SearchLeft(m)  == ip < zones[m].start /\ GoLeft(m)
SearchRight(m) == ip >= zones[m].start /\ ip >= zones[m].end /\ GoRight(m)

SearchDescend ==
  /\ phase = "search"
  /\ \E m \in lo..hi : SearchLeft(m) \/ SearchRight(m)
  /\ UNCHANGED <<fileVars, i, zones, count, data, ip, answer, phase>>

SearchFinds ==
  /\ phase = "search"
  /\ \E m \in lo..hi : /\ zones[m].start <= ip /\ ip < zones[m].end
                       /\ answer' = zones[m]
  /\ phase' = "answered"
  /\ UNCHANGED <<fileVars, i, zones, count, data, lo, hi, ip>>

SearchFails ==
  /\ phase = "search" /\ lo > hi
  /\ phase' = "answered"
  /\ UNCHANGED <<fileVars, i, zones, count, data, lo, hi, ip, answer>>

(* ip_zones_destroy.                                                       *)
Release ==
  /\ phase \in {"ready", "answered"}
  /\ phase' = "destroyed" /\ Destroy
  /\ UNCHANGED <<fileVars, i, count, data, ip, answer>>

-----------------------------------------------------------------------------
Load   == Skip \/ Reject \/ ReadZone \/ InsertDescend \/ InsertDrop
            \/ InsertPlace \/ Loaded
Search == SearchDescend \/ SearchFinds \/ SearchFails

Next == Load \/ (\E a \in Addresses : Find(a)) \/ Search \/ Release

(* Both functions run to their end in the caller's thread.                 *)
Spec == Init /\ [][Next]_vars /\ WF_vars(Load) /\ WF_vars(Search)

-----------------------------------------------------------------------------
(* Lines, ranges, the descent and the lookup keep to their ranges; an end  *)
(* is an unsigned 32-bit number.                                           *)
TypeOK ==
  /\ file \in Seq(Lines) /\ ended \in BOOLEAN
  /\ i \in 1..Len(file)+1 /\ count \in 0..Len(file)
  /\ zones \in Seq(Zones) /\ data \in Zones \cup {Null}
  /\ lo \in 1..Len(zones)+1 /\ hi \in 0..Len(zones)
  /\ ip \in Addresses /\ answer \in Zones \cup {Null}
  /\ phase \in {"load", "insert", "ready", "search", "answered",
                "failed", "destroyed"}

(* The tree stays a search tree by the start of its ranges, also when the  *)
(* file names ranges that overlap, contain each other or wrap round.       *)
SortedByStart ==
  \A j, k \in DOMAIN zones : j < k => zones[j].start <= zones[k].start

Contains(z, a) == z.start <= a /\ a < z.end
Proper(z)      == z.start < z.end
Apart(y, z)    == y.end <= z.start \/ z.end <= y.start

TreeIsClean ==
  /\ \A k \in DOMAIN zones : Proper(zones[k])
  /\ \A j, k \in DOMAIN zones : j # k => Apart(zones[j], zones[k])

(* ip_zone.h:59-62: ip_zones_find returns the zone the address is in.  It  *)
(* does, and NULL only for an address in no zone, whatever the shape of    *)
(* the tree, when the ranges do not overlap and none wraps round.          *)
FindIsRight ==
  phase = "answered" /\ TreeIsClean =>
    IF answer = Null THEN \A k \in DOMAIN zones : ~Contains(zones[k], ip)
    ELSE Contains(answer, ip) /\ \E k \in DOMAIN zones : answer = zones[k]

FileZones == {ZoneOf(file[j].net) : j \in {k \in DOMAIN file : file[k].kind = "zone"}}

FileIsClean ==
  /\ \A z \in FileZones : Proper(z)
  /\ \A j, k \in DOMAIN file :
       j # k /\ file[j].kind = "zone" /\ file[k].kind = "zone" =>
         Apart(ZoneOf(file[j].net), ZoneOf(file[k].net))

(* A file whose ranges do not overlap loses none of them: rbtree_insert    *)
(* turns none away.                                                        *)
NothingLost ==
  phase = "ready" /\ FileIsClean =>
    /\ count = Len(zones)
    /\ \A z \in FileZones : \E k \in DOMAIN zones : zones[k] = z

Endless == ~ended /\ file[Len(file)].kind \in {"blank", "comment"}

(* ip_zone.h:42-45: ip_zones_load returns the zones, or NULL.  It does,    *)
(* unless the last line is blank or a comment and lacks its end: that line *)
(* is then read for ever.                                                  *)
LoadReturns ==
  (phase = "load" /\ ~Endless) ~> phase \in {"ready", "failed"}

Covers(n, a) == n.addr <= a /\ a < n.addr + n.size

(* ip_zone.h:59-62: ip_zones_find returns the zone the address is in, here *)
(* with a single zone in the tree.  It does not for a subnet at the top of *)
(* the addresses, whose range ends at 0.                                   *)
FindsItsSubnet ==
  phase = "answered" /\ Len(file) = 1 /\ zones # <<>> =>
    (answer # Null <=> Covers(file[1].net, ip))
=============================================================================
