---------------------------- MODULE IpZoneProofs -----------------------------
(* For any address space, any file and any shape of the tree: it is a      *)
(* search tree by the start of its ranges, a lookup is right, and ranges   *)
(* that lie apart are all kept.                                            *)
EXTENDS IpZone, TLAPS

(* What a descent has left aside: nodes that start no later than the new   *)
(* zone before lo, nodes that start no earlier behind hi.                  *)
Inserting ==
  phase = "insert" =>
    /\ data \in Zones /\ i <= Len(file) /\ count <= i /\ lo <= hi + 1
    /\ \A k \in DOMAIN zones : k < lo => zones[k].start <= data.start
    /\ \A k \in DOMAIN zones : hi < k => data.start <= zones[k].start

Loading == phase = "load" => count < i

(* A zone that contains the address is never left aside.                   *)
Searching ==
  phase = "search" =>
    /\ answer = Null
    /\ TreeIsClean =>
         \A k \in DOMAIN zones : Contains(zones[k], ip) => k \in lo..hi

IInv == TypeOK /\ SortedByStart /\ Loading /\ Inserting /\ Searching
          /\ FindIsRight

-----------------------------------------------------------------------------
LEMMA ZoneOfType == \A n \in Subnets : ZoneOf(n) \in Zones
<1> SUFFICES ASSUME NEW n \in Subnets PROVE ZoneOf(n) \in Zones
  OBVIOUS
<1>1. Space \in Nat \ {0} /\ n.addr \in 0..Space-1 /\ n.size \in 1..Space
  BY SpaceAssumption
<1>2. StartOf(n) \in Addresses
  BY <1>1 DEF StartOf, Addresses
<1>3. EndOf(n) \in Addresses
  BY <1>1 DEF EndOf, Addresses
<1> QED
  BY <1>2, <1>3 DEF ZoneOf, Zones

LEMMA ZoneField ==
  \A z \in Zones : z.start \in Int /\ z.end \in Int
BY SpaceAssumption DEF Zones, Addresses

(* With puts one zone more into the sequence, at place k.                  *)
LEMMA WithType ==
  ASSUME NEW z \in Seq(Zones), NEW k \in 1..Len(z)+1, NEW new \in Zones
  PROVE  /\ With(z, k, new) \in Seq(Zones)
         /\ Len(With(z, k, new)) = Len(z) + 1
         /\ \A j \in 1..Len(z)+1 :
              With(z, k, new)[j] = IF j < k THEN z[j]
                                   ELSE IF j = k THEN new ELSE z[j-1]
<1>1. \A j \in 1..Len(z)+1 :
        (IF j < k THEN z[j] ELSE IF j = k THEN new ELSE z[j-1]) \in Zones
  OBVIOUS
<1>2. With(z, k, new) \in [1..Len(z)+1 -> Zones]
  BY <1>1 DEF With
<1> QED
  BY <1>2 DEF With

-----------------------------------------------------------------------------
LEMMA InitIInv == Init => IInv
<1> SUFFICES ASSUME Init PROVE IInv
  OBVIOUS
<1>1. file \in Seq(Lines) /\ Len(file) \in Nat /\ 0 \in Addresses
  BY SpaceAssumption DEF Init, Addresses
<1>2. zones \in Seq(Zones) /\ Len(zones) = 0
  BY DEF Init
<1> QED
  BY <1>1, <1>2 DEF Init, IInv, TypeOK, SortedByStart, Loading, Inserting,
       Searching, FindIsRight

(* The steps of the load.                                                  *)
LEMMA LoadIInv == IInv /\ Load => IInv'
<1> SUFFICES ASSUME IInv, Load PROVE IInv'
  OBVIOUS
<1> USE DEF IInv, fileVars
<1>n. Len(file) \in Nat /\ Len(zones) \in Nat /\ i \in Int /\ count \in Int
        /\ lo \in Int /\ hi \in Int
  BY DEF TypeOK
<1>d. DOMAIN zones = 1..Len(zones)
  BY DEF TypeOK
<1>z. zones' = <<>> => zones' \in Seq(Zones) /\ Len(zones') = 0 /\ DOMAIN zones' = {}
  OBVIOUS
<1>1. CASE Skip
  <2>1. i' \in 1..Len(file)+1 /\ i <= i'
    BY <1>1, <1>n DEF Skip, Reading, NextLine, Ended, TypeOK
  <2>2. phase = "load" /\ phase' = "load"
    BY <1>1 DEF Skip, Reading
  <2>3. TypeOK'
    BY <1>1, <2>1 DEF Skip, TypeOK
  <2>4. Loading'
    BY <1>1, <2>1, <2>2, <1>n DEF Skip, Loading
  <2>5. SortedByStart'
    BY <1>1 DEF Skip, SortedByStart
  <2> QED
    BY <2>2, <2>3, <2>4, <2>5 DEF Inserting, Searching, FindIsRight
<1>2. CASE Reject
  <2>1. TypeOK'
    BY <1>2, <1>z, <1>n DEF Reject, Destroy, TypeOK
  <2>2. SortedByStart'
    BY <1>2, <1>z DEF Reject, Destroy, SortedByStart
  <2> QED
    BY <1>2, <2>1, <2>2 DEF Reject, Loading, Inserting, Searching, FindIsRight
<1>3. CASE ReadZone
  <2>1. phase = "load" /\ phase' = "insert" /\ i <= Len(file)
          /\ file[i].kind = "zone"
    BY <1>3 DEF ReadZone, Reading
  <2>2. file[i] \in Lines
    BY <2>1, <1>n DEF TypeOK
  <2>3. file[i].net \in Subnets
    BY <2>1, <2>2 DEF Lines
  <2>4. data' \in Zones
    BY <1>3, <2>3, ZoneOfType DEF ReadZone
  <2>5. lo' = 1 /\ hi' = Len(zones) /\ count' = count + 1 /\ i' = i
          /\ file' = file /\ ended' = ended /\ zones' = zones
          /\ ip' = ip /\ answer' = answer
    BY <1>3 DEF ReadZone, Descend
  <2>6. count < i
    BY <2>1 DEF Loading
  <2>7. TypeOK'
    BY <2>1, <2>4, <2>5, <2>6, <1>n DEF TypeOK
  <2>8. Inserting'
    BY <2>1, <2>4, <2>5, <2>6, <1>n, <1>d DEF Inserting
  <2>9. SortedByStart'
    BY <2>5 DEF SortedByStart
  <2> QED
    BY <2>1, <2>7, <2>8, <2>9 DEF Loading, Searching, FindIsRight
<1>4. CASE InsertDescend
  <2>1. phase = "insert" /\ phase' = "insert" /\ data \in Zones
    BY <1>4 DEF InsertDescend, Inserting
  <2>2. PICK m \in lo..hi : InsertLeft(m) \/ InsertRight(m)
    BY <1>4 DEF InsertDescend
  <2>3. m \in DOMAIN zones /\ m \in Int
    BY <1>d, <1>n DEF TypeOK
  <2>4. \A k \in DOMAIN zones : zones[k] \in Zones
    BY DEF TypeOK
  <2>5. \A k \in DOMAIN zones : zones[k].start \in Int /\ k \in Int
    BY <2>4, <1>d, ZoneField
  <2>6. data.start \in Int
    BY <2>1, ZoneField
  <2>7. UNCHANGED <<file, ended, i, zones, count, data, ip, answer>>
    BY <1>4 DEF InsertDescend
  <2>8. TypeOK'
    BY <2>1, <2>2, <2>3, <2>7, <1>n, <1>d DEF TypeOK, InsertLeft, InsertRight,
         GoLeft, GoRight
  <2>9. lo' <= hi' + 1
    BY <2>2, <1>n DEF InsertLeft, InsertRight, GoLeft, GoRight
  <2>10. \A k \in DOMAIN zones : k < lo' => zones[k].start <= data.start
    <3> SUFFICES ASSUME NEW k \in DOMAIN zones, k < lo'
                 PROVE  zones[k].start <= data.start
      OBVIOUS
    <3>1. CASE k < lo
      BY <3>1, <2>1 DEF Inserting
    <3>2. CASE ~(k < lo)
      <4>1. lo' = m + 1 /\ data.start >= zones[m].start
        BY <2>2, <3>2, <2>5, <1>n DEF InsertLeft, InsertRight, GoLeft, GoRight
      <4>2. k < m \/ k = m
        BY <4>1, <2>3, <2>5
      <4>3. zones[k].start <= zones[m].start
        BY <4>2, <2>3, <2>5 DEF SortedByStart
      <4> QED
        BY <4>1, <4>3, <2>3, <2>5, <2>6
    <3> QED
      BY <3>1, <3>2
  <2>11. \A k \in DOMAIN zones : hi' < k => data.start <= zones[k].start
    <3> SUFFICES ASSUME NEW k \in DOMAIN zones, hi' < k
                 PROVE  data.start <= zones[k].start
      OBVIOUS
    <3>1. CASE hi < k
      BY <3>1, <2>1 DEF Inserting
    <3>2. CASE ~(hi < k)
      <4>1. hi' = m - 1 /\ data.start < zones[m].start
        BY <2>2, <3>2, <2>5, <1>n DEF InsertLeft, InsertRight, GoLeft, GoRight
      <4>2. m < k \/ k = m
        BY <4>1, <2>3, <2>5
      <4>3. zones[m].start <= zones[k].start
        BY <4>2, <2>3, <2>5 DEF SortedByStart
      <4> QED
        BY <4>1, <4>3, <2>3, <2>5, <2>6
    <3> QED
      BY <3>1, <3>2
  <2>12. Inserting'
    BY <2>1, <2>7, <2>9, <2>10, <2>11 DEF Inserting
  <2>13. SortedByStart'
    BY <2>7 DEF SortedByStart
  <2> QED
    BY <2>1, <2>8, <2>12, <2>13 DEF Loading, Searching, FindIsRight
<1>l. ASSUME LineDone, phase = "insert"
      PROVE  /\ i' \in 1..Len(file)+1 /\ count' = count /\ data' = Null
             /\ phase' \in {"load", "failed"} /\ Loading'
             /\ UNCHANGED <<file, ended, ip, answer>>
  <2>1. i <= Len(file) /\ count <= i
    BY <1>l DEF Inserting
  <2>2. i' = (IF Ended THEN i + 1 ELSE i) /\ count' = count
    BY <1>l DEF LineDone, NextLine
  <2>3. i' \in 1..Len(file)+1
    BY <2>1, <2>2, <1>n DEF TypeOK
  <2>4. phase' = (IF Ended THEN "load" ELSE "failed")
    BY <1>l DEF LineDone
  <2>5. Loading'
    BY <2>1, <2>2, <2>4, <1>n DEF Loading
  <2> QED
    BY <1>l, <2>2, <2>3, <2>4, <2>5 DEF LineDone
<1>5. CASE InsertDrop
  <2>1. LineDone /\ phase = "insert"
    BY <1>5 DEF InsertDrop
  <2>2. Keep \/ Destroy
    BY <1>5 DEF InsertDrop
  <2>3. TypeOK'
    BY <2>1, <2>2, <1>l, <1>z, <1>n DEF TypeOK, Keep, Destroy
  <2>4. SortedByStart'
    BY <2>2, <1>z DEF SortedByStart, Keep, Destroy
  <2> QED
    BY <2>1, <2>3, <2>4, <1>l DEF Inserting, Searching, FindIsRight
<1>6. CASE InsertPlace
  <2>1. LineDone /\ phase = "insert" /\ lo > hi
    BY <1>6 DEF InsertPlace
  <2>2. \/ zones' = With(zones, lo, data) /\ UNCHANGED <<lo, hi>>
        \/ Destroy
    BY <1>6 DEF InsertPlace
  <2>3. CASE Destroy
    <3>1. TypeOK'
      BY <2>1, <2>3, <1>l, <1>z, <1>n DEF TypeOK, Destroy
    <3>2. SortedByStart'
      BY <2>3, <1>z DEF SortedByStart, Destroy
    <3> QED
      BY <2>1, <3>1, <3>2, <1>l DEF Inserting, Searching, FindIsRight
  <2>4. CASE zones' = With(zones, lo, data) /\ UNCHANGED <<lo, hi>>
    <3>1. zones \in Seq(Zones) /\ lo \in 1..Len(zones)+1 /\ data \in Zones
      BY <2>1 DEF TypeOK, Inserting
    <3>2. /\ zones' \in Seq(Zones) /\ Len(zones') = Len(zones) + 1
          /\ \A j \in 1..Len(zones)+1 :
               zones'[j] = IF j < lo THEN zones[j]
                           ELSE IF j = lo THEN data ELSE zones[j-1]
      <4> DEFINE W == With(zones, lo, data)
      <4>1. /\ W \in Seq(Zones) /\ Len(W) = Len(zones) + 1
            /\ \A j \in 1..Len(zones)+1 :
                 W[j] = IF j < lo THEN zones[j]
                        ELSE IF j = lo THEN data ELSE zones[j-1]
        BY <3>1, WithType
      <4>2. zones' = W
        BY <2>4
      <4> HIDE DEF W
      <4> QED
        BY <4>1, <4>2
    <3>3. TypeOK'
      BY <2>1, <2>4, <3>2, <1>l, <1>n DEF TypeOK
    <3>4. \A k \in 1..Len(zones) : zones[k].start \in Int
      BY <3>1, ZoneField
    <3>5. data.start \in Int
      BY <3>1, ZoneField
    <3>6. \A k \in 1..Len(zones) : k < lo => zones[k].start <= data.start
      BY <2>1, <1>d DEF Inserting
    <3>7. \A k \in 1..Len(zones) : lo <= k => data.start <= zones[k].start
      BY <2>1, <1>d, <1>n DEF Inserting
    <3>8. \A j, k \in 1..Len(zones) : j < k => zones[j].start <= zones[k].start
      BY <1>d DEF SortedByStart
    <3>9. SUFFICES ASSUME NEW j \in 1..Len(zones)+1, NEW k \in 1..Len(zones)+1,
                          j < k
                   PROVE  zones'[j].start <= zones'[k].start
      <4>1. DOMAIN zones' = 1..Len(zones)+1
        BY <3>2
      <4>2. SortedByStart'
        BY <4>1, <3>9 DEF SortedByStart
      <4> QED
        BY <2>1, <3>3, <4>2, <1>l DEF Inserting, Searching, FindIsRight
    <3>10. CASE k < lo
      <4>1. zones'[j] = zones[j] /\ zones'[k] = zones[k]
        BY <3>2, <3>9, <3>10, <1>n
      <4>2. j \in 1..Len(zones) /\ k \in 1..Len(zones)
        BY <3>1, <3>9, <3>10, <1>n
      <4> QED
        BY <4>1, <4>2, <3>8, <3>9
    <3>11. CASE k = lo
      BY <3>2, <3>6, <3>9, <3>11, <1>n
    <3>12. CASE k > lo
      <4>1. zones'[k] = zones[k-1] /\ k-1 \in 1..Len(zones)
        BY <3>2, <3>12, <1>n, <3>1
      <4>2. CASE j < lo
        <5>1. j < k-1 /\ zones'[j] = zones[j] /\ j \in 1..Len(zones)
          BY <4>1, <4>2, <3>2, <3>12, <3>1, <1>n
        <5> QED
          BY <4>1, <5>1, <3>8
      <4>3. CASE j = lo
        BY <4>1, <4>3, <3>2, <3>7, <3>12, <1>n
      <4>4. CASE j > lo
        <5>1. j-1 < k-1 /\ zones'[j] = zones[j-1] /\ j-1 \in 1..Len(zones)
          BY <4>4, <3>2, <3>9, <3>1, <1>n
        <5> QED
          BY <4>1, <5>1, <3>8
      <4> QED
        BY <4>2, <4>3, <4>4, <1>n
    <3> QED
      BY <3>10, <3>11, <3>12, <1>n
  <2> QED
    BY <2>2, <2>3, <2>4
<1>7. CASE Loaded
  <2>1. phase' = "ready"
    BY <1>7 DEF Loaded
  <2>2. TypeOK'
    BY <1>7 DEF Loaded, TypeOK
  <2>3. SortedByStart'
    BY <1>7 DEF Loaded, SortedByStart
  <2> QED
    BY <2>1, <2>2, <2>3 DEF Loading, Inserting, Searching, FindIsRight
<1> QED
  BY <1>1, <1>2, <1>3, <1>4, <1>5, <1>6, <1>7 DEF Load

(* The steps of a lookup.                                                  *)
LEMMA SearchIInv == IInv /\ Search => IInv'
<1> SUFFICES ASSUME IInv, Search PROVE IInv'
  OBVIOUS
<1> USE DEF IInv, fileVars
<1>n. Len(file) \in Nat /\ Len(zones) \in Nat /\ lo \in Int /\ hi \in Int
        /\ ip \in Int
  BY SpaceAssumption DEF TypeOK, Addresses
<1>d. DOMAIN zones = 1..Len(zones)
  BY DEF TypeOK
<1>z. \A k \in DOMAIN zones : zones[k] \in Zones
  BY DEF TypeOK
<1>f. \A k \in DOMAIN zones :
        zones[k].start \in Int /\ zones[k].end \in Int /\ k \in Int
  BY <1>z, <1>d, ZoneField
<1>u. UNCHANGED <<file, ended, i, zones, count, data, ip>>
  BY DEF Search, SearchDescend, SearchFinds, SearchFails
<1>p. phase = "search" /\ answer = Null
  BY DEF Search, SearchDescend, SearchFinds, SearchFails, Searching
<1>s. SortedByStart'
  BY <1>u DEF SortedByStart
<1>c. TreeIsClean' = TreeIsClean
  BY <1>u DEF TreeIsClean
<1>1. CASE SearchDescend
  <2>1. PICK m \in lo..hi : SearchLeft(m) \/ SearchRight(m)
    BY <1>1 DEF SearchDescend
  <2>2. m \in DOMAIN zones /\ m \in Int
    BY <1>d, <1>n DEF TypeOK
  <2>3. phase' = "search" /\ answer' = Null
    BY <1>1, <1>p DEF SearchDescend
  <2>4. TypeOK'
    BY <1>u, <1>n, <1>d, <2>1, <2>2, <2>3 DEF TypeOK, SearchLeft, SearchRight,
         GoLeft, GoRight
  <2>5. ASSUME TreeIsClean, NEW k \in DOMAIN zones, Contains(zones[k], ip)
        PROVE  k \in lo'..hi'
    <3>1. k \in lo..hi
      BY <2>5, <1>p DEF Searching
    <3>2. zones[k].start <= ip /\ ip < zones[k].end
      BY <2>5 DEF Contains
    <3>3. CASE SearchLeft(m)
      <4>1. ip < zones[m].start /\ lo' = lo /\ hi' = m - 1
        BY <3>3 DEF SearchLeft, GoLeft
      <4>2. k # m
        BY <4>1, <3>2, <1>f, <1>n, <2>2
      <4>3. ~(m < k)
        <5>1. m < k => zones[m].start <= zones[k].start
          BY <2>2 DEF SortedByStart
        <5> QED
          BY <5>1, <4>1, <3>2, <1>f, <1>n, <2>2
      <4> QED
        BY <3>1, <4>1, <4>2, <4>3, <1>f, <1>n, <2>2
    <3>4. CASE SearchRight(m)
      <4>1. ip >= zones[m].end /\ lo' = m + 1 /\ hi' = hi
        BY <3>4 DEF SearchRight, GoRight
      <4>2. k # m
        BY <4>1, <3>2, <1>f, <1>n, <2>2
      <4>3. ~(k < m)
        <5>1. k < m => zones[k].start <= zones[m].start
          BY <2>2 DEF SortedByStart
        <5>2. zones[k].end <= zones[m].start \/ zones[m].end <= zones[k].start
          BY <2>2, <2>5, <4>2 DEF TreeIsClean, Apart
        <5>3. zones[m].start < zones[m].end
          BY <2>2, <2>5 DEF TreeIsClean, Proper
        <5> QED
          BY <5>1, <5>2, <5>3, <4>1, <3>2, <1>f, <1>n, <2>2
      <4> QED
        BY <3>1, <4>1, <4>2, <4>3, <1>f, <1>n, <2>2
    <3> QED
      BY <2>1, <3>3, <3>4
  <2>6. Searching'
    BY <2>3, <2>5, <1>c, <1>u DEF Searching
  <2> QED
    BY <2>3, <2>4, <2>6, <1>s DEF Loading, Inserting, FindIsRight
<1>2. CASE SearchFinds
  <2>1. PICK m \in lo..hi : /\ zones[m].start <= ip /\ ip < zones[m].end
                            /\ answer' = zones[m]
    BY <1>2 DEF SearchFinds
  <2>2. m \in DOMAIN zones
    BY <1>d, <1>n DEF TypeOK
  <2>3. phase' = "answered" /\ lo' = lo /\ hi' = hi
    BY <1>2 DEF SearchFinds
  <2>4. TypeOK'
    BY <1>u, <1>z, <2>1, <2>2, <2>3 DEF TypeOK
  <2>5. answer' # Null
    BY <2>1, <2>2, <1>z, SpaceAssumption
  <2>6. FindIsRight'
    BY <2>1, <2>2, <2>5, <1>u DEF FindIsRight, Contains
  <2> QED
    BY <2>3, <2>4, <2>6, <1>s DEF Loading, Inserting, Searching
<1>3. CASE SearchFails
  <2>1. phase' = "answered" /\ lo' = lo /\ hi' = hi /\ answer' = answer /\ lo > hi
    BY <1>3 DEF SearchFails
  <2>2. TypeOK'
    BY <1>u, <2>1 DEF TypeOK
  <2>3. TreeIsClean => \A k \in DOMAIN zones : ~Contains(zones[k], ip)
    BY <1>p, <2>1, <1>n, <1>d DEF Searching
  <2>4. FindIsRight'
    BY <2>1, <2>3, <1>c, <1>p, <1>u DEF FindIsRight
  <2> QED
    BY <2>1, <2>2, <2>4, <1>s DEF Loading, Inserting, Searching
<1> QED
  BY <1>1, <1>2, <1>3 DEF Search

LEMMA CallIInv == IInv /\ ((\E a \in Addresses : Find(a)) \/ Release) => IInv'
<1> SUFFICES ASSUME IInv, (\E a \in Addresses : Find(a)) \/ Release PROVE IInv'
  OBVIOUS
<1> USE DEF IInv, fileVars
<1>n. Len(file) \in Nat /\ Len(zones) \in Nat /\ DOMAIN zones = 1..Len(zones)
  BY DEF TypeOK
<1>1. CASE \E a \in Addresses : Find(a)
  <2>1. PICK a \in Addresses : Find(a)
    BY <1>1
  <2>2. phase' = "search" /\ lo' = 1 /\ hi' = Len(zones) /\ answer' = Null
          /\ ip' = a /\ UNCHANGED <<file, ended, i, zones, count, data>>
    BY <2>1 DEF Find, Descend
  <2>3. TypeOK'
    BY <2>2, <1>n DEF TypeOK
  <2>4. SortedByStart'
    BY <2>2 DEF SortedByStart
  <2>5. Searching'
    BY <2>2, <1>n DEF Searching
  <2> QED
    BY <2>2, <2>3, <2>4, <2>5 DEF Loading, Inserting, FindIsRight
<1>2. CASE Release
  <2>1. phase' = "destroyed" /\ zones' = <<>> /\ lo' = 1 /\ hi' = 0
          /\ UNCHANGED <<file, ended, i, count, data, ip, answer>>
    BY <1>2 DEF Release, Destroy
  <2>2. TypeOK'
    BY <2>1, <1>n DEF TypeOK
  <2>3. SortedByStart'
    BY <2>1 DEF SortedByStart
  <2> QED
    BY <2>1, <2>2, <2>3 DEF Loading, Inserting, Searching, FindIsRight
<1> QED
  BY <1>1, <1>2

LEMMA StutterIInv == IInv /\ UNCHANGED vars => IInv'
BY DEF IInv, vars, fileVars, TypeOK, SortedByStart, Loading, Inserting,
     Searching, FindIsRight, TreeIsClean

-----------------------------------------------------------------------------
(* The invariant holds throughout.                                         *)
THEOREM Invariance == Spec => []IInv
<1>1. Init => IInv
  BY InitIInv
<1>2. IInv /\ [Next]_vars => IInv'
  BY LoadIInv, SearchIInv, CallIInv, StutterIInv DEF Next
<1> QED
  BY <1>1, <1>2, PTL DEF Spec

(* Lines, zones, the descent and the lookup keep their types.              *)
THEOREM TypeCorrect == Spec => []TypeOK
<1>1. IInv => TypeOK
  BY DEF IInv
<1> QED
  BY <1>1, Invariance, PTL

(* ip_zones_add inserts every line where a search by start expects it,     *)
(* whatever the file holds.                                                *)
THEOREM TreeStaysSorted == Spec => []SortedByStart
<1>1. IInv => SortedByStart
  BY DEF IInv
<1> QED
  BY <1>1, Invariance, PTL

(* ip_zones_find gives the zone of the address, and NULL only for an       *)
(* address in no zone, when the ranges of the tree lie apart.              *)
THEOREM LookupIsRight == Spec => []FindIsRight
<1>1. IInv => FindIsRight
  BY DEF IInv
<1> QED
  BY <1>1, Invariance, PTL

-----------------------------------------------------------------------------
(* A file whose ranges lie apart: the tree holds the zones of the lines    *)
(* before i, each once, and the new zone lies apart from all of them.      *)
ZoneLine(j) == j \in DOMAIN file /\ file[j].kind = "zone"

Kept ==
  /\ count = Len(zones) + (IF phase = "insert" THEN 1 ELSE 0)
  /\ phase = "insert" => ZoneLine(i) /\ data = ZoneOf(file[i].net)
  /\ phase = "ready" => i > Len(file)
  /\ \A j \in DOMAIN file : j < i /\ ZoneLine(j) =>
        \E k \in DOMAIN zones : zones[k] = ZoneOf(file[j].net)
  /\ \A k \in DOMAIN zones :
        \E j \in DOMAIN file : j < i /\ ZoneLine(j) /\ zones[k] = ZoneOf(file[j].net)

KeptInv == FileIsClean /\ phase \in {"load", "insert", "ready"} => Kept

LEMMA KeptInit == Init => KeptInv
<1>. SUFFICES ASSUME Init PROVE Kept
  BY DEF KeptInv
<1>1. phase = "load" /\ zones = <<>> /\ count = 0 /\ i = 1
  BY DEF Init
<1>2. file \in Seq(Lines)
  BY SpaceAssumption DEF Init
<1>3. \A j \in DOMAIN file : ~(j < i)
  BY <1>1, <1>2
<1>4. Len(<<>>) = 0 /\ DOMAIN <<>> = {}
  OBVIOUS
<1>. QED BY <1>1, <1>3, <1>4 DEF Kept

(* Two ranges that lie apart do not nest: rbtree_insert has a side for the *)
(* new one at every node.                                                  *)
LEMMA ApartHasASide ==
  ASSUME NEW y \in Zones, NEW z \in Zones, Proper(y), Proper(z), Apart(y, z),
         z.start >= y.start
  PROVE  z.end >= y.end
<1>1. y.start \in Int /\ y.end \in Int /\ z.start \in Int /\ z.end \in Int
  BY ZoneField
<1>. QED BY <1>1 DEF Proper, Apart

LEMMA NoneIsDropped ==
  ASSUME IInv, KeptInv, FileIsClean
  PROVE  ~InsertDrop
<1>. SUFFICES ASSUME InsertDrop PROVE FALSE
  OBVIOUS
<1>1. phase = "insert" /\ data \in Zones /\ lo \in 1..Len(zones)+1 /\ hi \in 0..Len(zones)
      /\ zones \in Seq(Zones) /\ file \in Seq(Lines)
  BY DEF IInv, Inserting, TypeOK, InsertDrop
<1>2. PICK m \in lo..hi : data.start >= zones[m].start /\ ~Past(m)
  BY DEF InsertDrop
<1>3. m \in DOMAIN zones /\ zones[m] \in Zones
  BY <1>1
<1>4. Kept
  BY <1>1 DEF KeptInv
<1>5. PICK j \in DOMAIN file : j < i /\ ZoneLine(j) /\ zones[m] = ZoneOf(file[j].net)
  BY <1>3, <1>4 DEF Kept
<1>6. ZoneLine(i) /\ data = ZoneOf(file[i].net) /\ i # j
  BY <1>1, <1>4, <1>5 DEF Kept
<1>7. Proper(data) /\ Proper(zones[m]) /\ Apart(zones[m], data)
  BY <1>5, <1>6 DEF FileIsClean, FileZones, ZoneLine
<1>8. data.end >= zones[m].end
  BY <1>1, <1>2, <1>3, <1>7, ApartHasASide
<1>. QED BY <1>2, <1>8 DEF Past

LEMMA KeptNext == IInv /\ KeptInv /\ [Next]_vars => KeptInv'
<1>. SUFFICES ASSUME IInv, KeptInv, [Next]_vars,
                     FileIsClean', phase' \in {"load", "insert", "ready"}
              PROVE  Kept'
  BY DEF KeptInv
<1>. USE DEF fileVars
<1>0. UNCHANGED file
  BY DEF vars, Next, Load, Search, Skip, Reject, ReadZone, InsertDescend, InsertDrop,
         InsertPlace, LineDone, Loaded, Find, SearchDescend, SearchFinds, SearchFails, Release
<1>1. FileIsClean
  BY <1>0 DEF FileIsClean, FileZones
<1>t. /\ file \in Seq(Lines) /\ Len(file) \in Nat /\ i \in 1..Len(file)+1
      /\ count \in Nat /\ zones \in Seq(Zones) /\ Len(zones) \in Nat
      /\ DOMAIN zones = 1..Len(zones) /\ DOMAIN file = 1..Len(file)
  BY DEF IInv, TypeOK
<1>2. CASE Skip
  <2>1. /\ UNCHANGED <<zones, count>> /\ phase = "load" /\ phase' = "load"
        /\ i' \in {i, i + 1} /\ ~ZoneLine(i)
    BY <1>2 DEF Skip, Reading, NextLine, ZoneLine
  <2>2. Kept
    BY <1>1, <2>1 DEF KeptInv
  <2>3. \A j \in DOMAIN file : (j < i' /\ ZoneLine(j)) <=> (j < i /\ ZoneLine(j))
    BY <1>t, <2>1
  <2>. QED BY <1>0, <2>1, <2>2, <2>3 DEF Kept, ZoneLine
<1>3. CASE ReadZone
  <2>1. /\ UNCHANGED <<zones, i>> /\ count' = count + 1 /\ data' = ZoneOf(file[i].net)
        /\ phase = "load" /\ phase' = "insert" /\ ZoneLine(i)
    BY <1>3, <1>t DEF ReadZone, Reading, ZoneLine
  <2>2. Kept
    BY <1>1, <2>1 DEF KeptInv
  <2>. QED BY <1>0, <1>t, <2>1, <2>2 DEF Kept, ZoneLine
<1>4. CASE InsertDescend
  <2>1. UNCHANGED <<zones, i, count, data, phase>> /\ phase = "insert"
    BY <1>4 DEF InsertDescend
  <2>2. Kept
    BY <1>1, <2>1 DEF KeptInv
  <2>. QED BY <1>0, <2>1, <2>2 DEF Kept, ZoneLine
<1>5. CASE InsertPlace
  <2>1. /\ phase = "insert" /\ phase' = "load" /\ i' = i + 1 /\ count' = count
        /\ zones' = With(zones, lo, data)
    BY <1>5 DEF InsertPlace, LineDone, NextLine
  <2>2. Kept /\ data \in Zones /\ lo \in 1..Len(zones)+1 /\ lo \in Int
    BY <1>1, <2>1 DEF KeptInv, IInv, Inserting, TypeOK
  <2>3. ZoneLine(i) /\ data = ZoneOf(file[i].net) /\ count = Len(zones) + 1
    BY <2>1, <2>2 DEF Kept
  <2>. DEFINE W == With(zones, lo, data)
  <2>4. /\ W \in Seq(Zones) /\ Len(W) = Len(zones) + 1
        /\ \A j \in 1..Len(zones)+1 :
             W[j] = IF j < lo THEN zones[j] ELSE IF j = lo THEN data ELSE zones[j-1]
    BY <1>t, <2>2, WithType, ZenonT(30)
  <2>5. zones' = W
    BY <2>1
  <2>. HIDE DEF W
  <2>d. DOMAIN W = 1..Len(zones)+1
    BY <2>4, <1>t
  <2>6. ASSUME NEW j \in DOMAIN file, j < i', ZoneLine(j)
        PROVE  \E k \in DOMAIN W : W[k] = ZoneOf(file[j].net)
    <3>1. CASE j = i
      BY <2>2, <2>3, <2>4, <2>d, <3>1
    <3>2. CASE j < i
      <4>1. PICK k \in DOMAIN zones : zones[k] = ZoneOf(file[j].net)
        BY <2>2, <2>6, <3>2 DEF Kept
      <4>2. CASE k < lo
        <5>1. k \in DOMAIN W /\ W[k] = zones[k]
          BY <1>t, <2>4, <2>d, <4>2
        <5>. QED BY <4>1, <5>1
      <4>3. CASE ~(k < lo)
        <5>1. k + 1 \in DOMAIN W /\ W[k + 1] = zones[(k + 1) - 1] /\ (k + 1) - 1 = k
          BY <1>t, <2>2, <2>4, <2>d, <4>3
        <5>. QED BY <4>1, <5>1
      <4>. QED BY <4>2, <4>3
    <3>. QED BY <1>t, <2>1, <2>6, <3>1, <3>2
  <2>7. ASSUME NEW k \in DOMAIN W
        PROVE  \E j \in DOMAIN file : j < i' /\ ZoneLine(j) /\ W[k] = ZoneOf(file[j].net)
    <3>1. CASE k = lo
      <4>1. W[k] = data /\ i \in DOMAIN file /\ i < i'
        BY <1>t, <2>1, <2>3, <2>4, <2>d, <3>1 DEF ZoneLine
      <4>. QED BY <2>3, <4>1
    <3>2. CASE k # lo
      <4>1. PICK l \in DOMAIN zones : W[k] = zones[l]
        <5>1. CASE k < lo
          BY <1>t, <2>2, <2>4, <2>d, <5>1
        <5>2. CASE ~(k < lo)
          <6>1. k - 1 \in DOMAIN zones /\ W[k] = zones[k - 1]
            BY <1>t, <2>2, <2>4, <2>d, <3>2, <5>2
          <6>. QED BY <6>1
        <5>. QED BY <5>1, <5>2
      <4>2. PICK j \in DOMAIN file : j < i /\ ZoneLine(j) /\ zones[l] = ZoneOf(file[j].net)
        BY <2>2 DEF Kept
      <4>3. j < i'
        BY <1>t, <2>1, <4>2
      <4>. QED BY <4>1, <4>2, <4>3
    <3>. QED BY <3>1, <3>2
  <2>8. \A j : ZoneLine(j)' <=> ZoneLine(j)
    BY <1>0 DEF ZoneLine
  <2>9. \A j \in DOMAIN file' : j < i' /\ ZoneLine(j)' =>
          \E k \in DOMAIN zones' : zones'[k] = ZoneOf(file'[j].net)
    BY <1>0, <2>5, <2>6, <2>8
  <2>10. \A k \in DOMAIN zones' : \E j \in DOMAIN file' :
           j < i' /\ ZoneLine(j)' /\ zones'[k] = ZoneOf(file'[j].net)
    BY <1>0, <2>5, <2>7, <2>8
  <2>11. count' = Len(zones')
    BY <2>1, <2>3, <2>4, <2>5
  <2>. QED BY <2>1, <2>9, <2>10, <2>11 DEF Kept, ZoneOf
<1>6. CASE Loaded
  <2>1. /\ UNCHANGED <<zones, i, count>> /\ phase = "load" /\ phase' = "ready"
        /\ i > Len(file)
    BY <1>6 DEF Loaded
  <2>2. Kept
    BY <1>1, <2>1 DEF KeptInv
  <2>. QED BY <1>0, <2>1, <2>2 DEF Kept, ZoneLine
<1>7. CASE UNCHANGED vars
  <2>1. Kept
    BY <1>1, <1>7 DEF KeptInv, vars
  <2>. QED BY <1>7, <2>1 DEF Kept, ZoneLine, vars
<1>8. ~InsertDrop
  BY <1>1, NoneIsDropped
<1>9. ~Reject /\ ~Search /\ ~Release /\ ~(\E a \in Addresses : Find(a))
  BY DEF Reject, Search, SearchDescend, SearchFinds, SearchFails, Release, Find
<1>. QED BY <1>2, <1>3, <1>4, <1>5, <1>6, <1>7, <1>8, <1>9 DEF Next, Load

(* A file whose ranges lie apart loses none of them in ip_zones_load: no   *)
(* node of the tree turns the new zone away, whatever the tree's shape.    *)
THEOREM NoZoneIsLost == Spec => []NothingLost
<1>1. ASSUME IInv, KeptInv PROVE NothingLost
  <2>. SUFFICES ASSUME phase = "ready", FileIsClean
                PROVE  /\ count = Len(zones)
                       /\ \A z \in FileZones : \E k \in DOMAIN zones : zones[k] = z
    BY DEF NothingLost
  <2>1. Kept
    BY <1>1 DEF KeptInv
  <2>2. /\ file \in Seq(Lines) /\ i > Len(file) /\ i \in Int
        /\ Len(zones) \in Nat /\ DOMAIN file = 1..Len(file)
    BY <1>1, <2>1 DEF Kept, IInv, TypeOK
  <2>3. \A j \in DOMAIN file : j < i
    BY <2>2
  <2>. QED BY <2>1, <2>2, <2>3 DEF Kept, FileZones, ZoneLine
<1>2. Spec => []KeptInv
  BY KeptInit, KeptNext, Invariance, PTL DEF Spec
<1>. QED BY <1>1, <1>2, Invariance, PTL
=============================================================================
