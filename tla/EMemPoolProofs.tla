--------------------------- MODULE EMemPoolProofs ----------------------------
(***************************************************************************)
(* Proofs about EMemPool, for every page size, alignment and sequence of   *)
(* requests: the blocks of mem_pool_alloc never overlap and stay in their  *)
(* pages, and a request is never searched for in more than MaxFailed       *)
(* pages.                                                                  *)
(*                                                                         *)
(* Two arguments are needed.  For the blocks: everything handed out of a   *)
(* page lies below its `last'.  For the search: a page is charged for      *)
(* every page that is appended while it is still searched, and the earlier *)
(* of two pages that are still searched is never charged less.             *)
(***************************************************************************)
EXTENDS EMemPool, SequenceTheorems, FiniteSetTheorems, TLAPS

PageType == [last : 0..PageSize, failed : Nat]

(* The pages from position c on.                                           *)
From(c) == IF c = 0 THEN {} ELSE c..Len(pages)

Failures ==
  /\ CurrentDivides
  /\ \A i \in Searched : pages[i].failed >= Len(pages) - i
  /\ \A i, j \in Searched : i < j => pages[i].failed >= pages[j].failed

BlocksBelowLast ==
  /\ \A i \in DOMAIN pages : HeaderEnd(i) <= pages[i].last
  /\ \A k \in DOMAIN blocks :
        blocks[k].at + blocks[k].size <= pages[blocks[k].page].last

IInv ==
  /\ TypeOK
  /\ phase = "none" <=> pages = <<>>
  /\ Failures
  /\ BlocksBelowLast /\ BlocksInPage /\ BlocksApart

-----------------------------------------------------------------------------
(* Arithmetic.                                                             *)
LEMMA DivMod ==
  ASSUME NEW n \in Nat, NEW a \in Nat \ {0}
  PROVE  n = a * (n \div a) + (n % a) /\ n \div a \in Nat /\ n % a \in 0..a-1
  BY SMTT(30)

LEMMA MultipleMod ==
  ASSUME NEW k \in Nat, NEW a \in Nat \ {0}  PROVE (a * k) % a = 0
  BY SMTT(30)

LEMMA InWider ==
  ASSUME NEW m \in Nat, NEW n \in Nat, m <= n, NEW x \in 1..m  PROVE x \in 1..n
  OBVIOUS

LEMMA LastResidue ==
  ASSUME NEW n \in Nat, NEW a \in Nat \ {0}, n % a = 0
  PROVE  (n + a - 1) % a = a - 1
  BY SMTT(30)

(* ALIGN_PTR yields the next aligned address.                              *)
LEMMA AlignUpIs ==
  ASSUME NEW n \in Nat
  PROVE  AlignUp(n) \in Nat /\ n <= AlignUp(n) /\ AlignUp(n) % Alignment = 0
<1> DEFINE m == n + Alignment - 1
           k == m \div Alignment
           r == m % Alignment
<1>1. m \in Nat
  BY MemPoolAssumption
<1>2. m = Alignment * k + r /\ k \in Nat /\ r \in 0..Alignment-1
  BY <1>1, DivMod, MemPoolAssumption
<1>3. (Alignment * k) % Alignment = 0
  BY <1>2, MultipleMod, MemPoolAssumption
<1>4. AlignUp(n) = m - r
  BY DEF AlignUp
<1>5. Alignment * k \in Nat
  BY <1>2, MemPoolAssumption
<1>6. n <= m - r
  BY <1>2, MemPoolAssumption
<1> HIDE DEF m, k, r
<1>7. m - r = Alignment * k
  BY <1>1, <1>2, <1>5, MemPoolAssumption
<1> QED
  BY <1>3, <1>4, <1>5, <1>6, <1>7

LEMMA AlignedHeader == AlignUp(PageHeader) = PageHeader
<1>1. (PageHeader + Alignment - 1) % Alignment = Alignment - 1
  BY MemPoolAssumption, LastResidue
<1> QED
  BY <1>1, MemPoolAssumption DEF AlignUp

-----------------------------------------------------------------------------
(* The search.                                                             *)
LEMMA PagesType ==
  ASSUME TypeOK
  PROVE  /\ pages \in Seq(PageType) /\ Len(pages) \in Nat
         /\ DOMAIN pages = 1..Len(pages) /\ current \in Nat
         /\ \A i \in 1..Len(pages) :
               /\ pages[i] \in PageType
               /\ pages[i].last \in 0..PageSize /\ pages[i].failed \in Nat
<1>1. pages \in Seq(PageType) /\ Len(pages) \in Nat /\ DOMAIN pages = 1..Len(pages)
  BY DEF TypeOK, PageType
<1>2. ASSUME NEW i \in 1..Len(pages) PROVE pages[i] \in PageType
  BY <1>1
<1>3. ASSUME NEW r \in PageType PROVE r.last \in 0..PageSize /\ r.failed \in Nat
  BY DEF PageType
<1>4. current \in Nat
  BY <1>1 DEF TypeOK
<1> QED
  BY <1>1, <1>2, <1>3, <1>4

LEMMA ChargedIs ==
  ASSUME TypeOK, NEW size
  PROVE  /\ Charged(size) \in Seq(PageType) /\ Len(Charged(size)) = Len(pages)
         /\ \A i \in 1..Len(pages) :
               /\ Charged(size)[i].last = pages[i].last
               /\ i \in Tried(size) =>
                     Charged(size)[i].failed = pages[i].failed + 1
               /\ i \notin Tried(size) =>
                     Charged(size)[i].failed = pages[i].failed
<1> USE PagesType
<1>1. ASSUME NEW r \in PageType
      PROVE  [r EXCEPT !.failed = @ + 1] = [last |-> r.last, failed |-> r.failed + 1]
  BY DEF PageType
<1>2. ASSUME NEW i \in 1..Len(pages)
      PROVE  Charged(size)[i] =
               IF i \in Tried(size)
               THEN [last |-> pages[i].last, failed |-> pages[i].failed + 1]
               ELSE pages[i]
  BY <1>1 DEF Charged
<1>3. ASSUME NEW i \in 1..Len(pages) PROVE Charged(size)[i] \in PageType
  <2>1. [last |-> pages[i].last, failed |-> pages[i].failed + 1] \in PageType
    BY DEF PageType
  <2> QED
    BY <1>2, <2>1
<1>4. DOMAIN Charged(size) = 1..Len(pages)
  BY DEF Charged
<1>5. Charged(size) = [i \in 1..Len(pages) |-> Charged(size)[i]]
  BY <1>4 DEF Charged
<1>6. Charged(size) \in Seq(PageType)
  BY <1>3, <1>5
<1> QED
  BY <1>2, <1>4, <1>6

(* The pages a search turns down, and those it turns down for good, are    *)
(* the first ones it looks at.                                             *)
LEMMA SpentFirst ==
  ASSUME TypeOK, Failures, NEW size,
         NEW i \in Searched, NEW j \in Searched, j < i
  PROVE  /\ i \in Tried(size) => j \in Tried(size)
         /\ i \in Spent(size) => j \in Spent(size)
<1>1. i \in 1..Len(pages) /\ j \in 1..Len(pages)
  BY PagesType DEF Searched
<1>2. \A k \in Roomy(size) : k \in 1..Len(pages)
  BY PagesType DEF Roomy, Searched
<1>3. i \in Tried(size) => j \in Tried(size)
  BY <1>1, <1>2, PagesType DEF Tried
<1>4. pages[j].failed >= pages[i].failed
  BY DEF Failures
<1> QED
  BY <1>1, <1>3, <1>4, PagesType, MemPoolAssumption DEF Spent

(* The next search begins behind the pages that were turned down for good. *)
LEMMA SearchMoves ==
  ASSUME TypeOK, Failures, NEW size, NEW c, SearchLeaves(size, c)
  PROVE  c \in 0..Len(pages) /\ From(c) = Searched \ Spent(size)
<1>1. CASE Spent(size) = {} /\ c = current
  BY <1>1 DEF From, Searched, TypeOK
<1>2. CASE \E i \in Spent(size) : (\A j \in Spent(size) : j <= i) /\ c = NextOf(i)
  <2>1. PICK i \in Spent(size) : (\A j \in Spent(size) : j <= i) /\ c = NextOf(i)
    BY <1>2
  <2>2. Spent(size) \subseteq Searched
    BY DEF Spent, Tried
  <2>3. current # 0 /\ current \in Nat /\ i \in current..Len(pages)
        /\ Searched = current..Len(pages) /\ Len(pages) \in Nat
    BY <2>1, <2>2, PagesType DEF Searched
  <2>4. Spent(size) = current..i
    <3>1. ASSUME NEW j \in Spent(size) PROVE j \in current..i
      BY <2>1, <2>2, <2>3, <3>1
    <3>2. ASSUME NEW j \in current..i PROVE j \in Spent(size)
      <4>1. j \in Searched /\ i \in Searched
        BY <2>3
      <4>2. CASE j = i
        BY <2>1, <4>2
      <4>3. CASE j < i
        BY <2>1, <4>1, <4>3, SpentFirst
      <4> QED
        BY <2>3, <4>2, <4>3
    <3> QED
      BY <3>1, <3>2
  <2>5. CASE i = Len(pages)
    BY <2>1, <2>3, <2>4, <2>5 DEF NextOf, From
  <2>6. CASE i # Len(pages)
    <3>1. c = i + 1 /\ i + 1 <= Len(pages)
      BY <2>1, <2>3, <2>6 DEF NextOf
    <3>2. From(c) = i+1..Len(pages)
      BY <2>3, <3>1 DEF From
    <3>3. (current..Len(pages)) \ (current..i) = i+1..Len(pages)
      BY <2>3
    <3> QED
      BY <2>3, <2>4, <3>1, <3>2, <3>3
  <2> QED
    BY <2>5, <2>6
<1> QED
  BY <1>1, <1>2 DEF SearchLeaves

(* What a search does to the pages leaves the failures in order.           *)
LEMMA FailuresCharged ==
  ASSUME TypeOK, Failures, NEW size, NEW c \in 0..Len(pages),
         SearchLeaves(size, c), current' = c, Len(pages') = Len(pages),
         pages' \in Seq(PageType),
         \A i \in 1..Len(pages) : pages'[i].failed = Charged(size)[i].failed
  PROVE  Failures'
<1>1. From(c) = Searched \ Spent(size) /\ Searched' = From(c)
  BY SearchMoves DEF From, Searched
<1>2. DOMAIN pages' = 1..Len(pages) /\ Searched \subseteq 1..Len(pages)
  BY PagesType DEF Searched
<1>3. ASSUME NEW i \in 1..Len(pages)
      PROVE  i \in Searched' <=> pages'[i].failed < MaxFailed
  <2>1. i \in Searched <=> pages[i].failed < MaxFailed
    BY PagesType DEF Failures, CurrentDivides
  <2>2. CASE i \in Tried(size)
    <3>1. pages'[i].failed = pages[i].failed + 1 /\ i \in Searched
      BY <2>2, ChargedIs DEF Tried
    <3>2. i \in Spent(size) <=> pages[i].failed + 1 >= MaxFailed
      BY <2>2 DEF Spent
    <3> QED
      BY <1>1, <3>1, <3>2, PagesType, MemPoolAssumption
  <2>3. CASE i \notin Tried(size)
    <3>1. pages'[i].failed = pages[i].failed /\ i \notin Spent(size)
      BY <2>3, ChargedIs DEF Spent
    <3> QED
      BY <1>1, <2>1, <3>1
  <2> QED
    BY <2>2, <2>3
<1>4. ASSUME NEW i \in Searched' PROVE pages'[i].failed >= Len(pages') - i
  <2>1. i \in Searched /\ i \in 1..Len(pages)
    BY <1>1, <1>2
  <2>2. pages[i].failed >= Len(pages) - i
    BY <2>1 DEF Failures
  <2>3. pages'[i].failed \in Nat /\ pages'[i].failed >= pages[i].failed
    BY <2>1, ChargedIs, PagesType, SMTT(20)
  <2>4. pages[i].failed \in Nat /\ Len(pages) \in Nat /\ i \in Nat
    BY <2>1, PagesType
  <2> QED
    BY <2>2, <2>3, <2>4
<1>5. ASSUME NEW i \in Searched', NEW j \in Searched', i < j
      PROVE  pages'[i].failed >= pages'[j].failed
  <2>1. i \in Searched /\ i \in 1..Len(pages) /\ j \in Searched /\ j \in 1..Len(pages)
    BY <1>1, <1>2
  <2>2. pages[i].failed >= pages[j].failed
    BY <1>5, <2>1 DEF Failures
  <2>3. j \in Tried(size) => i \in Tried(size)
    BY <1>5, <2>1, SpentFirst
  <2> QED
    BY <2>1, <2>2, <2>3, ChargedIs, PagesType
<1> QED
  BY <1>2, <1>3, <1>4, <1>5 DEF Failures, CurrentDivides

(* A page is appended only after every page was searched and charged.      *)
LEMMA FailuresGrown ==
  ASSUME TypeOK, Failures, NEW size, NEW c \in 0..Len(pages),
         SearchLeaves(size, c), Roomy(size) = {},
         current' = IF c = 0 THEN Len(pages) + 1 ELSE c,
         pages' \in Seq(PageType), Len(pages') = Len(pages) + 1,
         \A i \in 1..Len(pages) : pages'[i].failed = Charged(size)[i].failed,
         pages'[Len(pages) + 1].failed = 0
  PROVE  Failures'
<1> DEFINE new == Len(pages) + 1
<1>1. From(c) = Searched \ Spent(size) /\ c \in Nat
  BY SearchMoves, PagesType
<1>2. /\ DOMAIN pages' = 1..new /\ new \in Nat
      /\ Searched \subseteq 1..Len(pages) /\ new \notin Searched
  BY PagesType DEF Searched
<1>3. Searched' = From(c) \cup {new}
  <2>1. CASE c = 0
    BY <2>1, PagesType DEF From, Searched
  <2>2. CASE c # 0
    BY <1>1, <2>2, PagesType DEF From, Searched
  <2> QED
    BY <2>1, <2>2
<1>4. ASSUME NEW i \in Searched
      PROVE  /\ i \in Tried(size) /\ i \in 1..Len(pages)
             /\ pages'[i].failed = pages[i].failed + 1
  <2>1. i \in Tried(size) /\ i \in 1..Len(pages)
    BY <1>2 DEF Tried
  <2> QED
    BY <2>1, ChargedIs
<1>5. ASSUME NEW i \in 1..new
      PROVE  i \in Searched' <=> pages'[i].failed < MaxFailed
  <2>1. CASE i = new
    BY <1>3, <2>1, MemPoolAssumption
  <2>2. CASE i # new /\ i \in Searched
    <3>1. pages'[i].failed = pages[i].failed + 1
      BY <1>4, <2>2
    <3>2. i \in Spent(size) <=> pages[i].failed + 1 >= MaxFailed
      BY <1>4, <2>2 DEF Spent
    <3>3. i \in 1..Len(pages)
      BY <1>4, <2>2
    <3> QED
      BY <1>1, <1>3, <2>2, <3>1, <3>2, <3>3, PagesType, MemPoolAssumption
  <2>3. CASE i # new /\ i \notin Searched
    <3>1. i \in 1..Len(pages) /\ i \notin Tried(size)
      BY <1>2, <2>3 DEF Tried
    <3>2. pages'[i].failed = pages[i].failed
      BY <3>1, ChargedIs
    <3>3. ~(pages[i].failed < MaxFailed)
      BY <2>3, <3>1, PagesType DEF Failures, CurrentDivides
    <3> QED
      BY <1>1, <1>3, <2>3, <3>2, <3>3
  <2> QED
    BY <2>1, <2>2, <2>3
<1>6. ASSUME NEW i \in Searched' PROVE pages'[i].failed >= Len(pages') - i
  <2>1. CASE i = new
    BY <1>2, <2>1
  <2>2. CASE i \in Searched
    <3>1. pages[i].failed >= Len(pages) - i
      BY <2>2 DEF Failures
    <3> QED
      BY <1>4, <2>2, <3>1, PagesType
  <2> QED
    BY <1>1, <1>3, <2>1, <2>2
<1>7. ASSUME NEW i \in Searched', NEW j \in Searched', i < j
      PROVE  pages'[i].failed >= pages'[j].failed
  <2>1. i \in Searched /\ i \in 1..Len(pages) /\ pages'[i].failed = pages[i].failed + 1
    <3>1. i \in Searched \/ i = new
      BY <1>1, <1>3
    <3>2. j \in 1..new
      <4>1. j \in Searched \/ j = new
        BY <1>1, <1>3
      <4>2. new \in 1..new /\ \A k \in 1..Len(pages) : k \in 1..new
        BY PagesType
      <4> QED
        BY <1>2, <4>1, <4>2
    <3> QED
      BY <1>2, <1>4, <1>7, <3>1, <3>2
  <2>2. CASE j = new
    BY <2>1, <2>2, PagesType
  <2>3. CASE j \in Searched
    <3>1. pages[i].failed >= pages[j].failed
      BY <1>7, <2>1, <2>3 DEF Failures
    <3> QED
      BY <1>4, <2>1, <2>3, <3>1, PagesType
  <2> QED
    BY <1>1, <1>3, <2>2, <2>3
<1> QED
  BY <1>2, <1>5, <1>6, <1>7 DEF Failures, CurrentDivides

-----------------------------------------------------------------------------
(* The blocks.                                                             *)
LEMMA InitInv == Init => IInv
<1> SUFFICES ASSUME Init PROVE IInv
  OBVIOUS
<1>1. TypeOK
  BY DEF Init, TypeOK
<1>2. Failures
  BY DEF Init, Failures, CurrentDivides, Searched
<1>3. BlocksBelowLast /\ BlocksInPage /\ BlocksApart
  BY DEF Init, BlocksBelowLast, BlocksInPage, BlocksApart
<1> QED
  BY <1>1, <1>2, <1>3 DEF Init, IInv

BlockType == [page : 1..Len(pages), at : 0..PageSize, size : Requests]

LEMMA BlocksType ==
  ASSUME TypeOK
  PROVE  /\ blocks \in Seq(BlockType) /\ Len(blocks) \in Nat
         /\ DOMAIN blocks = 1..Len(blocks)
         /\ \A k \in 1..Len(blocks) :
               /\ blocks[k] \in BlockType
               /\ blocks[k].page \in 1..Len(pages)
               /\ blocks[k].at \in Nat /\ blocks[k].size \in Nat
<1>1. blocks \in Seq(BlockType) /\ Len(blocks) \in Nat /\ DOMAIN blocks = 1..Len(blocks)
  BY DEF TypeOK, BlockType
<1>2. ASSUME NEW k \in 1..Len(blocks) PROVE blocks[k] \in BlockType
  BY <1>1
<1>3. ASSUME NEW b \in BlockType
      PROVE  b.page \in 1..Len(pages) /\ b.at \in Nat /\ b.size \in Nat
  <2>1. b.page \in 1..Len(pages) /\ b.at \in 0..PageSize /\ b.size \in Requests
    BY DEF BlockType
  <2>2. b.at \in Nat
    BY <2>1, MemPoolAssumption
  <2>3. b.size \in Nat
    BY <2>1, MemPoolAssumption
  <2> QED
    BY <2>1, <2>2, <2>3
<1> QED
  BY <1>1, <1>2, <1>3

(* A block cut from page i between its old and its new `last' joins the    *)
(* others without touching them.                                           *)
LEMMA BlockCut ==
  ASSUME IInv, NEW i \in Nat, NEW at \in Nat, NEW size \in Requests,
         pages' \in Seq(PageType), Len(pages') >= Len(pages), i \in 1..Len(pages'),
         \A k \in 1..Len(pages) : k # i => pages'[k].last = pages[k].last,
         i \in 1..Len(pages) => pages[i].last <= at,
         Len(pages') > Len(pages) => Len(pages') = Len(pages) + 1 /\ i = Len(pages'),
         pages'[i].last = at + size, at + size <= PageSize,
         HeaderEnd(i) <= at, at % Alignment = 0,
         blocks' = Append(blocks, Block(i, at, size))
  PROVE  /\ blocks' \in Seq([page : 1..Len(pages'), at : 0..PageSize, size : Requests])
         /\ BlocksBelowLast' /\ BlocksInPage' /\ BlocksApart'
<1> DEFINE n == Len(blocks)  b == Block(i, at, size)
<1>1. TypeOK /\ size \in Nat /\ PageSize \in Nat /\ n \in Nat
  BY BlocksType, MemPoolAssumption DEF IInv
<1>2. /\ Len(blocks') = n + 1 /\ DOMAIN blocks' = 1..n+1
      /\ blocks'[n + 1] = b /\ \A k \in 1..n : blocks'[k] = blocks[k]
  BY <1>1, BlocksType
<1>3. b.page = i /\ b.at = at /\ b.size = size
  BY DEF Block
<1>4. DOMAIN pages' = 1..Len(pages') /\ Len(pages') \in Nat /\ Len(pages) \in Nat
  BY <1>1, PagesType
<1>5. ASSUME NEW k \in 1..n PROVE blocks[k].page \in 1..Len(pages')
  <2>1. blocks[k].page \in 1..Len(pages)
    BY <1>1, BlocksType
  <2>2. Len(pages) <= Len(pages')
    BY <1>4
  <2> QED
    BY <1>4, <2>1, <2>2, InWider
<1>6. blocks' \in Seq([page : 1..Len(pages'), at : 0..PageSize, size : Requests])
  <2> DEFINE T == [page : 1..Len(pages'), at : 0..PageSize, size : Requests]
  <2>1. b \in T
    BY <1>1 DEF Block
  <2>2. ASSUME NEW k \in 1..n PROVE blocks[k] \in T
    <3>1. blocks[k] \in BlockType /\ blocks[k].page \in 1..Len(pages')
      BY <1>1, <1>5, BlocksType
    <3> QED
      BY <3>1 DEF BlockType
  <2> HIDE DEF T
  <2>3. blocks \in Seq(T)
    <3>1. blocks = [k \in 1..n |-> blocks[k]]
      BY <1>1, BlocksType
    <3> QED
      BY <1>1, <2>2, <3>1
  <2>4. Append(blocks, b) \in Seq(T)
    BY <2>1, <2>3
  <2> QED
    BY <2>4 DEF T
<1>7. ASSUME NEW k \in 1..Len(pages), NEW e \in Nat, e <= pages[k].last
      PROVE  e <= pages'[k].last
  <2>1. pages[k].last \in Nat
    BY <1>1, PagesType
  <2> QED
    BY <1>1, <1>7, <2>1
<1>8. \A k \in 1..n : /\ blocks[k].at \in Nat /\ blocks[k].size \in Nat
                        /\ blocks[k].page \in 1..Len(pages)
                        /\ blocks[k].at + blocks[k].size <= pages[blocks[k].page].last
  BY <1>1, BlocksType DEF IInv, BlocksBelowLast
<1>9. BlocksBelowLast'
  <2>1. ASSUME NEW k \in 1..Len(pages') PROVE HeaderEnd(k) <= pages'[k].last
    <3>1. HeaderEnd(k) \in Nat
      BY MemPoolAssumption DEF HeaderEnd
    <3>2. CASE k = i
      BY <1>1, <3>1, <3>2
    <3>3. CASE k # i
      <4>1. k \in 1..Len(pages)
        <5>1. CASE Len(pages') = Len(pages)
          BY <5>1
        <5>2. CASE Len(pages') # Len(pages)
          <6> DEFINE m == Len(pages)  l == Len(pages')
          <6>1. l > m
            <7>1. l \in Nat /\ m \in Nat /\ l >= m /\ l # m
              BY <1>4, <5>2
            <7> HIDE DEF l, m
            <7> QED
              BY <7>1
          <6>2. Len(pages') = Len(pages) + 1 /\ i = Len(pages) + 1
            BY <6>1
          <6> QED
            BY <1>4, <3>3, <6>2
        <5> QED
          BY <5>1, <5>2
      <4>2. HeaderEnd(k) <= pages[k].last
        BY <1>1, <4>1, PagesType DEF IInv, BlocksBelowLast
      <4> QED
        BY <1>7, <3>1, <4>1, <4>2
    <3> QED
      BY <3>2, <3>3
  <2>2. ASSUME NEW k \in 1..n+1
        PROVE  blocks'[k].at + blocks'[k].size <= pages'[blocks'[k].page].last
    <3>1. CASE k = n + 1
      BY <1>1, <1>2, <1>3, <3>1
    <3>2. CASE k \in 1..n
      <4>1. blocks[k].at + blocks[k].size \in Nat
        BY <1>8, <3>2
      <4> QED
        BY <1>2, <1>7, <1>8, <3>2, <4>1
    <3> QED
      BY <1>1, <3>1, <3>2
  <2> QED
    BY <1>2, <1>4, <2>1, <2>2 DEF BlocksBelowLast, HeaderEnd
<1>10. BlocksInPage'
  <2>1. ASSUME NEW k \in 1..n+1
        PROVE  /\ HeaderEnd(blocks'[k].page) <= blocks'[k].at
               /\ blocks'[k].at + blocks'[k].size <= PageSize
               /\ blocks'[k].at % Alignment = 0
    <3>1. CASE k = n + 1
      BY <1>2, <1>3, <3>1
    <3>2. CASE k \in 1..n
      BY <1>1, <1>2, <3>2, BlocksType DEF IInv, BlocksInPage
    <3> QED
      BY <1>1, <3>1, <3>2
  <2> QED
    BY <1>2, <2>1 DEF BlocksInPage, HeaderEnd
<1>11. BlocksApart'
  <2>1. ASSUME NEW k \in 1..n PROVE Apart(blocks[k], b) /\ Apart(b, blocks[k])
    <3>1. CASE blocks[k].page # i
      BY <1>3, <3>1 DEF Apart
    <3>2. CASE blocks[k].page = i
      <4>1. pages[i].last <= at /\ pages[i].last \in Nat
        BY <1>1, <1>8, <3>2, PagesType
      <4>2. blocks[k].at + blocks[k].size <= at
        BY <1>8, <3>2, <4>1, SMTT(20)
      <4> QED
        BY <1>3, <4>2 DEF Apart
    <3> QED
      BY <3>1, <3>2
  <2>2. ASSUME NEW k \in 1..n, NEW l \in 1..n, k # l PROVE Apart(blocks[k], blocks[l])
    BY <1>1, <2>2, BlocksType DEF IInv, BlocksApart
  <2>3. ASSUME NEW k \in 1..n+1, NEW l \in 1..n+1, k # l
        PROVE  Apart(blocks'[k], blocks'[l])
    BY <1>1, <1>2, <2>1, <2>2, <2>3
  <2> QED
    BY <1>2, <2>3 DEF BlocksApart, Apart
<1> QED
  BY <1>6, <1>9, <1>10, <1>11

-----------------------------------------------------------------------------
(* The operations.                                                         *)
LEMMA CreateInv ==
  ASSUME IInv, Create  PROVE IInv'
<1> USE MemPoolAssumption
<1>1. pages = <<>> /\ TypeOK
  BY DEF IInv, Create
<1>2. blocks = <<>>
  <2>1. Len(pages) = 0
    BY <1>1
  <2>2. Len(blocks) = 0
    <3>1. ASSUME Len(blocks) # 0 PROVE FALSE
      <4>1. 1 \in 1..Len(blocks)
        BY <1>1, <3>1, BlocksType
      <4>2. blocks[1].page \in 1..0
        BY <1>1, <2>1, <4>1, BlocksType
      <4> QED
        BY <4>2
    <3> QED
      BY <3>1
  <2> QED
    BY <1>1, <2>2, BlocksType
<1>3. /\ pages' = <<Page(PoolHeader + PageHeader)>> /\ current' = 1
      /\ blocks' = <<>> /\ phase' = "live"
  BY <1>2 DEF Create
<1>4. /\ Len(pages') = 1 /\ DOMAIN pages' = {1}
      /\ pages'[1] = [last |-> PoolHeader + PageHeader, failed |-> 0]
  BY <1>3 DEF Page
<1>5. Page(PoolHeader + PageHeader) \in PageType
  BY DEF Page, PageType
<1>6. TypeOK'
  <2>1. pages' \in Seq(PageType)
    BY <1>3, <1>5
  <2>2. blocks' \in Seq([page : 1..Len(pages'), at : 0..PageSize, size : Requests])
    BY <1>3
  <2>3. current' \in 0..Len(pages')
    BY <1>3, <1>4
  <2> QED
    BY <1>3, <2>1, <2>2, <2>3 DEF TypeOK, PageType
<1>7. Failures'
  <2>1. Searched' = {1}
    BY <1>3, <1>4 DEF Searched
  <2> QED
    BY <1>4, <2>1 DEF Failures, CurrentDivides
<1>8. BlocksBelowLast' /\ BlocksInPage' /\ BlocksApart'
  BY <1>3, <1>4 DEF BlocksBelowLast, BlocksInPage, BlocksApart, HeaderEnd
<1> QED
  BY <1>3, <1>6, <1>7, <1>8 DEF IInv

LEMMA FoundInv ==
  ASSUME IInv, NEW size \in Requests, AllocFound(size)  PROVE IInv'
<1>1. PICK i \in Roomy(size) :
         /\ pages' = [Charged(size) EXCEPT ![i].last = AlignUp(pages[i].last) + size]
         /\ blocks' = Append(blocks, Block(i, AlignUp(pages[i].last), size))
  BY DEF AllocFound
<1>2. PICK c \in 0..Len(pages) : SearchLeaves(size, c) /\ current' = c
  BY DEF AllocFound
<1> DEFINE at == AlignUp(pages[i].last)
<1>3. TypeOK /\ Failures /\ PageSize \in Nat /\ size \in Nat /\ phase' = phase /\ phase = "live"
  BY MemPoolAssumption DEF IInv, AllocFound
<1>4. i \in Searched /\ i \in 1..Len(pages) /\ i \in Nat /\ Len(pages) \in Nat
  BY <1>1, <1>3, PagesType DEF Roomy, Searched
<1>5. pages[i].last \in Nat
  BY <1>3, <1>4, PagesType
<1>6. at \in Nat /\ pages[i].last <= at /\ at % Alignment = 0
  BY <1>5, AlignUpIs
<1>7. PageSize - at >= size
  BY <1>1 DEF Roomy, Fits
<1> HIDE DEF at
<1>8. at + size \in 0..PageSize
  BY <1>3, <1>6, <1>7
<1>9. /\ pages' \in Seq(PageType) /\ Len(pages') = Len(pages)
      /\ \A k \in 1..Len(pages) : pages'[k].failed = Charged(size)[k].failed
      /\ \A k \in 1..Len(pages) : k # i => pages'[k].last = pages[k].last
      /\ pages'[i].last = at + size
  <2> DEFINE ch == Charged(size)
  <2>1. /\ ch \in Seq(PageType) /\ Len(ch) = Len(pages)
        /\ \A k \in 1..Len(pages) : ch[k].last = pages[k].last
    BY <1>3, ChargedIs
  <2>2. pages' = [ch EXCEPT ![i] = [ch[i] EXCEPT !.last = at + size]]
    BY <1>1 DEF at
  <2> HIDE DEF ch
  <2>3. ch[i] \in PageType
    BY <1>4, <2>1
  <2>4. /\ [ch[i] EXCEPT !.last = at + size] \in PageType
        /\ [ch[i] EXCEPT !.last = at + size].last = at + size
        /\ [ch[i] EXCEPT !.last = at + size].failed = ch[i].failed
    BY <1>8, <2>3 DEF PageType
  <2>5. pages' \in Seq(PageType) /\ Len(pages') = Len(pages)
    BY <1>4, <2>1, <2>2, <2>4
  <2>6. pages'[i] = [ch[i] EXCEPT !.last = at + size]
    BY <1>4, <2>1, <2>2
  <2>7. \A k \in 1..Len(pages) : k # i => pages'[k] = ch[k]
    BY <1>4, <2>1, <2>2
  <2> QED
    BY <2>1, <2>4, <2>5, <2>6, <2>7 DEF ch
<1>10. Failures'
  BY <1>2, <1>3, <1>9, FailuresCharged
<1>11. HeaderEnd(i) <= at
  <2>1. HeaderEnd(i) <= pages[i].last
    BY <1>3, <1>4, PagesType DEF IInv, BlocksBelowLast
  <2>2. HeaderEnd(i) \in Nat
    BY MemPoolAssumption DEF HeaderEnd
  <2> QED
    BY <1>5, <1>6, <2>1, <2>2
<1>12. /\ blocks' \in Seq([page : 1..Len(pages'), at : 0..PageSize, size : Requests])
       /\ BlocksBelowLast' /\ BlocksInPage' /\ BlocksApart'
  <2>1. blocks' = Append(blocks, Block(i, at, size))
    BY <1>1 DEF at
  <2>2. at + size <= PageSize
    BY <1>3, <1>6, <1>8
  <2>3. Len(pages') >= Len(pages) /\ ~(Len(pages') > Len(pages)) /\ i \in 1..Len(pages')
    BY <1>4, <1>9
  <2> QED
    BY <1>4, <1>6, <1>9, <1>11, <2>1, <2>2, <2>3, BlockCut
<1>13. TypeOK'
  BY <1>2, <1>3, <1>9, <1>12 DEF TypeOK, PageType
<1>14. pages' # <<>>
  BY <1>4, <1>9
<1> QED
  BY <1>3, <1>10, <1>12, <1>13, <1>14 DEF IInv

LEMMA GrowInv ==
  ASSUME IInv, NEW size \in Requests, AllocGrow(size)  PROVE IInv'
<1> DEFINE at == AlignUp(PageHeader)
           i == Len(pages) + 1
<1>1. /\ pages' = Append(Charged(size), Page(at + size))
      /\ blocks' = Append(blocks, Block(i, at, size))
      /\ Roomy(size) = {} /\ phase' = phase /\ phase = "live"
  BY DEF AllocGrow
<1>2. PICK c \in 0..Len(pages) :
        SearchLeaves(size, c) /\ current' = IF c = 0 THEN i ELSE c
  BY DEF AllocGrow
<1>3. at = PageHeader /\ at \in Nat /\ at % Alignment = 0
  BY AlignedHeader, MemPoolAssumption
<1>4. TypeOK /\ Failures /\ PageSize \in Nat /\ size \in Nat
  BY MemPoolAssumption DEF IInv
<1>5. Len(pages) \in Nat /\ i \in Nat /\ i = Len(pages) + 1
  BY <1>4, PagesType
<1>6. ~(size > PageSize - PageHeader) /\ PageHeader \in Nat
  BY MemPoolAssumption DEF AllocGrow, TooLarge
<1> HIDE DEF at, i
<1>7. at + size \in 0..PageSize
  BY <1>3, <1>4, <1>6
<1>8. /\ pages' \in Seq(PageType) /\ Len(pages') = i
      /\ \A k \in 1..Len(pages) : pages'[k].failed = Charged(size)[k].failed
      /\ \A k \in 1..Len(pages) : pages'[k].last = pages[k].last
      /\ pages'[i].last = at + size /\ pages'[i].failed = 0
  <2> DEFINE ch == Charged(size)  new == Page(at + size)
  <2>1. /\ ch \in Seq(PageType) /\ Len(ch) = Len(pages)
        /\ \A k \in 1..Len(pages) : ch[k].last = pages[k].last
    BY <1>4, ChargedIs
  <2>2. new \in PageType /\ new.last = at + size /\ new.failed = 0
    BY <1>7 DEF Page, PageType
  <2>3. pages' = Append(ch, new)
    BY <1>1
  <2> HIDE DEF ch, new
  <2>4. /\ pages' \in Seq(PageType) /\ Len(pages') = i /\ pages'[i] = new
        /\ \A k \in 1..Len(pages) : pages'[k] = ch[k]
    BY <1>5, <2>1, <2>2, <2>3
  <2> QED
    BY <2>1, <2>2, <2>4 DEF ch
<1>9. Failures'
  <2>1. current' = IF c = 0 THEN Len(pages) + 1 ELSE c
    BY <1>2 DEF i
  <2> QED
    BY <1>1, <1>2, <1>4, <1>5, <1>8, <2>1, FailuresGrown
<1>10. HeaderEnd(i) <= at
  <2>1. Len(pages) # 0
    BY <1>1, <1>4, PagesType DEF IInv
  <2> QED
    BY <1>3, <1>5, <2>1 DEF HeaderEnd
<1>11. /\ blocks' \in Seq([page : 1..Len(pages'), at : 0..PageSize, size : Requests])
       /\ BlocksBelowLast' /\ BlocksInPage' /\ BlocksApart'
  <2>1. at + size <= PageSize
    BY <1>3, <1>4, <1>7
  <2>2. /\ Len(pages') >= Len(pages) /\ i \in 1..Len(pages') /\ i \notin 1..Len(pages)
        /\ Len(pages') = Len(pages) + 1 /\ i = Len(pages')
    BY <1>5, <1>8
  <2> QED
    BY <1>1, <1>3, <1>5, <1>8, <1>10, <2>1, <2>2, BlockCut
<1>12. TypeOK'
  <2>1. current' \in 0..Len(pages')
    BY <1>2, <1>5, <1>8
  <2> QED
    BY <1>1, <1>8, <1>11, <2>1 DEF TypeOK, PageType
<1>13. pages' # <<>>
  BY <1>5, <1>8
<1> QED
  BY <1>1, <1>9, <1>11, <1>12, <1>13 DEF IInv

LEMMA FailsInv ==
  ASSUME IInv, NEW size \in Requests, AllocFails(size)  PROVE IInv'
<1>1. pages' = Charged(size) /\ blocks' = blocks /\ phase' = phase
  BY DEF AllocFails
<1>2. PICK c \in 0..Len(pages) : SearchLeaves(size, c) /\ current' = c
  BY DEF AllocFails
<1>3. TypeOK /\ Failures
  BY DEF IInv
<1>4. /\ pages' \in Seq(PageType) /\ Len(pages') = Len(pages)
      /\ DOMAIN pages' = 1..Len(pages) /\ DOMAIN pages = 1..Len(pages)
      /\ \A k \in 1..Len(pages) : pages'[k].last = pages[k].last
  BY <1>1, <1>3, ChargedIs, PagesType
<1>5. Failures'
  BY <1>1, <1>2, <1>3, <1>4, FailuresCharged
<1>6. TypeOK'
  BY <1>1, <1>2, <1>3, <1>4 DEF TypeOK, PageType
<1>7. \A k \in DOMAIN blocks : blocks[k].page \in 1..Len(pages)
  BY <1>3, BlocksType
<1>8. BlocksBelowLast'
  <2>1. BlocksBelowLast
    BY DEF IInv
  <2>2. \A k \in 1..Len(pages) : HeaderEnd(k) <= pages'[k].last
    BY <1>4, <2>1 DEF BlocksBelowLast
  <2>3. \A k \in DOMAIN blocks :
          blocks[k].at + blocks[k].size <= pages'[blocks[k].page].last
    BY <1>4, <1>7, <2>1 DEF BlocksBelowLast
  <2> QED
    BY <1>1, <1>4, <2>2, <2>3 DEF BlocksBelowLast, HeaderEnd
<1>9. BlocksInPage' /\ BlocksApart'
  BY <1>1 DEF IInv, BlocksInPage, BlocksApart, HeaderEnd, Apart
<1>10. pages' = <<>> <=> pages = <<>>
  BY <1>3, <1>4, PagesType
<1> QED
  BY <1>1, <1>5, <1>6, <1>8, <1>9, <1>10 DEF IInv

LEMMA IdleInv ==
  ASSUME IInv, UNCHANGED <<pages, current, blocks>>,
         phase' = phase \/ (phase' = "gone" /\ phase = "live")
  PROVE  IInv'
<1>1. TypeOK'
  BY DEF IInv, TypeOK
<1>2. Failures'
  BY DEF IInv, Failures, CurrentDivides, Searched
<1>3. BlocksBelowLast' /\ BlocksInPage' /\ BlocksApart'
  BY DEF IInv, BlocksBelowLast, BlocksInPage, BlocksApart, HeaderEnd, Apart
<1> QED
  BY <1>1, <1>2, <1>3 DEF IInv

-----------------------------------------------------------------------------
(* No operation of emem_pool.c breaks the inductive invariant, whether     *)
(* posix_memalign succeeds or fails.                                       *)
THEOREM Invariance == Spec => []IInv
<1>1. Init => IInv
  BY InitInv
<1>2. IInv /\ [Next]_vars => IInv'
  <2> SUFFICES ASSUME IInv, [Next]_vars PROVE IInv'
    OBVIOUS
  <2>1. CASE Create
    BY <2>1, CreateInv
  <2>2. CASE Destroy
    BY <2>2, IdleInv DEF Destroy
  <2>3. CASE \E size \in Requests :
               AllocFound(size) \/ AllocGrow(size) \/ AllocFails(size)
    BY <2>3, FoundInv, GrowInv, FailsInv
  <2>4. CASE UNCHANGED vars
    <3>1. UNCHANGED <<pages, current, blocks>>
      BY <2>4 DEF vars
    <3>2. phase' = phase \/ (phase' = "gone" /\ phase = "live")
      BY <2>4 DEF vars
    <3> QED
      BY <3>1, <3>2, IdleInv
  <2> QED
    BY <2>1, <2>2, <2>3, <2>4 DEF Next
<1> QED
  BY <1>1, <1>2, PTL DEF Spec

(* The fields of the pool stay in their ranges.                            *)
THEOREM TypeCorrect == Spec => []TypeOK
<1>1. IInv => TypeOK
  BY DEF IInv
<1> QED
  BY <1>1, Invariance, PTL

(* No two blocks handed out by mem_pool_alloc share a byte.                *)
THEOREM BlocksNeverOverlap == Spec => []BlocksApart
<1>1. IInv => BlocksApart
  BY DEF IInv
<1> QED
  BY <1>1, Invariance, PTL

(* Every block is aligned, inside its page and clear of the headers.       *)
THEOREM BlocksStayInPage == Spec => []BlocksInPage
<1>1. IInv => BlocksInPage
  BY DEF IInv
<1> QED
  BY <1>1, Invariance, PTL

(* A page is searched exactly until it has turned down MaxFailed requests. *)
THEOREM SearchDivides == Spec => []CurrentDivides
<1>1. IInv => CurrentDivides
  BY DEF IInv, Failures
<1> QED
  BY <1>1, Invariance, PTL

(* mem_pool_alloc looks at no more than MAX_FAILED_COUNT pages.            *)
THEOREM SearchBounded == Spec => []SearchIsShort
<1>1. IInv => SearchIsShort
  <2> SUFFICES ASSUME IInv PROVE SearchIsShort
    OBVIOUS
  <2>1. TypeOK /\ Failures /\ MaxFailed \in Nat
    BY MemPoolAssumption DEF IInv
  <2>2. CASE current = 0
    <3>1. Searched = {}
      BY <2>2 DEF Searched
    <3> QED
      BY <2>1, <3>1, FS_EmptySet DEF SearchIsShort
  <2>3. CASE current # 0
    <3> DEFINE n == Len(pages)  f == pages[current].failed
    <3>1. current \in 1..n /\ n \in Nat /\ Searched = current..n
      BY <2>1, <2>3, PagesType DEF Searched, TypeOK
    <3>2. current \in Searched /\ current \in DOMAIN pages /\ f \in Nat
      BY <2>1, <3>1, PagesType
    <3>3. f < MaxFailed /\ f >= n - current
      BY <2>1, <3>2 DEF Failures, CurrentDivides
    <3>4. Cardinality(current..n) = n - current + 1
      BY <3>1, FS_Interval
    <3> HIDE DEF n, f
    <3> QED
      BY <2>1, <3>1, <3>2, <3>3, <3>4 DEF SearchIsShort
  <2> QED
    BY <2>2, <2>3
<1> QED
  BY <1>1, Invariance, PTL
=============================================================================
