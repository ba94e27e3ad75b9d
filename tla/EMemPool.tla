------------------------------ MODULE EMemPool -------------------------------
(***************************************************************************)
(* emem_pool.c: an allocator that never frees a block.  The pool is a list *)
(* of pages of one size, each used from its start upwards; the pool's own  *)
(* header is at the start of the first page, a page's header at the start  *)
(* of every page (after the pool's in the first).  A search for space      *)
(* begins at `current'; a page that has turned down MaxFailed requests is  *)
(* not searched again.                                                     *)
(*                                                                         *)
(* The list is a sequence: head is its first page, tail its last, and      *)
(* `next' of page i is page i + 1.  Addresses are offsets in a page, the   *)
(* pages being aligned.  An operation is one step: with MEM_POOL_LOCK the  *)
(* whole of it runs under the pool's mutex, without it the pool belongs to *)
(* one thread.                                                             *)
(***************************************************************************)
EXTENDS Integers, Sequences, FiniteSets

CONSTANTS
  PageSize,    \* getpagesize()
  PoolHeader,  \* sizeof(mem_pool_t)
  PageHeader,  \* sizeof(mem_page_t)
  Alignment,   \* PLATFORM_ALIGNMENT
  MaxFailed,   \* MAX_FAILED_COUNT, 4 in emem_pool.h
  Requests,    \* the sizes mem_pool_alloc is asked for
  MaxPages     \* bound: posix_memalign grants no more pages

ASSUME MemPoolAssumption ==
  /\ PageSize \in Nat /\ PageHeader \in Nat /\ PoolHeader \in Nat
  /\ Alignment \in Nat \ {0} /\ MaxFailed \in Nat \ {0} /\ MaxPages \in Nat
  /\ PageHeader % Alignment = 0
  /\ PoolHeader + PageHeader <= PageSize
  /\ Requests \subseteq Nat

VARIABLES
  phase,    \* "none" before mem_pool_create, "live", "gone" after destroy
  pages,    \* the list: [last, failed] of each page
  current,  \* the position of mem_pool->current, 0 when it is NULL
  blocks    \* history: the blocks handed out, [page, at, size], in order

vars == <<phase, pages, current, blocks>>

-----------------------------------------------------------------------------
(* Mutants: no alignment, or towards the wrong side.                       *)
AlignNot(n) == n
AlignDown(n) == n - (n % Alignment)

(* ALIGN_PTR: n rounded up to a multiple of the alignment.                 *)
AlignUp(n) == LET m == n + Alignment - 1 IN m - (m % Alignment)

Page(last) == [last |-> last, failed |-> 0]
NextOf(i)  == IF i = Len(pages) THEN 0 ELSE i + 1
Block(i, at, size) == [page |-> i, at |-> at, size |-> size]

(* The pages a search may look at, and those among them with room.         *)
Searched  == IF current = 0 THEN {} ELSE current..Len(pages)

Fits(i, size) == PageSize - AlignUp(pages[i].last) >= size

Roomy(size) == {i \in Searched : Fits(i, size)}

(* The pages a search turns down: those before the first that has room.    *)
Tried(size) == {i \in Searched : \A j \in Roomy(size) : i < j}

(* They are charged a failure ...                                          *)
Charged(size) ==
  [i \in DOMAIN pages |->
     IF i \in Tried(size) THEN [pages[i] EXCEPT !.failed = @ + 1] ELSE pages[i]]

(* Mutant: one failure more is allowed.                                    *)
SpentLate(size) == {i \in Tried(size) : pages[i].failed + 1 > MaxFailed}

(* ... and the search of the next request begins behind the last of them   *)
(* that has had enough.                                                    *)
Spent(size) == {i \in Tried(size) : pages[i].failed + 1 >= MaxFailed}

SearchLeaves(size, c) ==
  \/ Spent(size) = {} /\ c = current
  \/ \E i \in Spent(size) : (\A j \in Spent(size) : j <= i) /\ c = NextOf(i)

-----------------------------------------------------------------------------
Init ==
  /\ phase = "none" /\ pages = <<>> /\ current = 0
  /\ blocks = <<>>

Create ==
  /\ phase = "none" /\ MaxPages > 0
  /\ phase' = "live"
  /\ pages' = <<Page(PoolHeader + PageHeader)>> /\ current' = 1
  /\ UNCHANGED blocks

(* Mutant: the page's own header is forgotten.                             *)
TooLargeForPage(size) == size > PageSize

(* mem_pool_alloc refuses what no page could hold.                         *)
TooLarge(size) == size > PageSize - PageHeader

(* The block is cut from the first page that has room.                     *)
AllocFound(size) ==
  /\ phase = "live" /\ ~TooLarge(size)
  /\ \E i \in Roomy(size) :
       /\ \A j \in Roomy(size) : i <= j
       /\ LET at == AlignUp(pages[i].last)
          IN /\ pages' = [Charged(size) EXCEPT ![i].last = at + size]
             /\ blocks' = Append(blocks, Block(i, at, size))
  /\ \E c \in 0..Len(pages) : SearchLeaves(size, c) /\ current' = c
  /\ UNCHANGED phase

(* No page has room: a new one is appended.                                *)
AllocGrow(size) ==
  /\ phase = "live" /\ ~TooLarge(size) /\ Roomy(size) = {}
  /\ Len(pages) < MaxPages
  /\ LET at == AlignUp(PageHeader)
     IN /\ pages' = Append(Charged(size), Page(at + size))
        /\ blocks' = Append(blocks, Block(Len(pages) + 1, at, size))
  /\ \E c \in 0..Len(pages) :
       SearchLeaves(size, c) /\ current' = IF c = 0 THEN Len(pages) + 1 ELSE c
  /\ UNCHANGED phase

(* No page has room and posix_memalign fails: NULL is returned, but the    *)
(* failures have been charged.                                             *)
AllocFails(size) ==
  /\ phase = "live" /\ ~TooLarge(size) /\ Roomy(size) = {}
  /\ pages' = Charged(size)
  /\ \E c \in 0..Len(pages) : SearchLeaves(size, c) /\ current' = c
  /\ UNCHANGED <<phase, blocks>>

(* The pages are freed one by one from the head; the pool's own header     *)
(* goes with the first.                                                    *)
Destroy ==
  /\ phase = "live"
  /\ phase' = "gone"
  /\ UNCHANGED <<pages, current, blocks>>

Next ==
  \/ Create \/ Destroy
  \/ \E size \in Requests : AllocFound(size) \/ AllocGrow(size) \/ AllocFails(size)

Spec == Init /\ [][Next]_vars

-----------------------------------------------------------------------------
(* last, failed and current of the pages stay in range, whatever is asked  *)
(* for.                                                                    *)
TypeOK ==
  /\ phase \in {"none", "live", "gone"}
  /\ pages \in Seq([last : 0..PageSize, failed : Nat])
  /\ current \in 0..Len(pages)
  /\ blocks \in Seq([page : 1..Len(pages), at : 0..PageSize, size : Requests])

(* emem_pool.h:55: mem_pool_alloc hands out memory.  No two blocks share a *)
(* byte, however the requests mix, pages fill up and are left behind.      *)
Apart(b, c) ==
  b.page # c.page \/ b.at + b.size <= c.at \/ c.at + c.size <= b.at

BlocksApart ==
  \A i, j \in DOMAIN blocks : i # j => Apart(blocks[i], blocks[j])

(* Every block lies inside its page, behind the page's header and, in the  *)
(* first page, the pool's, and starts at a multiple of the alignment.      *)
HeaderEnd(i) == IF i = 1 THEN PoolHeader + PageHeader ELSE PageHeader

BlocksInPage ==
  \A i \in DOMAIN blocks :
    LET b == blocks[i]
    IN  /\ HeaderEnd(b.page) <= b.at /\ b.at + b.size <= PageSize
        /\ b.at % Alignment = 0

(* A request looks at no more than MaxFailed pages, however many the pool  *)
(* has: the cost of mem_pool_alloc is bounded.                             *)
SearchIsShort == Cardinality(Searched) <= MaxFailed

(* The search leaves out exactly the pages that have turned down MaxFailed *)
(* requests: none is given up early and none is charged for ever.          *)
CurrentDivides ==
  \A i \in DOMAIN pages : i \in Searched <=> pages[i].failed < MaxFailed
=============================================================================
