------------------------------ MODULE EShmProofs ------------------------------
(***************************************************************************)
(* The shared memory segment of one key, for every number of processes and *)
(* segments and all sizes.                                                 *)
(***************************************************************************)
EXTENDS EShm, FiniteSetTheorems, TLAPS

Sound == Sizes \subseteq Int /\ MaxSegs \in Nat /\ None \notin Segs

Fresh(p) == pc[p] = "got" /\ handle[p].is_new

(* The kernel numbers the segments in the order in which it makes them.    *)
KernelInv ==
  /\ \E k \in Nat : Made = 1..k
  /\ \A s \in Made : size[s] \in Int

Typed ==
  /\ pc \in [Procs -> {"none", "exists", "got", "open"}]
  /\ handle \in [Procs -> [id : Segs \cup {None}, size : Int,
                           is_new : BOOLEAN, detached : BOOLEAN]]
  /\ attached \in [Procs -> Segs \cup {None}]
  /\ told \in [Segs -> SUBSET Procs]

(* A handle leads to a segment that is as large as it says; a handle that  *)
(* saw the segment of another does not call it new.                        *)
HandleInv ==
  \A p \in Procs :
    /\ pc[p] \in {"exists", "got"} => ~handle[p].detached
    /\ pc[p] = "exists" => ~handle[p].is_new
    /\ pc[p] \in {"got", "open"} =>
         handle[p].id \in Made /\ size[handle[p].id] >= handle[p].size

(* A segment is new to one process, which has not been told so before it   *)
(* attaches; nobody has been told of a segment that is not made.           *)
NewsInv ==
  /\ \A p, q \in Procs : Fresh(p) /\ Fresh(q) /\ handle[p].id = handle[q].id => p = q
  /\ \A p \in Procs : Fresh(p) => told[handle[p].id] = {}
  /\ \A s \in Segs : \A p, q \in told[s] : p = q
  /\ \A s \in Segs \ Made : told[s] = {}

(* Every segment was announced, will be, or its maker had bad luck.        *)
Announced ==
  \A s \in Made : \/ told[s] # {} \/ s \in unlucky
                  \/ \E p \in Procs : Fresh(p) /\ handle[p].id = s

IInv == TypeOK /\ KernelInv /\ Typed /\ HandleInv /\ NewsInv /\ Announced

-----------------------------------------------------------------------------
(* A segment that is made is another than those there are.                 *)
LEMMA MakesAnother ==
  ASSUME Sound, KernelInv, TypeOK, NEW n \in Int, Make(n)
  PROVE  /\ NextSeg \in Segs \ Made /\ Made' = Made \cup {NextSeg}
         /\ size'[NextSeg] = n /\ \A s \in Made : size'[s] = size[s]
         /\ named' = NextSeg /\ UNCHANGED <<freed, attached>>
         /\ KernelInv' /\ Made' \subseteq Segs
<1>1. PICK k \in Nat : Made = 1..k
  BY DEF KernelInv
<1>2. NextSeg = k + 1
  <2>1. 1 \in Int /\ k \in Int
    OBVIOUS
  <2>2. Cardinality(1..k) = IF 1 > k THEN 0 ELSE k - 1 + 1
    BY <2>1, FS_Interval
  <2>3. Cardinality(1..k) = k
    BY <2>2
  <2>4. QED BY <1>1, <2>3 DEF NextSeg
<1>3. NextSeg \notin Made
  BY <1>1, <1>2
<1>4. /\ NextSeg \in Segs /\ named' = NextSeg /\ UNCHANGED <<freed, attached>>
      /\ size' = [s \in Made \cup {NextSeg} |-> IF s = NextSeg THEN n ELSE size[s]]
  BY DEF Make
<1>5. Made' = Made \cup {NextSeg}
  BY <1>4 DEF Made
<1>6. size'[NextSeg] = n /\ \A s \in Made : size'[s] = size[s]
  BY <1>3, <1>4
<1>7. Made' = 1..(k + 1)
  BY <1>1, <1>2, <1>5
<1>8. KernelInv'
  BY <1>5, <1>6, <1>7 DEF KernelInv
<1>9. QED BY <1>3, <1>4, <1>5, <1>6, <1>8 DEF TypeOK

LEMMA InitInv == ASSUME Sound PROVE Init => IInv
<1>. SUFFICES ASSUME Init PROVE IInv
  OBVIOUS
<1>1. Made = {}
  BY DEF Init, Made
<1>2. KernelInv
  <2>1. Made = 1..0
    BY <1>1
  <2>2. QED BY <1>1, <2>1 DEF KernelInv
<1>3. TypeOK /\ Typed /\ HandleInv /\ NewsInv /\ Announced
  BY <1>1 DEF Init, TypeOK, Typed, HandleInv, NewsInv, Announced, NoHandle, Fresh
<1>4. QED BY <1>2, <1>3 DEF IInv

-----------------------------------------------------------------------------
(* shm_create: the first shmget, and the second.                           *)
LEMMA GetNewInv ==
  ASSUME Sound, IInv, NEW p \in Procs, NEW n \in Sizes, GetNew(p, n) PROVE IInv'
<1>. DEFINE h == [NoHandle EXCEPT !.id = NextSeg, !.size = n, !.is_new = TRUE]
<1>. /\ pc' = [pc EXCEPT ![p] = "got"] /\ handle' = [handle EXCEPT ![p] = h]
     /\ pc[p] = "none" /\ UNCHANGED <<told, unlucky>>
  BY DEF GetNew, Goto, history
<1>. /\ NextSeg \in Segs \ Made /\ Made' = Made \cup {NextSeg}
     /\ size'[NextSeg] = n /\ \A s \in Made : size'[s] = size[s]
     /\ named' = NextSeg /\ UNCHANGED <<freed, attached>>
     /\ KernelInv' /\ Made' \subseteq Segs /\ n \in Int
  BY MakesAnother DEF GetNew, IInv, Sound
<1>. /\ h.id = NextSeg /\ h.size = n /\ h.is_new = TRUE /\ h.detached = FALSE
     /\ h \in [id : Segs \cup {None}, size : Int, is_new : BOOLEAN, detached : BOOLEAN]
  BY DEF NoHandle
<1>. HIDE DEF h
<1>1. TypeOK'
  BY DEF IInv, TypeOK, Typed
<1>2. Typed'
  BY DEF IInv, Typed
<1>3. HandleInv'
  BY DEF IInv, Typed, HandleInv
<1>4. NewsInv'
  BY DEF IInv, Typed, HandleInv, NewsInv, Fresh
<1>5. Announced'
  BY DEF IInv, Typed, Announced, Fresh
<1>6. QED BY <1>1, <1>2, <1>3, <1>4, <1>5 DEF IInv

LEMMA GetExistsInv ==
  ASSUME Sound, IInv, NEW p \in Procs, NEW n \in Sizes, GetExists(p, n) PROVE IInv'
<1>. DEFINE h == [NoHandle EXCEPT !.size = n]
<1>. /\ pc' = [pc EXCEPT ![p] = "exists"] /\ handle' = [handle EXCEPT ![p] = h]
     /\ pc[p] = "none" /\ n \in Int
     /\ UNCHANGED <<named, size, freed, attached, told, unlucky>> /\ UNCHANGED Made
  BY DEF GetExists, Goto, history, kernel, Sound, Made
<1>. /\ h.is_new = FALSE /\ h.detached = FALSE
     /\ h \in [id : Segs \cup {None}, size : Int, is_new : BOOLEAN, detached : BOOLEAN]
  BY DEF NoHandle
<1>. HIDE DEF h
<1>1. TypeOK'
  BY DEF IInv, TypeOK, Typed
<1>2. Typed' /\ KernelInv'
  BY DEF IInv, Typed, KernelInv
<1>3. HandleInv'
  BY DEF IInv, Typed, HandleInv
<1>4. NewsInv'
  BY DEF IInv, Typed, NewsInv, Fresh
<1>5. Announced'
  BY DEF IInv, Typed, Announced, Fresh
<1>6. QED BY <1>1, <1>2, <1>3, <1>4, <1>5 DEF IInv

LEMMA GetFoundInv ==
  ASSUME Sound, IInv, NEW p \in Procs, GetFound(p) PROVE IInv'
<1>. /\ pc' = [pc EXCEPT ![p] = "got"] /\ handle' = [handle EXCEPT ![p].id = named]
     /\ pc[p] = "exists" /\ size[named] >= handle[p].size
     /\ named \in Made /\ Made \subseteq Segs
     /\ UNCHANGED <<named, size, freed, attached, told, unlucky>> /\ UNCHANGED Made
  BY DEF GetFound, Goto, LargeEnough, history, kernel, IInv, TypeOK, Made
<1>1. TypeOK'
  BY DEF IInv, TypeOK, Typed
<1>2. Typed' /\ KernelInv'
  BY DEF IInv, Typed, KernelInv
<1>3. HandleInv'
  BY DEF IInv, Typed, HandleInv
<1>4. NewsInv'
  BY DEF IInv, Typed, HandleInv, NewsInv, Fresh
<1>5. Announced'
  BY DEF IInv, Typed, HandleInv, Announced, Fresh
<1>6. QED BY <1>1, <1>2, <1>3, <1>4, <1>5 DEF IInv

LEMMA GetMakesInv ==
  ASSUME Sound, IInv, NEW p \in Procs, GetMakes(p) PROVE IInv'
<1>. /\ pc' = [pc EXCEPT ![p] = "got"] /\ handle' = [handle EXCEPT ![p].id = NextSeg]
     /\ unlucky' = unlucky \cup {NextSeg} /\ pc[p] = "exists" /\ UNCHANGED told
  BY DEF GetMakes, Goto
<1>. handle[p].size \in Int
  BY DEF IInv, Typed
<1>. /\ NextSeg \in Segs \ Made /\ Made' = Made \cup {NextSeg}
     /\ size'[NextSeg] = handle[p].size /\ \A s \in Made : size'[s] = size[s]
     /\ named' = NextSeg /\ UNCHANGED <<freed, attached>>
     /\ KernelInv' /\ Made' \subseteq Segs
  BY MakesAnother DEF GetMakes, IInv
<1>1. TypeOK'
  BY DEF IInv, TypeOK, Typed
<1>2. Typed'
  BY DEF IInv, Typed
<1>3. HandleInv'
  BY DEF IInv, Typed, HandleInv
<1>4. NewsInv'
  BY DEF IInv, Typed, HandleInv, NewsInv, Fresh
<1>5. Announced'
  BY DEF IInv, Typed, HandleInv, Announced, Fresh
<1>6. QED BY <1>1, <1>2, <1>3, <1>4, <1>5 DEF IInv

(* shmat, the only step at which a process learns that a segment is new.   *)
LEMMA AttachInv ==
  ASSUME Sound, IInv, NEW p \in Procs, Attach(p) PROVE IInv'
<1>. /\ pc' = [pc EXCEPT ![p] = "open"] /\ pc[p] = "got"
     /\ attached' = [attached EXCEPT ![p] = handle[p].id]
     /\ told' = IF Fresh(p) THEN [told EXCEPT ![handle[p].id] = @ \cup {p}] ELSE told
     /\ UNCHANGED <<named, size, freed, handle, unlucky>> /\ UNCHANGED Made
  BY DEF Attach, Goto, Fresh, Made
<1>. handle[p].id \in Made /\ handle[p].id \in Segs
  BY DEF IInv, HandleInv, TypeOK
<1>1. TypeOK'
  BY DEF IInv, TypeOK, Typed, HandleInv
<1>2. Typed' /\ KernelInv'
  BY DEF IInv, Typed, KernelInv
<1>3. HandleInv'
  BY DEF IInv, Typed, HandleInv
<1>4. NewsInv'
  <2>. \A q \in Procs : Fresh(q)' <=> q # p /\ Fresh(q)
    BY DEF Fresh, IInv, Typed
  <2>1. CASE Fresh(p)
    <3>1. told[handle[p].id] = {}
      BY <2>1 DEF IInv, NewsInv
    <3>2. \A s \in Segs : told'[s] = IF s = handle[p].id THEN {p} ELSE told[s]
      BY <2>1, <3>1 DEF IInv, Typed
    <3>3. \A q \in Procs : Fresh(q)' => handle[q].id # handle[p].id /\ handle[q].id \in Segs
      BY <2>1 DEF IInv, NewsInv, HandleInv, TypeOK, Fresh
    <3>4. QED BY <3>2, <3>3 DEF IInv, NewsInv
  <2>2. CASE ~Fresh(p)
    BY <2>2 DEF IInv, NewsInv
  <2>3. QED BY <2>1, <2>2
<1>5. Announced'
  <2>1. \A s \in Segs : told[s] \subseteq told'[s]
    BY DEF IInv, Typed
  <2>2. \A q \in Procs : Fresh(q) /\ q # p => Fresh(q)'
    BY DEF Fresh, IInv, Typed
  <2>3. Fresh(p) => told'[handle[p].id] # {}
    BY DEF IInv, Typed
  <2>4. Made \subseteq Segs
    BY DEF IInv, TypeOK
  <2>5. QED BY <2>1, <2>2, <2>3, <2>4 DEF IInv, Announced
<1>6. QED BY <1>1, <1>2, <1>3, <1>4, <1>5 DEF IInv

-----------------------------------------------------------------------------
(* The ways to end a handle.  Whoever frees one that was fresh counts as   *)
(* unlucky; nothing becomes less: sizes stay, what is freed was made.      *)
LEMMA LeaveInv ==
  ASSUME Sound, IInv, NEW p \in Procs,
         pc' = [pc EXCEPT ![p] = "none"], handle' = [handle EXCEPT ![p] = NoHandle],
         attached' = [attached EXCEPT ![p] = None],
         named' \in {None, named}, freed' \subseteq Made,
         UNCHANGED <<size, told>>, unlucky \subseteq unlucky',
         Fresh(p) => handle[p].id \in unlucky'
  PROVE  IInv'
<1>. UNCHANGED Made
  BY DEF Made
<1>1. TypeOK'
  BY DEF IInv, TypeOK, Typed, NoHandle
<1>2. KernelInv'
  BY DEF IInv, KernelInv
<1>3. Typed'
  <2>1. NoHandle \in [id : Segs \cup {None}, size : Int, is_new : BOOLEAN, detached : BOOLEAN]
    BY DEF NoHandle
  <2>2. QED BY <2>1 DEF IInv, Typed
<1>4. HandleInv'
  BY DEF IInv, Typed, HandleInv, NoHandle
<1>. \A q \in Procs : q # p => (Fresh(q)' <=> Fresh(q)) /\ handle'[q] = handle[q]
  BY DEF Fresh, IInv, Typed
<1>. ~Fresh(p)'
  BY DEF Fresh, IInv, Typed
<1>5. NewsInv'
  BY DEF IInv, NewsInv
<1>6. Announced'
  BY DEF IInv, Announced
<1>7. QED BY <1>1, <1>2, <1>3, <1>4, <1>5, <1>6 DEF IInv

(* A handle that is kept, detached.                                        *)
LEMMA DetachInv ==
  ASSUME Sound, IInv, NEW p \in Procs, pc[p] = "open",
         handle' = [handle EXCEPT ![p].detached = TRUE],
         attached' = [attached EXCEPT ![p] = None], freed' \subseteq Made,
         UNCHANGED <<named, size, pc, told, unlucky>>
  PROVE  IInv'
<1>. UNCHANGED Made
  BY DEF Made
<1>1. TypeOK'
  BY DEF IInv, TypeOK, Typed
<1>2. Typed' /\ KernelInv'
  BY DEF IInv, Typed, KernelInv
<1>3. HandleInv'
  BY DEF IInv, Typed, HandleInv
<1>. \A q \in Procs : (Fresh(q)' <=> Fresh(q)) /\ handle'[q].id = handle[q].id
  BY DEF Fresh, IInv, Typed
<1>4. NewsInv'
  BY DEF IInv, NewsInv
<1>5. Announced'
  BY DEF IInv, Announced
<1>6. QED BY <1>1, <1>2, <1>3, <1>4, <1>5 DEF IInv

(* Who is not attached may let go once more.                               *)
LEMMA NotAttached ==
  ASSUME IInv, NEW p \in Procs, pc[p] # "open"
  PROVE  attached = [attached EXCEPT ![p] = None]
BY DEF IInv, TypeOK, Typed

LEMMA ReapedIsMade ==
  ASSUME IInv, Reaped PROVE freed' \subseteq Made
BY DEF Reaped, IInv, TypeOK

LEMMA NextInv == ASSUME Sound, IInv, [Next]_vars PROVE IInv'
<1>. freed \subseteq Made
  BY DEF IInv, TypeOK
<1>1. ASSUME NEW p \in Procs, NEW n \in Sizes, GetNew(p, n) \/ GetExists(p, n)
      PROVE  IInv'
  BY <1>1, GetNewInv, GetExistsInv
<1>2. ASSUME NEW p \in Procs, GetFound(p) \/ GetMakes(p) \/ Attach(p) PROVE IInv'
  BY <1>2, GetFoundInv, GetMakesInv, AttachInv
<1>3. ASSUME NEW p \in Procs, GetTooSmall(p) PROVE IInv'
  <2>1. ~Fresh(p) /\ attached = [attached EXCEPT ![p] = None]
    BY <1>3, NotAttached DEF GetTooSmall, Fresh
  <2>2. QED BY <1>3, <2>1, LeaveInv DEF GetTooSmall, Free, Goto, kernel, history
<1>4. ASSUME NEW p \in Procs, AttachFails(p) PROVE IInv'
  <2>1. attached = [attached EXCEPT ![p] = None]
    BY <1>4, NotAttached DEF AttachFails
  <2>2. unlucky \subseteq unlucky' /\ (Fresh(p) => handle[p].id \in unlucky')
    BY <1>4 DEF AttachFails, Fresh
  <2>3. QED BY <1>4, <2>1, <2>2, LeaveInv DEF AttachFails, Free, Goto, kernel
<1>5. ASSUME NEW p \in Procs, Detach(p) \/ DeleteFails(p) PROVE IInv'
  <2>1. freed' \subseteq Made
    BY <1>5, ReapedIsMade DEF Detach, DeleteFails
  <2>2. QED BY <1>5, <2>1, DetachInv DEF Detach, DeleteFails, Unmap, history
<1>6. ASSUME NEW p \in Procs, Delete(p) \/ Destroy(p) PROVE IInv'
  <2>1. freed' \subseteq Made /\ ~Fresh(p)
    BY <1>6, ReapedIsMade DEF Delete, Destroy, Fresh
  <2>2. named' \in {None, named}
    BY <1>6 DEF Delete, Destroy
  <2>3. QED
    BY <1>6, <2>1, <2>2, LeaveInv DEF Delete, Destroy, Unmap, Free, Goto, history
<1>7. ASSUME NEW p \in Procs, Exit(p) PROVE IInv'
  <2>1. freed' \subseteq Made
    BY <1>7, ReapedIsMade DEF Exit
  <2>2. unlucky \subseteq unlucky' /\ (Fresh(p) => handle[p].id \in unlucky')
    BY <1>7 DEF Exit, Fresh
  <2>3. QED BY <1>7, <2>1, <2>2, LeaveInv DEF Exit, Unmap, Free, Goto
<1>8. CASE UNCHANGED vars
  <2>. UNCHANGED <<named, size, freed, attached, pc, handle, told, unlucky>>
    BY <1>8 DEF vars
  <2>. UNCHANGED Made
    BY DEF Made
  <2>1. TypeOK' /\ Typed'
    BY DEF IInv, TypeOK, Typed
  <2>2. KernelInv' /\ HandleInv'
    BY DEF IInv, KernelInv, HandleInv
  <2>3. NewsInv' /\ Announced'
    BY DEF IInv, NewsInv, Announced, Fresh
  <2>4. QED BY <2>1, <2>2, <2>3 DEF IInv
<1>9. QED BY <1>1, <1>2, <1>3, <1>4, <1>5, <1>6, <1>7, <1>8 DEF Next

LEMMA Invariance == ASSUME Sound PROVE Spec => []IInv
BY InitInv, NextInv, PTL DEF Spec

-----------------------------------------------------------------------------
(* Who has a segment mapped has a handle that says so, on every path.      *)
THEOREM ShmTyped == ASSUME Sound PROVE Spec => []TypeOK
<1>1. IInv => TypeOK
  BY DEF IInv
<1>2. QED BY <1>1, Invariance, PTL

(* eshm.h:26: of every segment at most one process is told that it is new, *)
(* and one is, bad luck of its maker apart.                                *)
THEOREM ShmOneInitialiser == ASSUME Sound PROVE Spec => []OneInitialiser
<1>1. ASSUME IInv PROVE OneInitialiser
  <2>. SUFFICES ASSUME NEW s \in Made
                PROVE  /\ Cardinality(told[s]) <= 1
                       /\ \/ told[s] # {} \/ s \in unlucky
                          \/ \E p \in Procs : pc[p] = "got" /\ handle[p].id = s
                                              /\ handle[p].is_new
    BY DEF OneInitialiser
  <2>1. \A p, q \in told[s] : p = q
    BY <1>1 DEF IInv, TypeOK, NewsInv
  <2>2. CASE told[s] = {}
    BY <2>2, FS_EmptySet, <1>1 DEF IInv, Announced, Fresh
  <2>3. CASE told[s] # {}
    <3>1. PICK p \in told[s] : told[s] = {p}
      BY <2>1, <2>3
    <3>2. Cardinality({p}) = 1
      BY FS_Singleton
    <3>3. QED BY <2>3, <3>1, <3>2
  <2>4. QED BY <2>2, <2>3
<1>2. QED BY <1>1, Invariance, PTL

(* The bytes that shm->size promises are in the segment that is mapped.    *)
THEOREM ShmSizeIsTrue == ASSUME Sound PROVE Spec => []SizeIsTrue
<1>1. IInv => SizeIsTrue
  BY DEF IInv, TypeOK, HandleInv, SizeIsTrue
<1>2. QED BY <1>1, Invariance, PTL

(* eshm.c: all three together, for any number of processes that create,    *)
(* find, delete and crash.                                                 *)
THEOREM ShmSegmentsAreTrue == ASSUME Sound PROVE Spec => []SegmentsAreTrue
<1>1. TypeOK /\ OneInitialiser /\ SizeIsTrue => SegmentsAreTrue
  BY DEF SegmentsAreTrue
<1>2. QED BY <1>1, ShmTyped, ShmOneInitialiser, ShmSizeIsTrue, PTL
=============================================================================
