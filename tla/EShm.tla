--------------------------------- MODULE EShm ---------------------------------
(***************************************************************************)
(* eshm.c: processes that meet in the System V shared memory segment of    *)
(* one key.  shm_create asks for the segment exclusively, then, when it    *)
(* exists, without: two system calls between which another process may     *)
(* delete it.  A segment that is deleted loses its key at once and is      *)
(* freed when nobody is attached to it any more.  Each process has one     *)
(* handle (shm_t); a process may end anywhere, and its name then stands    *)
(* for the next one.  Failures of malloc and ftok, and of the first shmget *)
(* for want of memory, return NULL before anything is made: they are the   *)
(* steps not taken.                                                        *)
(***************************************************************************)
EXTENDS Integers, FiniteSets

CONSTANTS
  Procs,     \* the processes
  Sizes,     \* the sizes they ask for
  MaxSegs,   \* bound: segments the kernel makes
  None       \* no segment

Segs == 1..MaxSegs

VARIABLES
  named,     \* the segment the key leads to
  size,      \* the sizes of the segments made so far
  freed,     \* the segments the kernel has freed
  attached,  \* attached[p]: the segment mapped into p
  pc,        \* pc[p]: "none", "exists" or "got" in shm_create, "open"
  handle,    \* handle[p]: id, size, is_new and detached of the shm_t
  told,      \* history: told[s], the processes told that s is new
  unlucky    \* history: segments whose maker was not told, see below

vars == <<named, size, freed, attached, pc, handle, told, unlucky>>
kernel == <<named, size, freed, attached>>
history == <<told, unlucky>>

Made == DOMAIN size
NextSeg == Cardinality(Made) + 1
NoHandle == [id |-> None, size |-> 0, is_new |-> FALSE, detached |-> FALSE]

-----------------------------------------------------------------------------
(* The kernel, external: shmget makes a segment, shmdt or the end of a     *)
(* process unmaps one and frees it when it has no key and no other user.   *)
Make(n) ==
  /\ NextSeg \in Segs
  /\ named' = NextSeg
  /\ size' = [s \in Made \cup {NextSeg} |-> IF s = NextSeg THEN n ELSE size[s]]
  /\ UNCHANGED <<freed, attached>>

Reaped == freed' = freed \cup {s \in Made : s # named' /\
                                 \A p \in Procs : attached'[p] # s}

Unmap(p) == attached' = [attached EXCEPT ![p] = None]

Alive(s) == s \in Made \ freed

-----------------------------------------------------------------------------
Init ==
  /\ named = None /\ size = [s \in {} |-> 0] /\ freed = {}
  /\ attached = [p \in Procs |-> None]
  /\ pc = [p \in Procs |-> "none"] /\ handle = [p \in Procs |-> NoHandle]
  /\ told = [s \in Segs |-> {}] /\ unlucky = {}

Goto(p, l) == pc' = [pc EXCEPT ![p] = l]
Free(p) == Goto(p, "none") /\ handle' = [handle EXCEPT ![p] = NoHandle]

(* shmget with IPC_CREAT|IPC_EXCL, which makes the segment or fails.       *)
GetNew(p, n) ==
  /\ pc[p] = "none" /\ named = None /\ Make(n) /\ Goto(p, "got")
  /\ handle' = [handle EXCEPT ![p] =
                  [NoHandle EXCEPT !.id = NextSeg, !.size = n, !.is_new = TRUE]]
  /\ UNCHANGED history

(* Mutant: is_new is not taken back.                                       *)
GetExistsStaysNew(p, n) ==
  /\ pc[p] = "none" /\ named # None /\ Goto(p, "exists")
  /\ handle' = [handle EXCEPT ![p] = [NoHandle EXCEPT !.size = n, !.is_new = TRUE]]
  /\ UNCHANGED <<kernel, history>>

GetExists(p, n) ==
  /\ pc[p] = "none" /\ named # None /\ Goto(p, "exists")
  /\ handle' = [handle EXCEPT ![p] = [NoHandle EXCEPT !.size = n]]
  /\ UNCHANGED <<kernel, history>>

(* Mutant: the second shmget asks for size 0, which any segment has.       *)
LargeEnoughAlways(p) == TRUE

LargeEnough(p) == size[named] >= handle[p].size

(* The second shmget finds the segment, finds one that is too small, or    *)
(* finds none and makes a segment after all, of which is_new says no.      *)
GetFound(p) ==
  /\ pc[p] = "exists" /\ named # None /\ LargeEnough(p) /\ Goto(p, "got")
  /\ handle' = [handle EXCEPT ![p].id = named]
  /\ UNCHANGED <<kernel, history>>

GetTooSmall(p) ==
  /\ pc[p] = "exists" /\ named # None /\ ~LargeEnough(p) /\ Free(p)
  /\ UNCHANGED <<kernel, history>>

GetMakes(p) ==
  /\ pc[p] = "exists" /\ named = None /\ Make(handle[p].size) /\ Goto(p, "got")
  /\ handle' = [handle EXCEPT ![p].id = NextSeg]
  /\ unlucky' = unlucky \cup {NextSeg} /\ UNCHANGED told

Attach(p) ==
  /\ pc[p] = "got" /\ Alive(handle[p].id) /\ Goto(p, "open")
  /\ attached' = [attached EXCEPT ![p] = handle[p].id]
  /\ told' = IF handle[p].is_new
             THEN [told EXCEPT ![handle[p].id] = @ \cup {p}] ELSE told
  /\ UNCHANGED <<named, size, freed, handle, unlucky>>

(* shmat fails, or the segment has been freed meanwhile: shm_destroy gives *)
(* shmdt the -1 that shmat returned and frees the handle.                  *)
AttachFails(p) ==
  /\ pc[p] = "got" /\ Free(p)
  /\ unlucky' = IF handle[p].is_new THEN unlucky \cup {handle[p].id} ELSE unlucky
  /\ UNCHANGED <<kernel, told>>

Detach(p) ==
  /\ pc[p] = "open" /\ Unmap(p) /\ named' = named /\ Reaped
  /\ handle' = [handle EXCEPT ![p].detached = TRUE]
  /\ UNCHANGED <<size, pc, history>>

(* The segment is still there once p has let go of it.                     *)
Outlives(p) ==
  /\ Alive(handle[p].id)
  /\ named = handle[p].id \/ \E q \in Procs \ {p} : attached[q] = handle[p].id

(* shm_delete: detach, remove the segment, free the handle ...             *)
Delete(p) ==
  /\ pc[p] = "open" /\ Outlives(p)
  /\ Unmap(p) /\ named' = (IF named = handle[p].id THEN None ELSE named)
  /\ Reaped /\ Free(p)
  /\ UNCHANGED <<size, history>>

(* ... which is kept, detached, when another process has removed it.       *)
DeleteFails(p) ==
  /\ pc[p] = "open" /\ ~Outlives(p)
  /\ Unmap(p) /\ named' = named /\ Reaped
  /\ handle' = [handle EXCEPT ![p].detached = TRUE]
  /\ UNCHANGED <<size, pc, history>>

(* shm_destroy detaches what is still attached.                            *)
Destroy(p) ==
  /\ pc[p] = "open" /\ Unmap(p) /\ named' = named /\ Reaped /\ Free(p)
  /\ UNCHANGED <<size, history>>

(* The end of a process, anywhere.                                         *)
Exit(p) ==
  /\ pc[p] # "none" /\ Unmap(p) /\ named' = named /\ Reaped /\ Free(p)
  /\ unlucky' = IF pc[p] = "got" /\ handle[p].is_new
                THEN unlucky \cup {handle[p].id} ELSE unlucky
  /\ UNCHANGED <<size, told>>

Next == \E p \in Procs :
  \/ \E n \in Sizes : GetNew(p, n) \/ GetExists(p, n)
  \/ GetFound(p) \/ GetTooSmall(p) \/ GetMakes(p)
  \/ Attach(p) \/ AttachFails(p)
  \/ Detach(p) \/ Delete(p) \/ DeleteFails(p) \/ Destroy(p) \/ Exit(p)

Spec == Init /\ [][Next]_vars

-----------------------------------------------------------------------------
(* Who is attached holds a handle of the same segment that says so: no     *)
(* path through a failed creation, a failed delete, a destruction or an    *)
(* exit leaves the segment mapped.                                         *)
TypeOK ==
  /\ Made \subseteq Segs /\ freed \subseteq Made /\ named \in Made \cup {None}
  /\ \A p \in Procs :
       /\ pc[p] \in {"none", "exists", "got", "open"}
       /\ attached[p] = IF pc[p] = "open" /\ ~handle[p].detached
                        THEN handle[p].id ELSE None

(* eshm.h:26: is_new tells who made the segment, and so who initialises    *)
(* it.  No two processes are told so of one segment.  One is of every      *)
(* segment, unless its maker failed or ended behind shmget, or made it in  *)
(* the second shmget because the one it had seen was deleted (`unlucky').  *)
OneInitialiser == \A s \in Made :
  /\ Cardinality(told[s]) <= 1
  /\ \/ told[s] # {} \/ s \in unlucky
     \/ \E p \in Procs : pc[p] = "got" /\ handle[p].id = s /\ handle[p].is_new

(* Whoever has a segment mapped can use all the bytes shm->size says.      *)
SizeIsTrue ==
  \A p \in Procs : attached[p] # None => size[attached[p]] >= handle[p].size

(* What the users of a segment may believe of it.                          *)
SegmentsAreTrue == TypeOK /\ OneInitialiser /\ SizeIsTrue
=============================================================================
