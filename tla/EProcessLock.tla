---------------------------- MODULE EProcessLock -----------------------------
(***************************************************************************)
(* eprocess_lock.c: a mutex between processes, one System V semaphore that *)
(* is found by a key.  The semaphore is created with the value 0, which    *)
(* means `locked'; process_lock_init sets it to 1.  It outlives the        *)
(* processes, and when a process dies the kernel gives back what it took   *)
(* with SEM_UNDO.                                                          *)
(*                                                                         *)
(* A process is a sequence of calls of the library with a crash anywhere.  *)
(* Every function makes one system call, which is atomic; process_lock may *)
(* block in it.                                                            *)
(***************************************************************************)
EXTENDS Integers

CONSTANTS
  Procs,
  Sems,         \* bound: the semaphores that have the key, one at a time
  None,
  SemMax,       \* SEMVMX, the kernel's limit on a semaphore's value
  InitAgain     \* process_lock_init may be called again on a semaphore

ASSUME LockAssumption ==
  /\ None \notin Sems
  /\ SemMax \in Nat \ {0}
  /\ InitAgain \in BOOLEAN

VARIABLES
  sem,     \* the semaphore that has the key, or None
  used,    \* the semaphores that have or had it
  val,     \* the value of sem
  undo,    \* undo[p]: what the kernel adds to val when p dies
  pm,      \* pm[p]: the semaphore of p's lock instance, None without one
  waiting, \* waiting[p]: p is blocked in process_lock
  holds,   \* holds[p]: the semaphore p was told it has locked, or None
  inited   \* history: sem was given its value

vars == <<sem, used, val, undo, pm, waiting, holds, inited>>

-----------------------------------------------------------------------------
(* What the kernel does in semop with SEM_UNDO: n is added to the value,   *)
(* and set aside to be taken back.                                         *)
SemOp(p, n) == val' = val + n /\ undo' = [undo EXCEPT ![p] = @ - n]

(* The value a semaphore is left with when the adjustments of a dead       *)
(* process are added to v.                                                 *)
Adjusted(v, n) == IF v + n < 0 THEN 0 ELSE IF v + n > SemMax THEN SemMax ELSE v + n

Ready(p)  == ~waiting[p] /\ pm[p] # None
Lives(p)  == pm[p] # None /\ pm[p] = sem
Holder(s) == {p \in Procs : holds[p] = s}

-----------------------------------------------------------------------------
Init ==
  /\ sem = None /\ used = {} /\ val = 0 /\ inited = FALSE
  /\ undo = [p \in Procs |-> 0]
  /\ pm = [p \in Procs |-> None]
  /\ waiting = [p \in Procs |-> FALSE]
  /\ holds = [p \in Procs |-> None]

(* Mutant: the -1 of a semget that fails is kept in the instance.          *)
CreateUnchecked(p) ==
  /\ ~waiting[p] /\ pm[p] = None
  /\ \/ sem # None /\ pm' = [pm EXCEPT ![p] = sem]
     \/ sem = None /\ pm' = [pm EXCEPT ![p] = -1]
  /\ UNCHANGED <<sem, used, val, undo, waiting, holds, inited>>

(* semget with IPC_CREAT and no IPC_EXCL finds the semaphore of the key or *)
(* makes one.                                                              *)
Create(p) ==
  /\ ~waiting[p] /\ pm[p] = None
  /\ \/ sem # None /\ UNCHANGED <<sem, used, val, undo, inited>>
     \/ /\ sem = None
        /\ \E s \in Sems \ used : sem' = s /\ used' = used \cup {s}
        /\ val' = 0 /\ undo' = [r \in Procs |-> 0] /\ inited' = FALSE
  /\ pm' = [pm EXCEPT ![p] = sem']
  /\ UNCHANGED <<waiting, holds>>

(* SETVAL also forgets what every process has set aside.                   *)
InitLock(p) ==
  /\ Ready(p) /\ Lives(p)
  /\ inited => InitAgain
  /\ val' = 1 /\ undo' = [r \in Procs |-> 0] /\ inited' = TRUE
  /\ UNCHANGED <<sem, used, pm, waiting, holds>>

(* Mutant: the semaphore operation is made without SEM_UNDO.               *)
AcquireNoUndo(p) ==
  /\ Lives(p) /\ val > 0
  /\ val' = val - 1
  /\ holds' = [holds EXCEPT ![p] = sem]
  /\ UNCHANGED <<sem, used, undo, pm, inited>>

(* The semop of process_try_lock and process_lock, when it succeeds.       *)
Acquire(p) ==
  /\ Lives(p) /\ val > 0
  /\ SemOp(p, -1)
  /\ holds' = [holds EXCEPT ![p] = sem]
  /\ UNCHANGED <<sem, used, pm, inited>>

(* A process_try_lock or process_lock that finds the semaphore free; when  *)
(* it is not, or is gone, try_lock returns 0 or -1 and changes nothing.    *)
TryLock(p) == Ready(p) /\ Acquire(p) /\ UNCHANGED waiting

(* process_lock blocks in semop ...                                        *)
Block(p) ==
  /\ Ready(p) /\ Lives(p) /\ val = 0
  /\ waiting' = [waiting EXCEPT ![p] = TRUE]
  /\ UNCHANGED <<sem, used, val, undo, pm, holds, inited>>

(* ... until it gets the lock ...                                          *)
Granted(p) == waiting[p] /\ Acquire(p) /\ waiting' = [waiting EXCEPT ![p] = FALSE]

(* Mutant: any return from semop counts as the lock.                       *)
AbandonTakes(p) ==
  /\ waiting[p]
  /\ waiting' = [waiting EXCEPT ![p] = FALSE]
  /\ holds' = [holds EXCEPT ![p] = pm[p]]
  /\ UNCHANGED <<sem, used, val, undo, pm, inited>>

(* ... or a signal arrives or the semaphore is deleted: it returns 0.      *)
Abandon(p) ==
  /\ waiting[p]
  /\ waiting' = [waiting EXCEPT ![p] = FALSE]
  /\ UNCHANGED <<sem, used, val, undo, pm, holds, inited>>

(* process_unlock does not ask who holds the lock: it is for the caller to *)
(* have locked it, as the guard supposes.  It fails when the semaphore is  *)
(* gone or at the kernel's limit.                                          *)
Unlock(p) ==
  /\ Ready(p)
  /\ holds[p] = pm[p]
  /\ IF Lives(p) /\ val < SemMax THEN SemOp(p, 1) ELSE UNCHANGED <<val, undo>>
  /\ holds' = [holds EXCEPT ![p] = None]
  /\ UNCHANGED <<sem, used, pm, waiting, inited>>

(* process_lock_release frees the instance and leaves the semaphore alone. *)
Release(p) ==
  /\ Ready(p)
  /\ pm' = [pm EXCEPT ![p] = None]
  /\ UNCHANGED <<sem, used, val, undo, waiting, holds, inited>>

(* process_lock_delete, whoever holds the lock or waits for it.            *)
Delete(p) ==
  /\ Ready(p) /\ Lives(p)
  /\ sem' = None
  /\ UNCHANGED <<used, val, undo, pm, waiting, holds, inited>>

(* The process ends or is killed, wherever it is.                          *)
Exit(p) ==
  /\ val' = Adjusted(val, undo[p]) /\ undo' = [undo EXCEPT ![p] = 0]
  /\ pm' = [pm EXCEPT ![p] = None]
  /\ waiting' = [waiting EXCEPT ![p] = FALSE]
  /\ holds' = [holds EXCEPT ![p] = None]
  /\ UNCHANGED <<sem, used, inited>>

-----------------------------------------------------------------------------
Step(p) ==
  \/ Create(p) \/ InitLock(p) \/ TryLock(p) \/ Block(p) \/ Granted(p)
  \/ Abandon(p) \/ Unlock(p) \/ Release(p) \/ Delete(p) \/ Exit(p)

Next == \E p \in Procs : Step(p)

(* The kernel wakes the processes whose semop can go on or must fail.      *)
Spec ==
  /\ Init /\ [][Next]_vars
  /\ \A p \in Procs : WF_vars(Granted(p)) /\ WF_vars(~Lives(p) /\ Abandon(p))

-----------------------------------------------------------------------------
(* The value of the semaphore and the undo counts stay what semop(2)       *)
(* allows; a handle names a semaphore that was made.                       *)
TypeOK ==
  /\ sem \in Sems \cup {None} /\ used \subseteq Sems
  /\ val \in 0..SemMax /\ undo \in [Procs -> Int]
  /\ pm \in [Procs -> Sems \cup {None}] /\ holds \in [Procs -> Sems \cup {None}]
  /\ waiting \in [Procs -> BOOLEAN] /\ inited \in BOOLEAN

(* eprocess_lock.h:27: the lock is a mutex between processes.  No two      *)
(* processes have locked the same semaphore, whatever crashes, signals and *)
(* deletions there are, as long as the lock is initialised once and        *)
(* unlocked by those who locked it.                                        *)
MutualExclusion ==
  \A p, r \in Procs : holds[p] # None /\ holds[p] = holds[r] => p = r

(* What the kernel will give back is what was taken: the lock is free when *)
(* nobody holds it, and the death of any process leaves it free or held by *)
(* another, never lost and never free twice.                               *)
LockIsAccountedFor ==
  sem # None =>
    /\ val = IF inited /\ Holder(sem) = {} THEN 1 ELSE 0
    /\ \A p \in Procs : undo[p] = IF holds[p] = sem THEN 1 ELSE 0

(* A process blocked in process_lock does not wait for the dead: once the  *)
(* lock has no holder, because it was unlocked, deleted or its holder was  *)
(* killed, the process returns or another one takes the lock.              *)
NobodyWaitsForTheDead ==
  \A p \in Procs :
    (waiting[p] /\ (inited \/ ~Lives(p)) /\ Holder(pm[p]) = {})
      ~> (~waiting[p] \/ Holder(pm[p]) # {})
=============================================================================
