------------------------- MODULE EProcessLockProofs --------------------------
(***************************************************************************)
(* Proofs about EProcessLock: mutual exclusion, for every number of        *)
(* processes and every sequence of crashes, when the lock is initialised   *)
(* once, as eprocess_lock.h asks of the processes.                         *)
(*                                                                         *)
(* MutualExclusion is not inductive: that the value is 0 while the lock is *)
(* held is what keeps a second process out, and that what the kernel has   *)
(* set aside for a process is what the process holds is what makes a crash *)
(* harmless.  LockIsAccountedFor says both; Known says that a semaphore    *)
(* that was just created is nobody's.                                      *)
(***************************************************************************)
EXTENDS EProcessLock, TLAPS

InitOnce == ~InitAgain

(* Every semaphore that anything refers to was created before, and none is *)
(* held before it has a value.                                             *)
Known ==
  /\ sem # None => sem \in used
  /\ \A p \in Procs : /\ pm[p] # None => pm[p] \in used
                      /\ holds[p] # None => holds[p] \in used
  /\ sem # None /\ ~inited => Holder(sem) = {}

IInv == TypeOK /\ Known /\ MutualExclusion /\ LockIsAccountedFor

-----------------------------------------------------------------------------
LEMMA AdjustedType ==
  ASSUME NEW v \in 0..SemMax, NEW n \in Int
  PROVE  Adjusted(v, n) \in 0..SemMax
  BY LockAssumption DEF Adjusted

LEMMA InitInv == Init => IInv
<1> SUFFICES ASSUME Init PROVE IInv
  OBVIOUS
<1>1. TypeOK
  <2>1. inited \in BOOLEAN
    BY Zenon DEF Init
  <2>2. waiting \in [Procs -> BOOLEAN]
    BY DEF Init
  <2>3. val \in 0..SemMax /\ undo \in [Procs -> Int]
    BY LockAssumption DEF Init
  <2>4. pm \in [Procs -> Sems \cup {None}] /\ holds \in [Procs -> Sems \cup {None}]
    BY DEF Init
  <2> QED
    BY <2>1, <2>2, <2>3, <2>4 DEF Init, TypeOK
<1>2. Known
  BY DEF Init, Known
<1>3. MutualExclusion /\ LockIsAccountedFor
  BY DEF Init, MutualExclusion, LockIsAccountedFor
<1> QED
  BY <1>1, <1>2, <1>3 DEF IInv

(* No operation leaves the types.                                          *)
LEMMA StepType ==
  ASSUME TypeOK, NEW p \in Procs, Step(p)
  PROVE  TypeOK'
<1> USE LockAssumption DEF TypeOK
<1>1. CASE Create(p)
  <2>1. sem' \in Sems /\ used' \subseteq Sems
    BY <1>1 DEF Create
  <2>2. val' \in 0..SemMax
    BY <1>1 DEF Create
  <2>3. undo' \in [Procs -> Int]
    BY <1>1 DEF Create
  <2>4. inited' \in BOOLEAN
    BY <1>1, Zenon DEF Create
  <2> QED
    BY <1>1, <2>1, <2>2, <2>3, <2>4 DEF Create
<1>2. CASE InitLock(p)
  BY <1>2 DEF InitLock
<1>3. CASE TryLock(p)
  BY <1>3 DEF TryLock, Acquire, SemOp, Lives, Ready
<1>4. CASE Block(p)
  BY <1>4 DEF Block
<1>5. CASE Granted(p)
  BY <1>5 DEF Granted, Acquire, SemOp, Lives
<1>6. CASE Abandon(p)
  BY <1>6 DEF Abandon
<1>7. CASE Unlock(p)
  <2>1. val' \in 0..SemMax /\ undo' \in [Procs -> Int]
    BY <1>7 DEF Unlock, SemOp
  <2> QED
    BY <1>7, <2>1 DEF Unlock
<1>8. CASE Release(p)
  BY <1>8 DEF Release
<1>9. CASE Delete(p)
  BY <1>9 DEF Delete
<1>10. CASE Exit(p)
  <2>1. val' \in 0..SemMax
    BY <1>10, AdjustedType DEF Exit
  <2> QED
    BY <1>10, <2>1 DEF Exit
<1> QED
  BY <1>1, <1>2, <1>3, <1>4, <1>5, <1>6, <1>7, <1>8, <1>9, <1>10 DEF Step

(* A process that acquires the semaphore was alone in doing so: its value  *)
(* was not 0, so nobody held it.                                           *)
LEMMA AcquireInv ==
  ASSUME IInv, NEW p \in Procs, Acquire(p), TypeOK'
  PROVE  Known' /\ MutualExclusion' /\ LockIsAccountedFor'
<1> USE DEF IInv
<1>1. sem # None /\ val = 1 /\ inited /\ Holder(sem) = {}
  BY LockAssumption DEF Acquire, Lives, LockIsAccountedFor, TypeOK
<1>2. \A r \in Procs : holds[r] # sem
  BY <1>1 DEF Holder
<1>3. /\ holds' = [holds EXCEPT ![p] = sem] /\ undo' = [undo EXCEPT ![p] = 1]
      /\ val' = 0 /\ UNCHANGED <<sem, used, pm, inited>>
  <2>1. undo[p] = 0 /\ 0 - -1 = 1 /\ 1 + -1 = 0
    BY <1>1, <1>2 DEF LockIsAccountedFor
  <2> QED
    BY <1>1, <2>1 DEF Acquire, SemOp
<1>4. Known'
  BY <1>1, <1>3 DEF Known, TypeOK
<1>5. MutualExclusion'
  BY <1>2, <1>3 DEF MutualExclusion, TypeOK
<1>6. LockIsAccountedFor'
  <2>1. Holder(sem)' # {}
    BY <1>3 DEF Holder, TypeOK
  <2>2. \A r \in Procs : undo'[r] = IF holds'[r] = sem' THEN 1 ELSE 0
    BY <1>1, <1>2, <1>3 DEF LockIsAccountedFor, TypeOK
  <2> QED
    BY <1>3, <2>1, <2>2 DEF LockIsAccountedFor
<1> QED
  BY <1>4, <1>5, <1>6

(* Giving the lock back, by process_unlock or by dying, frees it.          *)
LEMMA GiveBackInv ==
  ASSUME IInv, TypeOK', NEW p \in Procs,
         holds' = [holds EXCEPT ![p] = None],
         UNCHANGED <<sem, used, inited>>,
         \A r \in Procs : pm'[r] \in {pm[r], None},
         sem # None /\ holds[p] = sem =>
             val' = 1 /\ undo' = [undo EXCEPT ![p] = 0],
         sem # None /\ holds[p] # sem =>
             val' = val /\ undo' = [undo EXCEPT ![p] = 0]
  PROVE  Known' /\ MutualExclusion' /\ LockIsAccountedFor'
<1> USE LockAssumption DEF IInv
<1>1. Known'
  BY DEF Known, TypeOK, Holder
<1>2. MutualExclusion'
  BY DEF MutualExclusion, TypeOK
<1>3. CASE sem = None
  BY <1>1, <1>2, <1>3 DEF LockIsAccountedFor
<1>4. CASE sem # None /\ holds[p] = sem
  <2>1. Holder(sem)' = {}
    BY <1>4 DEF Holder, MutualExclusion, TypeOK
  <2>2. inited
    BY <1>4 DEF Known, Holder
  <2>3. \A r \in Procs : undo'[r] = IF holds'[r] = sem' THEN 1 ELSE 0
    BY <1>4 DEF LockIsAccountedFor, TypeOK
  <2> QED
    BY <1>1, <1>2, <1>4, <2>1, <2>2, <2>3 DEF LockIsAccountedFor
<1>5. CASE sem # None /\ holds[p] # sem
  <2>1. Holder(sem)' = Holder(sem)
    BY <1>5 DEF Holder, TypeOK
  <2>2. \A r \in Procs : undo'[r] = IF holds'[r] = sem' THEN 1 ELSE 0
    BY <1>5 DEF LockIsAccountedFor, TypeOK
  <2> QED
    BY <1>1, <1>2, <1>5, <2>1, <2>2 DEF LockIsAccountedFor
<1> QED
  BY <1>3, <1>4, <1>5

LEMMA StepInv ==
  ASSUME InitOnce, IInv, NEW p \in Procs, Step(p)
  PROVE  IInv'
<1> USE LockAssumption DEF IInv
<1>0. TypeOK'
  BY StepType
<1> SUFFICES Known' /\ MutualExclusion' /\ LockIsAccountedFor'
  BY <1>0
<1>1. CASE Create(p)
  <2>1. CASE sem # None
    BY <1>1, <2>1
    DEF Create, TypeOK, Known, MutualExclusion, LockIsAccountedFor, Holder
  <2>2. CASE sem = None
    <3>1. PICK s \in Sems \ used : sem' = s /\ used' = used \cup {s}
      BY <1>1, <2>2 DEF Create
    <3>2. \A r \in Procs : holds[r] # s
      BY <3>1 DEF Known
    <3>3. /\ val' = 0 /\ undo' = [r \in Procs |-> 0] /\ inited' = FALSE
          /\ pm' = [pm EXCEPT ![p] = s] /\ holds' = holds
      BY <1>1, <2>2, <3>1 DEF Create
    <3>4. Holder(sem)' = {}
      BY <3>1, <3>2, <3>3 DEF Holder
    <3>5. Known'
      BY <3>1, <3>3, <3>4 DEF Known, TypeOK
    <3>6. MutualExclusion'
      BY <3>3 DEF MutualExclusion
    <3>7. LockIsAccountedFor'
      BY <3>1, <3>2, <3>3, <3>4 DEF LockIsAccountedFor
    <3> QED
      BY <3>5, <3>6, <3>7
  <2> QED
    BY <2>1, <2>2
<1>2. CASE InitLock(p)
  <2>1. sem # None /\ ~inited
    BY <1>2 DEF InitLock, Lives, InitOnce
  <2>2. Holder(sem) = {}
    BY <2>1 DEF Known
  <2>3. /\ val' = 1 /\ undo' = [r \in Procs |-> 0] /\ inited' = TRUE
        /\ UNCHANGED <<sem, used, pm, holds>>
    BY <1>2 DEF InitLock
  <2>4. Holder(sem)' = {} /\ \A r \in Procs : holds[r] # sem
    BY <2>2, <2>3 DEF Holder
  <2> QED
    BY <2>1, <2>3, <2>4 DEF Known, MutualExclusion, LockIsAccountedFor
<1>3. CASE TryLock(p)
  BY <1>0, <1>3, AcquireInv DEF TryLock
<1>4. CASE Block(p)
  BY <1>4 DEF Block, Known, MutualExclusion, LockIsAccountedFor, Holder
<1>5. CASE Granted(p)
  BY <1>0, <1>5, AcquireInv DEF Granted
<1>6. CASE Abandon(p)
  BY <1>6 DEF Abandon, Known, MutualExclusion, LockIsAccountedFor, Holder
<1>7. CASE Unlock(p)
  <2>1. holds[p] = pm[p] /\ pm[p] # None
    BY <1>7 DEF Unlock, Ready, InitOnce
  <2>2. holds' = [holds EXCEPT ![p] = None] /\ UNCHANGED <<sem, used, inited, pm>>
    BY <1>7, <2>1 DEF Unlock, TypeOK
  <2>3. CASE sem # None /\ holds[p] = sem
    <3>1. val = 0 /\ undo[p] = 1
      BY <2>3 DEF LockIsAccountedFor, Holder
    <3>2. val' = 1 /\ undo' = [undo EXCEPT ![p] = 0]
      BY <1>7, <2>1, <2>3, <3>1 DEF Unlock, Lives, SemOp, TypeOK
    <3> QED
      BY <1>0, <2>2, <2>3, <3>2, GiveBackInv
  <2>4. CASE sem = None \/ holds[p] # sem
    <3>1. UNCHANGED <<val, undo>>
      BY <1>7, <2>1, <2>4 DEF Unlock, Lives
    <3>2. sem # None => undo[p] = 0
      BY <2>4 DEF LockIsAccountedFor
    <3>3. sem # None => undo' = [undo EXCEPT ![p] = 0]
      BY <3>1, <3>2 DEF TypeOK
    <3> QED
      BY <1>0, <2>2, <2>4, <3>1, <3>3, GiveBackInv
  <2> QED
    BY <2>3, <2>4
<1>8. CASE Release(p)
  BY <1>8 DEF Release, Known, MutualExclusion, LockIsAccountedFor, Holder, TypeOK
<1>9. CASE Delete(p)
  BY <1>9 DEF Delete, Known, MutualExclusion, LockIsAccountedFor
<1>10. CASE Exit(p)
  <2>1. /\ holds' = [holds EXCEPT ![p] = None] /\ UNCHANGED <<sem, used, inited>>
        /\ undo' = [undo EXCEPT ![p] = 0] /\ val' = Adjusted(val, undo[p])
        /\ \A r \in Procs : pm'[r] \in {pm[r], None}
    BY <1>10 DEF Exit, TypeOK
  <2>2. sem # None /\ holds[p] = sem => val' = 1
    <3> SUFFICES ASSUME sem # None, holds[p] = sem PROVE val' = 1
      OBVIOUS
    <3>1. val = 0 /\ undo[p] = 1
      BY DEF LockIsAccountedFor, Holder
    <3> QED
      BY <2>1, <3>1 DEF Adjusted
  <2>3. sem # None /\ holds[p] # sem => val' = val
    <3> SUFFICES ASSUME sem # None, holds[p] # sem PROVE val' = val
      OBVIOUS
    <3>1. undo[p] = 0
      BY DEF LockIsAccountedFor
    <3> QED
      BY <2>1, <3>1 DEF Adjusted, TypeOK
  <2> QED
    BY <1>0, <2>1, <2>2, <2>3, GiveBackInv
<1> QED
  BY <1>1, <1>2, <1>3, <1>4, <1>5, <1>6, <1>7, <1>8, <1>9, <1>10 DEF Step

-----------------------------------------------------------------------------
(* No function of eprocess_lock.c, no crash and no signal breaks the       *)
(* inductive invariant, when the callers keep the two rules.               *)
THEOREM Invariance == ASSUME InitOnce PROVE Spec => []IInv
<1>1. Init => IInv
  BY InitInv
<1>2. IInv /\ [Next]_vars => IInv'
  <2> SUFFICES ASSUME IInv, [Next]_vars PROVE IInv'
    OBVIOUS
  <2>1. CASE Next
    BY <2>1, StepInv DEF Next
  <2>2. CASE UNCHANGED vars
    BY <2>2
    DEF vars, IInv, TypeOK, Known, MutualExclusion, LockIsAccountedFor, Holder
  <2> QED
    BY <2>1, <2>2
<1> QED
  BY <1>1, <1>2, PTL DEF Spec

(* The type invariant holds even for callers who keep neither rule: the    *)
(* semaphore never passes the kernel's limit and is never negative.        *)
THEOREM TypeCorrect == Spec => []TypeOK
<1>1. Init => TypeOK
  BY InitInv DEF IInv
<1>2. TypeOK /\ [Next]_vars => TypeOK'
  <2> SUFFICES ASSUME TypeOK, [Next]_vars PROVE TypeOK'
    OBVIOUS
  <2>1. CASE Next
    BY <2>1, StepType DEF Next
  <2>2. CASE UNCHANGED vars
    BY <2>2 DEF vars, TypeOK
  <2> QED
    BY <2>1, <2>2
<1> QED
  BY <1>1, <1>2, PTL DEF Spec

(* No two processes hold the lock of eprocess_lock.c at once.              *)
THEOREM Exclusion == ASSUME InitOnce PROVE Spec => []MutualExclusion
<1>1. IInv => MutualExclusion
  BY DEF IInv
<1> QED
  BY <1>1, Invariance, PTL

(* The semaphore is free exactly when nobody holds the lock, and the       *)
(* kernel would give back exactly what a dead process held.                *)
THEOREM Accounting == ASSUME InitOnce PROVE Spec => []LockIsAccountedFor
<1>1. IInv => LockIsAccountedFor
  BY DEF IInv
<1> QED
  BY <1>1, Invariance, PTL
=============================================================================
