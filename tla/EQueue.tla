------------------------------- MODULE EQueue --------------------------------
(***************************************************************************)
(* equeue.c: a queue of pointers in a ring buffer that doubles when it is  *)
(* full, shared by threads under one mutex.  `front' is the slot before    *)
(* the oldest element and `rear' the slot of the newest, so a ring of      *)
(* `size' slots holds at most size - 1 elements.                           *)
(*                                                                         *)
(* A thread takes the mutex, runs the body of its operation and releases   *)
(* the mutex.  The body of queue_push is cut at the points where the       *)
(* fields are visible to the functions that read them without the mutex    *)
(* (EQueueReaders): after the size is doubled and after rear is moved.     *)
(***************************************************************************)
EXTENDS Integers, Sequences, FiniteSets

CONSTANTS
  Data, Nil, Garbage,
  Pushers, Poppers, Peekers,  \* who calls queue_push, queue_pop, queue_head
  Nobody,                     \* the mutex is free
  Requested,                  \* the sizes queue_create may be asked for
  InitQueueSize,              \* INIT_QUEUE_SIZE, 1024 in equeue.h
  ReallocMayFail,             \* whether realloc may return NULL
  MaxHeld                     \* bound: no push starts on that many elements

Threads == Pushers \cup Poppers \cup Peekers

ASSUME QueueAssumption ==
  /\ Requested \subseteq Nat
  /\ InitQueueSize \in Nat \ {0, 1}
  /\ MaxHeld \in Nat
  /\ ReallocMayFail \in BOOLEAN
  /\ Nobody \notin Threads

VARIABLES
  q,       \* the slots, queue->q; all Garbage when it is NULL
  lost,    \* TRUE when queue->q is NULL
  front, rear, size,
  lock,    \* the thread that holds queue->lock, or Nobody
  org,     \* org_size, the local of the push under way; 0 between pushes
  pc,      \* pc[t]: where t is in its operation
  arg,     \* arg[t]: the pointer t is pushing
  answer,  \* answer[t]: what t's last operation returned
  fault,   \* TRUE once the process has accessed memory through NULL
  broken   \* history: a push has reported that realloc failed

ring == <<q, lost, front, rear, size, org>>
vars == <<ring, lock, pc, arg, answer, fault, broken>>

-----------------------------------------------------------------------------
Slots == Data \cup {Garbage}

(* Mutant: a queue of one slot is created, which can hold nothing.         *)
CapacityKeepsOne(n) == IF n = 0 THEN InitQueueSize ELSE n

(* queue_create, for the sizes it does not refuse.                         *)
Capacity(n) == IF n \in {0, 1} THEN InitQueueSize ELSE n

(* The slot k places after slot i in a ring of n slots.                    *)
After(i, k, n) == (i + k) % n

Full  == After(rear, 1, size) = front
Empty == front = rear

(* The elements of a ring of n slots, the oldest first.                    *)
Held(f, r, n) == (r - f + n) % n
ElementsOf(a, f, r, n) == [i \in 1..Held(f, r, n) |-> a[After(f, i, n)]]

(* While rear awaits realignment the elements are still where the ring of  *)
(* org slots has them.                                                     *)
Ring     == IF org # 0 THEN org ELSE size
Count    == Held(front, rear, Ring)
Contents == ElementsOf(q, front, rear, Ring)

At(t, label) == pc[t] = label /\ ~fault
Goto(t, label) == pc' = [pc EXCEPT ![t] = label]
Returns(t, v)  == answer' = [answer EXCEPT ![t] = v]

-----------------------------------------------------------------------------
Init ==
  /\ size \in {Capacity(n) : n \in Requested}
  /\ q = [i \in 0..size-1 |-> Garbage]
  /\ lost = FALSE /\ front = 0 /\ rear = 0 /\ org = 0
  /\ lock = Nobody
  /\ pc = [t \in Threads |-> "ready"]
  /\ arg = [t \in Threads |-> Nil]
  /\ answer = [t \in Threads |-> "none"]
  /\ fault = FALSE /\ broken = FALSE

(* pthread_mutex_lock, the first statement of every operation.             *)
Lock(t, label) ==
  /\ At(t, "ready") /\ lock = Nobody
  /\ lock' = t /\ Goto(t, label)
  /\ UNCHANGED <<ring, answer, fault, broken>>

PushLock(t, d) ==
  /\ Count < MaxHeld
  /\ Lock(t, "push") /\ arg' = [arg EXCEPT ![t] = d]

PopLock(t)  == Lock(t, "pop")  /\ UNCHANGED arg
HeadLock(t) == Lock(t, "head") /\ UNCHANGED arg

Unlock(t) ==
  /\ At(t, "unlock")
  /\ lock' = Nobody /\ Goto(t, "ready")
  /\ arg' = [arg EXCEPT ![t] = Nil]
  /\ UNCHANGED <<ring, answer, fault, broken>>

(* The ring is full: the size is doubled and the array reallocated.        *)
(* realloc of a NULL queue->q is a malloc: none of the slots is kept.      *)
PushGrow(t) ==
  /\ At(t, "push") /\ Full
  /\ org' = size /\ size' = 2 * size
  /\ q' = [i \in 0..size'-1 |-> IF i < size THEN q[i] ELSE Garbage]
  /\ lost' = FALSE
  /\ Goto(t, "realign")
  /\ UNCHANGED <<front, rear, lock, arg, answer, fault, broken>>

(* realloc fails after size was doubled: its result NULL replaces the      *)
(* pointer to the slots, and the push returns 0.                           *)
PushGrowFails(t) ==
  /\ ReallocMayFail
  /\ At(t, "push") /\ Full
  /\ size' = 2 * size /\ lost' = TRUE /\ broken' = TRUE
  /\ q' = [i \in 0..size'-1 |-> Garbage]
  /\ Returns(t, "failed") /\ Goto(t, "unlock")
  /\ UNCHANGED <<front, rear, org, lock, arg, fault>>

(* Mutant: the copy stops before rear.                                     *)
PushRealignShort(t) ==
  /\ At(t, "realign")
  /\ IF rear < front
     THEN /\ q' = [i \in 0..size-1 |->
                     IF i \in org..org+rear-1 THEN q[i - org] ELSE q[i]]
          /\ rear' = org + rear
     ELSE UNCHANGED <<q, rear>>
  /\ org' = 0
  /\ Goto(t, "store")
  /\ UNCHANGED <<lost, front, size, lock, arg, answer, fault, broken>>

(* The elements that had wrapped round to the start of the old ring are    *)
(* copied behind its end.                                                  *)
PushRealign(t) ==
  /\ At(t, "realign")
  /\ IF rear < front
     THEN /\ q' = [i \in 0..size-1 |->
                     IF i \in org..org+rear THEN q[i - org] ELSE q[i]]
          /\ rear' = org + rear
     ELSE UNCHANGED <<q, rear>>
  /\ org' = 0
  /\ Goto(t, "store")
  /\ UNCHANGED <<lost, front, size, lock, arg, answer, fault, broken>>

MayStore(t) == At(t, "store") \/ (At(t, "push") /\ ~Full)

PushStore(t) ==
  /\ MayStore(t) /\ ~lost
  /\ rear' = After(rear, 1, size)
  /\ q' = [q EXCEPT ![rear'] = arg[t]]
  /\ Returns(t, "ok") /\ Goto(t, "unlock")
  /\ UNCHANGED <<lost, front, size, org, lock, arg, fault, broken>>

(* Mutant: the early return of queue_pop forgets the mutex.                *)
PopNoneKeepsLock(t) ==
  /\ At(t, "pop") /\ Empty
  /\ Returns(t, Nil) /\ Goto(t, "ready")
  /\ UNCHANGED <<ring, lock, arg, fault, broken>>

PopNone(t) ==
  /\ At(t, "pop") /\ Empty
  /\ Returns(t, Nil) /\ Goto(t, "unlock")
  /\ UNCHANGED <<ring, lock, arg, fault, broken>>

PopTake(t) ==
  /\ At(t, "pop") /\ ~Empty /\ ~lost
  /\ front' = After(front, 1, size)
  /\ Returns(t, q[front']) /\ Goto(t, "unlock")
  /\ UNCHANGED <<q, lost, rear, size, org, lock, arg, fault, broken>>

(* queue_head reads the slot after front and does not ask whether it holds *)
(* an element.                                                             *)
HeadRead(t) ==
  /\ At(t, "head") /\ ~lost
  /\ Returns(t, q[After(front, 1, size)]) /\ Goto(t, "unlock")
  /\ UNCHANGED <<ring, lock, arg, fault, broken>>

(* An access to queue->q[...] after a failed realloc: the process dies.    *)
NullAccess(t) ==
  /\ lost
  /\ MayStore(t) \/ (At(t, "pop") /\ ~Empty) \/ At(t, "head")
  /\ fault' = TRUE
  /\ UNCHANGED <<ring, lock, pc, arg, answer, broken>>

-----------------------------------------------------------------------------
(* What t does while it holds the mutex.                                   *)
Body(t) ==
  \/ PushGrow(t) \/ PushGrowFails(t) \/ PushRealign(t) \/ PushStore(t)
  \/ PopNone(t) \/ PopTake(t)
  \/ HeadRead(t)
  \/ NullAccess(t)
  \/ Unlock(t)

Step(t) ==
  \/ t \in Pushers /\ \E d \in Data : PushLock(t, d)
  \/ t \in Poppers /\ PopLock(t)
  \/ t \in Peekers /\ HeadLock(t)
  \/ Body(t)

Next == \E t \in Threads : Step(t)

Spec == Init /\ [][Next]_vars

-----------------------------------------------------------------------------
(* The type invariant: every index stays inside the array it indexes.      *)
TypeOK ==
  /\ size \in Nat \ {0, 1}
  /\ q \in [0..size-1 -> Slots]
  /\ lost \in BOOLEAN /\ fault \in BOOLEAN /\ broken \in BOOLEAN
  /\ front \in 0..size-1 /\ rear \in 0..size-1
  /\ org \in Nat
  /\ lock \in Threads \cup {Nobody}
  /\ pc \in [Threads -> {"ready", "push", "realign", "store", "pop", "head",
                         "unlock"}]
  /\ arg \in [Threads -> Data \cup {Nil}]
  /\ answer \in [Threads -> Slots \cup {Nil, "none", "ok", "failed"}]

(* queue_push, queue_pop and queue_head of equeue.c, whatever threads call *)
(* them and however the ring wraps and grows, are the atomic operations of *)
(* a first-in first-out queue: nothing lost, doubled or reordered, and     *)
(* NULL popped only when the queue is empty; until realloc fails.          *)
Fifo == INSTANCE FifoQueue WITH items <- Contents
IsFifo == Fifo!FifoSpec

(* No path of the three operations leaves the mutex locked: a thread that  *)
(* took it gives it back, the early returns and the failed realloc         *)
(* included (unless the process has died).                                 *)
MutexReleased == \A t \in Threads : (lock = t) ~> (lock # t \/ fault)
=============================================================================
