---------------------------- MODULE EQueueProofs -----------------------------
(***************************************************************************)
(* What TLAPS proves of EQueue: the type invariant, the invariant of the   *)
(* mutex and of the ring that makes it inductive, and, as long as realloc  *)
(* does not fail, that the ring buffer implements FifoQueue; and of        *)
(* EQueueReaders, that the functions which read the fields without the     *)
(* mutex answer the truth to the only consumer.                            *)
(***************************************************************************)
EXTENDS EQueueReaders, SequenceTheorems, TLAPS

(* A thread is inside an operation exactly while it holds the mutex, and   *)
(* has a pointer to push while it is in queue_push.                        *)
MutexInv ==
  /\ \A t \in Threads : pc[t] # "ready" <=> lock = t
  /\ \A t \in Threads :
        pc[t] \in {"push", "realign", "store"} => arg[t] \in Data

(* Between doubling the size and moving rear, the elements still fill the  *)
(* old ring; after that there is room for the pointer to push.             *)
GrowthInv ==
  /\ \A t \in Threads : pc[t] = "realign" => org # 0
  /\ org # 0 => /\ \E t \in Threads : pc[t] = "realign"
                /\ org > 1 /\ size = 2 * org
                /\ front < org /\ rear < org
                /\ After(rear, 1, org) = front
                /\ ~lost
  /\ \A t \in Threads : pc[t] = "store" => ~Full

IInv == TypeOK /\ MutexInv /\ GrowthInv

-----------------------------------------------------------------------------
(* The three cases of the index arithmetic: below the modulus, at most     *)
(* once above it, and the successor of a slot.                             *)
LEMMA ModBelow ==
  ASSUME NEW n \in Nat, NEW a \in Nat, a < n  PROVE a % n = a
  BY SMT

LEMMA ModAbove ==
  ASSUME NEW n \in Nat, NEW a \in Nat, n <= a, a < 2 * n  PROVE a % n = a - n
  BY SMT

LEMMA SlotIs ==
  ASSUME NEW n \in Nat, NEW f \in Nat, NEW i \in Nat, f < n, i <= n
  PROVE  /\ f + i < n => After(f, i, n) = f + i
         /\ f + i >= n => After(f, i, n) = f + i - n
         /\ After(f, i, n) \in Nat /\ After(f, i, n) < n
<1>1. CASE f + i < n
  <2>1. (f + i) % n = f + i
    BY <1>1, ModBelow
  <2> QED BY <1>1, <2>1 DEF After
<1>2. CASE f + i >= n
  <2>1. (f + i) % n = f + i - n
    BY <1>2, ModAbove
  <2> QED BY <1>2, <2>1 DEF After
<1> QED BY <1>1, <1>2

LEMMA NextSlot ==
  ASSUME NEW n \in Nat, NEW a \in Nat, a < n
  PROVE  /\ a + 1 < n => After(a, 1, n) = a + 1
         /\ a + 1 = n => After(a, 1, n) = 0
         /\ After(a, 1, n) \in Nat /\ After(a, 1, n) < n
<1>1. 1 <= n
  OBVIOUS
<1> QED BY <1>1, SlotIs

-----------------------------------------------------------------------------
LEMMA InitInv == Init => IInv
<1> SUFFICES ASSUME Init PROVE IInv
  OBVIOUS
<1>1. size \in Nat \ {0, 1}
  BY QueueAssumption DEF Init, Capacity
<1>2. DOMAIN q = 0..size-1 /\ q \in [DOMAIN q -> Slots]
  BY DEF Init, Slots
<1>3. front \in 0..size-1 /\ rear \in 0..size-1
  BY <1>1 DEF Init
<1>4. TypeOK
  BY <1>1, <1>2, <1>3 DEF Init, TypeOK
<1>5. MutexInv /\ GrowthInv
  BY QueueAssumption DEF Init, MutexInv, GrowthInv
<1> QED BY <1>4, <1>5 DEF IInv

(* Taking the mutex, for the three operations alike.                       *)
LEMMA LockInv ==
  ASSUME IInv, NEW t \in Threads, NEW label \in {"push", "pop", "head"},
         Lock(t, label),
         \/ UNCHANGED arg /\ label # "push"
         \/ \E d \in Data : arg' = [arg EXCEPT ![t] = d]
  PROVE  IInv'
<1> USE DEF IInv, Lock, Goto, At, ring
<1>1. TypeOK'
  BY DEF TypeOK, Slots
<1>2. MutexInv'
  BY QueueAssumption DEF TypeOK, MutexInv
<1>3. \A u \in Threads : pc[u] = "ready"
  BY QueueAssumption DEF MutexInv
<1>4. GrowthInv'
  BY <1>3 DEF TypeOK, GrowthInv, Full
<1> QED BY <1>1, <1>2, <1>4

LEMMA BodyInv == ASSUME IInv, NEW t \in Threads, Body(t) PROVE IInv'
<1> USE DEF IInv, Goto, At, Returns, ring
<1>0. pc[t] # "ready" => lock = t /\ \A u \in Threads : u # t => pc[u] = "ready"
  BY DEF MutexInv
<1>1. CASE PushGrow(t)
  <2> USE <1>1 DEF PushGrow
  <2>1. org = 0
    BY <1>0 DEF GrowthInv, TypeOK
  <2>2. TypeOK'
    <3>1. q' \in [0..size'-1 -> Slots]
      BY DEF TypeOK, Slots
    <3>2. size' \in Nat \ {0, 1} /\ front' \in 0..size'-1 /\ rear' \in 0..size'-1
      BY DEF TypeOK
    <3> QED BY <3>1, <3>2 DEF TypeOK
  <2>3. MutexInv'
    BY DEF MutexInv, TypeOK
  <2>4. GrowthInv'
    BY <1>0 DEF GrowthInv, TypeOK, Full
  <2> QED BY <2>2, <2>3, <2>4
<1>2. CASE PushGrowFails(t)
  <2> USE <1>2 DEF PushGrowFails
  <2>1. org = 0
    BY <1>0 DEF GrowthInv, TypeOK
  <2>2. TypeOK'
    <3>1. q' \in [0..size'-1 -> Slots]
      BY DEF TypeOK, Slots
    <3>2. size' \in Nat \ {0, 1} /\ front' \in 0..size'-1 /\ rear' \in 0..size'-1
      BY DEF TypeOK
    <3>3. lost' \in BOOLEAN /\ broken' \in BOOLEAN
      BY Zenon
    <3> QED BY <3>1, <3>2, <3>3 DEF TypeOK
  <2>3. MutexInv'
    BY DEF MutexInv, TypeOK
  <2>4. GrowthInv'
    BY <1>0, <2>1 DEF GrowthInv, TypeOK
  <2> QED BY <2>2, <2>3, <2>4
<1>3. CASE PushRealign(t)
  <2> USE <1>3 DEF PushRealign
  <2>1. /\ org \in Nat /\ org > 1 /\ size = 2 * org /\ ~lost
        /\ front \in 0..org-1 /\ rear \in 0..org-1
        /\ After(rear, 1, org) = front
    BY DEF GrowthInv, TypeOK
  <2>2. rear < front => rear + 1 = front
    BY <2>1, NextSlot
  <2>3. rear >= front => rear = org - 1 /\ front = 0
    BY <2>1, NextSlot
  <2>4. q' \in [0..size'-1 -> Slots] /\ rear' \in org-1..size-1
    <3>1. CASE rear < front
      <4>1. \A i \in 0..size-1 : i \in org..org+rear => i - org \in 0..size-1
        BY <2>1
      <4> QED BY <3>1, <4>1, <2>1 DEF TypeOK
    <3>2. CASE ~(rear < front)
      BY <3>2, <2>1, <2>3 DEF TypeOK
    <3> QED BY <3>1, <3>2
  <2>5. TypeOK'
    BY <2>4, <2>1 DEF TypeOK
  <2>6. MutexInv'
    BY DEF MutexInv, TypeOK
  <2>7. ~Full'
    <3>1. rear' \in 0..size'-1 /\ size' \in Nat \ {0}
      BY <2>1, <2>4
    <3>2. CASE rear < front
      <4>1. rear' = org + rear /\ front' = rear + 1
        BY <3>2, <2>1, <2>2 DEF TypeOK
      <4>2. After(rear', 1, size') \in {0, rear' + 1}
        BY <3>1, NextSlot
      <4> QED BY <4>1, <4>2, <2>1 DEF Full
    <3>3. CASE ~(rear < front)
      <4>1. rear' = org - 1 /\ front' = 0
        BY <3>3, <2>1, <2>3 DEF TypeOK
      <4>2. After(rear', 1, size') = org
        BY <4>1, <3>1, <2>1, NextSlot
      <4> QED BY <4>1, <4>2, <2>1 DEF Full
    <3> QED BY <3>2, <3>3
  <2>8. GrowthInv'
    BY <1>0, <2>7 DEF GrowthInv, TypeOK
  <2> QED BY <2>5, <2>6, <2>8
<1>4. CASE PushStore(t)
  <2> USE <1>4 DEF PushStore, MayStore
  <2>1. TypeOK'
    <3>1. rear' \in 0..size-1
      BY NextSlot DEF TypeOK
    <3>2. arg[t] \in Slots
      BY DEF MutexInv, Slots
    <3> QED BY <3>1, <3>2 DEF TypeOK
  <2>2. MutexInv'
    BY DEF MutexInv, TypeOK
  <2>3. org = 0
    BY <1>0 DEF GrowthInv, TypeOK
  <2>4. GrowthInv'
    BY <1>0, <2>3 DEF GrowthInv, TypeOK
  <2> QED BY <2>1, <2>2, <2>4
<1>5. CASE PopNone(t)
  <2> USE <1>5 DEF PopNone
  <2>1. TypeOK' /\ MutexInv'
    BY DEF TypeOK, MutexInv
  <2>2. GrowthInv'
    BY <1>0 DEF GrowthInv, TypeOK
  <2> QED BY <2>1, <2>2
<1>6. CASE PopTake(t)
  <2> USE <1>6 DEF PopTake
  <2>1. After(front, 1, size) \in 0..size-1
    BY NextSlot DEF TypeOK
  <2>2. TypeOK' /\ MutexInv'
    BY <2>1 DEF TypeOK, MutexInv
  <2>3. org = 0
    BY <1>0 DEF GrowthInv, TypeOK
  <2>4. GrowthInv'
    BY <1>0, <2>3 DEF GrowthInv, TypeOK
  <2> QED BY <2>2, <2>4
<1>7. CASE HeadRead(t)
  <2> USE <1>7 DEF HeadRead
  <2>1. After(front, 1, size) \in 0..size-1
    BY NextSlot DEF TypeOK
  <2>2. TypeOK' /\ MutexInv'
    BY <2>1 DEF TypeOK, MutexInv
  <2>3. GrowthInv'
    BY <1>0 DEF GrowthInv, TypeOK
  <2> QED BY <2>2, <2>3
<1>8. CASE NullAccess(t)
  BY <1>8 DEF NullAccess, TypeOK, MutexInv, GrowthInv, Full
<1>9. CASE Unlock(t)
  <2> USE <1>9 DEF Unlock
  <2>1. TypeOK' /\ MutexInv'
    BY QueueAssumption, <1>0 DEF TypeOK, MutexInv
  <2>2. GrowthInv'
    BY <1>0 DEF GrowthInv, TypeOK
  <2> QED BY <2>1, <2>2
<1> QED BY <1>1, <1>2, <1>3, <1>4, <1>5, <1>6, <1>7, <1>8, <1>9 DEF Body

LEMMA NextInv == IInv /\ [Next]_vars => IInv'
<1> SUFFICES ASSUME IInv, [Next]_vars PROVE IInv'
  OBVIOUS
<1>1. CASE UNCHANGED vars
  BY <1>1 DEF IInv, vars, ring, TypeOK, Slots, MutexInv, GrowthInv, Full
<1>2. ASSUME NEW t \in Threads, Step(t) PROVE IInv'
  <2>1. CASE \E d \in Data : PushLock(t, d)
    BY <2>1, LockInv DEF PushLock
  <2>2. CASE PopLock(t) \/ HeadLock(t)
    BY <2>2, LockInv DEF PopLock, HeadLock
  <2>3. CASE Body(t)
    BY <2>3, BodyInv
  <2> QED BY <1>2, <2>1, <2>2, <2>3 DEF Step
<1> QED BY <1>1, <1>2 DEF Next

THEOREM Invariance == Spec => []IInv
  BY InitInv, NextInv, PTL DEF Spec

(* Whatever the threads do, and even if realloc fails, every index of the  *)
(* ring stays inside the array it indexes (queue_push, queue_pop and       *)
(* queue_head of equeue.c).                                                *)
THEOREM TypeCorrect == Spec => []TypeOK
<1>1. IInv => TypeOK
  BY DEF IInv
<1> QED BY Invariance, <1>1, PTL

-----------------------------------------------------------------------------
(* The ring as a sequence: how many elements it holds, which slot holds    *)
(* which, and what storing, taking and moving do to the sequence.          *)
LEMMA HeldIs ==
  ASSUME NEW n \in Nat, NEW f \in Nat, NEW r \in Nat, f < n, r < n
  PROVE  /\ r >= f => Held(f, r, n) = r - f
         /\ r < f => Held(f, r, n) = r - f + n
         /\ Held(f, r, n) \in Nat /\ Held(f, r, n) < n
<1> DEFINE a == r - f + n
<1>1. a \in Nat /\ a < 2 * n /\ Held(f, r, n) = a % n
  BY DEF Held
<1>2. (r >= f => a - n = r - f /\ n <= a) /\ (r < f => a < n)
  OBVIOUS
<1> HIDE DEF a
<1>3. CASE r >= f
  <2>1. a % n = a - n
    BY <1>1, <1>2, <1>3, ModAbove
  <2> QED BY <2>1, <1>1, <1>2, <1>3
<1>4. CASE r < f
  <2>1. a % n = a
    BY <1>1, <1>2, <1>4, ModBelow
  <2> QED BY <2>1, <1>1, <1>2, <1>4 DEF a
<1> QED BY <1>3, <1>4

(* One more element: it is in the slot behind rear, and no other is.       *)
LEMMA HeldAfterStore ==
  ASSUME NEW n \in Nat, NEW f \in Nat, NEW r \in Nat, f < n, r < n,
         NEW s \in Nat, r + 1 < n => s = r + 1, r + 1 = n => s = 0, s # f
  PROVE  Held(f, s, n) = Held(f, r, n) + 1
<1>1. s < n
  OBVIOUS
<1>2. /\ r >= f => Held(f, r, n) = r - f
      /\ r < f => Held(f, r, n) = r - f + n
  BY HeldIs
<1>3. /\ s >= f => Held(f, s, n) = s - f
      /\ s < f => Held(f, s, n) = s - f + n
  BY <1>1, HeldIs
<1> QED BY <1>1, <1>2, <1>3

LEMMA SlotOfStore ==
  ASSUME NEW n \in Nat, NEW f \in Nat, NEW r \in Nat, f < n, r < n,
         NEW s \in Nat, r + 1 < n => s = r + 1, r + 1 = n => s = 0, s # f,
         NEW i \in Nat, 1 <= i, i <= Held(f, r, n) + 1
  PROVE  After(f, i, n) = s <=> i = Held(f, r, n) + 1
<1>1. /\ r >= f => Held(f, r, n) = r - f
      /\ r < f => Held(f, r, n) = r - f + n
  BY HeldIs
<1>2. i <= n
  BY <1>1
<1>3. /\ f + i < n => After(f, i, n) = f + i
      /\ f + i >= n => After(f, i, n) = f + i - n
  BY <1>2, SlotIs
<1> QED BY <1>1, <1>2, <1>3

(* One element less: the others keep their slots.                          *)
LEMMA HeldAfterTake ==
  ASSUME NEW n \in Nat, NEW f \in Nat, NEW r \in Nat, f < n, r < n, f # r,
         NEW g \in Nat, f + 1 < n => g = f + 1, f + 1 = n => g = 0
  PROVE  Held(g, r, n) = Held(f, r, n) - 1 /\ Held(f, r, n) > 0
<1>1. g < n
  OBVIOUS
<1>2. /\ r >= f => Held(f, r, n) = r - f
      /\ r < f => Held(f, r, n) = r - f + n
  BY HeldIs
<1>3. /\ r >= g => Held(g, r, n) = r - g
      /\ r < g => Held(g, r, n) = r - g + n
  BY <1>1, HeldIs
<1> QED BY <1>1, <1>2, <1>3

LEMMA SlotAfterTake ==
  ASSUME NEW n \in Nat, NEW f \in Nat, f < n,
         NEW g \in Nat, f + 1 < n => g = f + 1, f + 1 = n => g = 0,
         NEW i \in Nat, i < n
  PROVE  After(g, i, n) = After(f, i + 1, n)
<1>1. /\ g + i < n => After(g, i, n) = g + i
      /\ g + i >= n => After(g, i, n) = g + i - n
  BY SlotIs
<1>2. /\ f + i + 1 < n => After(f, i + 1, n) = f + i + 1
      /\ f + i + 1 >= n => After(f, i + 1, n) = f + i + 1 - n
  BY SlotIs
<1> QED BY <1>1, <1>2

LEMMA ElementsAreSeq ==
  ASSUME NEW S, NEW n \in Nat, NEW a \in [0..n-1 -> S],
         NEW f \in Nat, NEW r \in Nat, f < n, r < n
  PROVE  ElementsOf(a, f, r, n) \in Seq(S)
<1>1. Held(f, r, n) \in Nat /\ Held(f, r, n) < n
  BY HeldIs
<1>2. ASSUME NEW i \in 1..Held(f, r, n) PROVE a[After(f, i, n)] \in S
  <2>1. After(f, i, n) \in Nat /\ After(f, i, n) < n
    BY <1>1, SlotIs
  <2> QED BY <2>1
<1> QED BY <1>1, <1>2 DEF ElementsOf

LEMMA ElementCount ==
  ASSUME NEW n \in Nat, NEW a, NEW f \in Nat, NEW r \in Nat, f < n, r < n
  PROVE  Len(ElementsOf(a, f, r, n)) = Held(f, r, n)
<1>1. Held(f, r, n) \in Nat
  BY HeldIs
<1> QED BY <1>1 DEF ElementsOf

LEMMA ElementAt ==
  ASSUME NEW n, NEW a, NEW f, NEW r, NEW i \in 1..Held(f, r, n)
  PROVE  ElementsOf(a, f, r, n)[i] = a[After(f, i, n)]
  BY DEF ElementsOf

LEMMA StoreAppends ==
  ASSUME NEW n \in Nat, NEW a \in [0..n-1 -> Slots],
         NEW f \in Nat, NEW r \in Nat, f < n, r < n, NEW d \in Slots,
         NEW s \in Nat, r + 1 < n => s = r + 1, r + 1 = n => s = 0, s # f,
         NEW b \in [0..n-1 -> Slots], b[s] = d, \A j \in 0..n-1 : j # s => b[j] = a[j]
  PROVE  ElementsOf(b, f, s, n) = Append(ElementsOf(a, f, r, n), d)
<1> DEFINE k == Held(f, r, n)
           old == ElementsOf(a, f, r, n)
           new == ElementsOf(b, f, s, n)
<1>1. k \in Nat /\ k < n /\ s < n
  BY HeldIs
<1>2. Held(f, s, n) = k + 1
  BY HeldAfterStore
<1>3. old \in Seq(Slots) /\ Len(old) = k
  <2>1. old \in Seq(Slots)
    BY ElementsAreSeq
  <2>2. Len(old) = k
    BY ElementCount
  <2> QED BY <2>1, <2>2
<1>4. new \in Seq(Slots) /\ Len(new) = k + 1
  <2>1. new \in Seq(Slots)
    BY <1>1, ElementsAreSeq
  <2>2. Len(new) = Held(f, s, n)
    BY <1>1, ElementCount
  <2> QED BY <2>1, <2>2, <1>2
<1>5. ASSUME NEW i \in 1..k+1 PROVE new[i] = IF i = k + 1 THEN d ELSE old[i]
  <2>1. new[i] = b[After(f, i, n)]
    BY <1>2, ElementAt
  <2>2. i \in Nat /\ 1 <= i /\ i <= k + 1
    BY <1>1
  <2>3. After(f, i, n) = s <=> i = k + 1
    BY <2>2, SlotOfStore
  <2>4. After(f, i, n) \in 0..n-1
    <3>1. i <= n
      BY <1>1, <2>2
    <3>2. After(f, i, n) \in Nat
      BY <3>1, <2>2, SlotIs
    <3>3. After(f, i, n) < n
      BY <3>1, <2>2, SlotIs
    <3> QED BY <3>2, <3>3
  <2>5. CASE i = k + 1
    BY <2>1, <2>3, <2>5
  <2>6. CASE i # k + 1
    <3>1. i \in 1..k
      BY <2>6, <2>2, <1>1
    <3>2. old[i] = a[After(f, i, n)]
      BY <3>1, ElementAt
    <3> QED BY <3>2, <2>1, <2>3, <2>4, <2>6
  <2> QED BY <2>5, <2>6
<1> HIDE DEF k, old, new
<1>6. /\ Append(old, d) \in Seq(Slots) /\ Len(Append(old, d)) = k + 1
      /\ \A i \in 1..k : Append(old, d)[i] = old[i]
      /\ Append(old, d)[k + 1] = d
  BY <1>3, AppendProperties
<1>7. ASSUME NEW i \in 1..k+1 PROVE new[i] = Append(old, d)[i]
  <2>1. CASE i = k + 1
    BY <2>1, <1>5, <1>6
  <2>2. CASE i # k + 1
    <3>1. i \in 1..k
      BY <2>2, <1>1
    <3> QED BY <3>1, <2>2, <1>5, <1>6
  <2> QED BY <2>1, <2>2
<1>8. new = Append(old, d)
  BY <1>4, <1>6, <1>7, SeqEqual
<1> QED BY <1>8 DEF old, new

LEMMA TakeIsTail ==
  ASSUME NEW S, NEW n \in Nat, NEW a \in [0..n-1 -> S],
         NEW f \in Nat, NEW r \in Nat, f < n, r < n, f # r,
         NEW g \in Nat, f + 1 < n => g = f + 1, f + 1 = n => g = 0
  PROVE  /\ ElementsOf(a, f, r, n) # <<>>
         /\ a[g] = Head(ElementsOf(a, f, r, n))
         /\ ElementsOf(a, g, r, n) = Tail(ElementsOf(a, f, r, n))
<1> DEFINE k == Held(f, r, n)
           old == ElementsOf(a, f, r, n)
           new == ElementsOf(a, g, r, n)
<1>1. k \in Nat /\ k < n /\ g < n
  <2>1. k \in Nat
    BY HeldIs
  <2>2. k < n
    BY HeldIs
  <2> QED BY <2>1, <2>2
<1>2. Held(g, r, n) = k - 1 /\ k > 0
  BY HeldAfterTake
<1>3. old \in Seq(S) /\ Len(old) = k
  <2>1. old \in Seq(S)
    BY ElementsAreSeq
  <2>2. Len(old) = k
    BY ElementCount
  <2> QED BY <2>1, <2>2
<1>4. new \in Seq(S) /\ Len(new) = k - 1
  <2>1. new \in Seq(S)
    BY <1>1, ElementsAreSeq
  <2>2. Len(new) = Held(g, r, n)
    BY <1>1, ElementCount
  <2> QED BY <2>1, <2>2, <1>2
<1>5. old[1] = a[g]
  <2>1. old[1] = a[After(f, 1, n)]
    BY <1>1, <1>2, ElementAt
  <2>2. After(f, 1, n) = g
    BY NextSlot
  <2> QED BY <2>1, <2>2
<1>6. ASSUME NEW i \in 1..k-1 PROVE new[i] = old[i + 1]
  <2>1. new[i] = a[After(g, i, n)]
    BY <1>2, ElementAt
  <2>2. i + 1 \in 1..k /\ i \in Nat /\ i < n
    BY <1>1
  <2>3. old[i + 1] = a[After(f, i + 1, n)]
    BY <2>2, ElementAt
  <2>4. After(g, i, n) = After(f, i + 1, n)
    BY <2>2, SlotAfterTake
  <2> QED BY <2>1, <2>3, <2>4
<1> HIDE DEF k, old, new
<1>7. old # <<>> /\ Head(old) = old[1]
  BY <1>1, <1>2, <1>3, EmptySeq
<1>8. /\ Tail(old) \in Seq(S) /\ Len(Tail(old)) = k - 1
      /\ \A i \in 1..k-1 : Tail(old)[i] = old[i + 1]
  BY <1>3, <1>7, HeadTailProperties
<1>9. new = Tail(old)
  BY <1>4, <1>6, <1>8, SeqEqual
<1> QED BY <1>5, <1>7, <1>9 DEF old, new

LEMMA EmptyRing ==
  ASSUME NEW n \in Nat, NEW a, NEW f \in Nat, f < n
  PROVE  ElementsOf(a, f, f, n) = <<>>
<1>1. Held(f, f, n) = 0
  BY HeldIs
<1> QED BY <1>1 DEF ElementsOf

LEMMA SameElements ==
  ASSUME NEW a, NEW b, NEW f, NEW r, NEW n, NEW s, NEW m,
         Held(f, r, n) = Held(f, s, m),
         \A i \in 1..Held(f, r, n) : a[After(f, i, n)] = b[After(f, i, m)]
  PROVE  ElementsOf(a, f, r, n) = ElementsOf(b, f, s, m)
  BY DEF ElementsOf

(* Moving the wrapped part behind the end of the old ring of n slots, and  *)
(* counting modulo 2n from then on, leaves the sequence as it was.         *)
LEMMA UnwrapHeld ==
  ASSUME NEW n \in Nat, NEW f \in Nat, NEW r \in Nat, f < n, r < f
  PROVE  Held(f, n + r, 2 * n) = Held(f, r, n)
<1> DEFINE s == n + r
           m == 2 * n
<1>1. s \in Nat /\ m \in Nat /\ f < m /\ s < m /\ s >= f /\ s - f = r - f + n
  OBVIOUS
<1> HIDE DEF s, m
<1>2. Held(f, s, m) = s - f
  BY <1>1, HeldIs
<1>3. Held(f, r, n) = r - f + n
  BY HeldIs
<1> QED BY <1>1, <1>2, <1>3 DEF s, m

LEMMA DoubleHeld ==
  ASSUME NEW n \in Nat, NEW f \in Nat, NEW r \in Nat, f <= r, r < n
  PROVE  Held(f, r, 2 * n) = Held(f, r, n)
<1> DEFINE m == 2 * n
<1>1. m \in Nat /\ f < m /\ r < m
  OBVIOUS
<1> HIDE DEF m
<1>2. Held(f, r, m) = r - f
  BY <1>1, HeldIs
<1>3. Held(f, r, n) = r - f
  BY HeldIs
<1> QED BY <1>2, <1>3 DEF m

LEMMA DoubleSlot ==
  ASSUME NEW n \in Nat, NEW f \in Nat, NEW i \in Nat, f < n, i <= n
  PROVE  After(f, i, 2 * n) = f + i
<1> DEFINE m == 2 * n
<1>1. m \in Nat /\ f < m /\ i <= m /\ f + i < m
  OBVIOUS
<1> HIDE DEF m
<1>2. After(f, i, m) = f + i
  BY <1>1, SlotIs
<1> QED BY <1>2 DEF m

LEMMA UnwrapKeeps ==
  ASSUME NEW n \in Nat, NEW a, NEW b, NEW f \in Nat, NEW r \in Nat,
         f < n, r < f,
         b = [i \in 0..2*n-1 |-> IF i \in n..n+r THEN a[i - n] ELSE a[i]]
  PROVE  ElementsOf(b, f, n + r, 2 * n) = ElementsOf(a, f, r, n)
<1>1. Held(f, r, n) = r - f + n
  BY HeldIs
<1>2. ASSUME NEW i \in 1..Held(f, r, n)
      PROVE  a[After(f, i, n)] = b[After(f, i, 2 * n)]
  <2>1. i \in Nat /\ i <= n /\ f + i <= n + r
    BY <1>1
  <2>2. After(f, i, 2 * n) = f + i
    BY <2>1, DoubleSlot
  <2>3. CASE f + i < n
    <3>1. After(f, i, n) = f + i
      BY <2>1, <2>3, SlotIs
    <3> QED BY <3>1, <2>1, <2>2, <2>3
  <2>4. CASE f + i >= n
    <3>1. After(f, i, n) = f + i - n
      BY <2>1, <2>4, SlotIs
    <3>2. f + i \in n..n+r /\ f + i \in 0..2*n-1
      BY <2>1, <2>4
    <3> QED BY <3>1, <3>2, <2>2
  <2> QED BY <2>1, <2>3, <2>4
<1>3. Held(f, r, n) = Held(f, n + r, 2 * n)
  BY UnwrapHeld
<1> QED BY <1>2, <1>3 DEF ElementsOf

LEMMA DoubleKeeps ==
  ASSUME NEW n \in Nat, NEW a, NEW f \in Nat, NEW r \in Nat, f <= r, r < n
  PROVE  ElementsOf(a, f, r, 2 * n) = ElementsOf(a, f, r, n)
<1>1. Held(f, r, n) = r - f
  BY HeldIs
<1>2. ASSUME NEW i \in 1..Held(f, r, n)
      PROVE  a[After(f, i, n)] = a[After(f, i, 2 * n)]
  <2>1. i \in Nat /\ i <= n /\ f + i < n
    BY <1>1
  <2>2. After(f, i, 2 * n) = f + i
    BY <2>1, DoubleSlot
  <2>3. After(f, i, n) = f + i
    BY <2>1, SlotIs
  <2> QED BY <2>2, <2>3
<1>3. Held(f, r, n) = Held(f, r, 2 * n)
  BY DoubleHeld
<1> QED BY <1>2, <1>3, SameElements

(* realloc keeps the slots of the old ring.                                *)
LEMMA CopyKeeps ==
  ASSUME NEW n \in Nat, NEW a, NEW b, NEW f \in Nat, NEW r \in Nat,
         f < n, r < n, \A i \in 0..n-1 : b[i] = a[i]
  PROVE  ElementsOf(b, f, r, n) = ElementsOf(a, f, r, n)
<1>1. ASSUME NEW i \in 1..Held(f, r, n)
      PROVE  b[After(f, i, n)] = a[After(f, i, n)]
  <2>1. Held(f, r, n) \in Nat
    BY HeldIs
  <2>2. Held(f, r, n) < n
    BY HeldIs
  <2>3. i \in Nat /\ i <= n
    BY <2>1, <2>2
  <2>4. After(f, i, n) \in Nat
    BY <2>3, SlotIs
  <2>5. After(f, i, n) < n
    BY <2>3, SlotIs
  <2> QED BY <2>4, <2>5
<1> QED BY <1>1, SameElements

-----------------------------------------------------------------------------
(* The refinement.  Until a push has reported a failed realloc the array   *)
(* is not lost.                                                            *)
SoundInv == IInv /\ ~lost /\ ~fault
LossKnown == lost \/ fault => broken

LEMMA LossInv == LossKnown /\ [Next]_vars => LossKnown' /\ (broken => broken')
<1> SUFFICES ASSUME LossKnown, [Next]_vars
             PROVE  LossKnown' /\ (broken => broken')
  OBVIOUS
<1>1. CASE UNCHANGED vars
  BY <1>1 DEF vars, ring, LossKnown
<1>2. ASSUME NEW t \in Threads, Step(t)
      PROVE  LossKnown' /\ (broken => broken')
  BY <1>2 DEF LossKnown, Step, PushLock, PopLock, HeadLock, Lock, Body, PushGrow,
     PushGrowFails, PushRealign, PushStore, PopNone, PopTake, HeadRead,
     NullAccess, Unlock, ring
<1> QED BY <1>1, <1>2 DEF Next

LEMMA LossInvariance == Spec => []LossKnown
<1>1. Init => LossKnown
  BY DEF Init, LossKnown
<1>2. LossKnown /\ [Next]_vars => LossKnown'
  BY LossInv
<1> QED BY <1>1, <1>2, PTL DEF Spec

LEMMA SameRing == UNCHANGED ring => UNCHANGED Contents
  BY DEF ring, Contents, Ring

(* Outside the realignment the ring has size slots.                        *)
LEMMA Settled ==
  ASSUME IInv, NEW t \in Threads, pc[t] \notin {"ready", "realign"}
  PROVE  /\ org = 0 /\ Ring = size /\ size \in Nat
         /\ front \in Nat /\ front < size /\ rear \in Nat /\ rear < size
<1>1. org = 0
  BY DEF IInv, MutexInv, GrowthInv, TypeOK
<1> QED BY <1>1 DEF Ring, IInv, TypeOK

LEMMA GrowRefines ==
  ASSUME SoundInv, NEW t \in Threads, PushGrow(t)
  PROVE  UNCHANGED Contents
<1> USE DEF PushGrow, At
<1>1. /\ org = 0 /\ Ring = size /\ size \in Nat
      /\ front \in Nat /\ front < size /\ rear \in Nat /\ rear < size
  BY Settled DEF SoundInv
<1>2. Ring' = size /\ front' = front /\ rear' = rear
  BY <1>1 DEF Ring, SoundInv, IInv, TypeOK
<1>3. \A i \in 0..size-1 : q'[i] = q[i]
  BY <1>1 DEF SoundInv
<1>4. ElementsOf(q', front, rear, size) = ElementsOf(q, front, rear, size)
  <2> HIDE DEF PushGrow, At
  <2> DEFINE b == q'
  <2>1. \A i \in 0..size-1 : b[i] = q[i]
    BY <1>3
  <2> HIDE DEF b
  <2>2. ElementsOf(b, front, rear, size) = ElementsOf(q, front, rear, size)
    BY <1>1, <2>1, CopyKeeps
  <2> QED BY <2>2 DEF b
<1> QED BY <1>1, <1>2, <1>4 DEF Contents

LEMMA RealignRefines ==
  ASSUME SoundInv, NEW t \in Threads, PushRealign(t)
  PROVE  UNCHANGED Contents
<1> USE DEF PushRealign, At
<1>1. /\ org \in Nat /\ org # 0 /\ size = 2 * org /\ front < org /\ rear < org
      /\ front \in Nat /\ rear \in Nat
  BY DEF SoundInv, IInv, GrowthInv, TypeOK
<1>2. Ring = org /\ Ring' = 2 * org /\ front' = front
  BY <1>1 DEF Ring
<1>3. CASE rear < front
  <2>1. /\ q' = [i \in 0..2*org-1 |->
                   IF i \in org..org+rear THEN q[i - org] ELSE q[i]]
        /\ rear' = org + rear
    BY <1>1, <1>3
  <2>2. ElementsOf(q', front, org + rear, 2 * org) = ElementsOf(q, front, rear, org)
    <3> HIDE DEF PushRealign, At
    <3> DEFINE b == q'
    <3>1. b = [i \in 0..2*org-1 |-> IF i \in org..org+rear THEN q[i - org] ELSE q[i]]
      BY <2>1
    <3> HIDE DEF b
    <3>2. ElementsOf(b, front, org + rear, 2 * org) = ElementsOf(q, front, rear, org)
      BY <1>1, <1>3, <3>1, UnwrapKeeps
    <3> QED BY <3>2 DEF b
  <2> QED BY <1>2, <2>1, <2>2 DEF Contents
<1>4. CASE ~(rear < front)
  <2>1. q' = q /\ rear' = rear /\ front <= rear
    BY <1>1, <1>4
  <2>2. ElementsOf(q, front, rear, 2 * org) = ElementsOf(q, front, rear, org)
    BY <1>1, <2>1, DoubleKeeps
  <2> QED BY <1>2, <2>1, <2>2 DEF Contents
<1> QED BY <1>3, <1>4

LEMMA StoreRefines ==
  ASSUME SoundInv, NEW t \in Threads, PushStore(t)
  PROVE  Fifo!Put(t, arg[t]) /\ arg[t] \in Data
<1> USE DEF PushStore, MayStore, At, Returns
<1>1. /\ org = 0 /\ Ring = size /\ size \in Nat
      /\ front \in Nat /\ front < size /\ rear \in Nat /\ rear < size
  BY Settled DEF SoundInv
<1>2. Ring' = size /\ front' = front
  BY <1>1 DEF Ring
<1>3. arg[t] \in Data /\ arg[t] \in Slots /\ q \in [0..size-1 -> Slots]
  BY DEF SoundInv, IInv, MutexInv, TypeOK, Slots
<1>4. After(rear, 1, size) # front
  BY DEF SoundInv, IInv, GrowthInv, Full
<1>5. /\ rear + 1 < size => rear' = rear + 1
      /\ rear + 1 = size => rear' = 0
  BY <1>1, NextSlot
<1>6. rear' \in Nat /\ rear' # front
  BY <1>1, <1>4, <1>5
<1>7. ElementsOf(q', front, rear', size)
        = Append(ElementsOf(q, front, rear, size), arg[t])
  <2> DEFINE s == rear'
  <2> DEFINE b == q'
             d == arg[t]
  <2>1. /\ d \in Slots /\ b \in [0..size-1 -> Slots] /\ b[s] = d
        /\ \A j \in 0..size-1 : j # s => b[j] = q[j]
    BY <1>1, <1>3, <1>5
  <2>2. s \in Nat /\ s # front /\ (rear + 1 < size => s = rear + 1)
                  /\ (rear + 1 = size => s = 0)
    BY <1>5, <1>6
  <2> HIDE DEF b, d, s, PushStore, MayStore, At, Returns
  <2>3. ElementsOf(b, front, s, size) = Append(ElementsOf(q, front, rear, size), d)
    <3>1. /\ size \in Nat /\ q \in [0..size-1 -> Slots] /\ front \in Nat
          /\ rear \in Nat /\ front < size /\ rear < size
      BY <1>1, <1>3
    <3> QED BY <3>1, <2>1, <2>2, StoreAppends, SMTT(20)
  <2> QED BY <2>3 DEF b, d, s
<1>8. Contents' = Append(Contents, arg[t])
  BY <1>1, <1>2, <1>7 DEF Contents
<1> QED BY <1>3, <1>8 DEF Fifo!Put, Fifo!Returns

LEMMA TakeRefines ==
  ASSUME SoundInv, NEW t \in Threads, PopTake(t)
  PROVE  Fifo!Take(t)
<1> USE DEF PopTake, At, Returns
<1>1. /\ org = 0 /\ Ring = size /\ size \in Nat
      /\ front \in Nat /\ front < size /\ rear \in Nat /\ rear < size
  BY Settled DEF SoundInv
<1>2. Ring' = size /\ q' = q /\ rear' = rear
  BY <1>1 DEF Ring
<1>3. q \in [0..size-1 -> Slots] /\ front # rear
  BY DEF SoundInv, IInv, TypeOK, Empty
<1>4. /\ front + 1 < size => front' = front + 1
      /\ front + 1 = size => front' = 0
  BY <1>1, NextSlot
<1>5. /\ ElementsOf(q, front, rear, size) # <<>>
      /\ q[front'] = Head(ElementsOf(q, front, rear, size))
      /\ ElementsOf(q, front', rear, size) = Tail(ElementsOf(q, front, rear, size))
  <2> DEFINE g == front'
  <2>1. g \in Nat /\ (front + 1 < size => g = front + 1) /\ (front + 1 = size => g = 0)
    BY <1>1, <1>4
  <2> HIDE DEF g
  <2>2. /\ ElementsOf(q, front, rear, size) # <<>>
        /\ q[g] = Head(ElementsOf(q, front, rear, size))
        /\ ElementsOf(q, g, rear, size) = Tail(ElementsOf(q, front, rear, size))
    BY <1>1, <1>3, <2>1, TakeIsTail
  <2> QED BY <2>2 DEF g
<1> QED BY <1>1, <1>2, <1>5 DEF Contents, Fifo!Take, Fifo!Returns

LEMMA HeadRefines ==
  ASSUME SoundInv, NEW t \in Threads, HeadRead(t)
  PROVE  Fifo!Peek(t)
<1> USE DEF HeadRead, At, Returns
<1> DEFINE g == After(front, 1, size)
<1>1. /\ org = 0 /\ Ring = size /\ size \in Nat
      /\ front \in Nat /\ front < size /\ rear \in Nat /\ rear < size
  BY Settled DEF SoundInv
<1>2. UNCHANGED Contents
  BY SameRing
<1>3. q \in [0..size-1 -> Slots]
  BY DEF SoundInv, IInv, TypeOK
<1>4. /\ front + 1 < size => g = front + 1
      /\ front + 1 = size => g = 0
  BY <1>1, NextSlot
<1>5. g \in 0..size-1
  BY <1>1, <1>4
<1>6. answer' = [answer EXCEPT ![t] = q[g]]
  OBVIOUS
<1> HIDE DEF g
<1>7. Contents # <<>> => q[g] = Head(Contents)
  <2>1. CASE front = rear
    BY <1>1, <2>1, EmptyRing DEF Contents
  <2>2. CASE front # rear
    <3>1. g \in Nat
      BY <1>5
    <3>2. q[g] = Head(ElementsOf(q, front, rear, size))
      <4> HIDE DEF HeadRead, At, Returns
      <4> QED BY <1>1, <1>3, <1>4, <2>2, <3>1, TakeIsTail, ZenonT(30)
    <3> QED BY <1>1, <3>2 DEF Contents
  <2> QED BY <2>1, <2>2
<1>8. q[g] \in Data \cup {Garbage}
  BY <1>3, <1>5 DEF Slots
<1> QED BY <1>2, <1>6, <1>7, <1>8 DEF Fifo!Peek, Fifo!Returns

LEMMA NoneRefines ==
  ASSUME SoundInv, NEW t \in Threads, PopNone(t)
  PROVE  Fifo!TakeNone(t)
<1> USE DEF PopNone, At, Returns
<1>1. /\ Ring = size /\ size \in Nat /\ front \in Nat /\ front < size
  BY Settled DEF SoundInv
<1>2. Contents = <<>>
  BY <1>1, EmptyRing DEF Contents, Empty
<1>3. UNCHANGED Contents
  BY SameRing
<1> QED BY <1>2, <1>3 DEF Fifo!TakeNone, Fifo!Returns

LEMMA InitRefines == Init => Fifo!FifoInit
<1> SUFFICES ASSUME Init PROVE Fifo!FifoInit
  OBVIOUS
<1>1. Ring = size /\ size \in Nat /\ front = 0 /\ rear = 0 /\ 0 < size
  BY InitInv DEF Init, IInv, TypeOK, Ring
<1>2. Contents = <<>>
  BY <1>1, EmptyRing DEF Contents
<1> QED BY <1>2 DEF Init, Fifo!FifoInit

LEMMA StepRefines ==
  ASSUME SoundInv, ~broken', NEW t \in Threads, Step(t)
  PROVE  Fifo!Operation \/ UNCHANGED <<Contents, answer>>
<1>1. CASE PushGrow(t)
  BY <1>1, GrowRefines DEF PushGrow
<1>2. CASE PushRealign(t)
  BY <1>2, RealignRefines DEF PushRealign
<1>3. CASE PushStore(t)
  BY <1>3, StoreRefines DEF Fifo!Operation
<1>4. CASE PopNone(t)
  BY <1>4, NoneRefines DEF Fifo!Operation
<1>5. CASE PopTake(t)
  BY <1>5, TakeRefines DEF Fifo!Operation
<1>6. CASE HeadRead(t)
  BY <1>6, HeadRefines DEF Fifo!Operation
<1>7. CASE Unlock(t) \/ PopLock(t) \/ HeadLock(t) \/ \E d \in Data : PushLock(t, d)
  BY <1>7, SameRing DEF Unlock, PushLock, PopLock, HeadLock, Lock
<1>8. ~PushGrowFails(t) /\ ~NullAccess(t)
  BY DEF PushGrowFails, NullAccess, SoundInv
<1> QED BY <1>1, <1>2, <1>3, <1>4, <1>5, <1>6, <1>7, <1>8 DEF Step, Body

(* Until a realloc fails, the ring buffer of equeue.c implements the       *)
(* first-in first-out queue of FifoQueue, for any number of threads and    *)
(* any sequence of growths and wrap-arounds.                               *)
THEOREM RingImplementsFifo == Spec => IsFifo
<1>1. Init => Fifo!FifoInit
  BY InitRefines
<1>2. IInv /\ LossKnown /\ [Next]_vars => [Fifo!FifoNext]_(Fifo!fifoVars)
  <2> SUFFICES ASSUME IInv, LossKnown, [Next]_vars, ~broken'
               PROVE  /\ Fifo!Operation \/ UNCHANGED <<Contents, answer>>
                      /\ UNCHANGED broken
    BY DEF Fifo!FifoNext, Fifo!fifoVars
  <2>1. ~broken
    BY LossInv
  <2>2. SoundInv
    BY <2>1 DEF SoundInv, LossKnown
  <2>3. broken = FALSE /\ broken' = FALSE
    <3>1. broken \in BOOLEAN /\ broken' \in BOOLEAN
      BY NextInv DEF IInv, TypeOK
    <3> QED BY <2>1, <3>1, Zenon
  <2>4. CASE UNCHANGED vars
    BY <2>3, <2>4, SameRing DEF vars
  <2>5. CASE Next
    BY <2>2, <2>3, <2>5, StepRefines DEF Next
  <2> QED BY <2>4, <2>5
<1>3. Spec => []IInv
  BY Invariance
<1>4. Spec => []LossKnown
  BY LossInvariance
<1> QED BY <1>1, <1>2, <1>3, <1>4, PTL DEF Spec, IsFifo, Fifo!FifoSpec

-----------------------------------------------------------------------------
(* The unlocked readers.  A reader's call lies between operations of its   *)
(* thread.  While the only thread that pops reads, front stands still.     *)
Alone == {t \in Readers : Poppers \subseteq {t}}

ReaderTypes ==
  /\ call \in [Readers -> {"none", "empty", "count"}]
  /\ seen \in [Readers -> Seq(Nat)]
  /\ truths \in [Readers -> SUBSET Nat]
  /\ began \in [Readers -> Nat]

CallInv ==
  /\ \A t \in Threads : pc[t] = "pop" => t \in Poppers
  /\ \A t \in Readers :
        /\ call[t] = "none" => seen[t] = <<>>
        /\ call[t] # "none" => /\ pc[t] = "ready" /\ Count \in truths[t]
                               /\ began[t] <= size
                               /\ began[t] = size => org = 0

(* What has been loaded of front is front.  An answer that the queue holds *)
(* something stays true: nobody else takes from it.                        *)
EmptyInv == \A t \in Alone : call[t] = "empty" =>
  /\ Len(seen[t]) >= 1 => seen[t][1] = front
  /\ Len(seen[t]) = 2 =>
       /\ \E n \in truths[t] : (seen[t][1] = seen[t][2]) = (n = 0)
       /\ seen[t][1] # seen[t][2] => front # rear

(* As long as the ring has the size it had at the beginning of the call,   *)
(* the count of the moment rear was loaded is what will be computed.       *)
CountInv == \A t \in Alone : call[t] = "count" /\ size = began[t] =>
  /\ Len(seen[t]) >= 1 => /\ seen[t][1] < size
                          /\ Held(front, seen[t][1], size) \in truths[t]
  /\ Len(seen[t]) >= 2 => seen[t][2] = front
  /\ Len(seen[t]) >= 3 => seen[t][3] = size
  /\ Len(seen[t]) >= 4 => seen[t][4] = size

ReaderInv == IInv /\ ReaderTypes /\ CallInv /\ EmptyInv /\ CountInv

(* The readers change nothing of the queue.                                *)
LEMMA ReadersAreQueues == ReadersSpec => Spec
<1>1. ReadersInit => Init
  BY DEF ReadersInit
<1>2. [ReadersNext]_allVars => [Next]_vars
  BY DEF ReadersNext, QueueStep, Load, Begin, Return, Next, allVars
<1>. QED BY <1>1, <1>2, PTL DEF ReadersSpec, Spec

LEMMA CountIs ==
  ASSUME IInv
  PROVE  /\ Count \in Nat /\ (Count = 0 <=> front = rear)
         /\ front \in Nat /\ rear \in Nat /\ size \in Nat /\ size > 1
         /\ front < size /\ rear < size
         /\ org = 0 => Count = Held(front, rear, size)
<1>1. /\ front \in Nat /\ rear \in Nat /\ size \in Nat /\ size > 1
      /\ front < size /\ rear < size /\ org \in Nat
  BY DEF IInv, TypeOK
<1>2. Ring \in Nat /\ front < Ring /\ rear < Ring
  BY <1>1 DEF IInv, GrowthInv, Ring
<1>3. /\ rear >= front => Count = rear - front
      /\ rear < front => Count = rear - front + Ring
      /\ Count \in Nat
  BY <1>1, <1>2, HeldIs DEF Count
<1>. QED BY <1>1, <1>2, <1>3 DEF Count, Ring

(* What the queue's operations do meanwhile, seen by a caller in the       *)
(* middle of its loads.                                                    *)
LEMMA StepSeen ==
  ASSUME ReaderInv, NEW t \in Threads, QueueStep(t),
         NEW r \in Readers, call[r] # "none"
  PROVE  /\ pc'[r] = "ready"
         /\ r \in Alone => front' = front /\ (front # rear => front' # rear')
         /\ size' = size \/ size' > size
         /\ size' = size => org' = org \/ org' = 0
<1>. USE DEF ReaderInv, IInv
<1>1. t # r
  BY DEF QueueStep
<1>2. r \in Threads /\ pc[r] = "ready"
  <2>1. CallInv
    OBVIOUS
  <2>2. r \in Threads
    BY ReadersAreThreads
  <2>. HIDE DEF ReaderInv, IInv
  <2>. QED BY <2>1, <2>2 DEF CallInv
<1>3. r \in Alone => pc[t] # "pop"
  BY <1>1, ReadersAreThreads DEF Alone, CallInv
<1>t. /\ pc \in [Threads -> {"ready", "push", "realign", "store", "pop", "head", "unlock"}]
      /\ front \in Nat /\ rear \in Nat /\ size \in Nat /\ size > 1
      /\ front < size /\ rear < size
  BY CountIs DEF TypeOK
<1>4. CASE \E label \in {"push", "pop", "head"} : Lock(t, label)
  <2>1. UNCHANGED ring /\ \E label \in {"push", "pop", "head"} : pc' = [pc EXCEPT ![t] = label]
    BY <1>4 DEF Lock, Goto
  <2>. QED BY <1>1, <1>2, <1>t, <2>1 DEF ring
<1>5. CASE PushGrow(t) \/ PushGrowFails(t)
  <2>1. /\ UNCHANGED <<front, rear>> /\ size' = 2 * size
        /\ \E label \in {"realign", "unlock"} : pc' = [pc EXCEPT ![t] = label]
    BY <1>5 DEF PushGrow, PushGrowFails, Goto
  <2>. QED BY <1>1, <1>2, <1>t, <2>1
<1>6. CASE PushRealign(t)
  <2>1. UNCHANGED <<front, size>> /\ org' = 0 /\ pc' = [pc EXCEPT ![t] = "store"]
    BY <1>6 DEF PushRealign, Goto
  <2>2. org \in Nat /\ front < org /\ (rear < front => rear' = org + rear)
        /\ (~(rear < front) => rear' = rear)
    BY <1>6 DEF PushRealign, At, GrowthInv, TypeOK
  <2>. QED BY <1>1, <1>2, <1>t, <2>1, <2>2
<1>7. CASE PushStore(t)
  <2>1. /\ UNCHANGED <<front, size, org>> /\ rear' = After(rear, 1, size)
        /\ pc' = [pc EXCEPT ![t] = "unlock"] /\ ~Full
    BY <1>7 DEF PushStore, MayStore, Goto, At, GrowthInv
  <2>. QED BY <1>1, <1>2, <1>t, <2>1 DEF Full
<1>8. CASE PopNone(t) \/ PopTake(t)
  <2>1. /\ UNCHANGED <<size, org>> /\ r \notin Alone
        /\ pc' = [pc EXCEPT ![t] = "unlock"]
    BY <1>3, <1>8 DEF PopNone, PopTake, At, Goto, ring
  <2>. QED BY <1>1, <1>2, <1>t, <2>1
<1>9. CASE HeadRead(t) \/ NullAccess(t) \/ Unlock(t)
  <2>1. UNCHANGED ring
    BY <1>9 DEF HeadRead, NullAccess, Unlock
  <2>2. pc' = pc \/ \E label \in {"unlock", "ready"} : pc' = [pc EXCEPT ![t] = label]
    BY <1>9 DEF HeadRead, NullAccess, Unlock, Goto
  <2>. QED BY <1>1, <1>2, <1>t, <2>1, <2>2 DEF ring
<1>. QED BY <1>4, <1>5, <1>6, <1>7, <1>8, <1>9
         DEF QueueStep, Step, Body, PushLock, PopLock, HeadLock

LEMMA Witness ==
  ASSUME ReaderTypes, NEW r \in Readers, call[r] # "none", Witnessed
  PROVE  truths'[r] = truths[r] \cup {Count'}
  BY DEF Witnessed, ReaderTypes

LEMMA SlotIsNat ==
  \A n \in Nat : \A i \in 0..n-1 : i \in Nat /\ i < n
OBVIOUS

LEMMA QueueStepInv ==
  ASSUME ReaderInv, NEW t \in Threads, QueueStep(t)
  PROVE  ReaderInv'
<1>0. Step(t) /\ Witnessed /\ UNCHANGED <<call, seen, began>>
  BY DEF QueueStep, Witnessed
<1>1. IInv'
  BY <1>0, NextInv DEF ReaderInv, Next
<1>r. ReaderTypes /\ CallInv /\ EmptyInv /\ CountInv /\ IInv
  BY DEF ReaderInv
<1>2. Count' \in Nat
  <2>1. /\ front' \in Nat /\ rear' \in Nat /\ size' \in Nat /\ org' \in Nat
        /\ front' < size' /\ rear' < size'
    <3>1. /\ size' \in Nat \ {0, 1} /\ org' \in Nat
          /\ front' \in 0..size'-1 /\ rear' \in 0..size'-1
      BY <1>1, Zenon DEF IInv, TypeOK
    <3>. QED BY <3>1, SlotIsNat
  <2>3. org' # 0 => front' < org' /\ rear' < org'
    BY <1>1 DEF IInv, GrowthInv
  <2>2. Ring' \in Nat /\ front' < Ring' /\ rear' < Ring'
    BY <2>1, <2>3 DEF Ring
  <2>. QED BY <2>1, <2>2, HeldIs DEF Count
<1>3. ReaderTypes'
  <2>1. truths' \in [Readers -> SUBSET Nat]
    BY <1>0, <1>2, <1>r DEF Witnessed, ReaderTypes
  <2>. QED BY <1>0, <1>r, <2>1 DEF ReaderTypes
<1>4. CallInv'
  <2>1. ASSUME NEW u \in Threads, pc'[u] = "pop" PROVE u \in Poppers
    BY <1>0, <1>r, <2>1
    DEF CallInv, Step, PushLock, PopLock, HeadLock, Lock, Body, PushGrow, PushGrowFails,
        PushRealign, PushStore, PopNone, PopTake, HeadRead, NullAccess, Unlock, Goto,
        IInv, TypeOK
  <2>2. ASSUME NEW u \in Readers, call'[u] # "none"
        PROVE  /\ pc'[u] = "ready" /\ Count' \in truths'[u]
               /\ began'[u] <= size' /\ (began'[u] = size' => org' = 0)
    <3>1. call[u] # "none"
      BY <1>0, <2>2
    <3>2. /\ pc'[u] = "ready" /\ (size' = size \/ size' > size)
          /\ size' = size => org' = org \/ org' = 0
      BY <3>1, StepSeen
    <3>3. truths'[u] = truths[u] \cup {Count'}
      BY <1>0, <1>r, <3>1, Witness
    <3>4. /\ began[u] <= size /\ (began[u] = size => org = 0) /\ began[u] \in Nat
          /\ size \in Nat
      BY <1>r, <3>1, CountIs DEF CallInv, ReaderTypes
    <3>5. size' \in Nat
      BY <1>1 DEF IInv, TypeOK
    <3>. QED BY <1>0, <3>2, <3>3, <3>4, <3>5
  <2>. QED BY <1>0, <1>r, <2>1, <2>2 DEF CallInv
<1>5. EmptyInv'
  <2>. SUFFICES ASSUME NEW u \in Alone, call[u] = "empty"
                PROVE /\ Len(seen[u]) >= 1 => seen[u][1] = front'
                      /\ Len(seen[u]) = 2 =>
                           /\ \E n \in truths'[u] : (seen[u][1] = seen[u][2]) = (n = 0)
                           /\ seen[u][1] # seen[u][2] => front' # rear'
    BY <1>0 DEF EmptyInv
  <2>1. front' = front /\ (front # rear => front' # rear')
    BY StepSeen DEF Alone
  <2>2. truths'[u] = truths[u] \cup {Count'}
    BY <1>0, <1>r, Witness DEF Alone
  <2>. QED BY <1>r, <2>1, <2>2 DEF EmptyInv
<1>6. CountInv'
  <2>. SUFFICES ASSUME NEW u \in Alone, call[u] = "count", size' = began[u]
                PROVE /\ Len(seen[u]) >= 1 => /\ seen[u][1] < size'
                                              /\ Held(front', seen[u][1], size') \in truths'[u]
                      /\ Len(seen[u]) >= 2 => seen[u][2] = front'
                      /\ Len(seen[u]) >= 3 => seen[u][3] = size'
                      /\ Len(seen[u]) >= 4 => seen[u][4] = size'
    BY <1>0 DEF CountInv
  <2>1. front' = front /\ (size' = size \/ size' > size)
    BY StepSeen DEF Alone
  <2>2. began[u] <= size /\ began[u] \in Nat /\ size \in Nat
    BY <1>r, CountIs DEF CallInv, ReaderTypes, Alone
  <2>3. size' = size
    BY <2>1, <2>2
  <2>4. truths'[u] = truths[u] \cup {Count'}
    BY <1>0, <1>r, Witness DEF Alone
  <2>. QED BY <1>r, <2>1, <2>3, <2>4 DEF CountInv
<1>. QED BY <1>1, <1>3, <1>4, <1>5, <1>6 DEF ReaderInv

LEMMA AppendLoad ==
  ASSUME NEW s \in Seq(Nat), NEW n \in Nat
  PROVE  /\ Append(s, n) \in Seq(Nat) /\ Len(Append(s, n)) = Len(s) + 1
         /\ Append(s, n)[Len(s) + 1] = n /\ Len(s) \in Nat
         /\ \A i \in 1..Len(s) : Append(s, n)[i] = s[i]
OBVIOUS

LEMMA SmallNumbers ==
  \A n \in Nat : (n < 2 => n \in {0, 1}) /\ (n < 4 => n \in {0, 1, 2, 3})
OBVIOUS

LEMMA LoadedOf ==
  ASSUME NEW n, NEW a, NEW b
  PROVE  (n = 0 => <<a, b>>[n + 1] = a) /\ (n = 1 => <<a, b>>[n + 1] = b)
OBVIOUS

LEMMA LoadedOfFour ==
  ASSUME NEW n, NEW a, NEW b, NEW c, NEW d, NEW v, v = <<a, b, c, d>>[n + 1]
  PROVE  /\ n = 0 => v = a
         /\ n = 1 => v = b
         /\ n = 2 => v = c
         /\ n = 3 => v = d
OBVIOUS

LEMMA LoadInv ==
  ASSUME ReaderInv, NEW t \in Readers, Load(t)
  PROVE  ReaderInv'
<1>. DEFINE s == seen[t]
            v == Loads(call[t])[Len(s) + 1]
<1>r. ReaderTypes /\ CallInv /\ EmptyInv /\ CountInv /\ IInv
  BY DEF ReaderInv
<1>0. /\ UNCHANGED vars /\ UNCHANGED <<call, truths, began>> /\ call[t] # "none"
      /\ Len(s) < Len(Loads(call[t])) /\ seen' = [seen EXCEPT ![t] = Append(s, v)]
  BY DEF Load
<1>c. /\ front \in Nat /\ rear \in Nat /\ size \in Nat /\ front < size /\ rear < size
      /\ (Count = 0 <=> front = rear) /\ (org = 0 => Count = Held(front, rear, size))
  BY <1>r, CountIs
<1>s. s \in Seq(Nat) /\ Len(s) \in Nat
  BY <1>r DEF ReaderTypes
<1>1. IInv'
  BY <1>0, <1>r, NextInv
<1>2. \/ /\ call[t] = "empty" /\ Len(s) \in {0, 1}
         /\ (Len(s) = 0 => v = front) /\ (Len(s) = 1 => v = rear)
      \/ /\ call[t] = "count" /\ Len(s) \in {0, 1, 2, 3}
         /\ (Len(s) = 0 => v = rear) /\ (Len(s) = 1 => v = front)
         /\ (Len(s) \in {2, 3} => v = size)
  <2>1. CASE call[t] = "empty"
    <3>1. Loads(call[t]) = <<front, rear>>
      BY <2>1 DEF Loads
    <3>2. Len(s) < 2
      BY <1>0, <3>1
    <3>3. Len(s) \in {0, 1}
      BY <1>s, <3>2, SmallNumbers, Zenon
    <3>4. v = <<front, rear>>[Len(s) + 1]
      BY <3>1
    <3>. HIDE DEF s, v
    <3>5. (Len(s) = 0 => v = front) /\ (Len(s) = 1 => v = rear)
      BY <3>4, LoadedOf
    <3>. QED BY <2>1, <3>3, <3>5
  <2>2. CASE call[t] = "count"
    <3>1. Loads(call[t]) = <<rear, front, size, size>>
      BY <2>2 DEF Loads
    <3>2. Len(s) < 4
      BY <1>0, <3>1
    <3>3. Len(s) \in {0, 1, 2, 3}
      BY <1>s, <3>2, SmallNumbers, Zenon
    <3>4. v = <<rear, front, size, size>>[Len(s) + 1]
      BY <3>1
    <3>. HIDE DEF s, v
    <3>5. /\ (Len(s) = 0 => v = rear) /\ (Len(s) = 1 => v = front)
          /\ (Len(s) = 2 => v = size) /\ (Len(s) = 3 => v = size)
      <4>. DEFINE n == Len(s)
      <4>1. v = <<rear, front, size, size>>[n + 1]
        BY <3>4
      <4>. HIDE DEF n
      <4>2. (n = 0 => v = rear) /\ (n = 1 => v = front) /\ (n = 2 => v = size) /\ (n = 3 => v = size)
        BY <4>1, LoadedOfFour
      <4>. QED BY <4>2 DEF n
    <3>. QED BY <2>2, <3>3, <3>5
  <2>. QED BY <1>0, <1>r, <2>1, <2>2 DEF ReaderTypes
<1>. HIDE DEF v
<1>3. v \in Nat
  BY <1>2, <1>c
<1>4. /\ Append(s, v) \in Seq(Nat) /\ Len(Append(s, v)) = Len(s) + 1
      /\ Append(s, v)[Len(s) + 1] = v
      /\ \A i \in 1..Len(s) : Append(s, v)[i] = s[i]
  BY <1>s, <1>3, AppendLoad
<1>5. /\ \A u \in Readers : u # t => seen'[u] = seen[u]
      /\ seen'[t] = Append(s, v)
  BY <1>0, <1>r DEF ReaderTypes
<1>6. ReaderTypes'
  BY <1>0, <1>r, <1>4 DEF ReaderTypes
<1>7. UNCHANGED <<q, front, rear, size, org, pc, Count>>
  BY <1>0 DEF vars, ring, Count, Ring
<1>8. CallInv'
  BY <1>0, <1>r, <1>5, <1>7 DEF CallInv
<1>9. EmptyInv'
  <2>1. ASSUME call[t] = "empty", t \in Alone
        PROVE /\ Len(seen'[t]) >= 1 => seen'[t][1] = front
              /\ Len(seen'[t]) = 2 =>
                   /\ \E n \in truths[t] : (seen'[t][1] = seen'[t][2]) = (n = 0)
                   /\ seen'[t][1] # seen'[t][2] => front # rear
    <3>1. CASE Len(s) = 0
      BY <1>2, <1>4, <1>5, <2>1, <3>1
    <3>2. CASE Len(s) = 1
      <4>1. seen'[t][1] = front /\ seen'[t][2] = rear
        BY <1>2, <1>4, <1>5, <1>r, <2>1, <3>2 DEF EmptyInv
      <4>2. Count \in truths[t]
        BY <1>r, <2>1 DEF CallInv
      <4>. QED BY <1>c, <4>1, <4>2
    <3>. QED BY <1>2, <1>s, <2>1, <3>1, <3>2
  <2>2. ASSUME NEW u \in Alone, u # t, call[u] = "empty"
        PROVE /\ Len(seen'[u]) >= 1 => seen'[u][1] = front
              /\ Len(seen'[u]) = 2 =>
                   /\ \E n \in truths[u] : (seen'[u][1] = seen'[u][2]) = (n = 0)
                   /\ seen'[u][1] # seen'[u][2] => front # rear
    BY <1>5, <1>r, <2>2 DEF EmptyInv, Alone
  <2>. QED BY <1>0, <1>7, <2>1, <2>2 DEF EmptyInv
<1>10. CountInv'
  <2>1. ASSUME t \in Alone, call[t] = "count", size = began[t]
        PROVE /\ Len(seen'[t]) >= 1 => /\ seen'[t][1] < size
                                       /\ Held(front, seen'[t][1], size) \in truths[t]
              /\ Len(seen'[t]) >= 2 => seen'[t][2] = front
              /\ Len(seen'[t]) >= 3 => seen'[t][3] = size
              /\ Len(seen'[t]) >= 4 => seen'[t][4] = size
    <3>1. /\ Len(s) >= 1 => s[1] < size /\ Held(front, s[1], size) \in truths[t]
          /\ Len(s) >= 2 => s[2] = front
          /\ Len(s) >= 3 => s[3] = size
      BY <1>r, <2>1 DEF CountInv
    <3>2. Held(front, rear, size) \in truths[t]
      BY <1>c, <1>r, <2>1 DEF CallInv
    <3>3. CASE Len(s) = 0
      BY <1>2, <1>4, <1>5, <1>c, <2>1, <3>2, <3>3
    <3>4. CASE Len(s) = 1
      BY <1>2, <1>4, <1>5, <2>1, <3>1, <3>4
    <3>5. CASE Len(s) = 2
      BY <1>2, <1>4, <1>5, <2>1, <3>1, <3>5
    <3>6. CASE Len(s) = 3
      BY <1>2, <1>4, <1>5, <2>1, <3>1, <3>6
    <3>. QED BY <1>2, <1>s, <2>1, <3>3, <3>4, <3>5, <3>6
  <2>2. ASSUME NEW u \in Alone, u # t, call[u] = "count", size = began[u]
        PROVE /\ Len(seen'[u]) >= 1 => /\ seen'[u][1] < size
                                       /\ Held(front, seen'[u][1], size) \in truths[u]
              /\ Len(seen'[u]) >= 2 => seen'[u][2] = front
              /\ Len(seen'[u]) >= 3 => seen'[u][3] = size
              /\ Len(seen'[u]) >= 4 => seen'[u][4] = size
    BY <1>5, <1>r, <2>2 DEF CountInv, Alone
  <2>. QED BY <1>0, <1>7, <2>1, <2>2 DEF CountInv
<1>. QED BY <1>1, <1>6, <1>8, <1>9, <1>10 DEF ReaderInv

LEMMA BeginInv ==
  ASSUME ReaderInv, NEW t \in Readers, NEW fn \in {"empty", "count"}, Begin(t, fn)
  PROVE  ReaderInv'
<1>r. ReaderTypes /\ CallInv /\ EmptyInv /\ CountInv /\ IInv
  BY DEF ReaderInv
<1>0. /\ UNCHANGED vars /\ UNCHANGED seen /\ call[t] = "none" /\ pc[t] = "ready"
      /\ call' = [call EXCEPT ![t] = fn] /\ truths' = [truths EXCEPT ![t] = {Count}]
      /\ began' = [began EXCEPT ![t] = Ring]
  BY DEF Begin, At
<1>c. Count \in Nat /\ size \in Nat /\ Ring \in Nat /\ Ring <= size /\ (Ring = size => org = 0)
  <2>1. Count \in Nat /\ size \in Nat /\ org \in Nat
    BY <1>r, CountIs DEF IInv, TypeOK
  <2>. QED BY <1>r, <2>1 DEF IInv, GrowthInv, Ring
<1>1. IInv'
  BY <1>0, <1>r, NextInv
<1>2. ReaderTypes'
  <2>1. truths' \in [Readers -> SUBSET Nat]
    BY <1>0, <1>r, <1>c DEF ReaderTypes
  <2>. QED BY <1>0, <1>r, <1>c, <2>1 DEF ReaderTypes
<1>3. /\ \A u \in Readers : u # t => /\ call'[u] = call[u] /\ truths'[u] = truths[u]
                                     /\ began'[u] = began[u]
      /\ call'[t] = fn /\ truths'[t] = {Count} /\ began'[t] = Ring /\ seen[t] = <<>>
  BY <1>0, <1>r DEF ReaderTypes, CallInv
<1>4. UNCHANGED <<q, front, rear, size, org, pc, Count>>
  BY <1>0 DEF vars, ring, Count, Ring
<1>5. CallInv'
  BY <1>0, <1>r, <1>c, <1>3, <1>4 DEF CallInv
<1>e. Len(<<>>) = 0
  OBVIOUS
<1>6. EmptyInv'
  BY <1>0, <1>r, <1>3, <1>4, <1>e DEF EmptyInv, Alone
<1>7. CountInv'
  BY <1>0, <1>r, <1>3, <1>4, <1>e DEF CountInv, Alone
<1>. QED BY <1>1, <1>2, <1>5, <1>6, <1>7 DEF ReaderInv

LEMMA ReturnInv ==
  ASSUME ReaderInv, NEW t \in Readers, NEW fn \in {"empty", "count"}, Return(t, fn)
  PROVE  ReaderInv'
<1>r. ReaderTypes /\ CallInv /\ EmptyInv /\ CountInv /\ IInv
  BY DEF ReaderInv
<1>0. /\ UNCHANGED vars
      /\ call' = [call EXCEPT ![t] = "none"] /\ seen' = [seen EXCEPT ![t] = <<>>]
      /\ truths' = [truths EXCEPT ![t] = {}] /\ began' = [began EXCEPT ![t] = 0]
  BY DEF Return
<1>1. IInv'
  BY <1>0, <1>r, NextInv
<1>2. ReaderTypes'
  <2>1. seen' \in [Readers -> Seq(Nat)]
    <3>1. <<>> \in Seq(Nat)
      OBVIOUS
    <3>. QED BY <1>0, <1>r, <3>1 DEF ReaderTypes
  <2>2. truths' \in [Readers -> SUBSET Nat]
    BY <1>0, <1>r DEF ReaderTypes
  <2>. QED BY <1>0, <1>r, <2>1, <2>2 DEF ReaderTypes
<1>3. /\ \A u \in Readers : u # t => /\ call'[u] = call[u] /\ truths'[u] = truths[u]
                                     /\ began'[u] = began[u] /\ seen'[u] = seen[u]
      /\ call'[t] = "none" /\ seen'[t] = <<>>
  BY <1>0, <1>r DEF ReaderTypes
<1>4. UNCHANGED <<q, front, rear, size, org, pc, Count>>
  BY <1>0 DEF vars, ring, Count, Ring
<1>5. CallInv'
  BY <1>r, <1>3, <1>4 DEF CallInv
<1>6. EmptyInv'
  BY <1>r, <1>3, <1>4 DEF EmptyInv, Alone
<1>7. CountInv'
  BY <1>r, <1>3, <1>4 DEF CountInv, Alone
<1>. QED BY <1>1, <1>2, <1>5, <1>6, <1>7 DEF ReaderInv

LEMMA ReadersInitInv == ReadersInit => ReaderInv
<1>. SUFFICES ASSUME ReadersInit PROVE ReaderInv
  OBVIOUS
<1>1. IInv /\ \A t \in Threads : pc[t] = "ready"
  BY InitInv DEF ReadersInit, Init
<1>2. <<>> \in Seq(Nat)
  OBVIOUS
<1>3. ReaderTypes /\ \A t \in Readers : call[t] = "none" /\ seen[t] = <<>>
  BY <1>2 DEF ReadersInit, ReaderTypes
<1>4. CallInv /\ EmptyInv /\ CountInv
  BY <1>1, <1>3 DEF CallInv, EmptyInv, CountInv, Alone
<1>. QED BY <1>1, <1>3, <1>4 DEF ReaderInv

THEOREM ReadersInvariance == ReadersSpec => []ReaderInv
<1>1. ReaderInv /\ [ReadersNext]_allVars => ReaderInv'
  <2>. SUFFICES ASSUME ReaderInv, [ReadersNext]_allVars PROVE ReaderInv'
    OBVIOUS
  <2>1. CASE UNCHANGED allVars
    <3>1. UNCHANGED vars /\ UNCHANGED <<call, seen, truths, began>>
      BY <2>1 DEF allVars, readerVars
    <3>2. IInv'
      BY <3>1, NextInv DEF ReaderInv
    <3>3. UNCHANGED <<q, front, rear, size, org, pc, Count>>
      BY <3>1 DEF vars, ring, Count, Ring
    <3>. QED BY <3>1, <3>2, <3>3
         DEF ReaderInv, ReaderTypes, CallInv, EmptyInv, CountInv
  <2>2. CASE ReadersNext
    BY <2>2, QueueStepInv, LoadInv, BeginInv, ReturnInv DEF ReadersNext
  <2>. QED BY <2>1, <2>2
<1>. QED BY ReadersInitInv, <1>1, PTL DEF ReadersSpec

(* equeue.h:75-79: the only consumer that finds the queue not empty may    *)
(* pop without looking again, however many threads push meanwhile.         *)
THEOREM NotEmptyIsStable == ReadersSpec => []NotEmptyStays
<1>1. ASSUME ReaderInv PROVE NotEmptyStays
  <2>. SUFFICES ASSUME NEW t \in Readers, AtReturn(t, "empty"), Poppers = {t},
                       ~Value("empty", seen[t])
                PROVE  Count > 0
    BY DEF NotEmptyStays
  <2>1. call[t] = "empty" /\ Len(seen[t]) = 2 /\ seen[t][1] # seen[t][2]
    BY DEF AtReturn, Loads, Value
  <2>2. front # rear
    BY <1>1, <2>1 DEF ReaderInv, EmptyInv, Alone
  <2>. QED BY <1>1, <2>2, CountIs DEF ReaderInv
<1>. QED BY <1>1, ReadersInvariance, PTL

(* equeue.h:75-79: queue_empty, which takes no lock, tells the only        *)
(* consumer what was the case at some instant of the call.                 *)
THEOREM EmptyIsLinearisable ==
  ASSUME \A t \in Readers : Poppers \subseteq {t}
  PROVE  ReadersSpec => []EmptyIsTrue
<1>1. ASSUME ReaderInv PROVE EmptyIsTrue
  <2>. SUFFICES ASSUME NEW t \in Readers, AtReturn(t, "empty")
                PROVE  \E n \in truths[t] : Value("empty", seen[t]) = (n = 0)
    BY DEF EmptyIsTrue
  <2>1. /\ call[t] = "empty" /\ Len(seen[t]) = 2
        /\ Value("empty", seen[t]) = (seen[t][1] = seen[t][2])
    BY DEF AtReturn, Loads, Value
  <2>. QED BY <1>1, <2>1 DEF ReaderInv, EmptyInv, Alone
<1>. QED BY <1>1, ReadersInvariance, PTL

(* equeue.h:84-87: queue_element_count tells it a number that was right    *)
(* at some instant of the call, if the ring has not grown since it began.  *)
THEOREM CountIsLinearisable ==
  ASSUME \A t \in Readers : Poppers \subseteq {t}
  PROVE  ReadersSpec => []CountIsTrue
<1>1. ASSUME ReaderInv PROVE CountIsTrue
  <2>. SUFFICES ASSUME NEW t \in Readers, AtReturn(t, "count"), size = began[t]
                PROVE  Value("count", seen[t]) \in truths[t]
    BY DEF CountIsTrue
  <2>1. /\ call[t] = "count" /\ Len(seen[t]) = 4
        /\ Value("count", seen[t]) = CMod(seen[t][1] - seen[t][2] + seen[t][3], seen[t][4])
    BY DEF AtReturn, Loads, Value
  <2>. DEFINE r == seen[t][1]
  <2>2. /\ r < size /\ Held(front, r, size) \in truths[t] /\ seen[t][2] = front
        /\ seen[t][3] = size /\ seen[t][4] = size
    BY <1>1, <2>1 DEF ReaderInv, CountInv, Alone
  <2>3. r \in Nat /\ front \in Nat /\ size \in Nat /\ front < size
    <3>1. seen[t] \in Seq(Nat)
      BY <1>1 DEF ReaderInv, ReaderTypes
    <3>2. r \in Nat
      BY <2>1, <3>1
    <3>. QED BY <1>1, <3>2, CountIs DEF ReaderInv
  <2>4. r - front + size >= 0
    BY <2>2, <2>3
  <2>. QED BY <2>1, <2>2, <2>4 DEF CMod, Held
<1>. QED BY <1>1, ReadersInvariance, PTL
=============================================================================
