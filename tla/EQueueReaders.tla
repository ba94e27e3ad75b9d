---------------------------- MODULE EQueueReaders ----------------------------
(***************************************************************************)
(* queue_empty and queue_element_count of equeue.c read the fields of the  *)
(* queue without its mutex, while other threads push and pop.  The library *)
(* is built without optimisation, so each function loads the fields one at *)
(* a time in the order its expression names them, and any step of another  *)
(* thread may fall between two loads.                                      *)
(***************************************************************************)
EXTENDS EQueue

CONSTANTS Readers   \* the threads that call the two functions

ASSUME ReadersAreThreads == Readers \subseteq Threads

VARIABLES
  call,    \* call[t]: the function t is in, or "none"
  seen,    \* seen[t]: the values t has loaded so far
  truths,  \* truths[t]: history, the true counts since the call began
  began    \* began[t]: history, the ring's slots in use when it began

readerVars == <<call, seen, truths, began>>
allVars == <<vars, readerVars>>

(* The loads of each function, in order: queue_element_count loads size    *)
(* twice.                                                                  *)
Loads(fn) == CASE fn = "empty" -> <<front, rear>>
               [] fn = "count" -> <<rear, front, size, size>>

(* C's %: the remainder takes the sign of the dividend.                    *)
CMod(a, b) == IF a >= 0 THEN a % b ELSE -((-a) % b)

(* Mutants: the wrap-around is forgotten, in either function.              *)
ValueOrdered(fn, l) == IF fn = "empty" THEN l[1] >= l[2]
                       ELSE CMod(l[1] - l[2], l[4])
ValueNeverEqual(fn, l) == IF fn = "empty" THEN l[1] > l[2]
                          ELSE CMod(l[1] - l[2] + l[3], l[4])

(* What each function computes from its loads.                             *)
Value(fn, l) == CASE fn = "empty" -> l[1] = l[2]
                  [] fn = "count" -> CMod(l[1] - l[2] + l[3], l[4])

AtReturn(t, fn) == call[t] = fn /\ Len(seen[t]) = Len(Loads(fn))

-----------------------------------------------------------------------------
ReadersInit ==
  /\ Init
  /\ call = [t \in Readers |-> "none"]
  /\ seen = [t \in Readers |-> <<>>]
  /\ truths = [t \in Readers |-> {}]
  /\ began = [t \in Readers |-> 0]

Begin(t, fn) ==
  /\ call[t] = "none" /\ At(t, "ready")
  /\ call' = [call EXCEPT ![t] = fn]
  /\ truths' = [truths EXCEPT ![t] = {Count}]
  /\ began' = [began EXCEPT ![t] = Ring]
  /\ UNCHANGED <<vars, seen>>

Load(t) ==
  /\ call[t] # "none" /\ ~fault
  /\ Len(seen[t]) < Len(Loads(call[t]))
  /\ seen' = [seen EXCEPT ![t] = Append(@, Loads(call[t])[Len(@) + 1])]
  /\ UNCHANGED <<vars, call, truths, began>>

Return(t, fn) ==
  /\ AtReturn(t, fn) /\ ~fault
  /\ call' = [call EXCEPT ![t] = "none"]
  /\ seen' = [seen EXCEPT ![t] = <<>>]
  /\ truths' = [truths EXCEPT ![t] = {}]
  /\ began' = [began EXCEPT ![t] = 0]
  /\ UNCHANGED vars

(* What the readers' calls witness of a step of push, pop or head.         *)
Witnessed ==
  /\ truths' = [r \in Readers |->
                  IF call[r] = "none" THEN {} ELSE truths[r] \cup {Count'}]
  /\ UNCHANGED <<call, seen, began>>

(* t runs one function at a time.                                          *)
QueueStep(t) ==
  /\ t \in Readers => call[t] = "none"
  /\ Step(t) /\ Witnessed

ReadersNext ==
  \/ \E t \in Threads : QueueStep(t)
  \/ \E t \in Readers : Load(t)
  \/ \E t \in Readers, fn \in {"empty", "count"} :
        Begin(t, fn) \/ Return(t, fn)

(* A thread inside an operation is never blocked, so a preemptive          *)
(* scheduler lets it go on.  Nothing is assumed of who gets the mutex.     *)
ReadersSpec ==
  /\ ReadersInit /\ [][ReadersNext]_allVars
  /\ \A t \in Threads : WF_allVars(Body(t) /\ Witnessed)

-----------------------------------------------------------------------------
(* equeue.h:75-79: queue_empty returns 1 when the queue is empty and 0     *)
(* when it is not.  Read as a linearisable answer: at some instant of the  *)
(* call it was the truth.  It is when the caller is the only thread that   *)
(* pops, growth and wrap-around included.                                  *)
EmptyIsTrue ==
  \A t \in Readers : AtReturn(t, "empty") =>
     \E n \in truths[t] : Value("empty", seen[t]) = (n = 0)

(* equeue.h:84-87: queue_element_count returns the number of elements, at  *)
(* some instant of the call.  It does when the caller is the only thread   *)
(* that pops and no growth of the ring overlaps the call.                  *)
CountIsTrue ==
  \A t \in Readers : AtReturn(t, "count") /\ size = began[t] =>
     Value("count", seen[t]) \in truths[t]

(* The same, without the condition that equeue.h does not name.            *)
CountIsTrueDespiteGrowth ==
  \A t \in Readers : AtReturn(t, "count") =>
     Value("count", seen[t]) \in truths[t]

(* A consumer that is told the queue is not empty and is its only consumer *)
(* may pop without checking: the answer still holds when it returns.       *)
NotEmptyStays ==
  \A t \in Readers : AtReturn(t, "empty") /\ Poppers = {t}
     /\ ~Value("empty", seen[t]) => Count > 0
=============================================================================
