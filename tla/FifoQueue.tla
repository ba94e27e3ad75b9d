------------------------------ MODULE FifoQueue ------------------------------
(***************************************************************************)
(* What equeue.h promises of a queue shared by threads: each operation     *)
(* takes effect at one instant, an element pushed is popped exactly once,  *)
(* and elements leave in the order in which they entered.  EQueue, the     *)
(* ring buffer of equeue.c, implements it; EThreadPool uses it in place of *)
(* the ring buffer.                                                        *)
(***************************************************************************)
EXTENDS Sequences

CONSTANTS Data,      \* the pointers a caller may push
          Threads,   \* the callers
          Nil,       \* NULL, the answer of queue_pop on an empty queue
          Garbage    \* what memory holds before anything is stored in it

VARIABLES items,     \* the elements of the queue, the oldest first
          answer,    \* answer[t]: what t's last operation returned
          broken     \* a push has failed for want of memory

fifoVars == <<items, answer, broken>>

Returns(t, v) == answer' = [answer EXCEPT ![t] = v]

FifoInit ==
  items = <<>> /\ answer = [t \in Threads |-> "none"] /\ broken = FALSE

(* queue_push: always room, the queue grows.                               *)
Put(t, d) == items' = Append(items, d) /\ Returns(t, "ok")

(* Mutant: the element stays.                                              *)
TakeKeeps(t) == items # <<>> /\ UNCHANGED items /\ Returns(t, Head(items))

(* queue_pop on a queue that holds something, and on an empty one.         *)
Take(t) == items # <<>> /\ items' = Tail(items) /\ Returns(t, Head(items))

TakeNone(t) == items = <<>> /\ Returns(t, Nil) /\ UNCHANGED items

(* queue_head: the header says nothing of an empty queue.                  *)
Peek(t) ==
  /\ \E v \in Data \cup {Garbage} :
        (items # <<>> => v = Head(items)) /\ Returns(t, v)
  /\ UNCHANGED items

Operation == \E t \in Threads :
  (\E d \in Data : Put(t, d)) \/ Take(t) \/ TakeNone(t) \/ Peek(t)

(* Nothing is promised of a queue whose push has failed.                   *)
FifoNext == (Operation /\ UNCHANGED broken) \/ broken'

FifoSpec == FifoInit /\ [][FifoNext]_fifoVars
=============================================================================
