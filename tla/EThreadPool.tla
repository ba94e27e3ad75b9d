----------------------------- MODULE EThreadPool -----------------------------
(***************************************************************************)
(* ethread_pool.c: an owner creates a pool of worker threads around one    *)
(* queue, clients push tasks, the owner destroys the pool.  The functions  *)
(* of the workers are the caller's; the macros of ethread_pool.h and the   *)
(* field work_continue prescribe their shape: loop while work_continue is  *)
(* set, pop from the pool's queue, run what was popped.                    *)
(*                                                                         *)
(* The queue is FifoQueue, which EQueue implements, so that each of its    *)
(* operations is one step here.                                            *)
(***************************************************************************)
EXTENDS Integers, Sequences, FiniteSets

CONSTANTS
  Sizes,           \* the numbers of workers thread_pool_create is asked for
  Clients, Tasks,  \* a task is pushed once
  Nil, Garbage,
  CreateMayFail,   \* whether malloc, queue_create, pthread_create may fail
  Quiet            \* whether no client pushes while the pool is destroyed

ASSUME PoolAssumption ==
  /\ Sizes \subseteq Int /\ IsFiniteSet(Sizes)
  /\ CreateMayFail \in BOOLEAN /\ Quiet \in BOOLEAN
  /\ Clients \cap Int = {}
  /\ Nil \notin Tasks     \* NULL popped means that there was no task

Workers == UNION {0..n-1 : n \in Sizes}

VARIABLES
  owner,    \* the statement the owner is at
  num, idx, \* pool->thread_num and the loop variable i
  mem,      \* the memory of the pool, of pool->threads and of pool->queue
  ptr,      \* the caller's pointer is not NULL
  created,  \* the workers whose pthread_create succeeded
  flag,     \* threads[i].work_continue
  wpc, hand,     \* each worker's statement, and the task it runs
  cpc, cdata,    \* each client's statement, and the task it pushes
  items, answer, \* the queue
  ran,      \* history: the tasks that were run, in order of completion
  given,    \* history: the tasks whose push returned 1
  fault     \* the process touched memory it must not, or joined no thread:
            \* nothing is said of it any more

ownerVars  == <<owner, num, idx, mem, ptr, created, flag>>
workerVars == <<wpc, hand, ran>>
clientVars == <<cpc, cdata, given>>
vars == <<ownerVars, workerVars, clientVars, items, answer, fault>>

Queue == INSTANCE FifoQueue WITH Data <- Tasks, Threads <- Workers \cup Clients,
                                 broken <- FALSE

-----------------------------------------------------------------------------
Init ==
  /\ owner = "start" /\ num = 0 /\ idx = 0 /\ ptr = FALSE
  /\ mem = [pool |-> "none", threads |-> "none", queue |-> "none"]
  /\ created = {}
  /\ flag = [w \in Workers |-> 0]
  /\ wpc = [w \in Workers |-> "none"] /\ hand = [w \in Workers |-> Nil]
  /\ cpc = [c \in Clients |-> "idle"] /\ cdata = [c \in Clients |-> Nil]
  /\ Queue!FifoInit
  /\ ran = <<>> /\ given = {}
  /\ fault = FALSE

OwnerAt(label) == owner = label /\ ~fault
Fails == CreateMayFail /\ UNCHANGED <<created, ptr>>

(* What the owner's steps leave alone.                                     *)
OwnerOnly == UNCHANGED <<workerVars, clientVars, items, answer>>

-----------------------------------------------------------------------------
(* thread_pool_create                                                      *)
CreateCall(n) ==
  /\ OwnerAt("start")
  /\ num' = n /\ owner' = (IF n <= 0 THEN "failed" ELSE "malloc_pool")
  /\ UNCHANGED <<idx, mem, ptr, created, flag, fault>> /\ OwnerOnly

MallocPool ==
  /\ OwnerAt("malloc_pool")
  /\ \/ /\ mem' = [pool |-> "live", threads |-> "junk", queue |-> "junk"]
        /\ owner' = "malloc_threads" /\ UNCHANGED <<created, ptr>>
     \/ Fails /\ owner' = "failed" /\ UNCHANGED mem
  /\ UNCHANGED <<num, idx, flag, fault>> /\ OwnerOnly

(* Mutant: the failed create returns without destroying the pool.          *)
MallocThreadsForgetsPool ==
  /\ OwnerAt("malloc_threads")
  /\ \/ /\ mem' = [mem EXCEPT !.threads = "live"]
        /\ owner' = "queue_create" /\ UNCHANGED <<created, ptr>>
     \/ /\ Fails
        /\ mem' = [mem EXCEPT !.threads = "null"] /\ owner' = "failed"
  /\ UNCHANGED <<num, idx, flag, fault>> /\ OwnerOnly

(* When it fails, thread_pool_destroy finds threads NULL and goes straight *)
(* to the queue, a field that was never set.                               *)
MallocThreads ==
  /\ OwnerAt("malloc_threads")
  /\ \/ /\ mem' = [mem EXCEPT !.threads = "live"]
        /\ owner' = "queue_create" /\ UNCHANGED <<created, ptr>>
     \/ /\ Fails
        /\ mem' = [mem EXCEPT !.threads = "null"] /\ owner' = "free_queue"
  /\ UNCHANGED <<num, idx, flag, fault>> /\ OwnerOnly

QueueCreate ==
  /\ OwnerAt("queue_create")
  /\ \/ /\ mem' = [mem EXCEPT !.queue = "live"]
        /\ owner' = "spawn" /\ UNCHANGED <<created, ptr>>
     \/ /\ Fails
        /\ mem' = [mem EXCEPT !.queue = "null"] /\ owner' = "flags"
  /\ UNCHANGED <<num, idx, flag, fault>> /\ OwnerOnly

(* Mutant: work_continue is left at the 0 of bzero.                        *)
SpawnUnflagged ==
  /\ OwnerAt("spawn") /\ idx < num
  /\ \/ /\ created' = created \cup {idx} /\ wpc' = [wpc EXCEPT ![idx] = "loop"]
        /\ idx' = idx + 1 /\ UNCHANGED <<owner, ptr>>
     \/ /\ Fails
        /\ owner' = "flags" /\ idx' = 0 /\ UNCHANGED wpc
  /\ UNCHANGED <<num, mem, flag, hand, ran, clientVars, items, answer, fault>>

(* One turn of the loop that starts the workers.                           *)
Spawn ==
  /\ OwnerAt("spawn") /\ idx < num
  /\ flag' = [flag EXCEPT ![idx] = 1]
  /\ \/ /\ created' = created \cup {idx} /\ wpc' = [wpc EXCEPT ![idx] = "loop"]
        /\ idx' = idx + 1 /\ UNCHANGED <<owner, ptr>>
     \/ /\ Fails
        /\ owner' = "flags" /\ idx' = 0 /\ UNCHANGED wpc
  /\ UNCHANGED <<num, mem, hand, ran, clientVars, items, answer, fault>>

CreateReturn ==
  /\ OwnerAt("spawn") /\ idx = num
  /\ ptr' = TRUE /\ owner' = "ready" /\ idx' = 0
  /\ UNCHANGED <<num, mem, created, flag, fault>> /\ OwnerOnly

-----------------------------------------------------------------------------
(* thread_pool_destroy, called by the owner or by a create that fails.     *)
DestroyCall ==
  /\ OwnerAt("ready")
  /\ Quiet => \A c \in Clients : cpc[c] = "idle"
  /\ owner' = "flags"
  /\ UNCHANGED <<num, idx, mem, ptr, created, flag, fault>> /\ OwnerOnly

(* Mutants: the loop misses the last worker, or runs one too far.          *)
ClearFlagShort ==
  /\ OwnerAt("flags")
  /\ IF idx < num - 1
     THEN /\ flag' = [flag EXCEPT ![idx] = 0]
          /\ idx' = idx + 1 /\ UNCHANGED owner
     ELSE owner' = "join" /\ idx' = 0 /\ UNCHANGED flag
  /\ UNCHANGED <<num, mem, ptr, created, fault>> /\ OwnerOnly

ClearFlagFar ==
  /\ OwnerAt("flags")
  /\ IF idx <= num
     THEN /\ flag' = [flag EXCEPT ![idx] = 0]
          /\ idx' = idx + 1 /\ UNCHANGED owner
     ELSE owner' = "join" /\ idx' = 0 /\ UNCHANGED flag
  /\ UNCHANGED <<num, mem, ptr, created, fault>> /\ OwnerOnly

ClearFlag ==
  /\ OwnerAt("flags")
  /\ IF idx < num
     THEN /\ flag' = [flag EXCEPT ![idx] = 0]
          /\ idx' = idx + 1 /\ UNCHANGED owner
     ELSE owner' = "join" /\ idx' = 0 /\ UNCHANGED flag
  /\ UNCHANGED <<num, mem, ptr, created, fault>> /\ OwnerOnly

(* Mutant: the workers are not waited for.                                 *)
JoinNobody ==
  /\ OwnerAt("join") /\ idx < num
  /\ idx' = idx + 1
  /\ UNCHANGED <<owner, num, mem, ptr, created, flag, fault>> /\ OwnerOnly

(* pthread_join waits for a worker; of a thread that was never created it  *)
(* is undefined.                                                           *)
JoinThread ==
  /\ OwnerAt("join") /\ idx < num
  /\ IF idx \in created THEN wpc[idx] = "exit" /\ idx' = idx + 1 /\ UNCHANGED fault
                        ELSE fault' = TRUE /\ UNCHANGED idx
  /\ UNCHANGED <<owner, num, mem, ptr, created, flag>> /\ OwnerOnly

FreeThreads ==
  /\ OwnerAt("join") /\ idx = num
  /\ mem' = [mem EXCEPT !.threads = "freed"]
  /\ owner' = "free_queue" /\ idx' = 0
  /\ UNCHANGED <<num, ptr, created, flag, fault>> /\ OwnerOnly

(* Mutant: the caller's pointer is not set to NULL.                        *)
FreeQueueKeepsPointer ==
  /\ OwnerAt("free_queue")
  /\ \/ /\ mem.queue = "junk" /\ fault' = TRUE
        /\ UNCHANGED <<owner, mem>>
     \/ /\ mem' = [pool |-> "freed", threads |-> mem.threads,
                   queue |-> IF mem.queue = "live" THEN "freed" ELSE "null"]
        /\ owner' = (IF ptr THEN "done" ELSE "failed")
        /\ UNCHANGED fault
  /\ UNCHANGED <<num, idx, ptr, created, flag>> /\ OwnerOnly

(* queue_destroy, unless pool->queue is NULL, and the end of the pool.  A  *)
(* field that was never set may hold NULL or any address.  Tasks that are  *)
(* still queued stay behind in the freed memory.                           *)
FreeQueue ==
  /\ OwnerAt("free_queue")
  /\ \/ /\ mem.queue = "junk" /\ fault' = TRUE
        /\ UNCHANGED <<owner, mem, ptr>>
     \/ /\ mem' = [pool |-> "freed", threads |-> mem.threads,
                   queue |-> IF mem.queue = "live" THEN "freed" ELSE "null"]
        /\ owner' = (IF ptr THEN "done" ELSE "failed")
        /\ ptr' = FALSE
        /\ UNCHANGED fault
  /\ UNCHANGED <<num, idx, created, flag>> /\ OwnerOnly

-----------------------------------------------------------------------------
(* A worker.                                                               *)
WorkerAt(w, label) == wpc[w] = label /\ ~fault

Test(w) ==
  /\ WorkerAt(w, "loop")
  /\ fault' = (mem.threads # "live")
  /\ wpc' = [wpc EXCEPT ![w] = IF flag[w] = 1 THEN "pop" ELSE "exit"]
  /\ UNCHANGED <<ownerVars, hand, ran, clientVars, items, answer>>

Reachable == mem.threads = "live" /\ mem.pool = "live" /\ mem.queue = "live"

Pop(w) ==
  /\ WorkerAt(w, "pop")
  /\ fault' = ~Reachable
  /\ \/ /\ Queue!Take(w)
        /\ wpc' = [wpc EXCEPT ![w] = "work"]
        /\ hand' = [hand EXCEPT ![w] = answer'[w]]
     \/ /\ Queue!TakeNone(w)
        /\ wpc' = [wpc EXCEPT ![w] = "loop"]
        /\ UNCHANGED hand
  /\ UNCHANGED <<ownerVars, ran, clientVars>>

Work(w) ==
  /\ WorkerAt(w, "work")
  /\ ran' = Append(ran, hand[w])
  /\ hand' = [hand EXCEPT ![w] = Nil] /\ wpc' = [wpc EXCEPT ![w] = "loop"]
  /\ UNCHANGED <<ownerVars, clientVars, items, answer, fault>>

-----------------------------------------------------------------------------
(* A client: thread_pool_push_task looks at the pointer it is passed, then *)
(* follows it to the queue.                                                *)
Destroying == owner \in {"flags", "join", "free_queue"}
Fresh == Tasks \ (given \cup {cdata[c] : c \in Clients})

PushCall(c, d) ==
  /\ cpc[c] = "idle" /\ ~fault
  /\ Quiet => ~Destroying
  /\ IF ptr THEN /\ cpc' = [cpc EXCEPT ![c] = "push"]
                 /\ cdata' = [cdata EXCEPT ![c] = d] /\ UNCHANGED answer
            ELSE Queue!Returns(c, "failed") /\ UNCHANGED <<cpc, cdata>>
  /\ UNCHANGED <<ownerVars, workerVars, given, items, fault>>

PushTask(c) ==
  /\ cpc[c] = "push" /\ ~fault
  /\ fault' = ~(mem.pool = "live" /\ mem.queue = "live")
  /\ Queue!Put(c, cdata[c])
  /\ given' = given \cup {cdata[c]}
  /\ cpc' = [cpc EXCEPT ![c] = "idle"] /\ cdata' = [cdata EXCEPT ![c] = Nil]
  /\ UNCHANGED <<ownerVars, workerVars>>

-----------------------------------------------------------------------------
OwnerStep ==
  \/ \E n \in Sizes : CreateCall(n)
  \/ MallocPool \/ MallocThreads \/ QueueCreate \/ Spawn \/ CreateReturn
  \/ DestroyCall \/ ClearFlag \/ JoinThread \/ FreeThreads \/ FreeQueue

WorkerStep(w) == Test(w) \/ Pop(w) \/ Work(w)

ClientStep(c) == (\E d \in Fresh : PushCall(c, d)) \/ PushTask(c)

Next == OwnerStep \/ (\E w \in Workers : WorkerStep(w))
                  \/ (\E c \in Clients : ClientStep(c))

(* Every thread is scheduled, and a task returns; the owner goes through   *)
(* with a destroy it has begun.                                            *)
Fairness ==
  /\ \A w \in Workers : WF_vars(WorkerStep(w))
  /\ WF_vars(ClearFlag \/ JoinThread \/ FreeThreads \/ FreeQueue)

Spec == Init /\ [][Next]_vars /\ Fairness

-----------------------------------------------------------------------------
(* The fields of the pool and the places of tasks keep their types through *)
(* every failure of thread_pool_create.                                    *)
TypeOK ==
  /\ owner \in {"start", "malloc_pool", "malloc_threads", "queue_create",
                "spawn", "ready", "flags", "join", "free_queue", "done", "failed"}
  /\ num \in Sizes \cup {0} /\ idx \in Nat /\ (num > 0 => idx <= num)
  /\ mem \in [pool : {"none", "live", "freed"},
              threads : {"none", "junk", "null", "live", "freed"},
              queue : {"none", "junk", "null", "live", "freed"}]
  /\ ptr \in BOOLEAN /\ fault \in BOOLEAN
  /\ created \subseteq Workers /\ flag \in [Workers -> {0, 1}]
  /\ wpc \in [Workers -> {"none", "loop", "pop", "work", "exit"}]
  /\ hand \in [Workers -> Tasks \cup {Nil}]
  /\ cpc \in [Clients -> {"idle", "push"}] /\ cdata \in [Clients -> Tasks \cup {Nil}]
  /\ items \in Seq(Tasks) /\ ran \in Seq(Tasks) /\ given \subseteq Tasks

(* No thread follows a pointer into freed or unset memory once the pool    *)
(* was created, if nobody pushes to it during its destruction:             *)
(* thread_pool_destroy frees nothing a worker still uses, and a worker     *)
(* started before thread_pool_create returns finds all it reads.  What     *)
(* else goes wrong is the clean-up of a create that failed.                *)
CleaningUp == owner \in {"join", "free_queue"} /\ ~ptr

NoWildAccess == fault => CleaningUp

(* thread_pool_destroy (ethread_pool.c:86-97) frees the contexts and the   *)
(* queue only when every worker has returned, and has run what it popped.  *)
JoinedBeforeFree ==
  mem.threads = "freed" \/ mem.queue = "freed" =>
    \A w \in Workers : wpc[w] \in {"none", "exit"} /\ hand[w] = Nil

(* A task whose push returned 1 is in one place: queued, with one worker,  *)
(* or run.  None is run twice, and none is lost on the way, not even when  *)
(* workers stop: what was not run is still in the queue.                   *)
Places(d) ==
  Cardinality({i \in DOMAIN items : items[i] = d})
    + Cardinality({w \in Workers : hand[w] = d})
    + Cardinality({i \in DOMAIN ran : ran[i] = d})

TaskInOnePlace == \A d \in Tasks : Places(d) = IF d \in given THEN 1 ELSE 0

(* A thread_pool_create that returns NULL leaves no memory and no thread   *)
(* behind.                                                                 *)
FailedCreateLeavesNothing ==
  owner = "failed" => /\ "live" \notin {mem.pool, mem.threads, mem.queue}
                      /\ \A w \in Workers : wpc[w] \in {"none", "exit"}

(* thread_pool_destroy returns, busy as the workers may be: it neither     *)
(* waits for tasks that are still queued nor misses a worker that exits    *)
(* early.                                                                  *)
DestroyReturns == owner = "flags" ~> owner \in {"done", "failed"} \/ fault

(* While the pool exists every queued task is run in the end, whichever    *)
(* worker looks first.                                                     *)
QueuedTasksRun ==
  \A d \in Tasks : (d \in given) ~> (d \in {ran[i] : i \in DOMAIN ran}
                                     \/ owner # "ready" \/ fault)

(* ethread_pool.c:31-45 and 52-58: when an allocation or pthread_create    *)
(* fails, thread_pool_create cleans up and returns NULL.                   *)
FailedCreateReturns == ~fault
=============================================================================
