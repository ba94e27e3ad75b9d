--------------------------- MODULE EThreadPoolProofs ---------------------------
(***************************************************************************)
(* The thread pool, for every number of workers, clients and tasks, and    *)
(* whatever fails while it is created.                                     *)
(***************************************************************************)
EXTENDS EThreadPool, FiniteSetTheorems, TLAPS

Callers == Workers \cup Clients
Answers == Tasks \cup {Nil, "none", "ok", "failed"}
Stopped(w) == wpc[w] \in {"none", "exit"}

(* What is allocated at each statement of the owner.  Once workers may     *)
(* run, all they read is there.                                            *)
MemInv ==
  /\ owner \in {"start", "malloc_pool"} =>
       mem.pool = "none" /\ mem.threads = "none" /\ mem.queue = "none"
  /\ owner = "malloc_threads" =>
       mem.pool = "live" /\ mem.threads = "junk" /\ mem.queue = "junk"
  /\ owner = "queue_create" =>
       mem.pool = "live" /\ mem.threads = "live" /\ mem.queue = "junk"
  /\ owner = "spawn" => mem.queue = "live"
  /\ owner \in {"spawn", "ready", "flags", "join"} =>
       /\ mem.pool = "live" /\ mem.threads = "live"
       /\ mem.queue = "live" \/ (mem.queue = "null" /\ created = {})
  /\ owner = "free_queue" =>
       mem.pool = "live" /\ mem.threads \in {"null", "freed"} /\ mem.queue # "freed"
  /\ owner \in {"done", "failed"} =>
       "live" \notin {mem.pool, mem.threads, mem.queue}

(* The workers that have been created: the first idx while the loop runs,  *)
(* all when the caller has the pool.                                       *)
CreatedInv ==
  /\ owner \notin {"start", "failed"} => num > 0
  /\ owner = "spawn" => created = 0..(idx - 1)
  /\ owner \in {"start", "malloc_pool", "malloc_threads", "queue_create"} =>
       created = {} /\ idx = 0 /\ ~ptr
  /\ owner = "ready" => ptr /\ idx = 0
  /\ created \subseteq 0..(num - 1)
  /\ ptr => /\ owner \in {"ready", "flags", "join", "free_queue"}
            /\ created = 0..(num - 1) /\ mem.queue = "live"

(* Those before idx have been joined, and all before anything is freed.    *)
JoinInv ==
  /\ \A w \in Workers : wpc[w] = "none" <=> w \notin created
  /\ owner = "join" => \A w \in created : w < idx => wpc[w] = "exit"
  /\ owner \in {"free_queue", "done", "failed"} => \A w \in Workers : Stopped(w)

(* A client that passed the test of the pointer is waited for, by          *)
(* agreement.                                                              *)
QuietInv == Quiet => \A c \in Clients : cpc[c] = "push" => owner = "ready"

HandInv == \A w \in Workers : wpc[w] = "work" <=> hand[w] # Nil

AnswerType == answer \in [Callers -> Answers]

(* Without failures there is nothing to clean up.                          *)
NoFailure ==
  ~CreateMayFail => (owner \in {"flags", "join", "free_queue"} => ptr)

(* A task is with one client, before it is given, and in one place after.  *)
Queued(d)  == \E i \in DOMAIN items : items[i] = d
HasRun(d)  == \E i \in DOMAIN ran : ran[i] = d
InHand(d)  == \E w \in Workers : hand[w] = d

Unique ==
  /\ \A i, j \in DOMAIN items : items[i] = items[j] => i = j
  /\ \A i, j \in DOMAIN ran : ran[i] = ran[j] => i = j
  /\ \A v, w \in Workers : hand[v] = hand[w] /\ hand[v] # Nil => v = w
  /\ \A b, c \in Clients : cdata[b] = cdata[c] /\ cdata[b] # Nil => b = c

Apart ==
  /\ \A d \in Tasks : ~(Queued(d) /\ HasRun(d)) /\ ~(Queued(d) /\ InHand(d))
                        /\ ~(HasRun(d) /\ InHand(d))
  /\ \A d \in Tasks : d \in given <=> Queued(d) \/ HasRun(d) \/ InHand(d)
  /\ \A c \in Clients : /\ cpc[c] = "push" <=> cdata[c] # Nil
                        /\ cdata[c] \notin given

ControlInv == MemInv /\ CreatedInv /\ JoinInv /\ QuietInv /\ NoFailure
                /\ (Quiet => NoWildAccess)
TaskInv == HandInv /\ AnswerType /\ Unique /\ Apart
IInv == TypeOK /\ ControlInv /\ TaskInv

-----------------------------------------------------------------------------
LEMMA WorkersAreInts == \A n \in Sizes : 0..(n - 1) \subseteq Workers
BY DEF Workers

LEMMA InitInv == Init => IInv
<1>. SUFFICES ASSUME Init PROVE IInv
  OBVIOUS
<1>. USE DEF Init
<1>1. items = <<>> /\ answer = [t \in Callers |-> "none"]
  BY DEF Queue!FifoInit, Callers
<1>e. <<>> \in Seq(Tasks) /\ DOMAIN <<>> = {}
  OBVIOUS
<1>2. TypeOK
  <2>1. mem \in [pool : {"none", "live", "freed"},
                threads : {"none", "junk", "null", "live", "freed"},
                queue : {"none", "junk", "null", "live", "freed"}]
    OBVIOUS
  <2>2. /\ flag \in [Workers -> {0, 1}] /\ hand \in [Workers -> Tasks \cup {Nil}]
        /\ wpc \in [Workers -> {"none", "loop", "pop", "work", "exit"}]
    OBVIOUS
  <2>3. cpc \in [Clients -> {"idle", "push"}] /\ cdata \in [Clients -> Tasks \cup {Nil}]
    OBVIOUS
  <2>4. items \in Seq(Tasks) /\ ran \in Seq(Tasks) /\ given \subseteq Tasks
    BY <1>1, <1>e
  <2>5. /\ owner = "start" /\ num = 0 /\ idx = 0
        /\ ptr \in BOOLEAN /\ fault \in BOOLEAN /\ created \subseteq Workers
    OBVIOUS
  <2>. HIDE DEF Init
  <2>. QED BY <2>1, <2>2, <2>3, <2>4, <2>5 DEF TypeOK
<1>3. ControlInv
  BY DEF ControlInv, MemInv, CreatedInv, JoinInv, QuietInv, NoFailure,
         NoWildAccess, Stopped
<1>4. Unique /\ Apart
  <2>1. DOMAIN items = {} /\ DOMAIN ran = {}
    BY <1>1, <1>e
  <2>2. /\ \A w \in Workers : hand[w] = Nil
        /\ \A c \in Clients : cdata[c] = Nil /\ cpc[c] = "idle"
    OBVIOUS
  <2>3. Unique
    BY <2>1, <2>2 DEF Unique
  <2>4. \A d \in Tasks : ~Queued(d) /\ ~HasRun(d) /\ ~InHand(d)
    BY <2>1, <2>2, PoolAssumption DEF Queued, HasRun, InHand
  <2>5. Apart
    BY <2>2, <2>4 DEF Apart
  <2>. QED BY <2>3, <2>5
<1>5. HandInv /\ AnswerType
  BY <1>1 DEF HandInv, AnswerType, Answers
<1>. QED BY <1>2, <1>3, <1>4, <1>5 DEF IInv, TaskInv

-----------------------------------------------------------------------------
(* The owner.  Its steps leave the tasks where they are.                   *)
LEMMA TaskKept ==
  ASSUME TaskInv, UNCHANGED <<hand, ran, cpc, cdata, given, items, answer>>,
         \A w \in Workers : wpc'[w] = "work" <=> wpc[w] = "work"
  PROVE  TaskInv'
<1>1. HandInv' /\ AnswerType'
  BY DEF TaskInv, HandInv, AnswerType
<1>2. Unique'
  BY DEF TaskInv, Unique
<1>3. Apart'
  BY DEF TaskInv, Apart, Queued, HasRun, InHand
<1>. QED BY <1>1, <1>2, <1>3 DEF TaskInv

LEMMA CreateInv ==
  ASSUME IInv, \/ \E n \in Sizes : CreateCall(n)
               \/ MallocPool \/ MallocThreads \/ QueueCreate
  PROVE  IInv'
<1>. UNCHANGED <<wpc, hand, ran, cpc, cdata, given, items, answer>>
  BY DEF CreateCall, MallocPool, MallocThreads, QueueCreate, OwnerOnly,
         workerVars, clientVars
<1>t. TaskInv'
  BY TaskKept DEF IInv
<1>. USE DEF IInv, ControlInv, OwnerAt
<1>1. CASE \E n \in Sizes : CreateCall(n)
  <2>. PICK n \in Sizes : CreateCall(n)
    BY <1>1
  <2>. n \in Int
    BY PoolAssumption
  <2>1. TypeOK'
    BY DEF CreateCall, TypeOK, CreatedInv
  <2>2. MemInv' /\ CreatedInv' /\ JoinInv' /\ QuietInv' /\ NoFailure' /\ (Quiet => NoWildAccess)'
    BY DEF CreateCall, TypeOK, MemInv, CreatedInv, JoinInv, QuietInv, NoFailure,
           NoWildAccess, CleaningUp, Stopped
  <2>. QED BY <1>t, <2>1, <2>2
<1>2. CASE MallocPool
  <2>1. TypeOK'
    BY <1>2 DEF MallocPool, TypeOK, Fails
  <2>2. MemInv' /\ CreatedInv'
    <3>1. owner = "malloc_pool" /\ created = {} /\ idx = 0 /\ ~ptr /\ num > 0
      BY <1>2 DEF MallocPool, CreatedInv
    <3>2. mem.pool = "none" /\ mem.threads = "none" /\ mem.queue = "none"
      BY <3>1 DEF MemInv
    <3>3. UNCHANGED <<created, idx, ptr, num>>
      BY <1>2 DEF MallocPool, Fails
    <3>4. CASE owner' = "failed" /\ mem' = mem
      BY <3>1, <3>2, <3>3, <3>4 DEF MemInv, CreatedInv
    <3>5. CASE /\ owner' = "malloc_threads"
               /\ mem' = [pool |-> "live", threads |-> "junk", queue |-> "junk"]
      BY <3>1, <3>3, <3>5 DEF MemInv, CreatedInv
    <3>. QED BY <1>2, <3>4, <3>5 DEF MallocPool
  <2>3. JoinInv' /\ QuietInv' /\ NoFailure' /\ (Quiet => NoWildAccess)'
    BY <1>2 DEF MallocPool, Fails, TypeOK, CreatedInv, JoinInv, QuietInv,
           NoFailure, NoWildAccess, CleaningUp, Stopped
  <2>. QED BY <1>t, <2>1, <2>2, <2>3
<1>3. CASE MallocThreads
  <2>1. TypeOK'
    BY <1>3 DEF MallocThreads, TypeOK, Fails
  <2>2. MemInv' /\ CreatedInv' /\ JoinInv' /\ QuietInv' /\ NoFailure' /\ (Quiet => NoWildAccess)'
    BY <1>3 DEF MallocThreads, Fails, TypeOK, MemInv, CreatedInv, JoinInv, QuietInv,
           NoFailure, NoWildAccess, CleaningUp, Stopped
  <2>. QED BY <1>t, <2>1, <2>2
<1>4. CASE QueueCreate
  <2>1. TypeOK'
    BY <1>4 DEF QueueCreate, TypeOK, Fails
  <2>2. MemInv' /\ CreatedInv' /\ JoinInv' /\ QuietInv' /\ NoFailure' /\ (Quiet => NoWildAccess)'
    BY <1>4 DEF QueueCreate, Fails, TypeOK, MemInv, CreatedInv, JoinInv, QuietInv,
           NoFailure, NoWildAccess, CleaningUp, Stopped
  <2>. QED BY <1>t, <2>1, <2>2
<1>. QED BY <1>1, <1>2, <1>3, <1>4

LEMMA SpawnInv ==
  ASSUME IInv, Spawn \/ CreateReturn
  PROVE  IInv'
<1>. USE DEF IInv, ControlInv, OwnerAt
<1>0. owner = "spawn" /\ num > 0 /\ num \in Sizes /\ num \in Int /\ idx \in Nat
  BY PoolAssumption DEF Spawn, CreateReturn, TypeOK, CreatedInv
<1>c. created = 0..(idx - 1) /\ ~ptr /\ ~fault
  BY <1>0 DEF CreatedInv, Spawn, CreateReturn
<1>m. mem.pool = "live" /\ mem.threads = "live" /\ mem.queue = "live"
  BY <1>0 DEF MemInv
<1>1. CASE Spawn
  <2>0. idx < num /\ idx \in Workers /\ idx \in 0..(num - 1) /\ idx \notin created
    BY <1>0, <1>1, <1>c, WorkersAreInts DEF Spawn
  <2>u. UNCHANGED <<num, mem, hand, ran, cpc, cdata, given, items, answer, ptr, fault>>
    BY <1>1 DEF Spawn, Fails, clientVars
  <2>1. CASE /\ created' = created \cup {idx} /\ wpc' = [wpc EXCEPT ![idx] = "loop"]
             /\ idx' = idx + 1 /\ UNCHANGED owner
    <3>1. TypeOK'
      BY <1>0, <1>1, <2>0, <2>u, <2>1 DEF Spawn, TypeOK
    <3>2. created' = 0..(idx' - 1) /\ created' \subseteq 0..(num - 1)
      BY <1>0, <1>c, <2>0, <2>1
    <3>3. MemInv' /\ CreatedInv' /\ NoFailure' /\ (Quiet => NoWildAccess)'
      BY <1>0, <1>c, <1>m, <2>u, <2>1, <3>2
      DEF MemInv, CreatedInv, NoFailure, NoWildAccess
    <3>4. \A w \in Workers : wpc'[w] = IF w = idx THEN "loop" ELSE wpc[w]
      BY <2>1 DEF TypeOK
    <3>5. JoinInv' /\ QuietInv'
      BY <1>0, <2>u, <2>1, <3>4 DEF JoinInv, QuietInv
    <3>6. wpc[idx] = "none"
      BY <2>0 DEF JoinInv
    <3>7. TaskInv'
      BY <2>u, <3>4, <3>6, TaskKept
    <3>. QED BY <3>1, <3>3, <3>5, <3>7
  <2>2. CASE Fails /\ owner' = "flags" /\ idx' = 0 /\ UNCHANGED wpc
    <3>1. TypeOK' /\ UNCHANGED created
      BY <1>0, <1>1, <2>0, <2>u, <2>2 DEF Spawn, TypeOK, Fails
    <3>2. \A c \in Clients : Quiet => cpc[c] # "push"
      BY <1>0 DEF QuietInv
    <3>3. MemInv' /\ NoFailure' /\ (Quiet => NoWildAccess)'
      BY <1>0, <1>c, <1>m, <2>u, <2>2, <3>1
      DEF MemInv, NoFailure, NoWildAccess, Fails
    <3>4. CreatedInv'
      BY <1>0, <1>c, <1>m, <2>u, <2>2, <3>1 DEF CreatedInv
    <3>5. JoinInv' /\ QuietInv'
      BY <2>u, <2>2, <3>1, <3>2 DEF JoinInv, QuietInv
    <3>6. TaskInv'
      BY <2>u, <2>2, TaskKept
    <3>. QED BY <3>1, <3>3, <3>4, <3>5, <3>6
  <2>. QED BY <1>1, <2>1, <2>2 DEF Spawn
<1>2. CASE CreateReturn
  <2>u. /\ UNCHANGED <<num, mem, created, flag, fault>>
        /\ UNCHANGED <<wpc, hand, ran, cpc, cdata, given, items, answer>>
        /\ ptr' = TRUE /\ owner' = "ready" /\ idx' = 0 /\ idx = num
    BY <1>2 DEF CreateReturn, OwnerOnly, workerVars, clientVars
  <2>1. TypeOK'
    BY <1>0, <2>u DEF TypeOK
  <2>2. MemInv' /\ NoFailure' /\ (Quiet => NoWildAccess)'
    BY <1>0, <1>c, <1>m, <2>u DEF MemInv, NoFailure, NoWildAccess
  <2>3. CreatedInv'
    BY <1>0, <1>c, <1>m, <2>u DEF CreatedInv
  <2>4. JoinInv' /\ QuietInv'
    BY <1>0, <2>u DEF JoinInv, QuietInv
  <2>5. TaskInv'
    BY <2>u, TaskKept
  <2>. QED BY <2>1, <2>2, <2>3, <2>4, <2>5
<1>. QED BY <1>1, <1>2

LEMMA DestroyInv ==
  ASSUME IInv,
         DestroyCall \/ ClearFlag \/ JoinThread \/ FreeThreads \/ FreeQueue
  PROVE  IInv'
<1>u. UNCHANGED <<num, created, wpc, hand, ran, cpc, cdata, given, items, answer>>
  BY DEF DestroyCall, ClearFlag, JoinThread, FreeThreads, FreeQueue,
         OwnerOnly, workerVars, clientVars
<1>t. TaskInv'
  BY <1>u, TaskKept DEF IInv
<1>. USE DEF IInv, ControlInv, OwnerAt
<1>0. /\ owner \in {"ready", "flags", "join", "free_queue"} /\ ~fault
      /\ num > 0 /\ num \in Sizes /\ num \in Int /\ idx \in Nat /\ idx <= num
  BY PoolAssumption DEF DestroyCall, ClearFlag, JoinThread, FreeThreads, FreeQueue,
                        TypeOK, CreatedInv
<1>c. created \subseteq 0..(num - 1) /\ created \subseteq Workers
  BY DEF CreatedInv, TypeOK
<1>1. CASE DestroyCall
  <2>u. /\ UNCHANGED <<idx, mem, ptr, flag, fault>>
        /\ owner = "ready" /\ owner' = "flags"
    BY <1>1 DEF DestroyCall
  <2>1. TypeOK'
    BY <1>u, <2>u DEF TypeOK
  <2>2. MemInv' /\ CreatedInv' /\ NoFailure' /\ (Quiet => NoWildAccess)'
    BY <1>0, <1>c, <1>u, <2>u DEF MemInv, CreatedInv, NoFailure, NoWildAccess
  <2>3. JoinInv'
    BY <1>u, <2>u DEF JoinInv
  <2>4. QuietInv'
    BY <1>1, <1>u DEF DestroyCall, QuietInv
  <2>. QED BY <1>t, <2>1, <2>2, <2>3, <2>4
<1>2. CASE ClearFlag
  <2>u. UNCHANGED <<mem, ptr, fault>> /\ owner = "flags"
    BY <1>2 DEF ClearFlag
  <2>1. CASE idx < num /\ flag' = [flag EXCEPT ![idx] = 0] /\ idx' = idx + 1
             /\ UNCHANGED owner
    <3>0. flag' \in [Workers -> {0, 1}]
      BY <2>1 DEF TypeOK
    <3>1. TypeOK'
      BY <1>0, <1>u, <2>u, <2>1, <3>0 DEF TypeOK
    <3>2. MemInv' /\ CreatedInv' /\ NoFailure' /\ (Quiet => NoWildAccess)'
      BY <1>0, <1>c, <1>u, <2>u, <2>1 DEF MemInv, CreatedInv, NoFailure, NoWildAccess
    <3>3. JoinInv' /\ QuietInv'
      BY <1>u, <2>u, <2>1 DEF JoinInv, QuietInv
    <3>. QED BY <1>t, <3>1, <3>2, <3>3
  <2>2. CASE owner' = "join" /\ idx' = 0 /\ UNCHANGED flag
    <3>1. TypeOK'
      BY <1>0, <1>u, <2>u, <2>2 DEF TypeOK
    <3>2. MemInv' /\ CreatedInv' /\ NoFailure' /\ (Quiet => NoWildAccess)'
      BY <1>0, <1>c, <1>u, <2>u, <2>2 DEF MemInv, CreatedInv, NoFailure, NoWildAccess
    <3>3. JoinInv'
      BY <1>c, <1>u, <2>u, <2>2 DEF JoinInv
    <3>4. QuietInv'
      BY <1>u, <2>u, <2>2 DEF QuietInv
    <3>. QED BY <1>t, <3>1, <3>2, <3>3, <3>4
  <2>. QED BY <1>2, <2>1, <2>2 DEF ClearFlag
<1>3. CASE JoinThread
  <2>u. UNCHANGED <<owner, mem, ptr, flag>> /\ owner = "join" /\ idx < num
    BY <1>3 DEF JoinThread
  <2>m. MemInv' /\ NoFailure' /\ QuietInv'
    BY <1>u, <2>u DEF MemInv, NoFailure, QuietInv
  <2>1. CASE idx \in created /\ wpc[idx] = "exit" /\ idx' = idx + 1 /\ UNCHANGED fault
    <3>1. TypeOK' /\ CreatedInv' /\ (Quiet => NoWildAccess)'
      BY <1>0, <1>c, <1>u, <2>u, <2>1 DEF TypeOK, CreatedInv, NoWildAccess
    <3>2. ASSUME NEW w \in created, w < idx + 1 PROVE wpc[w] = "exit"
      <4>1. w \in Int /\ (w < idx \/ w = idx)
        BY <1>0, <1>c, <3>2
      <4>. QED BY <2>u, <2>1, <4>1 DEF JoinInv
    <3>3. JoinInv'
      BY <1>u, <2>u, <2>1, <3>2 DEF JoinInv
    <3>. QED BY <1>t, <2>m, <3>1, <3>3
  <2>2. CASE idx \notin created /\ fault' = TRUE /\ UNCHANGED idx
    <3>1. ~ptr
      BY <1>0, <2>u, <2>2 DEF CreatedInv
    <3>2. TypeOK' /\ CreatedInv' /\ (Quiet => NoWildAccess)'
      BY <1>0, <1>u, <2>u, <2>2, <3>1 DEF TypeOK, CreatedInv, NoWildAccess, CleaningUp
    <3>3. JoinInv'
      BY <1>u, <2>u, <2>2 DEF JoinInv
    <3>. QED BY <1>t, <2>m, <3>2, <3>3
  <2>. QED BY <1>3, <2>1, <2>2 DEF JoinThread
<1>4. CASE FreeThreads
  <2>u. /\ UNCHANGED <<ptr, flag, fault>> /\ owner = "join" /\ idx = num
        /\ owner' = "free_queue" /\ idx' = 0 /\ mem' = [mem EXCEPT !.threads = "freed"]
    BY <1>4 DEF FreeThreads
  <2>1. TypeOK'
    BY <1>0, <1>u, <2>u DEF TypeOK
  <2>2. /\ mem'.pool = mem.pool /\ mem'.queue = mem.queue /\ mem'.threads = "freed"
        /\ mem.pool = "live" /\ mem.queue \in {"live", "null"}
    BY <2>u DEF TypeOK, MemInv
  <2>3. MemInv' /\ NoFailure' /\ (Quiet => NoWildAccess)'
    BY <1>0, <1>u, <2>u, <2>2 DEF MemInv, NoFailure, NoWildAccess
  <2>4. CreatedInv'
    BY <1>0, <1>c, <1>u, <2>u, <2>2 DEF CreatedInv
  <2>5. ASSUME NEW w \in Workers PROVE Stopped(w)
    <3>1. w \in created => w < num
      BY <1>0, <1>c
    <3>. QED BY <2>u, <3>1 DEF JoinInv, Stopped
  <2>6. JoinInv' /\ QuietInv'
    BY <1>u, <2>u, <2>5 DEF JoinInv, QuietInv, Stopped
  <2>. QED BY <1>t, <2>1, <2>3, <2>4, <2>6
<1>5. CASE FreeQueue
  <2>u. UNCHANGED <<idx, flag>> /\ owner = "free_queue"
    BY <1>5 DEF FreeQueue
  <2>s. \A w \in Workers : Stopped(w)
    BY <2>u DEF JoinInv
  <2>p. \A c \in Clients : Quiet => cpc[c] # "push"
    BY <2>u DEF QuietInv
  <2>1. CASE mem.queue = "junk" /\ fault' = TRUE /\ UNCHANGED <<owner, mem, ptr>>
    <3>1. ~ptr
      BY <2>1 DEF CreatedInv
    <3>2. TypeOK' /\ MemInv' /\ CreatedInv' /\ NoFailure' /\ (Quiet => NoWildAccess)'
      BY <1>u, <2>u, <2>1, <3>1
      DEF TypeOK, MemInv, CreatedInv, NoFailure, NoWildAccess, CleaningUp
    <3>3. JoinInv'
      BY <1>u, <2>u, <2>1, <2>s DEF JoinInv, Stopped
    <3>4. QuietInv'
      BY <1>u, <2>1 DEF QuietInv
    <3>. QED BY <1>t, <3>2, <3>3, <3>4
  <2>2. CASE /\ mem' = [pool |-> "freed", threads |-> mem.threads,
                        queue |-> IF mem.queue = "live" THEN "freed" ELSE "null"]
             /\ owner' = (IF ptr THEN "done" ELSE "failed")
             /\ ptr' = FALSE /\ UNCHANGED fault
    <3>1. TypeOK'
      BY <1>0, <1>u, <2>u, <2>2 DEF TypeOK
    <3>2. MemInv' /\ NoFailure' /\ (Quiet => NoWildAccess)'
      BY <1>0, <1>u, <2>u, <2>2 DEF MemInv, NoFailure, NoWildAccess
    <3>3. CreatedInv'
      BY <1>0, <1>c, <1>u, <2>u, <2>2 DEF CreatedInv
    <3>4. JoinInv' /\ QuietInv'
      BY <1>u, <2>2, <2>s, <2>p DEF JoinInv, QuietInv, Stopped
    <3>. QED BY <1>t, <3>1, <3>2, <3>3, <3>4
  <2>. QED BY <1>5, <2>1, <2>2 DEF FreeQueue
<1>. QED BY <1>1, <1>2, <1>3, <1>4, <1>5

-----------------------------------------------------------------------------
(* The workers.  One that runs finds everything it follows.                *)
LEMMA RunningWorker ==
  ASSUME IInv, NEW w \in Workers, ~Stopped(w)
  PROVE  Reachable /\ w \in created
<1>1. w \in created
  BY DEF IInv, ControlInv, JoinInv, Stopped
<1>2. owner \in {"spawn", "ready", "flags", "join"}
  BY <1>1 DEF IInv, TypeOK, ControlInv, CreatedInv, JoinInv
<1>3. mem.pool = "live" /\ mem.threads = "live" /\ mem.queue = "live"
  BY <1>1, <1>2 DEF IInv, ControlInv, MemInv
<1>. QED BY <1>1, <1>3 DEF Reachable

LEMMA WorkerControl ==
  ASSUME IInv, NEW w \in Workers, ~Stopped(w), fault' = FALSE,
         UNCHANGED <<ownerVars, cpc>>,
         NEW v \in {"loop", "pop", "work", "exit"}, wpc' = [wpc EXCEPT ![w] = v]
  PROVE  ControlInv' /\ wpc' \in [Workers -> {"none", "loop", "pop", "work", "exit"}]
<1>. USE DEF IInv, ControlInv, ownerVars
<1>0. wpc \in [Workers -> {"none", "loop", "pop", "work", "exit"}]
  BY DEF TypeOK
<1>1. \A u \in Workers : wpc'[u] = IF u = w THEN v ELSE wpc[u]
  BY <1>0
<1>2. MemInv' /\ CreatedInv' /\ NoFailure' /\ QuietInv' /\ (Quiet => NoWildAccess)'
  BY DEF MemInv, CreatedInv, NoFailure, QuietInv, NoWildAccess
<1>3. wpc[w] # "none" /\ wpc[w] # "exit"
  BY DEF Stopped
<1>4. JoinInv'
  <2>1. \A u \in Workers : wpc'[u] = "none" <=> u \notin created'
    BY <1>1, <1>3 DEF JoinInv
  <2>2. owner' = "join" => \A u \in created' : u < idx' => wpc'[u] = "exit"
    BY <1>1, <1>3 DEF JoinInv, TypeOK
  <2>3. owner \notin {"free_queue", "done", "failed"}
    BY DEF JoinInv
  <2>. QED BY <2>1, <2>2, <2>3 DEF JoinInv
<1>. QED BY <1>0, <1>2, <1>4

LEMMA TestInv ==
  ASSUME IInv, NEW w \in Workers, Test(w)
  PROVE  IInv'
<1>1. /\ ~Stopped(w) /\ fault' = (mem.threads # "live")
      /\ UNCHANGED <<ownerVars, hand, ran, cpc, cdata, given, items, answer>>
      /\ wpc[w] = "loop"
  BY DEF Test, WorkerAt, Stopped, clientVars
<1>2. fault' = FALSE
  BY <1>1, RunningWorker DEF Reachable
<1>3. PICK v \in {"pop", "exit"} : wpc' = [wpc EXCEPT ![w] = v]
  BY DEF Test
<1>4. ControlInv' /\ wpc' \in [Workers -> {"none", "loop", "pop", "work", "exit"}]
  BY <1>1, <1>2, <1>3, WorkerControl
<1>5. TypeOK'
  BY <1>1, <1>2, <1>4 DEF TypeOK, IInv, ownerVars
<1>6. \A u \in Workers : wpc'[u] = "work" <=> wpc[u] = "work"
  BY <1>1, <1>3 DEF IInv, TypeOK
<1>7. TaskInv'
  BY <1>1, <1>6, TaskKept DEF IInv
<1>. QED BY <1>4, <1>5, <1>7 DEF IInv

LEMMA TailOf ==
  ASSUME NEW S, NEW s \in Seq(S), s # <<>>
  PROVE  /\ Tail(s) \in Seq(S) /\ Head(s) \in S /\ Head(s) = s[1]
         /\ Len(s) > 0 /\ Len(Tail(s)) = Len(s) - 1
         /\ \A i \in 1..(Len(s) - 1) : Tail(s)[i] = s[i + 1]
OBVIOUS

LEMMA AppendOf ==
  ASSUME NEW S, NEW s \in Seq(S), NEW e \in S
  PROVE  /\ Append(s, e) \in Seq(S) /\ Len(Append(s, e)) = Len(s) + 1
         /\ Append(s, e)[Len(s) + 1] = e
         /\ \A i \in 1..Len(s) : Append(s, e)[i] = s[i]
OBVIOUS

(* What is added to a sequence is found in it, and stays found; a          *)
(* sequence without repetition stays one.                                  *)
LEMMA Appended ==
  ASSUME NEW S, NEW s \in Seq(S), NEW e \in S, NEW t, t = Append(s, e)
  PROVE  /\ \A d : (\E i \in DOMAIN t : t[i] = d)
                    <=> d = e \/ \E i \in DOMAIN s : s[i] = d
         /\ (\A i, j \in DOMAIN s : s[i] = s[j] => i = j)
              /\ ~(\E i \in DOMAIN s : s[i] = e)
              => \A i, j \in DOMAIN t : t[i] = t[j] => i = j
<1>1. /\ DOMAIN t = 1..(Len(s) + 1) /\ DOMAIN s = 1..Len(s) /\ Len(s) \in Nat
      /\ t[Len(s) + 1] = e /\ \A i \in 1..Len(s) : t[i] = s[i]
  BY AppendOf
<1>2. \A i \in DOMAIN t : i \in DOMAIN s \/ i = Len(s) + 1
  BY <1>1
<1>. QED BY <1>1, <1>2

(* What leaves a sequence without repetition is found in it no more.       *)
LEMMA Removed ==
  ASSUME NEW S, NEW s \in Seq(S), s # <<>>,
         \A i, j \in DOMAIN s : s[i] = s[j] => i = j
  PROVE  /\ \A d : (\E i \in DOMAIN Tail(s) : Tail(s)[i] = d)
                    <=> d # Head(s) /\ \E i \in DOMAIN s : s[i] = d
         /\ \A i, j \in DOMAIN Tail(s) : Tail(s)[i] = Tail(s)[j] => i = j
         /\ \E i \in DOMAIN s : s[i] = Head(s)
<1>1. /\ DOMAIN Tail(s) = 1..(Len(s) - 1) /\ DOMAIN s = 1..Len(s)
      /\ Len(s) \in Nat \ {0}
      /\ Head(s) = s[1] /\ \A i \in 1..(Len(s) - 1) : Tail(s)[i] = s[i + 1]
  BY TailOf
<1>2. \A i, j \in DOMAIN Tail(s) : Tail(s)[i] = Tail(s)[j] => i = j
  BY <1>1
<1>3. ASSUME NEW d, NEW i \in DOMAIN Tail(s), Tail(s)[i] = d
      PROVE  d # Head(s) /\ \E k \in DOMAIN s : s[k] = d
  <2>1. i + 1 \in DOMAIN s /\ s[i + 1] = d /\ 1 \in DOMAIN s /\ i + 1 # 1
    BY <1>1, <1>3
  <2>. QED BY <1>1, <2>1
<1>4. ASSUME NEW d, NEW i \in DOMAIN s, s[i] = d, d # Head(s)
      PROVE  \E k \in DOMAIN Tail(s) : Tail(s)[k] = d
  <2>1. i - 1 \in DOMAIN Tail(s) /\ Tail(s)[i - 1] = s[(i - 1) + 1] /\ (i - 1) + 1 = i
    BY <1>1, <1>4
  <2>. QED BY <1>4, <2>1
<1>5. \E i \in DOMAIN s : s[i] = Head(s)
  BY <1>1
<1>. QED BY <1>2, <1>3, <1>4, <1>5

LEMMA PopInv ==
  ASSUME IInv, NEW w \in Workers, Pop(w)
  PROVE  IInv'
<1>1. /\ ~Stopped(w) /\ wpc[w] = "pop"
      /\ UNCHANGED <<ownerVars, ran, cpc, cdata, given>>
  BY DEF Pop, WorkerAt, Stopped, clientVars
<1>2. fault' = FALSE
  BY <1>1, RunningWorker DEF Pop
<1>3. w \in Callers /\ Nil \notin Tasks
  BY PoolAssumption DEF Callers
<1>t. /\ TypeOK /\ HandInv /\ AnswerType /\ Unique /\ Apart
      /\ wpc \in [Workers -> {"none", "loop", "pop", "work", "exit"}]
      /\ hand \in [Workers -> Tasks \cup {Nil}] /\ items \in Seq(Tasks)
  BY DEF IInv, TaskInv, TypeOK
<1>4. CASE /\ items # <<>> /\ items' = Tail(items)
           /\ answer' = [answer EXCEPT ![w] = Head(items)]
           /\ wpc' = [wpc EXCEPT ![w] = "work"]
           /\ hand' = [hand EXCEPT ![w] = answer'[w]]
  <2>. DEFINE d == Head(items)
  <2>1. d \in Tasks /\ d # Nil /\ items' \in Seq(Tasks)
    BY <1>3, <1>4, <1>t, TailOf
  <2>2. answer'[w] = d /\ AnswerType'
    BY <1>3, <1>4, <1>t, <2>1 DEF AnswerType, Answers
  <2>3. /\ hand' \in [Workers -> Tasks \cup {Nil}]
        /\ \A u \in Workers : hand'[u] = IF u = w THEN d ELSE hand[u]
    BY <1>4, <1>t, <2>1, <2>2
  <2>4. \A u \in Workers : wpc'[u] = IF u = w THEN "work" ELSE wpc[u]
    BY <1>4, <1>t
  <2>5. ControlInv' /\ wpc' \in [Workers -> {"none", "loop", "pop", "work", "exit"}]
    BY <1>1, <1>2, <1>4, WorkerControl
  <2>6. TypeOK'
    BY <1>1, <1>2, <1>t, <2>1, <2>3, <2>5, ZenonT(30) DEF TypeOK, ownerVars
  <2>7. HandInv' /\ hand[w] = Nil
    BY <1>1, <1>t, <2>1, <2>3, <2>4 DEF HandInv
  <2>8. /\ \A x : Queued(x)' <=> x # d /\ Queued(x)
        /\ \A i, j \in DOMAIN items' : items'[i] = items'[j] => i = j
        /\ Queued(d)
    <3>1. \A i, j \in DOMAIN items : items[i] = items[j] => i = j
      BY <1>t DEF Unique
    <3>2. /\ \A x : (\E i \in DOMAIN items' : items'[i] = x)
                      <=> x # d /\ \E i \in DOMAIN items : items[i] = x
          /\ \A i, j \in DOMAIN items' : items'[i] = items'[j] => i = j
          /\ \E i \in DOMAIN items : items[i] = d
      <4>. items \in Seq(Tasks) /\ items # <<>> /\ items' = Tail(items)
        BY <1>4, <1>t
      <4>1. \A x : (\E i \in DOMAIN Tail(items) : Tail(items)[i] = x)
                     <=> x # d /\ \E i \in DOMAIN items : items[i] = x
        BY <3>1, Removed, Zenon
      <4>2. /\ \A i, j \in DOMAIN Tail(items) : Tail(items)[i] = Tail(items)[j] => i = j
            /\ \E i \in DOMAIN items : items[i] = d
        BY <3>1, Removed, Zenon
      <4>. QED BY <4>1, <4>2
    <3>. QED BY <3>2 DEF Queued
  <2>9. /\ \A x \in Tasks : InHand(x)' <=> x = d \/ InHand(x)
        /\ \A x : HasRun(x)' <=> HasRun(x)
        /\ ~InHand(d) /\ ~HasRun(d)
    <3>1. ~InHand(d) /\ ~HasRun(d)
      BY <1>t, <2>1, <2>8 DEF Apart
    <3>2. \A x \in Tasks : InHand(x)' <=> x = d \/ InHand(x)
      BY <1>3, <2>3, <2>7 DEF InHand
    <3>. QED BY <1>1, <3>1, <3>2 DEF HasRun
  <2>10. Unique'
    <3>1. \A u, v \in Workers : hand'[u] = hand'[v] /\ hand'[u] # Nil => u = v
      BY <1>t, <2>3, <2>9 DEF Unique, InHand
    <3>. QED BY <1>1, <1>t, <2>8, <3>1 DEF Unique
  <2>11. Apart'
    <3>1. \A c \in Clients : (cpc'[c] = "push" <=> cdata'[c] # Nil) /\ cdata'[c] \notin given'
      BY <1>1, <1>t DEF Apart
    <3>2. \A x \in Tasks : x \in given <=> Queued(x) \/ HasRun(x) \/ InHand(x)
      BY <1>t DEF Apart
    <3>3. \A x \in Tasks : ~(Queued(x) /\ HasRun(x)) /\ ~(Queued(x) /\ InHand(x))
                            /\ ~(HasRun(x) /\ InHand(x))
      BY <1>t DEF Apart
    <3>4. \A x \in Tasks : ~(Queued(x) /\ HasRun(x))' /\ ~(Queued(x) /\ InHand(x))'
                            /\ ~(HasRun(x) /\ InHand(x))'
      BY <2>8, <2>9, <3>3
    <3>5. \A x \in Tasks : x \in given' <=> Queued(x)' \/ HasRun(x)' \/ InHand(x)'
      BY <1>1, <2>1, <2>8, <2>9, <3>2
    <3>. QED BY <3>1, <3>4, <3>5 DEF Apart
  <2>. QED BY <2>2, <2>5, <2>6, <2>7, <2>10, <2>11 DEF IInv, TaskInv
<1>5. CASE /\ UNCHANGED <<items, hand>> /\ answer' = [answer EXCEPT ![w] = Nil]
           /\ wpc' = [wpc EXCEPT ![w] = "loop"]
  <2>1. ControlInv' /\ wpc' \in [Workers -> {"none", "loop", "pop", "work", "exit"}]
    BY <1>1, <1>2, <1>5, WorkerControl
  <2>2. TypeOK'
    BY <1>1, <1>2, <1>5, <1>t, <2>1, ZenonT(30) DEF TypeOK, ownerVars
  <2>3. AnswerType' /\ HandInv'
    BY <1>1, <1>5, <1>t DEF AnswerType, Answers, HandInv
  <2>4. Unique' /\ Apart'
    BY <1>1, <1>5, <1>t DEF Unique, Apart, Queued, HasRun, InHand
  <2>. QED BY <2>1, <2>2, <2>3, <2>4 DEF IInv, TaskInv
<1>. QED BY <1>4, <1>5 DEF Pop, Queue!Take, Queue!TakeNone, Queue!Returns

LEMMA WorkInv ==
  ASSUME IInv, NEW w \in Workers, Work(w)
  PROVE  IInv'
<1>. DEFINE d == hand[w]
<1>1. /\ ~Stopped(w) /\ wpc[w] = "work" /\ ~fault
      /\ UNCHANGED <<ownerVars, cpc, cdata, given, items, answer, fault>>
      /\ ran' = Append(ran, d)
      /\ hand' = [hand EXCEPT ![w] = Nil] /\ wpc' = [wpc EXCEPT ![w] = "loop"]
  BY DEF Work, WorkerAt, Stopped, clientVars
<1>t. /\ TypeOK /\ HandInv /\ AnswerType /\ Unique /\ Apart
      /\ wpc \in [Workers -> {"none", "loop", "pop", "work", "exit"}]
      /\ hand \in [Workers -> Tasks \cup {Nil}] /\ ran \in Seq(Tasks)
      /\ fault \in BOOLEAN
  BY DEF IInv, TaskInv, TypeOK
<1>2. fault' = FALSE
  BY <1>1, <1>t
<1>3. d \in Tasks /\ d # Nil /\ Nil \notin Tasks /\ ran' \in Seq(Tasks)
  BY <1>1, <1>t, PoolAssumption, AppendOf DEF HandInv
<1>4. ControlInv' /\ wpc' \in [Workers -> {"none", "loop", "pop", "work", "exit"}]
  BY <1>1, <1>2, WorkerControl
<1>5. /\ hand' \in [Workers -> Tasks \cup {Nil}]
      /\ \A u \in Workers : hand'[u] = IF u = w THEN Nil ELSE hand[u]
      /\ \A u \in Workers : wpc'[u] = IF u = w THEN "loop" ELSE wpc[u]
  BY <1>1, <1>t
<1>6. TypeOK'
  BY <1>1, <1>2, <1>t, <1>3, <1>4, <1>5 DEF TypeOK, ownerVars
<1>7. HandInv' /\ AnswerType'
  BY <1>1, <1>t, <1>5 DEF HandInv, AnswerType
<1>8. InHand(d) /\ ~Queued(d) /\ ~HasRun(d)
  BY <1>t, <1>3 DEF InHand, Apart
<1>9. /\ \A x : HasRun(x)' <=> x = d \/ HasRun(x)
      /\ \A i, j \in DOMAIN ran' : ran'[i] = ran'[j] => i = j
  <2>1. \A i, j \in DOMAIN ran : ran[i] = ran[j] => i = j
    BY <1>t DEF Unique
  <2>2. ~\E i \in DOMAIN ran : ran[i] = d
    BY <1>8 DEF HasRun
  <2>3. /\ \A x : (\E i \in DOMAIN ran' : ran'[i] = x)
                    <=> x = d \/ \E i \in DOMAIN ran : ran[i] = x
        /\ \A i, j \in DOMAIN ran' : ran'[i] = ran'[j] => i = j
    BY <1>1, <1>t, <1>3, <2>1, <2>2, Appended
  <2>. QED BY <2>3 DEF HasRun
<1>10. /\ \A x \in Tasks : InHand(x)' <=> x # d /\ InHand(x)
       /\ \A x : Queued(x)' <=> Queued(x)
  <2>1. \A u \in Workers : hand[u] = d => u = w
    BY <1>t, <1>3 DEF Unique
  <2>2. \A x \in Tasks : InHand(x)' <=> x # d /\ InHand(x)
    BY <1>3, <1>5, <2>1 DEF InHand
  <2>. QED BY <1>1, <2>2 DEF Queued
<1>11. Unique'
  <2>1. \A u, v \in Workers : hand'[u] = hand'[v] /\ hand'[u] # Nil => u = v
    BY <1>t, <1>5 DEF Unique
  <2>. QED BY <1>1, <1>t, <1>9, <2>1 DEF Unique
<1>12. Apart'
  <2>1. \A c \in Clients : (cpc'[c] = "push" <=> cdata'[c] # Nil) /\ cdata'[c] \notin given'
    BY <1>1, <1>t DEF Apart
  <2>2. \A x \in Tasks : x \in given <=> Queued(x) \/ HasRun(x) \/ InHand(x)
    BY <1>t DEF Apart
  <2>3. \A x \in Tasks : ~(Queued(x) /\ HasRun(x)) /\ ~(Queued(x) /\ InHand(x))
                          /\ ~(HasRun(x) /\ InHand(x))
    BY <1>t DEF Apart
  <2>4. \A x \in Tasks : ~(Queued(x) /\ HasRun(x))' /\ ~(Queued(x) /\ InHand(x))'
                          /\ ~(HasRun(x) /\ InHand(x))'
    BY <1>8, <1>9, <1>10, <2>3
  <2>5. \A x \in Tasks : x \in given' <=> Queued(x)' \/ HasRun(x)' \/ InHand(x)'
    BY <1>1, <1>8, <1>9, <1>10, <2>2
  <2>. QED BY <2>1, <2>4, <2>5 DEF Apart
<1>. QED BY <1>4, <1>6, <1>7, <1>11, <1>12 DEF IInv, TaskInv

-----------------------------------------------------------------------------
(* The clients.                                                            *)
LEMMA PushCallInv ==
  ASSUME IInv, NEW c \in Clients, NEW d \in Fresh, PushCall(c, d)
  PROVE  IInv'
<1>1. /\ cpc[c] = "idle" /\ ~fault /\ (Quiet => ~Destroying)
      /\ UNCHANGED <<ownerVars, wpc, hand, ran, given, items, fault>>
  BY DEF PushCall, workerVars
<1>t. /\ TypeOK /\ ControlInv /\ HandInv /\ AnswerType /\ Unique /\ Apart
      /\ cpc \in [Clients -> {"idle", "push"}]
      /\ cdata \in [Clients -> Tasks \cup {Nil}]
  BY DEF IInv, TaskInv, TypeOK
<1>2. c \in Callers /\ d \in Tasks /\ d # Nil /\ d \notin given
      /\ \A b \in Clients : cdata[b] # d
  BY PoolAssumption DEF Fresh, Callers
<1>3. MemInv' /\ CreatedInv' /\ JoinInv' /\ NoFailure' /\ (Quiet => NoWildAccess)'
  BY <1>1, <1>t DEF ControlInv, MemInv, CreatedInv, JoinInv, NoFailure, NoWildAccess,
                    ownerVars, Stopped
<1>4. CASE /\ ptr /\ cpc' = [cpc EXCEPT ![c] = "push"]
           /\ cdata' = [cdata EXCEPT ![c] = d] /\ UNCHANGED answer
  <2>1. /\ cpc' \in [Clients -> {"idle", "push"}]
        /\ cdata' \in [Clients -> Tasks \cup {Nil}]
        /\ \A b \in Clients : cpc'[b] = IF b = c THEN "push" ELSE cpc[b]
        /\ \A b \in Clients : cdata'[b] = IF b = c THEN d ELSE cdata[b]
    <3>1. /\ cpc' \in [Clients -> {"idle", "push"}]
          /\ \A b \in Clients : cpc'[b] = IF b = c THEN "push" ELSE cpc[b]
      BY <1>t, <1>4
    <3>2. /\ cdata' \in [Clients -> Tasks \cup {Nil}]
          /\ \A b \in Clients : cdata'[b] = IF b = c THEN d ELSE cdata[b]
      BY <1>t, <1>2, <1>4
    <3>. QED BY <3>1, <3>2
  <2>2. TypeOK'
    BY <1>1, <1>t, <2>1 DEF TypeOK, ownerVars
  <2>3. QuietInv'
    <3>1. Quiet => owner = "ready"
      BY <1>1, <1>4, <1>t DEF ControlInv, CreatedInv, Destroying
    <3>. QED BY <1>1, <1>t, <2>1, <3>1 DEF ControlInv, QuietInv, ownerVars
  <2>4. HandInv' /\ AnswerType'
    BY <1>1, <1>4, <1>t DEF HandInv, AnswerType
  <2>5. Unique'
    <3>1. \A a, b \in Clients : cdata'[a] = cdata'[b] /\ cdata'[a] # Nil => a = b
      BY <1>t, <1>2, <2>1 DEF Unique
    <3>. QED BY <1>1, <1>t, <3>1 DEF Unique
  <2>6. Apart'
    <3>1. \A b \in Clients : (cpc'[b] = "push" <=> cdata'[b] # Nil) /\ cdata'[b] \notin given'
      <4>1. /\ \A b \in Clients : (cpc[b] = "push" <=> cdata[b] # Nil) /\ cdata[b] \notin given
            /\ given' = given
        BY <1>1, <1>t DEF Apart
      <4>. QED BY <1>2, <2>1, <4>1
    <3>. QED BY <1>1, <1>t, <3>1 DEF Apart, Queued, HasRun, InHand
  <2>. QED BY <1>3, <2>2, <2>3, <2>4, <2>5, <2>6 DEF IInv, TaskInv, ControlInv
<1>5. CASE answer' = [answer EXCEPT ![c] = "failed"] /\ UNCHANGED <<cpc, cdata>>
  <2>1. TypeOK' /\ QuietInv'
    BY <1>1, <1>5, <1>t DEF TypeOK, ControlInv, QuietInv, ownerVars
  <2>2. HandInv' /\ AnswerType'
    BY <1>1, <1>5, <1>t DEF HandInv, AnswerType, Answers
  <2>3. Unique' /\ Apart'
    BY <1>1, <1>5, <1>t DEF Unique, Apart, Queued, HasRun, InHand
  <2>. QED BY <1>3, <2>1, <2>2, <2>3 DEF IInv, TaskInv, ControlInv
<1>. QED BY <1>4, <1>5 DEF PushCall, Queue!Returns

(* By agreement a pool is not destroyed while someone pushes: the queue    *)
(* that a client reaches is there.                                         *)
LEMMA PushTaskInv ==
  ASSUME IInv, NEW c \in Clients, PushTask(c)
  PROVE  IInv'
<1>. DEFINE d == cdata[c]
<1>1. /\ cpc[c] = "push" /\ ~fault /\ fault' = ~(mem.pool = "live" /\ mem.queue = "live")
      /\ UNCHANGED <<ownerVars, wpc, hand, ran>>
      /\ items' = Append(items, d) /\ answer' = [answer EXCEPT ![c] = "ok"]
      /\ given' = given \cup {d}
      /\ cpc' = [cpc EXCEPT ![c] = "idle"] /\ cdata' = [cdata EXCEPT ![c] = Nil]
  BY DEF PushTask, workerVars, Queue!Put, Queue!Returns
<1>t. /\ TypeOK /\ ControlInv /\ HandInv /\ AnswerType /\ Unique /\ Apart
      /\ cpc \in [Clients -> {"idle", "push"}] /\ items \in Seq(Tasks)
      /\ cdata \in [Clients -> Tasks \cup {Nil}] /\ given \subseteq Tasks
  BY DEF IInv, TaskInv, TypeOK
<1>2. d \in Tasks /\ d # Nil /\ d \notin given /\ Nil \notin Tasks /\ c \in Callers
  BY <1>1, <1>t, PoolAssumption DEF Apart, Callers
<1>3. /\ items' \in Seq(Tasks) /\ given' \subseteq Tasks
      /\ cpc' \in [Clients -> {"idle", "push"}]
      /\ cdata' \in [Clients -> Tasks \cup {Nil}]
      /\ \A b \in Clients : cpc'[b] = IF b = c THEN "idle" ELSE cpc[b]
      /\ \A b \in Clients : cdata'[b] = IF b = c THEN Nil ELSE cdata[b]
  <2>1. /\ cpc' \in [Clients -> {"idle", "push"}]
        /\ \A b \in Clients : cpc'[b] = IF b = c THEN "idle" ELSE cpc[b]
    BY <1>1, <1>t
  <2>2. /\ cdata' \in [Clients -> Tasks \cup {Nil}]
        /\ \A b \in Clients : cdata'[b] = IF b = c THEN Nil ELSE cdata[b]
    BY <1>1, <1>t
  <2>3. items' \in Seq(Tasks) /\ given' \subseteq Tasks
    BY <1>1, <1>t, <1>2, AppendOf
  <2>. QED BY <2>1, <2>2, <2>3
<1>4. TypeOK'
  BY <1>1, <1>t, <1>3 DEF TypeOK, ownerVars
<1>5. ControlInv'
  <2>1. Quiet => fault' = FALSE
    BY <1>1, <1>t DEF ControlInv, QuietInv, MemInv, CreatedInv
  <2>2. MemInv' /\ CreatedInv' /\ JoinInv' /\ NoFailure' /\ (Quiet => NoWildAccess)'
    BY <1>1, <1>t, <2>1 DEF ControlInv, MemInv, CreatedInv, JoinInv, NoFailure,
                            NoWildAccess, ownerVars, Stopped
  <2>3. QuietInv'
    BY <1>1, <1>t, <1>3 DEF ControlInv, QuietInv, ownerVars
  <2>. QED BY <2>2, <2>3 DEF ControlInv
<1>6. HandInv' /\ AnswerType'
  BY <1>1, <1>t DEF HandInv, AnswerType, Answers
<1>7. ~Queued(d) /\ ~HasRun(d) /\ ~InHand(d)
  BY <1>t, <1>2 DEF Apart
<1>8. /\ \A x : Queued(x)' <=> x = d \/ Queued(x)
      /\ \A i, j \in DOMAIN items' : items'[i] = items'[j] => i = j
  <2>1. \A i, j \in DOMAIN items : items[i] = items[j] => i = j
    BY <1>t DEF Unique
  <2>2. ~\E i \in DOMAIN items : items[i] = d
    BY <1>7 DEF Queued
  <2>3. /\ \A x : (\E i \in DOMAIN items' : items'[i] = x)
                    <=> x = d \/ \E i \in DOMAIN items : items[i] = x
        /\ \A i, j \in DOMAIN items' : items'[i] = items'[j] => i = j
    <3>. items \in Seq(Tasks) /\ d \in Tasks /\ items' = Append(items, d)
      BY <1>1, <1>t, <1>2
    <3>. QED BY <2>1, <2>2, Appended
  <2>. QED BY <2>3 DEF Queued
<1>9. \A x : (HasRun(x)' <=> HasRun(x)) /\ (InHand(x)' <=> InHand(x))
  BY <1>1 DEF HasRun, InHand
<1>10. Unique'
  BY <1>1, <1>t, <1>3, <1>8 DEF Unique
<1>11. Apart'
  <2>1. \A b \in Clients : b # c => cdata[b] # d
    BY <1>t, <1>2 DEF Unique
  <2>2. \A b \in Clients : (cpc'[b] = "push" <=> cdata'[b] # Nil) /\ cdata'[b] \notin given'
    BY <1>1, <1>t, <1>2, <1>3, <2>1 DEF Apart
  <2>3. \A x \in Tasks : x \in given <=> Queued(x) \/ HasRun(x) \/ InHand(x)
    BY <1>t DEF Apart
  <2>4. \A x \in Tasks : ~(Queued(x) /\ HasRun(x)) /\ ~(Queued(x) /\ InHand(x))
                          /\ ~(HasRun(x) /\ InHand(x))
    BY <1>t DEF Apart
  <2>5. \A x \in Tasks : ~(Queued(x) /\ HasRun(x))' /\ ~(Queued(x) /\ InHand(x))'
                          /\ ~(HasRun(x) /\ InHand(x))'
    BY <1>7, <1>8, <1>9, <2>4
  <2>6. \A x \in Tasks : x \in given' <=> Queued(x)' \/ HasRun(x)' \/ InHand(x)'
    BY <1>1, <1>8, <1>9, <2>3
  <2>. QED BY <2>2, <2>5, <2>6 DEF Apart
<1>. QED BY <1>4, <1>5, <1>6, <1>10, <1>11 DEF IInv, TaskInv

-----------------------------------------------------------------------------
LEMMA StutterInv == IInv /\ UNCHANGED vars => IInv'
<1>. SUFFICES ASSUME IInv, UNCHANGED vars PROVE IInv'
  OBVIOUS
<1>. USE DEF vars, ownerVars, workerVars, clientVars, IInv
<1>1. TypeOK'
  BY DEF TypeOK
<1>2. ControlInv'
  BY DEF ControlInv, MemInv, CreatedInv, JoinInv, QuietInv, NoFailure,
         NoWildAccess, CleaningUp, Stopped
<1>3. TaskInv'
  BY TaskKept
<1>. QED BY <1>1, <1>2, <1>3

THEOREM Invariance == Spec => []IInv
<1>1. IInv /\ [Next]_vars => IInv'
  <2>. SUFFICES ASSUME IInv, [Next]_vars PROVE IInv'
    OBVIOUS
  <2>1. CASE OwnerStep
    BY <2>1, CreateInv, SpawnInv, DestroyInv DEF OwnerStep
  <2>2. CASE \E w \in Workers : WorkerStep(w)
    BY <2>2, TestInv, PopInv, WorkInv DEF WorkerStep
  <2>3. CASE \E c \in Clients : ClientStep(c)
    BY <2>3, PushCallInv, PushTaskInv DEF ClientStep
  <2>4. CASE UNCHANGED vars
    BY <2>4, StutterInv
  <2>. QED BY <2>1, <2>2, <2>3, <2>4 DEF Next
<1>. QED BY InitInv, <1>1, PTL DEF Spec

-----------------------------------------------------------------------------
(* The fields of the pool (ethread_pool.h:19-27) keep their types.         *)
THEOREM TypeCorrect == Spec => []TypeOK
<1>. QED BY Invariance, PTL DEF IInv

(* Pools whose clients stop before the destruction: what a create that     *)
(* failed does while it cleans up is all that can go wrong with memory.    *)
THEOREM NothingWild == ASSUME Quiet PROVE Spec => []NoWildAccess
<1>1. IInv => NoWildAccess
  BY DEF IInv, ControlInv
<1>. QED BY <1>1, Invariance, PTL

(* And when no allocation and no pthread_create fails, nothing goes wrong, *)
(* however many tasks are queued when the pool is destroyed.               *)
THEOREM SafeWithoutFailures ==
  ASSUME Quiet, ~CreateMayFail PROVE Spec => []FailedCreateReturns
<1>1. IInv => FailedCreateReturns
  BY DEF IInv, ControlInv, NoFailure, NoWildAccess, CleaningUp, FailedCreateReturns
<1>. QED BY <1>1, Invariance, PTL

(* thread_pool_destroy (ethread_pool.c:86-104) frees nothing before the    *)
(* last worker has returned, even when clients push all the while.         *)
THEOREM JoinedFirst == Spec => []JoinedBeforeFree
<1>1. ASSUME IInv PROVE JoinedBeforeFree
  <2>. SUFFICES ASSUME mem.threads = "freed" \/ mem.queue = "freed"
                PROVE  \A w \in Workers : wpc[w] \in {"none", "exit"} /\ hand[w] = Nil
    BY DEF JoinedBeforeFree
  <2>1. owner \in {"free_queue", "done", "failed"}
    BY <1>1 DEF IInv, TypeOK, ControlInv, MemInv
  <2>. QED BY <1>1, <2>1 DEF IInv, ControlInv, JoinInv, Stopped, TaskInv, HandInv
<1>. QED BY <1>1, Invariance, PTL

(* A thread_pool_create that returns NULL leaves neither memory nor        *)
(* threads behind, whichever of its steps failed.                          *)
THEOREM NothingLeft == Spec => []FailedCreateLeavesNothing
<1>1. IInv => FailedCreateLeavesNothing
  BY DEF IInv, ControlInv, MemInv, JoinInv, Stopped, FailedCreateLeavesNothing
<1>. QED BY <1>1, Invariance, PTL

LEMMA AtMostOne ==
  ASSUME NEW T, \A i, j \in T : i = j
  PROVE  Cardinality(T) = IF T = {} THEN 0 ELSE 1
<1>1. CASE T = {}
  BY <1>1, FS_EmptySet
<1>2. CASE T # {}
  <2>1. PICK i : T = {i}
    BY <1>2
  <2>. QED BY <1>2, <2>1, FS_Singleton
<1>. QED BY <1>1, <1>2

(* A task that was accepted is queued, in the hands of one worker, or run, *)
(* and nowhere twice, through whatever the owner does meanwhile.           *)
THEOREM OnePlace == Spec => []TaskInOnePlace
<1>1. ASSUME IInv, NEW d \in Tasks PROVE Places(d) = IF d \in given THEN 1 ELSE 0
  <2>. DEFINE Q == {i \in DOMAIN items : items[i] = d}
              H == {w \in Workers : hand[w] = d}
              R == {i \in DOMAIN ran : ran[i] = d}
  <2>0. d # Nil /\ Unique /\ Apart
    BY <1>1, PoolAssumption DEF IInv, TaskInv
  <2>1. Cardinality(Q) = IF Queued(d) THEN 1 ELSE 0
    <3>1. (\A i, j \in Q : i = j) /\ (Q = {} <=> ~Queued(d))
      BY <2>0 DEF Unique, Queued
    <3>. QED BY <3>1, AtMostOne
  <2>2. Cardinality(H) = IF InHand(d) THEN 1 ELSE 0
    <3>1. (\A v, w \in H : v = w) /\ (H = {} <=> ~InHand(d))
      BY <2>0 DEF Unique, InHand
    <3>. QED BY <3>1, AtMostOne
  <2>3. Cardinality(R) = IF HasRun(d) THEN 1 ELSE 0
    <3>1. (\A i, j \in R : i = j) /\ (R = {} <=> ~HasRun(d))
      BY <2>0 DEF Unique, HasRun
    <3>. QED BY <3>1, AtMostOne
  <2>4. /\ ~(Queued(d) /\ HasRun(d)) /\ ~(Queued(d) /\ InHand(d)) /\ ~(HasRun(d) /\ InHand(d))
        /\ d \in given <=> Queued(d) \/ HasRun(d) \/ InHand(d)
    BY <2>0 DEF Apart
  <2>5. Places(d) = Cardinality(Q) + Cardinality(H) + Cardinality(R)
    BY DEF Places
  <2>. HIDE DEF Q, H, R
  <2>. QED BY <2>1, <2>2, <2>3, <2>4, <2>5
<1>2. IInv => TaskInOnePlace
  BY <1>1 DEF TaskInOnePlace
<1>. QED BY <1>2, Invariance, PTL
=============================================================================
