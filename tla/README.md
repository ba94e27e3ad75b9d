# A verification project for libeasy

libeasy is a C library of building blocks for Linux servers.  `src/src/lib/base`
holds its current core, `src/v1.0.0` an older release of the same core together
with the components that were not carried over.  This directory models the parts
of it that keep state, checks the models with TLC on small instances, and proves
with TLAPS what holds for every instance.

Paths below are relative to the repository's root; `base/` stands for
`src/lib/base/` and `v1/` for `v1.0.0/src/`.

## 1. The system

The components are libraries for one process, or for several processes that meet
in a kernel object.  Nothing is persisted by the core; the process lock and the
shared memory outlive the processes that use them.

| component | state | operations | who else touches it | modelled in |
|---|---|---|---|---|
| queue, `base/equeue.c` | ring of pointers `q`, `front`, `rear`, `size`, a mutex | create, push (which grows the ring), pop, head, empty, element_count, size, destroy | any thread; three operations take the mutex, three do not | `FifoQueue`, `EQueue`, `EQueueReaders` |
| thread pool, `base/ethread_pool.c` | the pool, an array of thread contexts with a flag each, a queue | create, push_task, destroy | the workers, whose function is the caller's | `EThreadPool` |
| process lock, `base/eprocess_lock.c` | a System V semaphore found by a key, one handle per process | create, init, try_lock, lock, unlock, release, delete | other processes, and the kernel when one dies | `EProcessLock` |
| memory pool, `base/emem_pool.c` | a list of pages, each with `last` and `failed`, and `current` | create, alloc, calloc, destroy, dump | threads, when built with `MEM_POOL_LOCK` | `EMemPool` |
| buffer, `base/ebuffer.c` | a growing array, `pos`, `last`, `end` | read, read_line, write (which enlarges), eof | nobody | `LineStream`, `EBuffer` |
| shared memory, `base/eshm.c` | a segment found by a key, an attachment per process | create, detach, delete, destroy | other processes, and the kernel when one dies | `EShm` |
| log, `base/elog.c`, `esyslog.c` | a descriptor, a destination, a level, a socket | set_file, set_syslog, set_level, close, the five loggers | the rest of the process, which gets descriptors from the same table (not thread safe) | `ELog` |
| files, `base/eother.c` | the file system | create_dir, create_file, create_file_if_not_existed, remove_file | other processes | `EFiles` |
| properties, `base/eproperty.c` | the position in a file | read, with a callback per line | its callback | `EProperty` |
| strings and time, `base/estring.c`, `etime.c` | none | trim, split a URL, compare; add, subtract and compare times | nobody | `EText`, `ETime` as operators, called by `EProperty` |
| `v1/ip_zone` | a red-black tree of address ranges | load, find, destroy, dump | nobody | `IpZone` |
| the tree of `ip_zone`, `thirdparty/rbtree` | linked nodes, a root | insert, erase, replace, first, last, next, prev | `ip_zone`, which destroys it while walking | `RbTree` |
| consistent hashing, `thirdparty/conhash` | a red-black tree of virtual nodes, a count, the nodes | init, add, delete, lookup, fini | the Lua binding, `server_conhash` | `Ring`, `UtilRbtree`, `ConHash` |
| hash table, `thirdparty/hashmap` | rows of doubly linked nodes, one cursor | new, delete, add, remove, find, findfirst, findnext | `server_conhash` | `Dictionary`, `HashMap` |
| `v1/server_conhash` | groups of servers, a consistent-hash ring each, a table of addresses | create (which loads), find, destroy | a Lua script that reads the file | `ServerConhash` |
| digests and encryption, `thirdparty/crypt`, `v1.0.0/lua/easy_lua.c` | a count, a partial block and four words; the schedule of a key | append and finish a digest; set a key, encrypt and decrypt texts and time tokens | Lua scripts | `Md5`, `Des3`, `EasyCrypt` |
| rows of a hash table, `thirdparty/hashmap/prime_table.c`, `hash_fcn.c` | tables of primes; seed, scale and hardener | nearest prime, make a hash function, hash | `hashmap` | `HashFcn` |
| sockets, `base/enetwork.c`, `v1/network` | descriptors; of a server its streams on an idle and a busy list, an epoll set | create sockets; create and destroy a server | the rest of the process, which gets descriptors from the same table | `Sockets`, in part (section 6) |

The thread pool is built on the queue; `ip_zone` on `rbtree`; `server_conhash` on
`conhash`, `hashmap` and a Lua script; the Lua binding hands arguments on to
`conhash` and looks a node up before it deletes it.  `ip_zone` and the log use the
property, string and time helpers.  The other components are independent of
one another.

### What makes each part correct, and what makes it hard

* **queue**: it is a FIFO queue with atomic operations, whatever threads call it.
  Hard: the ring wraps round, and grows while it is wrapped; growth can fail;
  `queue_empty` and `queue_element_count` read the fields without the mutex.
* **thread pool**: a task is run once; destruction waits for every worker and
  frees nothing that is still used; a creation that fails leaves nothing behind.
  Hard: workers run before `thread_pool_create` has returned, and the clean-up
  of a half-made pool is the same code as the destruction of a whole one.
* **process lock**: at most one process holds it, also when processes are killed
  at any point, and a waiter is not left behind.  Hard: the kernel's
  compensation (`SEM_UNDO`), deletion and re-creation under the holder, the
  rule that only one process may initialise it.
* **memory pool**: blocks are disjoint, aligned and inside their pages; a request
  looks at few pages.  Hard: pages that fail in every order, `current` falling
  off the end of the list, a page that cannot be had after the failures have
  been charged.
* **ip_zone**: an address is found in its range, whatever the order of the file.
  Hard: ranges that overlap or contain each other are ordered by one comparison
  and looked up by another, ends wrap at 32 bits, the file may end anywhere.

* **buffer**: a stream: no byte is lost, doubled or reordered.  Hard: a chunk may
  end between CR and LF; enlarging moves the data under three cursors.
* **shared memory**: one process is told that the segment is new, and initialises
  it.  Hard: the segment can be deleted between the two calls of `shmget`; a
  maker can die before it attaches.
* **log**: it writes to, and closes, its own descriptors only.  Hard: the kernel
  gives a closed number to whatever the process opens next; three statics, two
  files and a socket are switched in any order.
* **files**: what a function answers was true while it ran.  Hard: each looks, then
  acts, in two system calls.
* **trees**: red-black, sorted, linked both ways.  Hard: a wrong link shows only
  many operations later; erasing while walking.
* **conhash**: an object belongs to the first point from its own on, and moves only to
  who joins or away from who leaves.  Hard: points that coincide, replicas that
  find no memory, a node that is freed while its points are in the tree.
* **hashmap**: a dictionary, and a walk meets every key.  Hard: one cursor that looks
  ahead, also while the table changes; who frees the data.
* **digests and encryption**: a digest does not depend on how the message was cut, and
  what was encrypted comes back.  Hard: pieces that end at any place of a block,
  a padding that needs a block of its own, counts that carry; texts measured with
  `strlen`, blocks written with `%llx`.
* **rows**: about as many as were asked for.  Hard: tables of four step widths, two of
  them a number short.
* **sockets**: a creation that fails leaves nothing open and closes nothing else.
  Hard: any of the calls fails while other threads open and close descriptors.
* **server_conhash**: a lookup answers a server of the group asked for.  Hard: names,
  addresses and groups meet again only at the lookup; loading fails half-way.

`PROJECT.json` lists every hazard at its line, with the properties that cover it
or the reason none does.

## 2. The plan

Done, most important first:

1. `FifoQueue`, the abstract queue; `EQueue`, which implements it; `EQueueReaders`
   for the unlocked functions; proofs of type correctness and of the refinement.
2. `EThreadPool`, over `FifoQueue`: since `EQueue` implements it, one operation of
   the queue is one step of the pool.
3. `EProcessLock` and the proof of mutual exclusion.
4. `EMemPool` and the proof that blocks never overlap.
5. `IpZone` and the proof that its lookup is right.
6. `EBuffer`, which implements `LineStream`; `EShm`, `ELog`, `EFiles`, `EProperty`
   with `EText` and `ETime`.
7. `HashMap`, which implements `Dictionary`; `RbTree`; `ConHash` over `UtilRbtree`,
   which implements `Ring`; `ServerConhash` over dictionaries and rings.
8. `Md5`, `Des3` and `EasyCrypt` over it; `HashFcn`; `Sockets`.
9. `Library`, the parts of 6 to 8 that are written without recursion as one specification,
   and `MCLibrary`, which adds the others and checks all of them in one run.
10. Proofs about the log, the shared memory and the ring.
11. Proofs about the thread pool, the unlocked readers of the queue, the loading of
    `IpZone`, the files, the buffer and its refinement, `ServerConhash`, the descriptors of
    `Sockets` and the pieces of `Md5`.
12. Proofs that `HashMap` implements `Dictionary` and that its walks are complete, and of
    the properties of `EProperty`, `EText` and `ETime`; each property of `Library` as a
    theorem of `Library`'s specification.

Left is what section 5 lists as only model-checked.

## 3. The modules and the code

**`FifoQueue`** is the specification a caller of `equeue.h` reasons with: a
sequence, and operations `Put`, `Take`, `TakeNone` and `Peek` that are one step
each.  It promises nothing once a push has failed (`broken`), because the code
does not keep anything then.

**`EQueue`** is `equeue.c`.  `q`, `front`, `rear`, `size`, `lock` are the fields;
`org` is the local `org_size` of a growing push.  A thread takes the mutex
(`PushLock`, `PopLock`, `HeadLock`), runs its body and gives the mutex back
(`Unlock`).  The body of `queue_pop` and `queue_head` is one step.  That of
`queue_push` is cut where unlocked readers see a difference: `PushGrow` doubles
`size` and reallocates, `PushRealign` copies the wrapped elements and moves
`rear`, `PushStore` stores.  `PushGrowFails` is the failed `realloc`, which the
code stores into `queue->q`; `NullAccess` is the later use of that NULL.

**`EQueueReaders`** adds the loads of the unlocked functions, one step each, in
the order of the C expressions (the Makefile builds without optimisation), and
a history of the true counts during each call.

**`EThreadPool`** follows `thread_pool_create` and `thread_pool_destroy` statement
by statement, with each allocation and `pthread_create` failing or not.  A field
that `malloc` left unset is `"junk"`; following it, or joining a thread that was
never created, sets `fault`, after which nothing is said of the process.
`thread_pool_push_task` is two steps, the test of the pointer and the push.  The
worker is not part of the library: its loop (`Test`, `Pop`, `Work`) is the one
`ethread_pool.h` gives its user the macros for, and is marked external.

**`EProcessLock`** models the semaphore as the kernel keeps it, `val` and the
per-process `undo`, and one action per function; `process_lock` is `TryLock` when
it succeeds at once, and otherwise `Block`, then `Granted` or `Abandon` (a signal,
or the semaphore was deleted).  `Exit` is the end of a process anywhere, after
which the identity stands for a new process.  `SETVAL` clears the undo counts, as
semctl(2) documents.  Deleted semaphores are told from new ones by `sem`.

**`EMemPool`** keeps `last` and `failed` of each page and the position of
`current`.  One request is one step (`AllocFound`, `AllocGrow`, `AllocFails`); the
three share what the search does to the failure counts (`Charged`) and to
`current` (`SearchLeaves`).  Addresses are offsets: pages are aligned by
`posix_memalign`.  The pages after `Destroy` are not looked at any more.

**`IpZone`** is the load of a file, line by line, and the lookup.  Balancing a
red-black tree keeps the order of its nodes, so the tree is the sequence `zones`
of its nodes in order, and a descent narrows it to `lo..hi`, where any node may
be the next: every shape of the tree is covered, and some descents that no one
tree has.  `InsertDescend`, `InsertDrop` and `InsertPlace` are `rbtree_insert`, whose
refusal (`InsertDrop`) `ip_zones_add` ignores; `SearchDescend`, `SearchFinds` and
`SearchFails` are `rbtree_search`.  A line is of a kind (`zone`, `blank`, `comment`,
`bad`); `ended` says whether the last one has its line end.

**`LineStream`** is what a user of `ebuffer.h` reasons with: bytes put at one end
and taken at the other, or a line at a time.  **`EBuffer`** is the array `mem` with
offsets `pos` and `last`; `end` is its length.  `Read`, `ReadLine`, `Refuse` (the line
does not fit: -1) and `Unended` are the ways through `buffer_read` and
`buffer_read_line`; `Write` and `WriteFails` those through `buffer_write`, the
enlarging included.  When a line is taken whose CR came without its LF, `pos`
passes `last` by one: the abstract stream calls it `owed`.  `ReadWild` is the
negative length of `memcpy` that follows when the caller reads on instead of
waiting for the LF.

**`EShm`** has a step for each system call of `shm_create` (`GetNew` or `GetExists`,
then `GetFound`, `GetTooSmall` or `GetMakes`, then `Attach` or `AttachFails`), and one
for each other function.  The kernel's part (`Make`, `Reaped`, `Unmap`) is external:
a deleted segment loses its key at once and its memory with its last user.

**`ELog`** keeps the process's table of descriptors, `fds`, beside the four statics;
`AppOpens` and `AppCloses` are the rest of the process.  The kernel hands out the
lowest free number.  A message is its level and the length of what the format asks
for; the earlier cut of the format string itself to 1023 bytes (`elog.c:124`) can only
shorten that, and is left out with the wording.

**`EFiles`** has one call per process and a step per system call, on one name space:
a name is absent, a directory, or a regular file that is empty, has data, or may not
be read (`file`).  So `access(F_OK)` says yes to a file where `create_dir` wants a directory
(`There`), `access(R_OK)` to a directory where the others want a file (`Readable`), and `mkdir`
below a file fails (`InDir`).  `Cut` is what the copy to the buffer of 1024 bytes leaves of a
path; its last name may be shorter than the caller's.  `Refused` is any system call
that fails for reasons of its own; `during` remembers the states of the target while
the call runs.

**`EProperty`** reads a file with `fgets` into the code's buffer, one line a step, and
also makes single calls of the helpers, which **`EText`** and **`ETime`** define as
operators on sequences of characters and on pairs of integers.  `ToInt` is the
conversion to `int`.  For a line without a separator the code writes a 0 to `line[-1]`,
in front of its array (`eproperty.c:75`); memory outside the array is not modelled, and
`Item` is what the callback gets.

**`Dictionary`** is a function that changes one key at a time.  **`HashMap`** is the
rows, links and cursor of `hashmap.c`, pointer by pointer, for any hash function
(`rowOf`); `hashmap_findfirst` and `hashmap_findnext` hand out a node whose
successor they have looked up already.  `FindMoves` is a lookup in splay mode,
which loses nodes, and `FindNextFreed` the cursor on a freed node; both are faults
that end the behaviour.

**`RbTree`** is `rbtree.c`, with the insertion of `ip_zone.c` and the destruction that
looks the next node up and then erases the one it has.  **`UtilRbtree`** is the
other red-black tree, with a sentinel, whose `parent` fields the deletion uses.
**`ConHash`** keeps the virtual nodes in it: adding and deleting are one step each,
`conhash_fini` is one turn of its loop a step; `lua_conhash_del_node` is the
binding's.  `tree.strayed` says that an insertion followed the root's stale parent
out of the tree; nothing is said of the ring after that.  **`Ring`** is what
consistent hashing promises.

**`ServerConhash`** loads groups one server a step, on tables that are `Dictionary` (which
`HashMap` is shown to implement) and on rings of which only the set of names matters
(an object may belong to any name that has a point).  `LoadFails` is a shortage that
`group_load` looks at.  The results of filing an address, adding a server's points and filing
a group (`server_conhash.c:219`, `221`, `177`) are ignored by the code: there each may fail
and loading goes on (`AddressLost`, `AddServer`, `GroupLost`), and `lost` remembers what
it went on without.

**`Md5`** is the bookkeeping of `md5_append` and `md5_finish`: the bit count in two words
of scaled width (`lo`, `hi`), the partial block `buf`, and which bytes of the message
`md5_process` has been given.  What it makes of a block is symbolic: `abcd` is the
sequence of the blocks processed.  A digest is right when these are the padded message.

**`Des3`** is `3des.c` as operators: the words X and Y are functions on bit positions
that name the bit of the block they hold, so that `DES_IP` and `DES_FP` are computed
by the rotations, masks and exclusive-ors of the code; a round is symbolic in the
subkey.  `des3_set_2keys` and `des3_set_3keys` are the orders and directions of the
schedules.  **`EasyCrypt`** is the Lua binding's loop over blocks and hexadecimal
digits round any permutation of blocks (`cipher`), with `strlen`, `%llx` and `strtoull`
by what they do; each action is one call of a script.

**`HashFcn`** defines the four tables of primes by the rule their comments give;
`IsPrime` and `Downto` are that rule.  The numbers of the code have been compared
with it outside TLC: all 4094 agree, but for the first slot (3) and the last slots of the third
and fourth table, which are declared with 1024 slots and initialised with 1023
numbers, so that they hold 0.  `hashmap_new` is that part of the function which
chooses the rows.

**`Sockets`** runs one function at a time as the list of system calls it makes (`todo`),
any of which may fail (`Fail`), against the process's descriptors, while the rest
of the process opens and closes its own.  `Closed` is the error paths and
`tcp_server_destroy`; `Answered` is what a success hands to its caller or keeps for
`tcp_server_destroy`, `Leaked` the socket that `nic_get_ip` neither answers nor closes.

**`Library`** holds the eight parts that share no state and are written without
recursion (`EBuffer`, `EShm`, `ELog`, `EFiles`, `HashMap`, `ServerConhash`, `Sockets`,
`EProperty`) as one specification.  `Init` picks a `part`, `Next` is that part's, and the
variables of the others are 0 and stay so.  Each property is about one part, and
the conjunction of what the component's module states by name.

**`MC...`** modules instantiate these for TLC.  **`MCLibrary`** extends `Library` by the parts that
use recursion (`RbTree`, `ConHash`, `EasyCrypt`, `HashFcn`) and the digest (`Md5`); `v1` to `v6`
stand for their variables, in the order of the `INSTANCE`.  It gives the
constants of all thirteen their small sets.

## 4. The runs

| run | question | bounds |
|---|---|---|
| `equeue_fifo` | Does the ring implement the FIFO queue? Do the indices stay inside? | rings of 2 and 3 slots, 2 values, 3 threads that push, pop and peek in every combination of roles, up to 4 elements |
| `readers_sole_consumer` | Are the unlocked answers true for the only consumer? Is the mutex always released, also after a failed `realloc`? | rings of 2 and 3 slots growing to 8, two producers |
| `pool_life` | Is the pool safe from creation to destruction, is every task run once, does destruction end? | pools of 2 workers and of 0 (refused), 2 clients, 3 tasks, failures anywhere in the creation |
| `process_lock` | Exclusion, accounting and progress across crashes | 3 processes, the key used for 2 semaphores in turn |
| `mem_pool` | Are blocks disjoint and searches short and exact? | pages of 16 bytes with headers of 4, requests of 1 to 13 bytes, 4 pages, two failures allowed |
| `ip_zone` | Is the tree sorted, the lookup right, nothing lost, and does the load return? | every file of one to four lines over 8 subnets and 3 other lines, addresses of 3 bits |
| `library` | Do the thirteen parts below keep what they promise? | below |
| `readers_count_growth`, `pool_failed_create`, `ip_zone_top` | What the code does where a doc, a comment or a test says otherwise | as above |
| `conhash_fixup`, `conhash_named` | likewise, for the ring and its Lua binding | three names with two replicas, six points |

The parts of `library`, one per behaviour:

| part | properties | what they conjoin | bounds |
|---|---|---|---|
| buffer | `IsStream` | type; the buffer implements `LineStream`; what is copied fits the caller | chunks of up to two bytes and one whole line with CR LF, reads into 1 to 3 bytes, 5 bytes in all |
| shm | `SegmentsAreTrue` | who maps has a handle; one process is told; sizes are true | 3 processes, sizes 1 and 2, 3 segments |
| log | `OwnsItsFds`, `LineInBuffer` | the statics name the log's own descriptors, one file at most, nothing of the application closed; lines and datagrams in their buffers, levels in their tables | descriptors 1, 3, 4, 5; lines below, at and above a buffer of 8 |
| files | `DirsAreMade`, `FileAnswersAreTrue` | directories there when 1 is returned, or a regular file of the last one's name; the common part made; answers true at some instant, nothing emptied | 3 processes with every choice of calls, from every tree of files and directories; paths that share one and two components, one that is cut within its last name, a file with the name of a directory |
| text | `TextsAreRight` | items follow the grammar of a line, in order, once; splitting, comparing, time | every file text of 4 characters and pairs of longer lines, a buffer of 6; urls of 4, strings of 3 characters; `int` of 16 values |
| map | `IsDictionary`, `WalkMeetsAll` | rows, links, count and memory agree; data freed once; `Dictionary` implemented; walks complete | 3 keys in 2 rows, any hash function |
| tree | `IsSearchTree` | red-black; walks sorted; destruction meets every node | 8 keys and a node to replace by |
| con | `IsRing` | red-black, sorted and counted; virtual nodes belong; rings whole; lookup clockwise; `Ring` implemented | 3 names with 2 replicas, 6 points, a replica without memory |
| crypt | `HelpersAreRight` | texts, tokens and blocks come back | affine permutations of blocks of two bytes below 4, with three multipliers; texts of up to 6 bytes, keys of up to three parts |
| digest | `HelpersAreRight` | the digest is that of the padded message, nothing is skipped | messages of up to 18 bytes in any pieces, blocks of 4, a count that wraps after 8 bytes |
| rows | `HelpersAreRight` | rows are a prime near what was asked for; one byte changes a hash | the ends of every table and of its slots; keys of two bytes, an `unsigned` of 8 bits |
| net | `OwnsItsFds` | failures leave nothing open, successes just what they answer and what `nic_get_ip` forgets, nothing of the application is closed | 4 descriptors, any call failing |
| groups | `GroupsAnswer` | answers are of the group; groups are the file's; servers of different names all serve; each but for exactly what memory was too short for | files of one group of 0 to 2 servers with an id of -1 to 2, and of two groups of 0 to 2 and 0 to 1, of one id or of two; 2 addresses, one of them also a name; any address, points or group lost |

Why the bounds are enough.  A ring of 2 slots holds one element and one of 3
holds two: with `MaxHeld` = 3 both are filled, wrapped and grown twice with every
`front` and `rear`, and a ring of `2n` slots meets nothing that one of `n` did
not.  (That all larger ones behave alike is what `EQueueProofs` proves.)  Two
producers and a third thread give two waiters at the mutex.  Two workers are
the least that can race for one task, and let the second `pthread_create` fail
after the first succeeded; three tasks leave one queued while both are busy.
Three processes are a holder, a waiter and one that deletes, re-creates or
crashes; two semaphores are the old one and the new one.  The pages of
`mem_pool` are as small as headers, alignment, one large and several small
blocks allow; a request of 12 bytes is exactly a page and one of 13 is refused;
four pages with two failures each put `current` at every position, NULL
included.  The subnets of `ip_zone` are pairs that touch, are equal, contain each
other, overlap with host bits set, wrap round at the top, and everything; a
fourth line is inserted among three.

In `library`: a line of CR LF and the bytes before and behind it fit 5 bytes, and an
array of 0 or 3 grows at every place of it.  Three processes of `shm` are the two that
race for the key and one that deletes; the third segment is one that is made
while the second is still mapped.  Four descriptors hold the log's file, its
socket, and one of the application that takes a number the log has given up.
Three makers of directories let two race while a third has passed; with one
file, two calls race with any third, or with makers of a directory of that name.  Three keys in two rows make rows of three,
two and one node, a hole between rows, and removals at head, middle and end.
Trees of 8 keys have every case of the repair after erasing, at the root and
below; six points are the virtual nodes of three names, the least with which a
deletion leaves a tree that the next insertion repairs up to the root.  The hash
functions are every order of the points, but for an exchange of names, and some
with coincidences.  Pieces of 0 to 9 bytes
end at every offset of a block of 4 and pass two of them; 18 bytes carry twice into the
second word of the count and wrap neither.  Texts of 6 are three whole blocks, or two and a rest.
The affine permutations include ones whose ciphertext has a zero byte.  Names are interchangeable in `shm`, `files` and `map`, so their
permutations are a symmetry (`Alike`); the other parts do not mention them.

Bounds in the models: `MaxHeld` (no push starts on that many elements), `Sems`
(semaphores made for the key), `MaxPages` (pages `posix_memalign` grants), `Tasks`
(each is pushed once), `MaxWritten` (bytes put in the buffer), `MaxSegs`, `Slots` of the
heaps of `HashMap` and `UtilRbtree`, `Keys` of `RbTree`.

Deadlock is checked except in the runs whose system may really stop: after a
fault, in a pool that has been destroyed, in a memory pool that has been
destroyed, after a load that failed, in a buffer that is full or a process that has
made its one call.

### Fairness

* `EQueueReaders`: a thread that is inside an operation goes on
  (`WF` of `Body`); the scheduler is preemptive and the body never blocks.
  Nothing is assumed about who gets the mutex, because pthread mutexes
  promise nothing.
* `EThreadPool`: every worker is scheduled and every task returns (`WF` of
  `WorkerStep`), and a destruction that has begun goes on.  The owner need not
  create or destroy, the clients need not push.
* `EProcessLock`: the kernel wakes a process whose `semop` can go on, or whose
  semaphore is gone.  A holder need not ever unlock, nor crash.
* `IpZone`: the load and the lookup run to their end in the caller's thread.
* The parts of `library` state no liveness and assume no fairness: their operations
  are steps or loops over data that is there.

### What was found

Shown by a run that expects the violation:

* `queue_element_count` is wrong when it overlaps a growing push
  (`equeue.c:145`, `readers_count_growth`), also for the only consumer.
* `thread_pool_create` cleans up after a failure with `thread_pool_destroy`, which
  reads `pool->queue` before it was set and joins threads that were never
  created (`ethread_pool.c:36`, `45`, `58`; `pool_failed_create`).
* `ip_zones_find` misses the addresses of a subnet that reaches the top of the
  address space (`ip_zone.c:318`, `ip_zone_top`).
* `util_rbtree_delete` leaves the new root its old parent, a node that is then
  freed; an insertion later may follow it (`util_rbtree.c:180`, `conhash_fixup`).
  `ConHash` says nothing of a ring after that step.
* The Lua binding deletes whichever node owns the point its argument hashes to,
  where the script names a node (`easy_lua.c:161`, `conhash_named`).

In the models as steps that end what is promised, or as an exception that a
property states:

* `queue_push` loses the queue when `realloc` fails: NULL replaces `queue->q`, and
  `size` stays doubled (`equeue.c:78-86`).  With a second consumer `queue_empty` can
  say empty of a queue that never was.
* `ip_zones_load` never returns for a file whose last line is a comment without
  its end: `LoadReturns` excludes exactly that.
* `buffer_read_line` of a line without its end consumes it, returns its length and
  copies nothing; `buffer_read` behind a CR whose LF is missing gives `memcpy` a
  negative length (`torn`, `fault`).
* A segment whose maker fails in `shmat`, dies before it, or makes it in the second
  `shmget`, is announced to nobody (`unlucky`).
* `log_set_file` that fails leaves the number of a closed descriptor in `log_fd`
  (`failed`); `log_set_syslog` takes -1 for success, and a second one leaks the first
  socket; `log_set_level` tests the old level instead of the new; a message that is
  cut contains the terminating 0.
* `create_dir` answers 1, which `eother.h:62` says of a directory that was made, also for a
  regular file of the last directory's name, and for a path of more than 1023 bytes
  of which it made what fits (`MetFile`, `Cut`); the second of two processes that make
  the same directory gets 0 though it is there.  `create_file_if_not_existed` answers 1
  for a directory; a file that may not be read is taken for none.
* A lookup of `hashmap.c` in splay mode loses nodes of its row; adding a known key
  moves the cursor of a walk, and removing the node looked up ahead leaves the
  cursor on freed memory.
* Points that another node has already are passed over, and stay vacant when that
  node leaves (`partial`); a node all of whose points were taken is leaked by
  `conhash_fini`.
* `server_conhash_create` succeeds although memory was too short to file a group, an
  address or points (`server_conhash.c:177`, `219`, `221`): the group is not found, a
  server's name is answered in place of its address, or a server gets no urls (`lost`).
  A lookup in a ring without points answers NULL, by way of a NULL node (`:128-134`).
* `server_conhash_create`: when the script cannot be loaded its message stays on the
  stack and is taken for a count of 0 groups, and the caller gets an empty instance; servers without
  `hash_ip` are all called "(null)", so that only the first serves.

* `lua_decrypt_des3` measures the ciphertext with `strlen` and stops at its first zero
  byte; what follows the last whole block of a text is never encrypted; a key of 8
  bytes, for which `des3_setkey_ex` has no case, sets none.
* `nearest_prime` is 0 for 1023K to 1M-1 rows, and likewise below 128M and 1G, and
  `hash_fcn_new` then divides by it; from 128M on it answers about an eighth of what was asked
  for (`prime_table.c:2090`, `3117`; `InLastSlot`).  A scale taken from the last slot is 0.
* `nic_get_ip` never closes its socket; a `tcp_server_create` that fails before it has
  set `listen_fd` or `epoll_fd` closes descriptor 0, which `bzero` has put there.

Noticed while reading, outside the models: `process_lock_init` frees the lock under
its holder, and the header allows one call only, while the repository's own
programs make one per process (`eprocess_lock.c:141`; `InitOnce` is the assumption
of the proofs); `queue_head` of an empty queue returns whatever its slot holds (`equeue.c:128`);
a property line without a separator has a 0
written in front of it (`eproperty.c:75`); `buffer_write` never frees the array it grew out of; `esyslog.c:152` indexes the months by `tm_mon - 1`; rings and
a Lua state are leaked when a group cannot be loaded.

## 5. What is proved

All proofs are for every value of the constants, from the assumptions named
in the modules (`QueueAssumption`, `ReadersAreThreads`, `PoolAssumption`, `LockAssumption`,
`MemPoolAssumption`, `SpaceAssumption`), which TLC evaluates in the runs.  What a
theorem needs beyond them is a hypothesis in its statement.

**`EQueueProofs`.**  `TypeCorrect`: `Spec => []TypeOK`, whatever fails.  The
invariant is `IInv` = `TypeOK` with `MutexInv` (a thread that is past `Lock` holds
the mutex, so only one is) and `GrowthInv` (while `org` is set, `size` is twice
`org` and the pushing thread is realigning; `front` and `rear` are still inside
the old ring).  Without `GrowthInv` the sum `org + rear` need not be an index.
`RingImplementsFifo`: `Spec => IsFifo`, until a push reports a failed `realloc`
(`LossKnown`: the array is lost only after that).  Every step maps to a step of
`FifoQueue` or leaves it alone; the lemmas are about
`ElementsOf`: storing behind `rear` appends, moving `front` drops the first, and
realigning a ring of `n` slots in one of `2n` changes nothing.
The readers: `EmptyIsLinearisable` (`EmptyIsTrue`), `CountIsLinearisable`
(`CountIsTrue`) and `NotEmptyIsStable` (`NotEmptyStays`).  The first two assume that
each reader is the only thread that pops, as TLC's counterexamples demand; the
third has that in the property.  The invariant follows the loads one by one:
while the only consumer is inside a reading function `front` stands still, so a
loaded `front` is the present one (`EmptyInv`), and as long as `size` is what it was
at the beginning no growth has begun, so that each later value of `rear` is one of
a count in `truths` (`CountInv`).

**`EThreadPoolProofs`.**  `TypeCorrect`, `JoinedFirst`, `NothingLeft` and `OnePlace` for any
number of workers, clients and tasks and any failure of a creation; `NothingWild`
under `Quiet`, that is when clients stop pushing before the destruction begins
(without it a push to a freed pool is the client's fault), and
`SafeWithoutFailures`, which adds that nothing fails in the creation and then
has no fault at all.  The invariant has a line per statement of the owner:
what is allocated there (`MemInv`, so that a worker that runs before the creation
has returned finds its queue), who has been created (`CreatedInv`), who has been
joined (`JoinInv`).  `OnePlace` rests on `Unique` and `Apart`: no task is queued or run
twice, in two hands, or in two of these places, from which the cardinalities of the
property follow.

**`EProcessLockProofs`.**  `TypeCorrect`, `Exclusion` and `Accounting`, under
`InitOnce` (`process_lock_init` is called once per semaphore).  `MutualExclusion`
is not inductive: `LockIsAccountedFor` says that the value is 0 while the lock is
held, and that what the kernel has set aside for a process is what it holds,
which is what makes a crash harmless; `Known` says that a new semaphore is
nobody's.

**`EMemPoolProofs`.**  `TypeCorrect`, `BlocksNeverOverlap`, `BlocksStayInPage`,
`SearchDivides`, `SearchBounded`, for every page size, header size, alignment,
failure limit and set of requests.  The invariant adds that every block ends
at or before the `last` of its page (`BlocksBelowLast`), so that a block cut
behind `last` overlaps none.  For the search it adds (`Failures`) that failures
do not increase along the searched pages, so that the spent ones come first, and
that a searched page has failed at least once for every page behind it, so that
there are no more of them than the limit.

**`IpZoneProofs`.**  `TypeCorrect`, `TreeStaysSorted`, `LookupIsRight` and `NoZoneIsLost`, for
every size of the address space, every file and every shape of the tree.  The
invariant adds what a descent has left aside: while a range is inserted, nodes
before `lo` start no later and nodes behind `hi` no earlier (`Inserting`); while
an address is looked up, a range that contains it is in `lo..hi` (`Searching`).
The latter needs that ranges lie apart and are not empty (`TreeIsClean`).
For `NoZoneIsLost` the nodes are exactly the ranges of the lines read (`KeptInv`);
ranges that lie apart always have a side to go to (`ApartHasASide`), so that
`rbtree_insert` never refuses.

**`ELogProofs`.**  `LogOwnsItsFds`, `LogHasOneFile`, `LogClosesItsOwn` and `LogLinesFit`,
for any number of descriptors and any sizes of buffers, levels and messages.
`OwnsItsFds` is not inductive: `FdsInv` adds that stdout is never closed and is
never the socket, and that only `log_fd` can be a file of the log, which holds even
after a failure and is why there is at most one.

**`EShmProofs`.**  `ShmTyped`, `ShmOneInitialiser` and `ShmSizeIsTrue`, for any number of
processes and segments.  The invariant: the kernel numbers segments in the
order it makes them (`KernelInv`, so that a new one was never told of); a handle
leads to a made segment that is large enough, and one that saw the segment of
another does not call it new (`HandleInv`); a segment is new to one process, and
told to nobody before that one attaches (`NewsInv`); every segment was announced,
will be, or its maker had bad luck (`Announced`).

**`LibraryProofs`** extends `Library` and proves each of its parts alone; two modules of
the parts that `MCLibrary` adds, `Ring` and `Md5`, are instances over variables of their
own.  The last section puts the parts together: a behaviour of `Library` is one of
its part, or that part's property says nothing of it (`BufferRun`, ..., `TextRun`), so that
the properties of the run `library` are theorems as they stand: `LibraryIsStream`,
`LibrarySegmentsAreTrue`, `LibraryOwnsItsFds`, `LibraryLineInBuffer`, `LibraryDirsAreMade`,
`LibraryFileAnswersAreTrue`, `LibraryTextsAreRight`, `LibraryIsDictionary`,
`LibraryWalkMeetsAll` and `LibraryGroupsAnswer`, ten of thirteen.  The log's and the segments'
come from `ELogProofs` and `EShmProofs`, which are instances here (`LogP`, `ShmP`): what
they define again is shown to be the same (`ShmNextSame` and its like).

* *The ring*: `RingTyped` and `RingMovesLittle`: when a member joins, an object stays
  or moves to it; when one leaves, only its own objects move, for any points and
  members.  The lemma `FirstOfFewer` carries both: a first point stays first when
  there are fewer.  TLC shows that `ConHash` implements `Ring`, so the result is about
  it on the instances of `library`.
* *The files*: `DirsAreThere`, `CommonPathIsMade`, `FileAnswers` and `FilesAreKept`, for any number
  of processes, files and paths of any depth, cut anywhere.  What is there lies in
  directories (`IsTree`), so a regular file can pass for a directory only as the last name of
  a path; what is above it was made or met by the maker (`Above`, `MakerInv`).  A maker that gave
  up, when no call failed for another reason, met a directory that a maker has made or met
  which has gone beyond it (`HasMaker`).  So if all makers gave up above a part they
  have in common, the deepest would have met a directory whose maker is deeper.  What a
  call has seen supports what it answers (`SeenInv`).
* *The buffer*: `BufTyped`, `BufIsStream` (the refinement: `Spec` implements `LineStream`'s)
  and `BufFitsCaller`, for chunks and rooms of any length, any initial size and no
  limit on what is written.  The invariant: `pos` passes `last` only over a CR that is
  the last byte, and every CR before it has its LF (`BufInv`).  The lemmas are about
  pieces of sequences: what is left when a piece is taken from the front, or
  appended behind.
* *The groups of servers*: `AnswersAreRight`, `GroupsAreRight` and `NamedServe`, for files of any
  number of groups and servers.  Loading is at a place of the file (`Place`); the
  rings are those of the groups behind it that were not lost (`Rings`), the table of
  addresses holds the servers that have been met, have a name and were not lost, and nothing
  else (`Filed`), and what was lost is of places behind it (`Losses`).  A lookup that answers a
  name which is no address meets a server whose address was lost (`NameAnswers`).
* *The sockets*: `FailuresClose`, `SuccessOwns` and `SocketsCloseTheirOwn`, for any number of
  descriptors and any opening and closing by the rest of the process.  `SuccessOwns` is an
  equation: no descriptor too many, none too few.  What a
  function has opened it can name, and what it will close is open and its own
  (`SockInv`); the lists of calls enter only by their order, the server before its
  descriptors and the socket before the epoll set (`InOrder`).  The exception of the
  last theorem is the one `Sockets` states: the 0 that `bzero` leaves.
* *The hash table*: `MapIsDictionary` (rows, links, count and memory agree, data is freed once, and every
  step is one of `Dictionary` or none, but for a splay lookup that loses a node) and
  `MapWalkMeetsAll`, for any keys, rows, hash function and size of the heap.  The rows
  of the model are followed pointer by pointer; the proof says instead that some
  sequences of nodes are *laid out* in the heap (`Laid`: each node's `next` and `prev` are
  its neighbours in the sequence) with no node in two places; then the function that follows
  a row's links has that row's sequence as its value (`ChainIs`).  `MapInv` is that such lists
  exist; adding puts a node in front of one, removing takes it out of the middle.  For the
  walk, the places ahead of the cursor (`Ahead`) hold every key that has been there all
  the time and was not met, and none that was (`WalkInv`): `hashmap_findnext` moves the cursor
  by one place, over the node it hands out.  A call that uses the table's one cursor
  for something else ends the walk (`steady`).
* *Lines, strings and times*: `LibraryTextsAreRight`, for files, urls and strings of any length over any
  characters, a buffer and spaces of any size, normal times and every width of `int`
  (`TextUse`).  A text is handled as its pieces (`Mid`, from one place up to another), and a
  piece of a piece is a piece (`CutOfCut`): trimming leaves a piece with white space on
  both sides (`IsTrim`), the content of a line is one that ends before the comment
  (`IsContent`), and key and value are the trimmed pieces on both sides of the first `=`
  (`SplitIs`), which is what the grammar asks for (`ItemIsPart`).  `TextInv` says of a file that is
  being read that every character that has been is in a line called back, white, or in a
  comment (`Covered`).  It needs that `fgets` returns at most one line end, as the last
  character (`IsRead`): otherwise a comment would hide the next line.  For times, C's
  quotient is short of the number by less than the divisor, on the side of 0 (`QuotIs`),
  so a difference of seconds decides its sign whatever the microseconds are
  (`DifferenceIs`), and the milliseconds of a sum are the sum (`MovedIs`).
* *The digest*: `NothingIsSkipped` and `DigestPads`, for messages and pieces of any length and
  all sizes of blocks and words of which a word counts whole blocks (`Md5Sizes`, as 2^32 bits
  are 2^23 blocks of 64 bytes).  A state has taken a message (`HasTaken`) when the two words count
  its bytes and what was digested, with the beginning of the buffer, is it.  `AppendIs`: such a state takes
  a piece, wherever it begins and ends in a block; the padding and the length are two more
  pieces, and together with the message fill whole blocks (`FillsUp`).  The lemmas are about
  quotients, remainders and the carry of a sum (`RestOfSum`, `SumCarries`).

The hypotheses of these theorems say of what kind the constants are: sizes and
points are numbers, a path, a chunk or a file of groups is a sequence, CR is not LF, a
header fits its datagram, no segment is "none", a group's id is an integer.  For files
(`PathsAreNames`): paths are sequences of names, files and cut paths are paths.

Where a proof needs induction it is used as the existence of a least number (`Least`, from
the library's theorems on well-founded relations), or of a greatest among
bounded ones: the first line end in the buffer, the deepest maker.

### Only model-checked

Liveness (`MutexReleased`, `DestroyReturns`, `QueuedTasksRun`,
`NobodyWaitsForTheDead`, `LoadReturns`) is out of the prover's reach and checked by TLC.

Of the properties of `library`, three are left to TLC:

* `IsSearchTree` and `IsRing`: `RbTree`, `UtilRbtree` and `ConHash` follow their trees with `RECURSIVE`
  operators, and the shape of a tree (red-black, sorted, counted) is defined by
  recursion over it: what holds for every tree needs induction over trees.
  What a ring promises is proved of `Ring`, and that `ConHash` implements it is checked.
* `HelpersAreRight`: `HashFcn` uses `Bitwise` and a recursive rule for primes, and `EasyCrypt` and `Des3`
  compute over sequences with the folds of the library, whose value for every
  input needs induction over an operator.  Its part about `Md5` is proved (`NothingIsSkipped`, `DigestPads`).

## 6. What is not modelled

* **Connections in `v1/network`.**  `tcp_client.c` does not compile (it uses names nothing
  declares), and neither it nor `tcp_server.c` is built by the Makefile.
  `tcp_server.c` never adds its listening descriptor to the epoll set, and `accept_cb`
  uses a `server` that was never set: no state beyond the one after creation, which
  `Sockets` models, is reachable, and the lists of connections are never exercised.
  The rest of `udp.c` wraps single system calls.
* **The core in `v1.0.0`** is an older copy of the files modelled: all but `eprocess_lock.c`,
  where a union has another name, are the same byte for byte, and so are the two `md5.c`.  The map
  names one of each pair.
* **`ememory`**, the buffer sizes of `enetwork`, the daemon, signal and hexadecimal helpers of
  `eother`, and the Lua binding except for its `conhash` and `crypt` calls: thin wrappers
  without state.
* **crc32**: the table of the standard polynomial and a loop over it.  `ConHash` and `HashMap`
  let the hash function be any function.  Of `md5` and `3des` the inside of a round, the
  S-boxes and the schedule of a single key are symbolic.
* Printing (`mem_pool_dump`, `ip_zones_dump`), formatting of times and of log lines,
  allocation failures of constructors that return NULL and leave nothing, `int`
  overflow of the ring's size after 2^30 elements, the memory order of the
  hardware (the unlocked reads are taken to see the stores in program order),
  callers that unlock a lock they do not hold, clients that push to a pool
  while it is destroyed, and memory that `buffer_write` leaks.

These lines, with headers and comments and the numbers of the tables, are the part of
the repository that the map does not cover, more than two thirds of it.
