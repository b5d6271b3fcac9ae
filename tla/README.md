# A verification of selib

selib is a collection of C++ headers for server programs: lock-free and locked
containers, a thread pool, dictionaries that are reloaded while they are read, and
small helpers. This directory has TLA+ modules that model its concurrent and its
intricate parts, TLC configurations that check them on small instances, and proofs,
checked by TLAPS, that every safety property of the passing runs holds for every number of
threads, nodes, keys and locks, every length of a buffer and every array.

## The system

| Component | Keeps | Operations | Uses, and is used by |
|---|---|---|---|
| `Lifo` (`util/lifo.h`, `lifo.hpp`) | two words `head`, `sync`; the nodes' `next` | `push`, `tryPush`, `pop`, `tryPop` | used by `ResourceStack` |
| `ArrayLock` (`util/array_lock.h`) over `BitArray` (`util/bit_array.h`) | an array of bytes, a bit per lock | `lock`, `unlock`, `try_op` | used by `PChainMap` |
| `PChainMap` (`container/pchain_map.h`) over `ChainHashMap` (`container/chain_hash.h`) | a chain of entries per bucket | `insert`, `find` | takes the `ArrayLock` of the bucket |
| `PQueue` (`container/pqueue.h`) | a linked list with an embedded head, `tail`, `size`, `flushed` | `reserve`, `try_push`, `push`, `front`, `flush`, `all_poped` | two mutexes (`util/autolock.h`), atomic additions (`util/lock_free_atomic_ops.h`) |
| `ResourceStack` (`container/resource_stack.h`) | two `Lifo`s of holders, with and without a resource | `create`, `push`, `pop`, `force_pop`, `produce`, `destroy` | used by `PoolMgr` |
| `PoolMgr` (`framework/shining_pool.h`) | two `ResourceStack`s, `_p_size`, `_alive`, the worker threads | `init`, `push`, `pop`, `start`, `stop`, `wait`, `thread_fun`, the destructor | clients and workers exchange elements |
| `LruCache` (`container/circle_cache.h`) | an open-address hash and a circular doubly linked list that point into each other | `init`, `put`, `get` | sequential |
| `DictContainer` (`container/dict_container.h`) with `FileWatcher` (`util/file_watcher.h`) | a front and a back pointer, the time of the file last seen | `init`, `reload`, `get_dict`, `release_all` | the file, written by others; readers hold the pointer |
| `DictManager` (`framework/dict_manager.*`) | the registered dictionaries and their order | `set_dict_property`, `load`, `reload`, `get_dict`, `destroy` | drives the containers |
| `ProcessSingleton` (`util/singleton.h`) | `_instance` and a mutex per type | `get_instance`, `bind` | used by `CpuLoad` |
| `CpuLoad` (`monitor/cpu_switch_monitor.h`) | `_run`, `_tid`, an average; a sampling thread | `start`, `stop`, `join`, `get_cpu_load` | is the singleton's object |
| `SequenceRecorder` (`container/sequence_recorder.h`) | a circular buffer | `append`, `clear`, `get_every`, sum, average, count, density | sequential |
| Algorithms (`algorithm/`) | none | sorts, binary search, a heap (not modelled), the skip table of kmp, the reversal of words | sequential |

What is hard in each, and what makes it correct:

- **Lifo**: the pair is read with two loads and the successor through a pointer that
  may be stale; only the double-width compare-and-swap with its counter stands
  between this and a corrupted list (ABA). Correct: the list is the stack, a node
  has one owner, operations are atomic, and somebody always gets on.
- **ArrayLock**: eight locks share the byte that is compared and swapped, and the bit
  is tested before the byte is loaded. Correct: exclusion per lock, no neighbour's
  bit lost, no jam.
- **PChainMap**: a walk along a chain of pointers, valid only while the lock is held,
  on failure paths too. Correct: it is an atomic map.
- **PQueue**: `push` and `front` take different mutexes, so each reads what the other
  writes; `size` follows late; `flush` closes the queue with a dummy. Correct: first
  in first out, no freed node reached, bounded, drains.
- **ResourceStack / PoolMgr**: every operation is two atomic ones; the counter that
  bounds memory is tested and decremented apart; results are ignored. Correct: an
  element has one place, no more is lost than the clients have brought along, the bound holds,
  `stop` ends the workers.
- **LruCache**: six aliasing assignments move a node, the evicted node's bucket is
  found through a remembered index, and probing meets buckets that have become
  free. Correct: ring and hash agree, order is that of last use, values are fresh.
- **Dictionaries**: loading, flipping, readers, and a file that changes at any moment.
  Correct: readers' dictionaries are not released, contents do not go back, an
  update is served.
- **ProcessSingleton / CpuLoad**: double-checked locking over a plain pointer, so the object
  may be visible before it is constructed; `_run` and `_tid` are plain, and a second `start`
  forgets the first sampler. Correct: there is one instance, and `stop` ends every sampler.
- **Sequential code**: indices at their ends. Correct: the sorts sort, the search finds, the table has
  the longest borders. Three functions do not do what they are for; what they do instead is proved.

`PROJECT.json` lists the hazards with their lines and the properties that cover them.

## The modules

| Module | Models | One step is |
|---|---|---|
| `AtomicStack` | what a Lifo promises | a push or pop |
| `Lifo` | `lifo.hpp`, both the i386 and the x86_64 body | an instruction that touches shared memory |
| `LifoProof` | theorems about `Lifo` | |
| `ArrayLock` | `array_lock.h` over `bit_array.h` | an access to a shared byte |
| `AtomicMap` | what the map promises | a call, its effect, its return |
| `PChainMap` (extends `ArrayLock`) | `pchain_map.h`, `chain_hash.h` | a step along the chain, or of the lock |
| `PChainMapProof` | theorems about `ArrayLock` and `PChainMap` | |
| `FifoQueue` | what the queue promises | a push or front |
| `PQueue` | `pqueue.h` | an access to shared memory |
| `PQueueProof` | theorems about `PQueue` | |
| `ResourceStack` | `resource_stack.h`, as actions with the caller's program points as parameters | an operation of a Lifo |
| `PoolMgr` (extends `ResourceStack`) | `shining_pool.h` | an operation of a Lifo, or an access to `_p_size` or `_alive` |
| `MCPoolMgr` | `PoolMgr` with memory that is allocated in order, for TLC | |
| `PoolMgrProof` | theorems about `PoolMgr` | |
| `LruList` | a list in the order of last use | a call |
| `LruCache` | `circle_cache.h` | a call |
| `LruCacheProof` | theorems about `LruCache` | |
| `MCLruCache`, `MCLruRecent` | `LruCache` with items for TLC; with a history of the items last used | |
| `DictContainer` | `dict_container.h`, `file_watcher.h` | an access to the file or to the pair of pointers |
| `DictManager` (extends `DictContainer`) | `dict_manager.h`, `dict_manager.cpp` | as above, or a step of `dict_process` |
| `DictManagerProof` | theorems about `DictManager` | |
| `Singleton` | `ProcessSingleton` of `singleton.h` | a test, a lock operation, an allocation, the construction or the publication |
| `CpuLoad` (extends `Singleton`) | `cpu_switch_monitor.h` | as above, or a method behind its `get_instance`, or half a round of the sampler |
| `CpuLoadProof` | the theorem about the singleton | |
| `SequenceRecorder` | `sequence_recorder.h` | a call |
| `Algorithms` | `algorithm/`, as operators on sequences | |
| `MCSequential` | a client that records numbers, and the algorithms on what it recorded | a call of the recorder |
| `SequentialProof` | theorems about `SequenceRecorder` and `Algorithms` | |

Variables and actions have the names of the fields and methods where TLA+ allows it
(misspellings included: `aviable`, `hoder`, `all_poped`). `pc` is the place of a thread
in a method. A variable marked *history* in its declaration (`stack`, `queue`, `order`,
`stale`, `leaked`, `lost`, `failed`, `handed`, `appended`) is only written and never read by guards; it is what the
refinements and the properties speak of. Definitions introduced by *Broken variant* are
plausible mistakes; no specification uses them, and replacing the definition they vary,
which follows, by the variant makes the property named in
`PROJECT.json` fail. Tests and updates that have such a variant are operators of their own. The modules are plain
about what a step covers: releasing a mutex is part of the last step of its critical
section, and a private computation is part of the access that follows or precedes it.

How the parts compose: `PChainMap` runs the real lock steps of `ArrayLock`, and its run also
checks that the map keeps to the protocol of the locks (`ImplementsLockSpec`). `ResourceStack`
takes each `Lifo` operation as one step, which `LifoImplementsAtomicStack` justifies.
`PoolMgr`, `DictManager` and `CpuLoad` run the actions of the modules they extend.

## The runs

A run is `tlc -config X.cfg Module`. State counts are of distinct states.

| Run | Module, cfg | Distinct states | Result |
|---|---|---|---|
| `lifo` | `Lifo`, `Lifo.cfg` | 537,120 | all hold |
| `array_lock` | `ArrayLock`, `ArrayLock.cfg` | 373,573 | all hold |
| `pchain` | `PChainMap`, `PChainMap.cfg` | 596,592 | all hold |
| `pqueue` | `PQueue`, `PQueue.cfg` | 492,840 | all hold |
| `pool` | `MCPoolMgr`, `MCPoolMgr.cfg` | 1,616,361 | all hold |
| `lru` | `MCLruCache`, `LruCache.cfg` | 183,693 | all hold |
| `dict` | `DictManager`, `DictManager.cfg` | 290,580 | all hold |
| `cpu_load` | `CpuLoad`, `CpuLoad.cfg` | 512,508 | all hold |
| `sequential` | `MCSequential`, `MCSequential.cfg` | 270,336 | all hold |
| `pqueue_fresh` | `PQueue`, `PQueueFresh.cfg` | | `TailLive` is violated |
| `pool_bound` | `PoolMgr`, `PoolMgrBound.cfg` | | `MemoryBound` is violated |
| `lru_recent` | `MCLruRecent`, `LruRecent.cfg` | | `KeepsRecent` is violated |

### lifo
Two threads, two nodes and a counter of five values, on both architectures, from every
distribution of the nodes. ABA needs one stalled thread and one that pops twice and pushes
once, for which two nodes and two threads are enough; five values let the counter wrap many
times. `NotLapped` keeps the counter from coming all the way round to the value a stalled
thread has in its register: with 2^32 or 2^64 values this is the assumption the design makes.
Checked: `Exclusive`, `Linked`, `FreshSnapshot`, the refinement `ImplementsAtomicStack`
(a push or pop takes effect at its compare-and-swap, a pop of an empty stack at the load of
head) and `LockFree`. The latter assumes only that the machine runs *some* thread inside a
method; any thread may stall for ever.

### array_lock
Three threads and locks 0, 7 and 8: two at the ends of one byte, one in the next. Two users
of a byte and one more that moves between them is what a lost neighbour's bit takes.
Fairness: each thread inside a method is scheduled, and owners give their locks back.
`LockProgress` says that some lock is taken or given back again and again; a single waiter,
or a single owner giving back, may be overtaken for ever, and the code promises no more.
Positions are within the buffer and callers unlock what they have locked.

### pchain
Two threads, two buckets and keys 1, 2, 4, of which 2 and 4 collide; both locks are bits
of one byte. Every allocation may fail. Two threads in one bucket and one more bucket next to
it show every interference the lock has to prevent. `overwritten` is true and `find` is given a
place for its result, as the map's own call has it; keys are never removed since the
map has no such method.

### pqueue, pqueue_fresh
Two producers, two consumers, four nodes that are reused after they are freed, reserved
length one. `pqueue` starts after one push (`PrimedInit`); with it every property holds.
`pqueue_fresh` starts from the constructor and is a finding, below. Four nodes let both producers
overshoot the length and flush add its dummy. `size` wraps at eight, so that its dip
below zero (`SizeAccounts`) is a large number as in the code. Flush is called once, by a producer,
after the others are done, which is how `all_poped` can be meant. Fairness: threads
inside calls are scheduled and consumers go on calling `front`; producers need not call. `Drained`
is under this fairness. Stores are seen in program order, as on x86. The destructor deletes
the one node that `head` points to; `AllPoped` includes that no other is left once `all_poped`
is true and every call has returned.

### pool, pool_bound
Two clients and two workers, pool size one, memory for two elements and three holders, allocations
that fail (with and without the element allocated), and `--_p_size` as a load and a store. Pool size
one and two clients is the smallest instance in which the counter is raced, and a second element makes
`push` be refused. The holders that `create` makes have whatever pointer was in their memory, an
element or NULL; no property assumes anything of it, and `OnePlace` looks only at the holders that were
filled. Clients push elements that `pop` has returned and one that a client has made itself (`Own`), as in
the use case of the header (`shining_pool.h:62-72`). For such an element `produce` has made no holder, so the
producer stack may refuse it; the worker ignores that and the element is in no place any more (`WorkerDrops`, `lost`).
`LossBound` says that the workers lose at most as many elements as the clients have made, whichever ones they
are, and thus none if clients push only what they popped; `OnePlace` that there is no other
way to lose one but that of `produce`. `RefusedOnlyWhenExtended` counts the elements of both kinds.
In `pool` the constraint `InOrder` has memory allocated in ascending order and the clients' own elements start
with one of the clients. It drops no behaviour but for the names: holders, elements and clients are
interchangeable, memory once allocated stays so (`made`, `produced` only grow), and an own element changes hands
only through a worker, hence after `start`. Fairness for
`StopJoins`: the workers and the waiting thread are scheduled, clients are not needed. Once `wait` has
returned and nobody is in a method, the pool may be deleted. `ResourceStack::destroy` tests its producer
the wrong way round and calls `destroy` through NULL, which works because that method does not touch its
object; `OnePlace` and `HoldersKept` say that everything is deleted once and that nothing deleted is
in anybody's hands.

### lru, lru_recent
Capacity four (three entries and the free node), sixteen buckets, three probes; four items, of
which three have the same home bucket, two even the same key. More items than room in one
probing path makes evictions free buckets in front of items that are present. Calls are single
steps, since nothing synchronizes the cache; every sequence of calls is explored. Keys are not 0,
which marks a free bucket, and the capacity is at least 2. `put` is given both values of `overwrite`;
`Fresh` is about values that a later overwriting put has replaced. `lru_recent` is a finding, below.

### dict
Two dictionaries, with and without reload, valid and invalid, with and without memory for their action, one of whose files is rewritten up to
twice and removed in between, with modification times from 1..3 that may repeat or go back; a reader
that may keep its pointer across any number of reloads. Two rewrites give two reloads, after
which a third dictionary is behind the pointers a reader got from the first. Fairness:
the loading thread runs and calls `reload` again and again. The manager stops when it is destroyed, so
the run does not check for deadlock. `UpdateServed` promises what the watcher can see: a time later
than the last one seen, and it excuses a content whose load fails, since the code forgets it.
A key whose dictionary or action could not be allocated stays registered, and `load` calls through the action that is
not there: the loading thread is then `"crashed"` and does nothing more, and no reader starts, since
everything that follows is undefined. `destroy` can happen in the model; in the repository the manager is held by
a singleton that is never deleted, so its destructor does not run.
Assumed: keys are registered once, before `load`; readers are done before `destroy`; the destructor of a
dictionary calls `release_all`, as the example in its header does; `PointerFlipper`, whose header is not in the
repository, is a pair of pointers, NULL until `create`, that `flip` exchanges.

### cpu_load
Three threads, of which one controls the monitor as `main` does in its test, memory for two objects, one
object from outside for `bind`, two calls of `start` (`MaxStarts`) and allocations and `pthread_create`s that
fail. Three threads let one create while two others are at both tests, and a second object is what a
duplicate would be made of; two starts are what it takes to forget a sampler. Nothing orders the store of
`_instance` and those of the constructor, so a thread does them in either order and others meet an object that
is not constructed: its `_run` has any value. A `stop` that comes before the constructor is lost, since the
constructor sets `_run` again; `StopEnds` is therefore about a stop after it. `start` never sets `_run`, so a
sampler that is started after a stop ends at its first test, and `StopEnds` covers it. `join` is called
only if a sampler was started and not joined; anything else is undefined. Fairness: threads inside a method
and samplers are scheduled; nobody has to call.

### sequential
A recorder of six places; every sequence of up to seven appends of four numbers between clears, so that the
buffer comes round and is cleared at every position; `MaxLen` bounds `_len`, an int that the code never caps. What
the recorder holds is the input of the algorithms, so each array of up to six numbers, negative
ones and repetitions among them, is sorted, searched and read as a pattern. `Sorted` is about the three sorts of
`algo_sort.h`, `Found` about the numbers that `bin_find` is to find, `Borders` about `make_skip`; they compare with
reference definitions (permutations and inversions, longest borders). `get_every` returns the number of
elements recorded even if `out` has room for fewer.

Three functions (`CpuLoad::init`, `start_routine`, `PoolMgr::wait`) flow off their end without the `return` their
type asks for; they are taken to return.

## What the runs found

- **A new PQueue is not safe until its first push has returned** (`pqueue_fresh`, `TailLive`).
  The first `push` links its node behind the embedded head and then moves `tail`. In between `front` sees
  a node that is not `tail`, takes and deletes it, and `tail` ends up on freed memory. A queue that has
  held one element never empties (front leaves the last node) and is not affected.
- **The pool can hold more elements than its size** (`pool_bound`, `MemoryBound`). `pop` tests
  `_p_size > 0` and decrements it later. The excess is at most what the racing clients allocate; the run
  `pool` shows that nothing is lost by it, but a push may then be refused (`RefusedOnlyWhenExtended`).
- **The LRU cache can evict an item that was used recently** (`lru_recent`, `KeepsRecent`). `put` takes the
  first free bucket before it has looked for the key further on, so an item gets two entries. Stale
  values are nevertheless never returned (`Fresh`): the new entry is always found first, and the older
  one is evicted first.

Read from the code, and stated by theorems rather than by runs, since the properties that hold say nothing of them:

- `qsort` of `qsort.cpp` does not sort: it returns segments of two elements as they are (`qsort.cpp:42`).
  `QsortNearlySorts` says that it loses no number and that only neighbours are out of order.
- `bin_find` returns -1 for an absent number only if all others are greater; otherwise it adds `mid + 1` to the -1 of
  the inner call (`algo_sort.h:114`). `BinFinds` says which index comes out.
- `reverse_string` leaves the last word backwards, although the comment at `pro.cpp:20-23` turns it back: the branch
  for it asks for `beg > end` (`pro.cpp:38`), and `beg` is `end` there. `ReversesWords` says what comes out.
- The use case of the pool pushes elements that the pool did not allocate, and a worker may lose them (`shining_pool.h:214`);
  `PoolLossBound` says how many.
- `max` and `min` of the heap follow child pointers that `_build` does not set at the leaves (`heap_sort.h:95`, `103`).

## What is proved

TLAPS checks, for every value of the constants that satisfies their named assumptions:

- `LifoProof`: `LifoExclusive`, `LifoLinked`, `LifoFreshSnapshot`,
  `LifoImplementsAtomicStack`, for any threads and nodes and a counter of at least two values.
  The inductive invariant is `TypeOK /\ Exclusive /\ Linked /\ InMethod /\ FreshSnapshot`. `Linked` alone is
  not inductive: a pop installs the `next` it read earlier, which is right because of `FreshSnapshot`; and
  a push's store to `node->next` cannot break the list because the node is its caller's own (`InMethod`,
  `Exclusive`). `FreshSnapshot` in turn survives the steps of others because each successful
  compare-and-swap moves `sync` away from every snapshot (here `NotLapped` is used). The
  refinement follows step by step from the same invariant.
- `PChainMapProof`, about the locks: `ArrayLockTypeOK`, `ArrayLockMutualExclusion`, `ArrayLockBitIffOwned`,
  `ArrayLockNoForeignUnlock`, for any threads and any number of locks. The invariant is their conjunction:
  exclusion is not inductive without knowing that bits are set exactly for owned locks. Nothing is
  assumed of the byte a thread has read: its expected byte always has its own bit clear (or, to give
  back, as owned), so a granted swap changes that bit only (`CasBits`).
- `CpuLoadProof`: `CpuLoadOneInstance`, for any threads, objects and samplers. `OneInstance` is not inductive:
  that a thread which publishes overwrites nothing has to be carried from the test under the lock to the
  store. The invariant adds `Locked` (the mutex is that of the thread in the block) and `Creating` (a
  thread past both tests still finds `_instance` NULL until it has published its own object), which the
  steps of others keep because `_instance` is written under the mutex only. The order of construction and
  publication does not matter for it.

- `PChainMapProof`, about the map: `MapImplementsLockSpec`, `MapEntryValid`, `MapOneEntryPerKey`, `MapImplementsAtomicMap`, for
  any threads, keys and buckets (`MapAssumption`: keys are numbers, there is a bucket and a lock for each, NULL and
  `"pending"` are no values). Each step of the map is a step of the lock array or leaves it alone, so the
  invariant of the locks carries over, and `Apart` concludes that two threads inside the table
  work on different chains. The invariant adds `InCall` (where a thread is in its call, and what it
  has found out), `AllValid` (the position a thread has reached in its chain exists, and the key is not before it) and
  `OneEntryPerKey`, which needs `AllValid`: `insert` appends because its walk has met every entry.
- `PQueueProof`: `QueueLinked`, `QueueNoUseAfterFree`, `QueueSizeAccounts`, `QueueBounded`, `QueueAllPoped`,
  `QueueImplementsFifo`, for the primed queue, any finite numbers of producers and consumers, any nodes and any
  reserved length (`PQueueAssumption`: producers and consumers are different threads, and the length and the threads
  together stay below the modulus of `size`, 2^32 in the code). `ListInv` is
  `QueueTypeOK /\ Locks /\ Shape /\ Hands /\ Linked`. `Shape` says that the nodes of the queue and those in the
  threads' hands are all different and are the allocated ones, and `Hands` what each thread knows of its node:
  `push` and `front` hold different mutexes, and what keeps them from one node is that `front` leaves the last one. `CountInv`
  (`Wrapped`, `Reserved`, `LastPush`) says that `size` is the number of elements plus the updates that are
  still due, wrapped at most once; the bound and `AllPoped` follow from it.
- `PoolMgrProof`: `PoolOnePlace`, `PoolHoldersKept`, `PoolLossBound`, `PoolRefuses`, for any finite sets of clients,
  workers, elements, elements of the clients' own and holders, any pool size and any pointers that `create` finds
  in its holders (`PoolAssumption`). `PoolInv` has a part for each kind
  of place something can be (`MainInv`, `HandsInv`, `HolderInv`, `SlotInv`, `ElemInv`), `CountInv` and `LossInv`. `LossBound`
  is an argument by counting: `produce` makes a holder with every element, so the producer stack has as many
  holders as elements were produced. `LossInv` says that these, and the workers about to drop an element, are no more
  than the elements there are. When a worker is refused, every holder of the producer stack carries an element or is in
  the hands of a thread with an element of its own, and what the worker brings back is in none of them; so there is
  one element more than `LossInv` needs, and it may be dropped.
  `RefusedOnlyWhenExtended` counts the other stack, whose holders are those of `init`, in the same way.
- `LruCacheProof`: `LruRing`, `LruCoupled`, `LruFresh`, `LruImplementsLruList`, for any capacity of at least two and any items
  with keys other than 0 (`LruAssumption`); the proof uses nothing of the probing function and of the number of
  probes. `RingInv` has a witness that goes once round the list, so that the moves of `read_adjust` and
  `write_adjust` are statements about the witness; that `Walk` is that witness is shown by
  least counterexample, from the well-foundedness of `<`. `BucketInv` says that an empty bucket is `NoHash` and a used one
  holds an item on its probing path, with one of the values put for it. `Fresh` is not inductive without `StaleInv`:
  a node whose value was overwritten has a newer node of the same item that is found sooner and evicted later.
- `DictManagerProof`: `DictReadersSafe`, `DictOwned`, `DictNeverBack`, for any dictionaries, readers, contents and
  times (`DictAssumption`: times are numbers, NULL is no key, number or property). `DictInv` is
  `DictTypeOK /\ Control /\ Loading /\ References /\ Contents`: `Control` says which action the loading thread is in
  at each of its places, and that it goes through no dictionary twice; `Loading` that `init` meets the uninitialized and
  `reload` the initialized; `References` that no load has two pointers to it and none is released before the
  end; and `Contents` that what is about to be flipped to the front is no older than what is there, and no newer than
  the file.
- `SequentialProof`, about the recorder: `RecorderRecordsLast`, for any length of the buffer, any finite set of integers
  and any bound on the appends (`RecorderAssumption`). The invariant `RecorderInv` says that the places from
  `_beg` on, round the end of the buffer, hold the numbers appended last, and that `_cur` is the last of
  these places, or `_beg` itself after `clear`. That the loops add up what the reference sums over numbers say is
  proved by taking the recorded numbers one by one (`SumsChange`). The integers are unbounded: a sum that overflows
  an `int` is undefined in the code and outside the theorem.
- `SequentialProof`, about the algorithms, for every array of integers: `InsertSorts`, `MergeSorts`, `QuickSorts`,
  `QsortNearlySorts`, `BinFinds`, `SkipsToBorder`, `ReversesWords`; and from these, with `RecorderInv`,
  `RecorderSorted`, `RecorderFound` and `RecorderBorders`, for any length of the recorder.
  The prover has no induction rule it could apply to a predicate, so the induction is over *sets* of numbers (`NatSet`), and
  that a recursive definition has a solution is a lemma (`Recursion`) whose hypothesis is a measure that goes down in each
  call: the proofs that the algorithms compute the right thing include that they end. Loops are
  treated in the same way (`LoopRuns`, `LoopInv`: the states in which a loop may be after `i` rounds).
  What each rests on:
  - `quick_sort_v1` recurses into its lower part together with the pivot, which is the whole array when the pivot is its
    greatest number; the measure is twice the length, and one more if the last number is less than the first, which is
    what the next call then removes (`QuickParts`).
  - The loop of `partition` has rounds that narrow no range; each is followed by one that does (`RoundsLeft`), so twice
    the length is enough, and the model's bound on the rounds cuts nothing off.
  - `qsort` returns an array in which numbers two or more places apart are in order (`Spread`); this passes through the
    pivot from the parts to the whole.
  - `make_skip`: a border of a border is a border (`BordBord`), so the inner loop goes through all candidates from the
    longest down (`SkipLoop`).
  - `reverse_string`: after `n` rounds the words before `last` are reversed in themselves and the rest is the text backwards
    (`RevIs`).

Each invariant above also holds in the instance of its run, where TLC finds no violation of it. The theorems
have no other hypotheses than the named assumptions, which TLC evaluates in the runs.

Only model-checked: liveness (`LockFree`, `LockProgress`, `Drained`, `StopJoins`, `UpdateServed`, `StopEnds`),
which is outside what the prover does; and the three violations, which are counterexamples.

## Not modelled

- `ThreadSingleton`: the data of one thread, and nothing uses it.
- `quick_sort_v2`: marked `TODO to debug`; its recursion does not end. `tree.h`: nothing includes it and it does
  not compile, since it defines `trace_tree_v2` three times and uses names that are not declared.
- `HeapSort`: `max` and `min` follow the child pointers of the leaves, which `_build` leaves as `new` has found them, so
  their behaviour is undefined on every array. The `main` functions, which print results.
- `ChainHashMap::remove`, `clear` and `destroy`: the map never calls the first two, and the last runs when nobody
  uses it any more.
- Failing creation: a `create` of locks, table or pool that runs out of memory, or a worker thread of
  the pool that cannot be created. The results are ignored, and what follows is undefined.
- A dictionary key that is registered twice, which the comment at `dict_manager.h:175` forbids.
- The values `tryPush` and `tryPop` give to `success`, the times `CpuLoad` measures, and memory models weaker than
  x86 (except for the singleton, whose stores come in either order).
- `util/path.h`, `hash_fun.h`, `timer.h`, `auto_release.h`, `log_print.h`, `ml_util/`, tests and the
  Makefile: no state that several steps share.

## Plan

Done, in this order: Lifo with its proofs; ArrayLock with its proofs; the map over the locks; the queue; the
pool over the stacks; the cache; the dictionaries; the destructors of queue, stacks and pool; the singleton with
its proof and the monitor over it; the recorder and the algorithms. What is left of the code is listed
above.

Then the proofs, in this order: the map over the locks, with its refinement; the queue and its refinement; the
dictionaries; the pool; the cache and its refinement; the recorder; the algorithms. Every safety property and refinement
that a passing run checks is now a theorem. Left: nothing the prover can do for the properties stated; liveness would need
a prover for fairness, and a code change that repairs one of the three findings would turn its property into one to prove.
