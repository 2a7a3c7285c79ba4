# LLDK in TLA+

This directory models the parts of LLDK that have state and an implementation:
the bitset, the thread-local storage built on it, the registry of allocators
built on both, the allocators' blocks and counters, error codes, and the
cached hash map. TLC checks small instances; TLAPS proves their main
properties for any number of bits, threads, objects, names, keys and ids.

## The system

| Component | Code | State | Operations |
|---|---|---|---|
| `LldkBitset<kSize>` | `src/utilities/lldk_bitset.h` | an array of 64-bit words | set, clear, test, testAll/Any/None, clearAll, setAll, count, findFirstSet, findFirstNone |
| `LldkThreadLocal<T>` | `src/utilities/lldk_thread_local.{h,cpp}` | `s_bitset` of ids, a table per thread, the list of tables, `s_mutex`; an id per object | constructor, destructor, get, foreach, moves |
| Allocator registry and singleton | `src/base/allocator_impl.cpp` | map of names, singleton pointer, two mutexes | lldkCreateAllocator, lldkDestroyAllocator, lldkGetAllocatorSingleton |
| `AllocatorImpl` counters | same file | counters per thread, global counters | allocate, free, reAllocate, getAllocateStats |
| `LldkUnorderedMap` | `src/utilities/lldk_unordered_map.h` | a hash map and a cache of entry pointers | insert, erase, find, contains, clear, operator[] |
| Error code and message | `src/base/error_code.cpp` | two thread_local variables | set, get |
| Clock functions, alignment macros | `include/lldk/base/time.h`, `common.h` | none | arithmetic |
| ids, `ITime`, spin lock, logger, thread, channel, timer, scheduler | `include/lldk/...`, `common_impl.cpp` | none in this repository | system calls, or pure virtual interfaces |

How they interact. An `LldkThreadLocal` object takes the lowest free id from
`s_bitset` under the mutex of `lldk_thread_local.cpp`, allocates its `T` with
`__lldkAllocate` (which takes the `s_mutex` of `allocator_impl.cpp`), and writes
it in the slot of that id in the table of its own thread, without a lock.
`foreach` walks the tables of all threads under the mutex. Each
`AllocatorImpl` contains an `LldkThreadLocal` for its counters;
`lldkCreateAllocator` builds one with the singleton allocator and registers
it; the registry's deleter destroys it with the singleton.

What is hard here: slots are accessed without a lock while ids move between
objects; constructors fail half-way (no id, no memory, `push_back` throws, `T()`
throws); objects may be destroyed by other threads than the one whose table holds
their `T`; a slot outlives its object, and is found by the next holder of its id;
three mutexes nest; a name is looked up
and inserted under two separate locks; counters are added to without a lock
while another thread copies them; sizes wrap; the map's cache keeps pointers
to entries that are freed and whose memory is used again.

## Modules

| Module | Models | Lines of the code |
|---|---|---|
| `LldkBitset` | the bitset's methods as operators on an array of words | lldk_bitset.h 16-129 |
| `LldkBitsetObject` | one bitset: every sequence of calls | lldk_bitset.h 35-126 |
| `IndexSet` | the abstract bitset: a set of indices whose queries answer for the set | |
| `LldkThreadLocal` | ids, tables, objects, threads | lldk_thread_local.h, .cpp |
| `AllocatorRegistry` | names, allocators, singleton, three mutexes | allocator_impl.cpp 151-271, allocator.h 68-101 |
| `NameTable` | the abstract registry: an object or none for each name, and what each thread builds or destroys | |
| `LldkUnorderedMap` | one map, its cache and the memory its entries occupy | lldk_unordered_map.h 19-122 |
| `KeyMap` | the abstract map: a value or nothing for each key, and the key the client's pointer refers to | |
| `AllocatorImpl` | blocks, counters and their copies, the global functions | allocator_impl.cpp 18-146, 276-326 |
| `ErrorCode` | code and message of each thread; `AllocatorImpl` EXTENDS it | error_code.cpp, error_code.h |
| `ClockAndAlign` | arithmetic of the clocks and the alignment macros, the choice of the C++ standard's macro, with its theorems | time.h 113-147, common.h 27-39 and 69-74 |
| `LldkBitsetProofs`, `LldkBitsetObjectProofs`, `LldkThreadLocalProofs`, `AllocatorRegistryProofs`, `LldkUnorderedMapProofs`, `AllocatorImplProofs` | proofs | |
| `SumTheorems` | theorems on sums over finite sets, for `AllocatorImplProofs` | |
| `MCThreadLocal`, `MCAllocatorRegistry`, `MCAllocatorImpl`, `MCUnorderedMap` | symmetry sets, and the map's hash, for TLC | |

Operators whose name has a suffix after an underscore and whose comment begins
with "Mutant" (`SetSlot_Memset`) are wrong variants of the operator that
follows them. Nothing uses them: they record a bug that the properties would
detect.

### LldkBitset

A word is the set of the positions of its 1 bits, so `|=`, `&= ~` and `~` are
set operations, and `__builtin_ctzll` is the minimum. `getArrayIndex` and
`getBitIndex` split an index as the code does. `kBitsPerElement` is a
parameter (64 in the code), with the class's `static_assert` as assumption.
`LldkThreadLocal` EXTENDS this module and keeps `s_bitset` as such an array.

### LldkThreadLocal

Names follow the code. `s_ppInstances[t]` is the `thread_local` table of thread
t or `NULL`; `s_vecpppInstances` lists the threads whose tables are registered;
`m_uInstanceId[o]` is the member of object o, `kInvalidInstanceId` once moved
from. `heap` is the set of allocated blocks that can hold a `T`. `pc`, `self`,
`pStorage` and `uPos` are where each thread is in its call, `this`, and its
locals. `owner` and `storage` are history variables: which thread constructed
the instance and which block it allocated. No action's guard reads them, except
the client rule below. `visited` records what foreach passed to func.

Actions follow the atomic sections of the code: one for each section under
`s_mutex`, one for each access of a table. A constructor is `NewInstanceId`,
`AllocateStorage`, for a first table `NewTable` and `PushTable`, then
`StoreSlot`. Its failures are `IdsExhausted`, `ConstructorThrows` (no memory or
`T()` throws: the id leaks, as in the code), `NewTableFails` and
`PushTableThrows`, which lead to `UndoFree` and `DeleteInstanceId`. A destructor
is `ReadOwnSlot`, `FreeStorage`, `ClearSlot` (whose null pointer
`setThreadLocalStorage` refuses, so nothing changes), `DeleteInstanceId`. foreach
is `ForeachLock`, then `ForeachSkip`/`ForeachVisit` per table, then `ForeachEnd`
or `ForeachStop`; func may return 0, return nonzero or throw at each call.

The properties follow an id and its `T` through all of that. Where every object
is destroyed by its constructing thread, `OnlyKnownLeaks` says which steps can
lose one: a constructor that finds no memory for its `T` keeps the id, and a
move onto a live object forgets what that object had. No other step does, so what
`UndoFree` and `DeleteInstanceId` undo after a failure, and what a destructor
gives back, is all there was. `ForeachComplete` and `NothingWithoutGet` are about
the `T` of the constructor: the code makes it, so a foreach always passes it to
func, which is more than a test expects.

Clients keep the rules of C++: they call only constructed objects, and no call
overlaps the object's constructor, destructor or move. Beyond that,
`AnyThreadDestroys` chooses between two disciplines. FALSE: the constructing
thread destroys (moves may be made by any thread), as in the repository's tests.
TRUE: any thread destroys, which no document forbids. Undefined behaviour ends
the behaviour in a `fault`: `null_deref` (a thread without a table),
`double_free`, `wild_free` (a slot past the end of a table, read by a moved-from
object, is `NULL` or `WILD`). A racy read of a slot is one atomic read, as the
build's aligned pointer accesses are.

Left out: the error code set by failing calls; the nested locking inside
`__lldkAllocate`, which `AllocatorRegistry` has; callbacks that call the library.

### AllocatorRegistry

`holder` says which thread holds each mutex: `s_mutex`, `tlMutex` and
`singletonMutex` are those of the registry, of `lldk_thread_local.cpp` and of
`lldkGetAllocatorSingleton`. `alloc[a]` is the AllocatorImpl at address a: its
`state` (free, building, registered, dying), its name, and the id of its
LldkThreadLocal. `call[t]` is where thread t is in its call, with its locals.
`Locks(t)` is the set of mutexes t locks to go on; an action with `CanLock(t)`
takes and releases those it does not keep. The actions follow
`lldkCreateAllocator` (`NameFree`, `FirstCheck` to `Publish` for the singleton,
`NewObject`, the constructor `TakeId`, `TakeStorage`, `StoreSlot` with its
failures, `Emplace`), then `lldkDestroyAllocator` (`Destroy`, `Deleter`,
`DeleteId`).

Of the thread tables only the set of ids a thread has stored is kept: it decides
whether a destructor frees (and so locks `s_mutex`), leaks, or reads a null
table (`NullTable`, after which nothing runs). Calls that return without an
effect, and statistics counters, are left out. `emplace` builds its node before
it looks up the name, as libstdc++ does, so a lost race destroys the new
allocator under the lock (`EmplaceDropsNode`); an exception before the node
exists destroys it after the unlock (`EmplaceThrows`).

A client destroys a pointer it was given, once. The publication of
`s_pAllocator` is one step: the constructor ends in calls the compiler cannot
move the store across, and `init` only writes a member nobody reads.

`IsNameTable` is the refinement of `NameTable`: the table is `s_pAllocatorMap`,
what a thread wants and has in hand are the name and the allocator of its call.
`NameFree` is `Ask`, which reserves nothing; `NewObject` obtains an object that
is nobody's; `Emplace` registers it under the name asked for, which must still
be free; `Destroy` withdraws it; every return, with or without an exception,
is `Finish`. The singleton never has a name and stays in nobody's hand, so its
construction, like all locking and the ids, is a stutter.

### LldkUnorderedMap

`m_mapEntries` gives the node of each key; a node is a heap address, and
`first` and `second` are what its memory holds, also after it is freed.
`m_arrEntries` is the cache. `std::unordered_map` never moves a node, so a
pointer dangles only when its entry is erased. Each method is one action, or
one for each way it ends: the class has no lock and one thread calls it.
`Erase` translates the order of the code: the node is freed, its first bytes
kept or overwritten, and then the key is read through the cache. `Overwrite`
is another owner of a freed block writing to it at any later time. Another map of
the same type that is given the block keeps its keys at the same place of it, so
what is written may be any key, or `JUNK`, which is none. `pRet` is the pointer
find or `operator[]` last returned, through which the client writes (`Assign`)
until the entry is gone. `recent` is a history variable.

The code does not implement a plain map: a pointer that `erase` left in a slot,
because free had overwritten the key it compares, can later reach the key of
another map. `map_foreign` shows that find then returns that map's value for
an erased key. The properties say exactly how far the class can be trusted:

- `OnlyForeignDeceives`: a sound cache (`CacheSound`: a comparison succeeds only
  for the live entry of the key) becomes unsound in no other way. The map's own
  calls, in any order, with failures and reuse of its own nodes, keep it sound.
- `CallsRight`: a call that finds the cache sound does what the call of `KeyMap`
  with the same arguments does (`CallsAgree`), so an answer for another key does
  not pass, and a write through the pointer changes the value of the key that was
  asked for.
- `RecentKeyHits`: the key last used in a slot is found without a miss, on its own
  entry, whatever others write.

`IsMap`, the refinement of `KeyMap`, holds of the behaviours whose cache stays
sound; this is a theorem only, since a run of all behaviours would violate it.

Left out: the implicit copy and move of a map, which leave cache pointers to
the other map's nodes (nothing in the repository copies one), a `size` above
2^32 and its truncation, keys whose comparison or hash throws, and
`cachemissCount`, which returns the counter that the model has.

### AllocatorImpl and ErrorCode

One allocator, whose `LldkThreadLocal` has a `T` on the thread that constructed
it, `Owner`. What `get` returns on another thread is what an earlier holder of
the instance id left in that thread's slot, as a destructor does not clear it.
`slot[t]` says what that is: `none`, a null pointer or an earlier `T` that was
never freed, whose counters concern nobody; `freed`, a `T` that was freed; or
`own`, when the block of that `T` was given to the Owner's. `Init` chooses the
slots, and they stay, since only the constructor of a holder of this id writes
one, and the allocator holds it. All threads have a table. `Shares(t)` means
that t counts in the Owner's `T`, and `Alone` that only the Owner does. A call
or a copy that uses a `freed` slot is undefined and ends the behaviour in a
`fault` (`StaleCount`, `StaleCopy`).

`block[b]` is what is at an address: for whom it was allocated, the size in its
header, and the bytes that malloc was asked for. Since two threads may count in
one `T`, `+=` on a counter is a read (`ReadCounter`) and a write, and updates
are lost; `getAllocateStats` copies one field at a time, in any order, since
nothing orders the copy of the structure. The global counters change and are
copied under `s_mutex`, hence in one step; `copied` is what
`__lldkGetAllocateStats` last gave a client (`GlobalStats`). `realloc` leaves
the block, moves it, fails, or, asked for 0 bytes, frees it and returns null, as
glibc does.

`crossed` remembers that a block of the Owner was freed by another thread, or
the reverse, or was lost by a `reAllocate` of 0 bytes: after that no balance can
hold. `quiet` remembers that no thread that shares the `T` made a call during a
copy. `StatsBalanced` is about an Owner that is alone and a block that did not
cross; `SnapshotExact` about any slots. `Room`, `MaxCount` and `MaxShared` bound
the counts; `interface` lets one behaviour use the allocator's methods, the
global functions, or calls that only set an error, which share only the heap and
the error code. Of the errors, `TypeOK` says that the code a thread reads always
has a text in `s_pErrorStrMap`.

A client frees a block it was given, with the matching function, while nobody
else uses it. `init` and `getName` concern a member nothing else reads;
`createAllocateStats` and `deleteAllocateStats` have no caller.

### ClockAndAlign

Operators without state; `LLDK_ALIGN_BASE` clears the remainder, which is what
its mask does for the five bases of the macros. `Taken` is the branch the
preprocessor takes among those that name the C++ standard. No run: the theorems
say more than TLC could over a few values.

## Runs

| Run | Instance | What it shows |
|---|---|---|
| `bits` | 9 bits in 3 words | `TypeOK`; `IsIndexSet`: the bitset implements `IndexSet`, call by call |
| `tl_owner` | 2 threads, 2 objects, 2 blocks, 2 ids, owners destroy | what needs the owner discipline: `OwnStorage`, `NoDoubleFree`, `OnlyKnownLeaks`, and `Inductive`, the part that makes the invariants inductive |
| `tl_any` | the same, any thread destroys | what does not: `UniqueIds`, `OwnSlot`, `Registered`, `ForeachComplete`, `IdReleasedByHolder` |
| `tl_live` | 2 threads, 1 object | `MutexReleased`, under `FairSpec` |
| `registry` | 2 threads, 2 names, 2 addresses, 4 ids | `RegistryConsistent`, `OwnInstanceId`, `NoOrphan`, `LockOrder`, `OnlySelfDeadlock`, `OneSingleton`; `IsNameTable`: the registry implements `NameTable` |
| `map` | 3 keys (two share one of 2 slots), 2 nodes, so that every node is reused, 2 values | `OnlyForeignDeceives`, `CallsRight`, `RecentKeyHits` |
| `alloc` | 2 threads, 2 blocks, sizes 5 and 6, integers modulo 8, a header of 2, every kind of slot | `BlockFits`, `StatsBalanced`, `GlobalBalanced`, `SnapshotExact` |
| `foreach_stale` | as `tl_any` | violated: foreach passes a freed `T` |
| `foreach_empty` | as `tl_owner`, nobody calls get (`SpecWithoutGet`) | violated: foreach passes the constructor's `T` |
| `destroy_deadlock` | as `registry`, 1 name, 3 ids | violated: the deleter of `lldkDestroyAllocator` locks the mutex it holds |
| `create_deadlock` | as `registry`, 1 name, 4 ids | violated: so does that of a `lldkCreateAllocator` that lost the race for its name |
| `map_foreign` | as `map` | violated: find returns another map's value for an erased key |

Bounds. Two threads and two objects are enough for every pair of overlapping
calls, for reuse of an id by another object and of a block by another id; two
ids make exhaustion and both neighbours in a word reachable; two blocks make
lack of memory reachable. Three words of three bits have a first, an inner and a
last word and bit. In `registry`, a constructor needs a table on its thread, so
two threads that race for a name, or for the singleton, have four ids between
them: one each for a client's object, one each for the allocator. Two threads
that lock two of the three mutexes in different orders would be a cycle already;
longer cycles, and more threads, are left to the theorems. In `map`, two keys
that share a slot and a third in another slot, on two nodes, make every
collision, eviction and reuse of a node by the same or another key reachable;
the miss counter is modulo 2 since nothing depends on it. In `alloc`, 5 is the
largest size that fits its header, and 6 wraps to a request for 0 bytes; two
counted calls (`MaxCount`) reach sums that wrap, a reallocation after an
allocation, and a block reused by another thread. Where two threads count in one
`T`, one call of each counter (`MaxShared`) lets each thread overwrite the
other's update at every point of its own. The run covers all three kinds of slot
of the other thread. A deadlock on destruction needs one name and three ids: one
for a client's object, which gives the thread its table, one each for the
singleton and the allocator. A lost race needs a second thread with a table,
hence four. In the runs of the registry a self-deadlocked call and a null
dereference stop the system, so these runs do not check deadlock; the others do
(an object's client can always go on, and a fault is an explicit stuttering
step).

Fairness. `FairSpec` asks weak fairness of the steps of a thread inside foreach,
and of nothing else: the thread runs on, and func returns or throws. It holds the
mutex, takes no other, so no scheduling of the others can block it. No fairness
is assumed of the acquisition of a mutex, which std::mutex does not promise.

## Proofs

All theorems hold for every value of the constants that satisfies
`BitsetAssumption`, `ThreadLocalAssumption`, `RegistryAssumption`,
`MapAssumption` and `AllocatorAssumption`.

`LldkBitsetProofs`: an index and a (word, position) pair determine each other,
so `set` and `clear` change one member of `Bits(m)`, the scans return its least
member or `kSize`, and `count` is its cardinality. `LldkBitsetObjectProofs`
concludes `TypeCorrect` and `Refinement` (`Spec => IsIndexSet`, with one step per
method in `StepAgrees`).

`LldkThreadLocalProofs` is layered, each layer inductive given those before it:

1. `Basis == TypeOK /\ CallInv /\ Registered`: where each call is determines the
   state of its object; a constructor or destructor has its object alone.
2. `UniqueIds`: `newInstanceId` returns an id that is not in `Bits(s_bitset)`
   (a bitset lemma), and all held ids are. `IdReleasedByHolder` follows.
3. `Slots == OwnSlot /\ BuildInv`: a write goes to the slot of the writer's own
   id, which nobody else holds. `BuildInv` is needed since a table that
   `push_back` failed to register is dropped: it holds no live object's `T`.
4. `Owned == OwnStorage /\ DestroyInv`, assuming `~AnyThreadDestroys`: what a
   destructor reads in its slot is its own `T`, by layer 3. `NoDoubleFree`
   follows.
5. `StorageInv`: an object that is not constructed, or was moved from, has no `T`,
   nor has a call before it allocates and after it frees. With layers 2 and 4 each
   step loses no id and no `T`, except the two that `OnlyKnownLeaks` names.
6. `LoopInv`: past the owner's table, the object's `T` has been visited.
   `ForeachComplete` follows with `Registered`.

`InductiveAlways` collects the layers.

`AllocatorRegistryProofs` proves that
`Basis == TypeOK /\ Shape /\ NoOrphan /\ RegistryConsistent` is inductive, with one
lemma for each action. `Shape` says, for each place a call can be at, which
allocator it works on and in which state (`CallShape`), and which mutexes the
thread can hold there (`LockShape`). `NoOrphan` needs the first: the
allocator of a call is building or dying, hence nobody else's.
`RegistryConsistent` needs it too: a failing constructor frees an allocator that
is not registered. `LockOrder` and `OnlySelfDeadlock` follow from `LockShape` alone:
what a thread can wait for while it holds a mutex comes later in the order, so
the holder of the last mutex held goes on. `OneSingleton` follows since the
thread at `Publish` holds the mutex and the singleton is still null.
`OwnInstanceId` needs a further layer, `IdInv`: an id that a constructor in
progress has taken is in use, and neither an allocator's nor another
constructor's; an allocator has an id by the time it can be registered. Most
actions are covered by one lemma (`IdKept`). `Refinement`
(`Spec => IsNameTable`) needs two facts more, each inductive given `Basis`: a
thread that makes no call wants no name (`IdleInv`), and an allocator that is not
free has a name (`NamedInv`), so the one `Destroy` takes is found in the map, by
`RegistryConsistent`. `StepsGoOn` sorts the actions into those that only go on
with their name and allocator, those that return, and the four that obtain, ask,
register and withdraw; `TableStep` has one case for each. That `NewObject`
obtains an allocator that is nobody's is `NoOrphan`.

`LldkUnorderedMapProofs` makes no assumption on what others write to free
blocks. `TypeOK`, `EntriesHoldKeys` (the node of a key holds it) and
`RecentKeyHits` are inductive: others write to free nodes only, and a node given
to a new key is first overwritten with it. `PointerLive` is not: a find on an
unsound cache returns a node that is in no entry. `OnlyForeignDeceives` and
`CallsRight` are proved from the two and a sound cache before the step: after an
erase a dangling pointer belongs to a node whose key was overwritten, and
compares equal to none; when the node is used again, it either belongs to that
key's slot and is the entry, or still compares equal to none of its slot.
`StepAgrees` has one step per call. `Refinement` (`Spec /\ []CacheSound =>
IsMap`) says what that gives for a whole behaviour; its hypothesis is not a
property of the code, which is what `map_foreign` shows.

`AllocatorImplProofs` proves `TypeCorrect`; `BlocksAlwaysFit` from it, as every
block in use comes from one of the two requests; `SnapshotAlwaysExact` by
`SnapInv`, for any slots: only threads that share the `T` write its counters,
one call copies, and a thread that is quiet is not counting. `HeapInv` says that
a block is in one call at a time and of that call's kind, so a step leaves the
blocks of other calls alone. It also says that the size a call has still to
count is that of its block's header, or of the block it replaced. With it, a set
of blocks and a pair of counters move together: `GlobalCounted` gains the block
of `AddGlobalAllocated` and loses that of `AddGlobalFreed`, and with them the
cardinality and the sum of the sizes change as the counters do, modulo 2^64
(`CountUp`, `CountDown`, `SizesUp`, `SizesDown`); `GlobalBalancedAlways`
follows. In the global functions both counters of a pair change in one step; the
Owner's change in two, each a read and a write, with other threads' steps
between. When the Owner is `Alone`, nobody writes a counter between its read and
its write (`ReadInv`), so what it writes is what the counter holds plus its own
(`Adds`). There are two sets: `OwnerCounted` (`OwnerInv`) is the Owner's blocks
without the one that a call in progress has still to count, or has counted as
freed and not yet given back, and `OwnerSized` (`SizeInv`) the same for sizes,
which are counted a step earlier. A `reAllocate` has counted the new size and
not yet the old one's release while the heap has the new block alone: there the
new block stands for the old one too, under the old one's size (`OwnerSizes`).
Between calls of the Owner both sets are the blocks in use (`OwnerBetween`), and
`StatsBalancedAlways` follows. All three are proved of an Owner that is `Alone`
(`StatsInv`); slots never change, so that is a condition on the initial state.

`SumTheorems` gives the sums: an element can be taken out of a sum
(`SumFunctionOnSet`), and a sum depends on the function at its elements only.
The library defines a sum by choosing its first element and recursing, so these
are inductions on finite sets; as the library's induction theorems take
operators, each takes a smallest counterexample instead, which exists since the
strict subsets of a finite set are well founded (`SmallestSubset`).

`ClockAndAlign`: `UnitsAgree`, `ClockMonotonic` and `AlignRoundsUp`, from lemmas on
division. The first two assume that the nanoseconds fit 64 bits (584 years of
uptime), the last that adding the base does not wrap. `OnlyCpp11`: the branches
of `common.h` that would define the macros of newer standards are never taken,
since they come after the oldest one, whose condition theirs imply.

Only model-checked: `MutexReleased`, which is liveness. `OwnStorage` and
`NoDoubleFree` fail without the owner discipline, as the code is, and so does
`OnlyKnownLeaks`. All models are sequentially consistent. In particular
`s_pAllocator`, a plain pointer read without its mutex, is read as last
written: that a weaker memory shows another thread the pointer before the object
is outside the models.

## Where the code and its documents disagree

- `~LldkThreadLocal` clears its slot with a null pointer, which
  `setThreadLocalStorage` refuses (`lldk_thread_local.cpp:38`): the slot keeps
  the freed `T`, and foreach of the next holder of the id passes it to func
  (`foreach_stale`).
- The constructor makes a `T` and stores it, so foreach passes it to func though
  nobody called get. The test `ForeachEmpty` expects no call
  (`test_lldk_thread_local.cpp:782-798`), as `Foreach` expects none for a thread
  without a get (392-399) (`foreach_empty`). `ForeachComplete` states what the
  header says of foreach, "all thread local storages".
- `lldkDestroyAllocator` never returns on the thread that created the
  allocator: the deleter runs under `s_mutex` and locks it again
  (`destroy_deadlock`).
- A `lldkCreateAllocator` that loses its name to another thread between look-up
  and emplace does not return either: the node that emplace drops has the same
  deleter (`create_deadlock`).
- `LldkUnorderedMap::erase` compares the key with that in the entry it has just
  freed (`lldk_unordered_map.h:48`), and leaves the pointer in its slot when free
  overwrote the key. After another map wrote that key to the block, find returns
  its value, where the test of erase expects `nullptr`
  (`test_lldk_unordered_map.cpp:317`) (`map_foreign`).

Noted while translating, without a run, mostly since one call shows them:

- `foreach` returns -1 when func stops it (`lldk_thread_local.cpp:90-94`); its
  comment says 0 (`thread_local.h:57`).
- `get` on a thread that has constructed nothing reads a null table
  (`lldk_thread_local.cpp:74`); a test expects a `T` of that thread
  (`test_lldk_thread_local.cpp:151`).
- The comment of an erase test says that the slot of the erased key is emptied
  (`test_lldk_unordered_map.cpp:346`), which fails when free overwrote the key.
- `uMaxSizeMB` of `lldkCreateAllocator` is "the maximum size of the allocator"
  (`allocator.h:114`); it is stored and never read.
- `uTid` of the statistics is "the thread id" (`allocator.h:19`); the function
  that sets it, `createAllocateStats`, has no caller.
- Calls of other threads than the one that created the allocator are counted
  nowhere (`allocator_impl.cpp:30`), or, when an earlier holder of the id left their
  slot filled, where that points.
- A `reAllocate` whose size wraps to a request for 0 bytes frees the block
  and reports `kNoMemory`, as if it were still there (`allocator_impl.cpp:71`).
- `lldkSetErrorMsg` returns 103 or 101 where `error_code.h:56` says -1.
- `common.h:27-36` tests the C++ standards from the oldest to the newest, so it
  never defines `LLDK_CPP14` to `LLDK_CPP23` (`OnlyCpp11`).
- `lldkDestroyAllocator` sets `kInvalidParam` on success too
  (`allocator_impl.cpp:236`).

## Plan

Done: all components with state and an implementation. What could still be
added, in this order:

1. The error codes that the registry's calls set.
2. A copied `LldkUnorderedMap` and its cache of another map's nodes.

## Not modelled

The interfaces without an implementation (logger, thread, channel, condition
variable, timer, scheduler, pipeline, spin lock, `ITime`), the process and
thread ids, one system call each, and the build files: they have no behaviour
in this repository to translate.
