------------------------- MODULE AllocatorRegistry --------------------------
(***************************************************************************)
(* lldkCreateAllocator, lldkDestroyAllocator and lldkGetAllocatorSingleton *)
(* of src/src/base/allocator_impl.cpp, with every mutex they take:         *)
(*   s_mutex         the registry's, which __lldkAllocate and __lldkFree   *)
(*                   also lock for their counters                          *)
(*   tlMutex         the mutex of lldk_thread_local.cpp                    *)
(*   singletonMutex  the static mutex inside lldkGetAllocatorSingleton     *)
(* An AllocatorImpl contains an LldkThreadLocal: constructing it takes an  *)
(* id and stores a T in the constructing thread's table, destroying it     *)
(* frees what the table of the destroying thread holds at its id.  A slot  *)
(* once written stays written (module LldkThreadLocal), so the table of a  *)
(* thread is the set of ids it has stored, and no table is the empty set.  *)
(* The client destroys a pointer it was returned, once.  Calls that return *)
(* without a change of this state (a taken name, a null pointer) are left  *)
(* out.                                                                    *)
(***************************************************************************)
EXTENDS Integers, FiniteSets

CONSTANTS Threads,
          Names,          \* allocator names, non-null
          Allocs,         \* addresses an AllocatorImpl can have
          kMaxInstanceId,
          NULL

ASSUME RegistryAssumption ==
    /\ kMaxInstanceId \in Nat
    /\ NULL \notin Threads \cup Names \cup Allocs

Ids     == 0 .. kMaxInstanceId - 1
Mutexes == {"singletonMutex", "s_mutex", "tlMutex"}

VARIABLES
    holder,            \* of each mutex: a thread, or NULL
    s_pAllocatorMap,   \* name -> allocator, or NULL
    s_pAllocator,      \* the singleton: the thread that built it, or NULL
    usedIds,           \* s_bitset of lldk_thread_local.cpp
    slots,             \* ids whose slot is not null in a thread's table
    alloc,             \* the AllocatorImpl at each address
    call,              \* where each thread is, with its locals
    crashed            \* a null table was dereferenced

registry == <<s_pAllocatorMap, s_pAllocator>>
locals   == <<usedIds, slots>>
vars     == <<holder, registry, locals, alloc, call, crashed>>

NoAlloc == [state |-> "free", name |-> NULL, id |-> kMaxInstanceId]
NoCall  == [at |-> "idle", self |-> NULL, uId |-> kMaxInstanceId, name |-> NULL]

Init ==
    /\ holder = [m \in Mutexes |-> NULL]
    /\ s_pAllocatorMap = [n \in Names |-> NULL]
    /\ s_pAllocator = NULL
    /\ usedIds = {}
    /\ slots = [t \in Threads |-> {}]
    /\ alloc = [a \in Allocs |-> NoAlloc]
    /\ call = [t \in Threads |-> NoCall]
    /\ crashed = FALSE

\* Mutants: no limit on ids, no look-up, every id of a word released.
FreeIds_NoLimit         == (0 .. kMaxInstanceId) \ usedIds
NameIsFree_Unchecked(n) == TRUE
ReleaseId_Word(u)       == usedIds' = {}

FreeIds       == Ids \ usedIds
NameIsFree(n) == s_pAllocatorMap[n] = NULL
ReleaseId(u)  == usedIds' = usedIds \ {u}

At(t, at)     == call[t].at = at
Goto(t, at)   == call' = [call EXCEPT ![t].at = at]
Return(t)     == call' = [call EXCEPT ![t] = NoCall]

Free(m)       == holder[m] = NULL
Lock(m, t)    == holder' = [holder EXCEPT ![m] = t]
Unlock(m, t)  == holder' = [holder EXCEPT ![m] = IF @ = t THEN NULL ELSE @]

\* The slot of the allocator being destroyed is not null in this thread's table.
Stored(t) == alloc[call[t].self].id \in slots[t]

\* The mutexes a thread locks to get on with its call.  The first table of a
\* thread is counted under s_mutex and registered under tlMutex.
Locks(t) ==
    CASE At(t, "lockSingleton")                    -> {"singletonMutex"}
      [] At(t, "takeStorage") \/ At(t, "emplace")  -> {"s_mutex"}
      [] At(t, "takeId") \/ At(t, "deleteId")      -> {"tlMutex"}
      [] At(t, "storeSlot") /\ slots[t] = {}       -> {"s_mutex", "tlMutex"}
      [] At(t, "deleter") /\ Stored(t)             -> {"s_mutex"}
      [] OTHER                                     -> {}
CanLock(t) == \A m \in Locks(t) : Free(m)

-----------------------------------------------------------------------------
(* lldkCreateAllocator looks the name up under s_mutex, and unlocks it.    *)

\* Mutant: s_mutex is kept until the allocator is registered.
NameFree_KeepsLock(t, n) ==
    /\ At(t, "idle") /\ Free("s_mutex") /\ NameIsFree(n)
    /\ Lock("s_mutex", t)
    /\ call' = [call EXCEPT ![t].at = "singleton", ![t].name = n]
    /\ UNCHANGED <<registry, locals, alloc>>

NameFree(t, n) ==
    /\ At(t, "idle") /\ Free("s_mutex") /\ NameIsFree(n)
    /\ call' = [call EXCEPT ![t].at = "singleton", ![t].name = n]
    /\ UNCHANGED <<holder, registry, locals, alloc>>

-----------------------------------------------------------------------------
(* lldkGetAllocatorSingleton; a client's own call of it has no name.       *)

GetSingleton(t) ==
    /\ At(t, "idle")
    /\ Goto(t, "singleton")
    /\ UNCHANGED <<holder, registry, locals, alloc>>

\* The caller has its singleton: lldkCreateAllocator goes on to newObject.
SingletonReady(t) == IF call[t].name = NULL THEN Return(t) ELSE Goto(t, "newObject")

\* The first check, without the mutex.
FirstCheck(t) ==
    /\ At(t, "singleton")
    /\ IF s_pAllocator # NULL THEN SingletonReady(t) ELSE Goto(t, "lockSingleton")
    /\ UNCHANGED <<holder, registry, locals, alloc>>

\* Mutant: there is no second check.
SecondCheck_Skipped(t) ==
    /\ At(t, "lockSingleton") /\ CanLock(t)
    /\ Lock("singletonMutex", t) /\ Goto(t, "takeId")
    /\ UNCHANGED <<registry, locals, alloc>>

\* The mutex is kept to build the singleton, and unlocked otherwise.
SecondCheck(t) ==
    /\ At(t, "lockSingleton") /\ CanLock(t)
    /\ IF s_pAllocator # NULL
       THEN SingletonReady(t) /\ UNCHANGED holder
       ELSE Lock("singletonMutex", t) /\ Goto(t, "takeId")
    /\ UNCHANGED <<registry, locals, alloc>>

-----------------------------------------------------------------------------
(* The LldkThreadLocal of the singleton, of a new allocator, or of client  *)
(* code: newInstanceId, lldkAllocate, setThreadLocalStorage.               *)

ClientThreadLocal(t) ==
    /\ At(t, "idle")
    /\ Goto(t, "takeId")
    /\ UNCHANGED <<holder, registry, locals, alloc>>

\* Mutant: newObject does not free the block when the constructor throws.
Throw_NoFree(t) ==
    /\ Unlock("singletonMutex", t) /\ Return(t)
    /\ UNCHANGED <<registry, slots, alloc>>

\* The constructor throws: the lock_guard of the singleton unlocks, newObject
\* frees the block of the allocator, and the exception leaves the API.
Throw(t) ==
    /\ Unlock("singletonMutex", t) /\ Return(t)
    /\ alloc' = [a \in Allocs |-> IF a = call[t].self THEN NoAlloc ELSE alloc[a]]
    /\ UNCHANGED <<registry, slots>>

TakeId(t) ==
    /\ At(t, "takeId") /\ CanLock(t)
    /\ \E u \in FreeIds :
          /\ \A v \in FreeIds : u <= v
          /\ usedIds' = usedIds \cup {u}
          /\ call' = [call EXCEPT ![t].at = "takeStorage", ![t].uId = u]
    /\ UNCHANGED <<holder, registry, slots, alloc>>

\* lldkAllocate is __lldkAllocate, which counts under s_mutex.
TakeStorage(t) ==
    /\ At(t, "takeStorage") /\ CanLock(t)
    /\ Goto(t, "storeSlot")
    /\ UNCHANGED <<holder, registry, locals, alloc>>

\* No memory for the object, its name or its T, or no id left.  An id leaks.
ConstructorThrows(t) ==
    /\ At(t, "takeId") \/ At(t, "takeStorage")
    /\ Throw(t)
    /\ UNCHANGED usedIds

StoreSlot(t) ==
    /\ At(t, "storeSlot") /\ CanLock(t)
    /\ slots' = [slots EXCEPT ![t] = @ \cup {call[t].uId}]
    /\ alloc' = [a \in Allocs |-> IF a = call[t].self
                                  THEN [alloc[a] EXCEPT !.id = call[t].uId]
                                  ELSE alloc[a]]
    /\ IF call[t].self # NULL THEN Goto(t, "emplace")
       ELSE IF holder["singletonMutex"] = t THEN Goto(t, "publish")
       ELSE Return(t)
    /\ UNCHANGED <<holder, registry, usedIds>>

\* No memory for the table: the T is freed, the id released, and it throws.
NoTable(t) ==
    /\ At(t, "storeSlot") /\ CanLock(t) /\ slots[t] = {}
    /\ ReleaseId(call[t].uId)
    /\ Throw(t)

\* s_pAllocator is assigned, init returns 0, the lock_guard unlocks.
Publish(t) ==
    /\ At(t, "publish")
    /\ s_pAllocator' = t
    /\ Unlock("singletonMutex", t)
    /\ SingletonReady(t)
    /\ UNCHANGED <<s_pAllocatorMap, locals, alloc>>

-----------------------------------------------------------------------------
(* newObject<AllocatorImpl>(pName) and the registration                    *)

\* allocate of the singleton reads this thread's table, which must exist.
NewObject(t) ==
    /\ At(t, "newObject") /\ slots[t] # {}
    /\ \E a \in Allocs :
          /\ alloc[a].state = "free"
          /\ alloc' = [alloc EXCEPT ![a].state = "building", ![a].name = call[t].name]
          /\ call' = [call EXCEPT ![t].at = "takeId", ![t].self = a]
    /\ UNCHANGED <<holder, registry, locals>>

\* There is no memory: NULL is returned.
NoObject(t) ==
    /\ At(t, "newObject")
    /\ Return(t)
    /\ UNCHANGED <<holder, registry, locals, alloc>>

\* Mutant: the allocator is assigned to its name, whatever the map has there.
Emplace_Assigns(t) ==
    /\ At(t, "emplace") /\ CanLock(t)
    /\ s_pAllocatorMap' = [s_pAllocatorMap EXCEPT ![call[t].name] = call[t].self]
    /\ alloc' = [a \in Allocs |-> IF a = call[t].self
                                  THEN [alloc[a] EXCEPT !.state = "registered"]
                                  ELSE IF a = s_pAllocatorMap[call[t].name] THEN NoAlloc
                                  ELSE alloc[a]]
    /\ Return(t)
    /\ UNCHANGED <<holder, s_pAllocator, locals>>

\* init returns 0 and the name is still free: the allocator is registered and
\* returned.
Emplace(t) ==
    /\ At(t, "emplace") /\ CanLock(t) /\ NameIsFree(call[t].name)
    /\ s_pAllocatorMap' = [s_pAllocatorMap EXCEPT ![call[t].name] = call[t].self]
    /\ alloc' = [alloc EXCEPT ![call[t].self].state = "registered"]
    /\ Return(t)
    /\ UNCHANGED <<holder, s_pAllocator, locals>>

\* Another thread registered the name meanwhile, or the table cannot grow:
\* emplace destroys the node it has built, while s_mutex is held.
EmplaceDropsNode(t) ==
    /\ At(t, "emplace") /\ CanLock(t)
    /\ Lock("s_mutex", t)
    /\ alloc' = [alloc EXCEPT ![call[t].self].state = "dying"]
    /\ Goto(t, "deleter")
    /\ UNCHANGED <<registry, locals>>

\* There is no memory for the node: the catch returns NULL, and the deleter
\* runs after s_mutex is unlocked.
EmplaceThrows(t) ==
    /\ At(t, "emplace") /\ CanLock(t)
    /\ alloc' = [alloc EXCEPT ![call[t].self].state = "dying"]
    /\ Goto(t, "deleter")
    /\ UNCHANGED <<holder, registry, locals>>

-----------------------------------------------------------------------------
(* lldkDestroyAllocator, and the deleter that erase and emplace run        *)

\* erase unlinks the node and destroys it, while s_mutex is held.
Destroy(t, a) ==
    /\ At(t, "idle") /\ Free("s_mutex")
    /\ alloc[a].state = "registered" /\ s_pAllocatorMap[alloc[a].name] = a
    /\ Lock("s_mutex", t)
    /\ s_pAllocatorMap' = [s_pAllocatorMap EXCEPT ![alloc[a].name] = NULL]
    /\ alloc' = [alloc EXCEPT ![a].state = "dying"]
    /\ call' = [call EXCEPT ![t].at = "deleter", ![t].self = a]
    /\ UNCHANGED <<s_pAllocator, locals>>

\* deleteAllocatorImpl calls deleteObject of the singleton, and that first
\* ~LldkThreadLocal.  On a thread that has a table __lldkFree locks s_mutex,
\* which is not recursive.  A thread that never stored the id frees nothing,
\* and the T of the creating thread leaks.
Deleter(t) ==
    /\ At(t, "deleter") /\ slots[t] # {} /\ CanLock(t)
    /\ Goto(t, "deleteId")
    /\ UNCHANGED <<holder, registry, locals, alloc>>

\* The end of deleteObject: deleteInstanceId, free of the object, and the
\* unlock of s_mutex.
DeleteId(t) ==
    /\ At(t, "deleteId") /\ CanLock(t)
    /\ ReleaseId(alloc[call[t].self].id)
    /\ alloc' = [alloc EXCEPT ![call[t].self] = NoAlloc]
    /\ Unlock("s_mutex", t) /\ Return(t)
    /\ UNCHANGED <<registry, slots>>

-----------------------------------------------------------------------------
\* getAllocateStats of any allocator: foreach copies under tlMutex.
StatsLock(t) ==
    /\ At(t, "idle") /\ Free("tlMutex") /\ s_pAllocator # NULL
    /\ Lock("tlMutex", t) /\ Goto(t, "stats")
    /\ UNCHANGED <<registry, locals, alloc>>

StatsUnlock(t) ==
    /\ At(t, "stats")
    /\ Unlock("tlMutex", t) /\ Return(t)
    /\ UNCHANGED <<registry, locals, alloc>>

\* getThreadLocalStorage on a thread without a table, in allocate of the
\* singleton or in the deleter.  Nothing runs after it.
NullTable(t) ==
    /\ At(t, "newObject") \/ At(t, "deleter")
    /\ slots[t] = {}
    /\ crashed' = TRUE
    /\ UNCHANGED <<holder, registry, locals, alloc, call>>

-----------------------------------------------------------------------------
CallStep(t) ==
    \/ FirstCheck(t) \/ SecondCheck(t) \/ Publish(t)
    \/ TakeId(t) \/ TakeStorage(t) \/ ConstructorThrows(t)
    \/ StoreSlot(t) \/ NoTable(t)
    \/ NewObject(t) \/ NoObject(t)
    \/ Emplace(t) \/ EmplaceDropsNode(t) \/ EmplaceThrows(t)
    \/ Deleter(t) \/ DeleteId(t) \/ StatsUnlock(t)
ClientStep(t) ==
    \/ GetSingleton(t) \/ ClientThreadLocal(t) \/ StatsLock(t)
    \/ \E n \in Names : NameFree(t, n)
    \/ \E a \in Allocs : Destroy(t, a)

Next ==
    /\ ~crashed
    /\ \E t \in Threads : \/ (CallStep(t) \/ ClientStep(t)) /\ UNCHANGED crashed
                          \/ NullTable(t)

Spec == Init /\ [][Next]_vars
-----------------------------------------------------------------------------
(* Properties *)

Locations == {"idle", "singleton", "lockSingleton", "takeId", "takeStorage",
              "storeSlot", "publish", "newObject", "emplace", "deleter",
              "deleteId", "stats"}

AllocRecords == [state : {"free", "building", "registered", "dying"},
                 name  : Names \cup {NULL},
                 id    : 0 .. kMaxInstanceId]
CallRecords  == [at   : Locations,
                 self : Allocs \cup {NULL},
                 uId  : 0 .. kMaxInstanceId,
                 name : Names \cup {NULL}]

TypeOK ==
    /\ holder \in [Mutexes -> Threads \cup {NULL}]
    /\ s_pAllocatorMap \in [Names -> Allocs \cup {NULL}]
    /\ s_pAllocator \in Threads \cup {NULL}
    /\ usedIds \subseteq Ids
    /\ slots \in [Threads -> SUBSET Ids]
    /\ alloc \in [Allocs -> AllocRecords]
    /\ call \in [Threads -> CallRecords]
    /\ crashed \in BOOLEAN

\* The registry and the allocators agree although a name is looked up, then
\* built without the lock, then emplaced: a registered name leads to a living
\* allocator of that name, and an allocator a client can still destroy is the
\* one its name leads to. (allocator_impl.cpp:177-208, 227-233)
RegistryConsistent ==
    /\ \A n \in Names : s_pAllocatorMap[n] # NULL
          => /\ alloc[s_pAllocatorMap[n]].state = "registered"
             /\ alloc[s_pAllocatorMap[n]].name = n
    /\ \A a \in Allocs : alloc[a].state = "registered"
          => s_pAllocatorMap[alloc[a].name] = a

\* Every registered allocator has an instance id of its own, in use: counters
\* of two allocators never share slots, whatever constructions fail.
\* (allocator_impl.cpp:190, lldk_thread_local.h:85-108)
OwnInstanceId ==
    \A a, b \in Allocs :
        alloc[a].state = "registered"
        => alloc[a].id \in usedIds /\ (alloc[a].id = alloc[b].id => a = b)

\* No failure on the way loses a block: an allocator that is neither free nor
\* registered is in the hands of one call in progress, and no other is.
\* (allocator.h:77-86, allocator_impl.cpp:191-213)
NoOrphan ==
    \A a \in Allocs :
        /\ alloc[a].state \in {"building", "dying"} <=> \E t \in Threads : call[t].self = a
        /\ \A t, u \in Threads : call[t].self = a /\ call[u].self = a => t = u

\* A name table, in which a creation takes effect at emplace and a destruction
\* at erase, although lldkCreateAllocator looks the name up and builds its
\* allocator long before it inserts it: no allocator is registered over another,
\* under another name than was asked for, or while another call works on it.
\* (allocator_impl.cpp:164-238)
Table == INSTANCE NameTable WITH
    Objects <- Allocs,
    table   <- s_pAllocatorMap,
    wants   <- [t \in Threads |-> call[t].name],
    hand    <- [t \in Threads |-> call[t].self]
IsNameTable == Table!Spec

\* The singleton is built once, whatever threads race for it, and only under
\* its mutex; a failed attempt publishes nothing. (allocator_impl.cpp:243-271)
OneSingleton ==
    [][/\ s_pAllocator # NULL => s_pAllocator' = s_pAllocator
       /\ s_pAllocator # s_pAllocator' => holder["singletonMutex"] = s_pAllocator']_vars

\* The deleter waits for the s_mutex its own thread holds.
SelfDeadlocked(t) ==
    At(t, "deleter") /\ Stored(t) /\ holder["s_mutex"] = t

\* The order in which the mutexes nest.
Rank == [singletonMutex |-> 1, s_mutex |-> 2, tlMutex |-> 3]

\* A thread that holds a mutex only goes on to lock later ones, except the
\* deleter's second lock of s_mutex. (allocator_impl.cpp:227-232, 252-255)
LockOrder ==
    \A t \in Threads : \A m \in Mutexes, n \in Locks(t) :
        holder[m] = t => Rank[m] < Rank[n] \/ SelfDeadlocked(t)

\* Unless a deleter waits for itself, some call in progress waits for no mutex:
\* no other set of threads waits for each other. (allocator_impl.cpp:151-313)
OnlySelfDeadlock ==
    (\A t \in Threads : ~SelfDeadlocked(t))
    => \/ \A t \in Threads : At(t, "idle")
       \/ \E t \in Threads : ~At(t, "idle") /\ CanLock(t)

\* "Destroy a allocator" (include/lldk/base/allocator.h:120): a call of
\* lldkDestroyAllocator, which has no name to create, does not wait for a mutex
\* it holds.  (allocator_impl.cpp:227-232)
DestroyReturns == \A t \in Threads : SelfDeadlocked(t) => call[t].name # NULL

\* "The allocator pointer, NULL if failed" (include/lldk/base/allocator.h:115):
\* a creation that lost its name to another thread after the look-up returns,
\* and does not wait for a mutex it holds.  (allocator_impl.cpp:204-208)
LostRaceReturns ==
    \A t \in Threads : SelfDeadlocked(t) /\ call[t].name # NULL
                      => NameIsFree(call[t].name)
=============================================================================
