--------------------------- MODULE AllocatorImpl ---------------------------
(***************************************************************************)
(* One AllocatorImpl and the functions __lldkAllocate, __lldkFree and      *)
(* __lldkGetAllocateStats of src/src/base/allocator_impl.cpp: blocks with  *)
(* a size header, statistics, and error codes.                             *)
(*                                                                         *)
(* The AllocatorImpl counts in the T that get of its LldkThreadLocal       *)
(* returns.  The thread that constructed it, Owner, has a T of its own.    *)
(* The slot of any other thread for this instance id is what an earlier    *)
(* holder of the id left there, since a destructor does not clear it       *)
(* (module LldkThreadLocal): slot says what that is.  It is written by     *)
(* constructors only, so it stays while the allocator lives.  All threads  *)
(* have a table.                                                           *)
(*                                                                         *)
(* The counters have no lock: each += is a read and a write, and           *)
(* getAllocateStats copies one at a time, in any order, under the mutex of *)
(* foreach.  The global counters are only used under s_mutex, in one step. *)
(* A use of a T that was freed is undefined: it sets fault, and nothing    *)
(* runs after it.                                                          *)
(*                                                                         *)
(* A client frees or reallocates a block it was given, with the functions  *)
(* it was allocated with, while no other call uses it.                     *)
(***************************************************************************)
EXTENDS ErrorCode, FiniteSetsExt

CONSTANTS Owner,       \* the thread that constructed the allocator
          Blocks,      \* addresses malloc can return
          Sizes,       \* arguments of allocate and reAllocate
          kModulus,    \* of uint64_t: 2^64 in the code
          kHeader,     \* sizeof(uint64_t)
          MaxCount,    \* bound on each counter of calls, below kModulus
          MaxShared    \* MaxCount when several threads use the Owner's T

ASSUME AllocatorAssumption ==
    /\ Owner \in Threads
    /\ kModulus \in Nat /\ kHeader \in 1 .. kModulus - 1
    /\ Sizes \subseteq 0 .. kModulus - 1
    /\ MaxCount \in 0 .. kModulus - 1 /\ MaxShared \in 0 .. kModulus - 1
    /\ IsFiniteSet(Blocks) /\ NULL \notin Blocks \cup Threads

VARIABLES
    block,            \* what is at each address
    slot,             \* what get returns on each thread: its "own" T, null or
                      \* an earlier T that was not freed ("none"), or a T that
                      \* was ("freed").  The block of a freed T may be the
                      \* Owner's T now: then it is "own" for that thread too
    stats,            \* AllocateStats of the Owner: the T of the LldkThreadLocal
    s_allocateStats,  \* the global AllocateStats
    copied,           \* what __lldkGetAllocateStats last gave a client
    call,             \* where each thread is, with its locals
    snapshot,         \* the fields getAllocateStats has copied, NULL if not yet
    quiet,            \* history: no thread that counts called since it began
    crossed,          \* history: a block of Owner was freed or reallocated by
                      \* another thread or vice versa, or lost by a reAllocate
    interface,        \* bound: the functions the clients of a behaviour use
    fault             \* none, or stale: a T that was freed was used

statistics == <<stats, s_allocateStats, copied>>
copying    == <<snapshot, quiet>>
vars == <<block, slot, statistics, call, copying, crossed, errors, interface, fault>>

\* The allocator, the global functions, and calls that only set an error or a
\* message share no state but the heap and the errors, so one behaviour uses
\* one of them.
Interfaces == {"allocator", "lldk", "errors"}

Slots == {"own", "none", "freed"}

Fields   == {"uAllocatedSize", "uAllocatedCount", "uFreedSize", "uFreedCount"}
NoStats  == [f \in Fields |-> 0]
NoCopy   == [f \in Fields |-> NULL]
NoBlock  == [kind |-> "free", uSize |-> 0, uRoom |-> 0, by |-> NULL]
NoCall   == [at |-> "idle", pMemory |-> NULL, uSize |-> 0, uOldSize |-> 0, uRead |-> NULL]

Init ==
    /\ block = [b \in Blocks |-> NoBlock]
    /\ stats = NoStats /\ s_allocateStats = NoStats /\ copied = NoStats
    /\ call = [t \in Threads |-> NoCall]
    /\ snapshot = NoCopy /\ quiet = TRUE
    /\ crossed = FALSE
    /\ ErrorInit
    /\ interface \in Interfaces
    /\ slot \in [Threads -> Slots] /\ slot[Owner] = "own"
    /\ interface # "allocator" => \A t \in Threads \ {Owner} : slot[t] = "none"
    /\ fault = "none"

\* Mutant: counters do not wrap.
Plus_Unbounded(x, y) == x + y

\* uint64_t addition, and the size the code asks malloc and realloc for.
Plus(x, y)  == (x + y) % kModulus
Request(u)  == Plus(u, kHeader)

\* Mutant: reAllocate forgets the header.
ReRequest_NoHeader(u) == u

ReRequest(u) == Request(u)

At(t, at)   == call[t].at = at
Goto(t, at) == call' = [call EXCEPT ![t].at = at, ![t].uRead = NULL]
Return(t)   == call' = [call EXCEPT ![t] = NoCall]

\* t's slot points to the Owner's T.
Shares(t) == slot[t] = "own"

\* No other thread's slot points to the block that became the Owner's T.
Alone == \A t \in Threads \ {Owner} : ~Shares(t)

\* Mutant: every thread counts in the Owner's T.
HasStats_Shared(t) == TRUE

\* m_allocatorThreadLocal.get() returns a T, and it is the Owner's.
HasStats(t) == Shares(t)

\* t can count, and its counter can go on: a bound of the model.
Room(t, f) == /\ slot[t] # "freed"
              /\ HasStats(t) => stats[f] < IF Alone THEN MaxCount ELSE MaxShared

Fault ==
    /\ fault' = "stale"
    /\ UNCHANGED <<block, slot, statistics, call, copying, crossed, errors, interface>>

Copying == \E t \in Threads : At(t, "copying")

\* b is with a client, not inside a call.
Held(b, kind) == block[b].kind = kind /\ \A t \in Threads : call[t].pMemory # b

\* The block b with its header, for a client of the given kind.
Place(t, kind, uSize, uRoom) == [kind |-> kind, uSize |-> uSize, uRoom |-> uRoom, by |-> t]

Fail(t, e) ==
    /\ lldkSetErrorCode(t, e)
    /\ UNCHANGED s_strErrorMsg

NoError == UNCHANGED errors

\* What a call of t on the block b means for the histories.
Begins(t)     == quiet' = (quiet /\ ~(Shares(t) /\ Copying))
Crosses(t, b) == crossed' = (crossed \/ (t # block[b].by /\ Owner \in {t, block[b].by}))

Enter(t, at, b, uSize, uOldSize) ==
    call' = [call EXCEPT ![t] = [at |-> at, pMemory |-> b, uSize |-> uSize,
                                 uOldSize |-> uOldSize, uRead |-> NULL]]

-----------------------------------------------------------------------------
(* The reads of the counters, before each write, and the use of a freed T. *)

\* The counter that each step adds to.
Counter == [addAllocatedSize  |-> "uAllocatedSize",
            addAllocatedCount |-> "uAllocatedCount",
            addFreedSize      |-> "uFreedSize",
            addFreedCount     |-> "uFreedCount",
            reAddFreedSize    |-> "uFreedSize",
            reAddFreedCount   |-> "uFreedCount"]

ReadCounter(t) ==
    /\ call[t].at \in DOMAIN Counter /\ call[t].uRead = NULL
    /\ call' = [call EXCEPT ![t].uRead = stats[Counter[call[t].at]]]
    /\ UNCHANGED <<block, statistics, copying, crossed>> /\ NoError

\* t is about to write what it read, plus n.
Add(t, n) ==
    /\ call[t].uRead # NULL
    /\ stats' = [stats EXCEPT ![Counter[call[t].at]] = Plus(call[t].uRead, n)]

\* allocate, free or reAllocate counts in a T that was freed.
StaleCount(t) ==
    /\ interface = "allocator" /\ At(t, "idle") /\ slot[t] = "freed"
    /\ \E b \in Blocks : block[b].kind = "free" \/ Held(b, "impl")
    /\ Fault

-----------------------------------------------------------------------------
(* allocate: malloc, the header, then the counters.                        *)

Allocate(t, b, uSize) ==
    /\ interface = "allocator" /\ At(t, "idle") /\ block[b].kind = "free"
    /\ Room(t, "uAllocatedCount")
    /\ block' = [block EXCEPT ![b] = Place(t, "impl", uSize, Request(uSize))]
    /\ IF HasStats(t) THEN Enter(t, "addAllocatedSize", b, uSize, 0) ELSE UNCHANGED call
    /\ Begins(t)
    /\ UNCHANGED <<statistics, snapshot, crossed>> /\ NoError

\* malloc fails: for allocate, for __lldkAllocate, and for reAllocate of null.
AllocateFails(t) ==
    /\ interface = "errors" /\ At(t, "idle")
    /\ Fail(t, "kNoMemory")
    /\ UNCHANGED <<block, statistics, call, copying, crossed>>

AddAllocatedSize(t) ==
    /\ At(t, "addAllocatedSize") /\ Add(t, call[t].uSize)
    /\ Goto(t, "addAllocatedCount")
    /\ UNCHANGED <<block, s_allocateStats, copied, copying, crossed>> /\ NoError

AddAllocatedCount(t) ==
    /\ At(t, "addAllocatedCount") /\ Add(t, 1)
    /\ Return(t)
    /\ UNCHANGED <<block, s_allocateStats, copied, copying, crossed>> /\ NoError

-----------------------------------------------------------------------------
(* free: the counters, with the size of the header, then ::free.           *)

\* A null pointer, for free and for __lldkFree; null arguments of the
\* functions that copy statistics.
NullArgument(t) ==
    /\ interface = "errors" /\ At(t, "idle")
    /\ Fail(t, "kInvalidParam")
    /\ UNCHANGED <<block, statistics, call, copying, crossed>>

Free(t, b) ==
    /\ At(t, "idle") /\ Held(b, "impl")
    /\ Room(t, "uFreedCount")
    /\ Enter(t, IF HasStats(t) THEN "addFreedSize" ELSE "release", b, 0, block[b].uSize)
    /\ Begins(t) /\ Crosses(t, b)
    /\ UNCHANGED <<block, statistics, snapshot>> /\ NoError

AddFreedSize(t) ==
    /\ At(t, "addFreedSize") \/ At(t, "reAddFreedSize")
    /\ Add(t, call[t].uOldSize)
    /\ Goto(t, IF At(t, "addFreedSize") THEN "addFreedCount" ELSE "reAddFreedCount")
    /\ UNCHANGED <<block, s_allocateStats, copied, copying, crossed>> /\ NoError

\* reAllocate goes on to count the new size.
AddFreedCount(t) ==
    /\ At(t, "addFreedCount") \/ At(t, "reAddFreedCount")
    /\ Add(t, 1)
    /\ Goto(t, IF At(t, "addFreedCount") THEN "release" ELSE "addAllocatedSize")
    /\ UNCHANGED <<block, s_allocateStats, copied, copying, crossed>> /\ NoError

Release(t) ==
    /\ At(t, "release")
    /\ block' = [block EXCEPT ![call[t].pMemory] = NoBlock]
    /\ Return(t)
    /\ UNCHANGED <<statistics, copying, crossed>> /\ NoError

-----------------------------------------------------------------------------
(* reAllocate of a block.  realloc leaves it where it is, moves it, fails  *)
(* without an effect, or, asked for 0 bytes, frees it and returns null.    *)

\* Mutant: the old block's size is read after realloc.
OldSize_Late(b, uSize) == uSize

OldSize(b, uSize) == block[b].uSize

ReAllocate(t, b, c, uSize) ==
    /\ At(t, "idle") /\ Held(b, "impl")
    /\ c = b \/ block[c].kind = "free"
    /\ ReRequest(uSize) # 0
    /\ Room(t, "uAllocatedCount") /\ Room(t, "uFreedCount")
    /\ block' = [block EXCEPT ![b] = NoBlock, ![c] = Place(t, "impl", uSize, ReRequest(uSize))]
    /\ IF HasStats(t) THEN Enter(t, "reAddFreedSize", c, uSize, OldSize(b, uSize))
                      ELSE UNCHANGED call
    /\ Begins(t) /\ Crosses(t, b)
    /\ UNCHANGED <<statistics, snapshot>> /\ NoError

ReAllocateFails(t, b, uSize) ==
    /\ At(t, "idle") /\ Held(b, "impl")
    /\ ReRequest(uSize) # 0
    /\ Fail(t, "kNoMemory")
    /\ UNCHANGED <<block, statistics, call, copying, crossed>>

\* The block is gone, uncounted, and the caller is told there is no memory.
ReAllocateFrees(t, b, uSize) ==
    /\ At(t, "idle") /\ Held(b, "impl")
    /\ ReRequest(uSize) = 0
    /\ block' = [block EXCEPT ![b] = NoBlock]
    /\ crossed' = (crossed \/ block[b].by = Owner)
    /\ Fail(t, "kNoMemory")
    /\ UNCHANGED <<statistics, call, copying>>

-----------------------------------------------------------------------------
(* getAllocateStats: foreach, under the mutex of lldk_thread_local.cpp,    *)
(* passes each thread's T while the caller has room.  The copy of the      *)
(* Owner's is followed; a second record of the same T is as that one.      *)
(* With no room for it the call copies nothing of it.                      *)

StatsBegin(t) ==
    /\ interface = "allocator" /\ At(t, "idle") /\ ~Copying
    /\ Goto(t, "copying")
    /\ quiet' = \A u \in Threads : Shares(u) => At(u, "idle")
    /\ UNCHANGED <<block, statistics, snapshot, crossed>> /\ NoError

CopyField(t, f) ==
    /\ At(t, "copying") /\ snapshot[f] = NULL
    /\ snapshot' = [snapshot EXCEPT ![f] = stats[f]]
    /\ UNCHANGED <<block, statistics, call, quiet, crossed>> /\ NoError

\* The slot of a thread that foreach comes to holds a T that was freed.
StaleCopy(t) ==
    /\ At(t, "copying") /\ \E u \in Threads : slot[u] = "freed"
    /\ Fault

StatsEnd(t) ==
    /\ At(t, "copying") /\ \A f \in Fields : snapshot[f] # NULL
    /\ Return(t)
    /\ snapshot' = NoCopy /\ quiet' = TRUE
    /\ UNCHANGED <<block, statistics, crossed>> /\ NoError

-----------------------------------------------------------------------------
(* __lldkAllocate, __lldkFree and __lldkGetAllocateStats.  Their blocks    *)
(* are of kind "lldk".                                                     *)

GlobalAllocate(t, b, uSize) ==
    /\ interface = "lldk" /\ At(t, "idle") /\ block[b].kind = "free"
    /\ s_allocateStats.uAllocatedCount < MaxCount
    /\ block' = [block EXCEPT ![b] = Place(t, "lldk", uSize, Request(uSize))]
    /\ Enter(t, "globalAllocated", b, uSize, 0)
    /\ UNCHANGED <<statistics, copying, crossed>> /\ NoError

AddGlobalAllocated(t) ==
    /\ At(t, "globalAllocated")
    /\ s_allocateStats' = [s_allocateStats EXCEPT !.uAllocatedSize = Plus(@, call[t].uSize),
                                                  !.uAllocatedCount = Plus(@, 1)]
    /\ Return(t)
    /\ UNCHANGED <<block, stats, copied, copying, crossed>> /\ NoError

GlobalFree(t, b) ==
    /\ At(t, "idle") /\ Held(b, "lldk")
    /\ Enter(t, "globalFreed", b, 0, block[b].uSize)
    /\ UNCHANGED <<block, statistics, copying, crossed>> /\ NoError

\* Mutant: the freed size is added without the count.
AddGlobalFreed_NoCount(t) ==
    /\ At(t, "globalFreed")
    /\ s_allocateStats' = [s_allocateStats EXCEPT !.uFreedSize = Plus(@, call[t].uOldSize)]
    /\ Goto(t, "release")
    /\ UNCHANGED <<block, stats, copied, copying, crossed>> /\ NoError

AddGlobalFreed(t) ==
    /\ At(t, "globalFreed")
    /\ s_allocateStats' = [s_allocateStats EXCEPT !.uFreedSize = Plus(@, call[t].uOldSize),
                                                  !.uFreedCount = Plus(@, 1)]
    /\ Goto(t, "release")
    /\ UNCHANGED <<block, stats, copied, copying, crossed>> /\ NoError

GlobalStats(t) ==
    /\ interface = "lldk" /\ At(t, "idle")
    /\ copied' = s_allocateStats
    /\ UNCHANGED <<block, stats, s_allocateStats, call, copying, crossed>> /\ NoError

SetErrorMsg(t) ==
    /\ interface = "errors" /\ At(t, "idle")
    /\ lldkSetErrorMsg(t)
    /\ UNCHANGED <<block, statistics, call, copying, crossed>>

Step(t) ==
    \/ AllocateFails(t) \/ NullArgument(t) \/ SetErrorMsg(t)
    \/ ReadCounter(t) \/ AddAllocatedSize(t) \/ AddAllocatedCount(t)
    \/ AddFreedSize(t) \/ AddFreedCount(t) \/ Release(t)
    \/ AddGlobalAllocated(t) \/ AddGlobalFreed(t) \/ GlobalStats(t)
    \/ StatsBegin(t) \/ StatsEnd(t)
    \/ \E f \in Fields : CopyField(t, f)
    \/ \E b \in Blocks :
        \/ Free(t, b) \/ GlobalFree(t, b)
        \/ \E u \in Sizes : \/ Allocate(t, b, u) \/ GlobalAllocate(t, b, u)
                           \/ ReAllocateFails(t, b, u) \/ ReAllocateFrees(t, b, u)
                           \/ \E c \in Blocks : ReAllocate(t, b, c, u)

Crashed == fault # "none" /\ UNCHANGED vars

Next ==
    \/ /\ fault = "none"
       /\ \/ (\E t \in Threads : Step(t)) /\ UNCHANGED <<slot, interface, fault>>
          \/ \E t \in Threads : StaleCount(t) \/ StaleCopy(t)
    \/ Crashed

Spec == Init /\ [][Next]_vars

-----------------------------------------------------------------------------

Size64 == 0 .. kModulus - 1
Steps  == {"idle", "addAllocatedSize", "addAllocatedCount", "addFreedSize",
           "addFreedCount", "reAddFreedSize", "reAddFreedCount", "release",
           "copying", "globalAllocated", "globalFreed"}

TypeOK ==
    /\ block \in [Blocks -> [kind : {"free", "impl", "lldk"}, uSize : Size64,
                             uRoom : Size64, by : Threads \cup {NULL}]]
    /\ stats \in [Fields -> Size64] /\ s_allocateStats \in [Fields -> Size64]
    /\ copied \in [Fields -> Size64]
    /\ call \in [Threads -> [at : Steps, pMemory : Blocks \cup {NULL},
                             uSize : Size64, uOldSize : Size64,
                             uRead : Size64 \cup {NULL}]]
    /\ snapshot \in [Fields -> Size64 \cup {NULL}]
    /\ quiet \in BOOLEAN /\ crossed \in BOOLEAN
    /\ s_eErrorCode \in [Threads -> Int]
    /\ \A t \in Threads : lldkGetErrorStr(lldkGetErrorCode(t)) # ""
    /\ s_strErrorMsg \in [Threads -> Threads \cup {NULL}]
    /\ interface \in Interfaces
    /\ slot \in [Threads -> Slots] /\ slot[Owner] = "own"
    /\ fault \in {"none", "stale"}

\* A block has room for its header and for the size it records, through
\* reallocations and moves, unless that size is so near 2^64 that adding the
\* header wraps.  (allocator_impl.cpp:20,71,278)
BlockFits ==
    \A b \in Blocks : block[b].kind # "free" /\ block[b].uSize < kModulus - kHeader
                     => block[b].uRoom >= kHeader + block[b].uSize

\* The blocks whose allocation, but not whose release, is counted.
InUse(kind, t) == {b \in Blocks : block[b].kind = kind /\ block[b].by = t}
uSizes         == [b \in Blocks |-> block[b].uSize]

CountsBalance(s, n) == s.uAllocatedCount = Plus(s.uFreedCount, n)
SizesBalance(s, n)  == s.uAllocatedSize = Plus(s.uFreedSize, n)

Balances(s, S) ==
    /\ CountsBalance(s, Cardinality(S))
    /\ SizesBalance(s, SumFunctionOnSet(uSizes, S))

\* Between calls of the Owner, its counters differ by the blocks it has in
\* use and by their sizes, modulo 2^64, whatever other threads do, until a block
\* passes between the Owner and another thread, unless an earlier holder of the
\* id left another thread's slot pointing to the block that became the Owner's
\* T: that thread counts there too, and the updates of both are lost at times.
\* (allocator_impl.cpp:33,54,84)
StatsBalanced ==
    Alone /\ ~crossed /\ call[Owner].pMemory = NULL => Balances(stats, InUse("impl", Owner))

\* Whenever nobody is in them, and so under s_mutex too, the global counters
\* differ by the blocks of __lldkAllocate not yet counted as freed: threads
\* neither lose each other's updates nor count a block after it is given back.
\* A copy a client has stays such a moment's: no more was freed than allocated,
\* and the heap could hold the rest.  (allocator_impl.cpp:289,308,324)
GlobalCounted ==
    {b \in Blocks : block[b].kind = "lldk" /\
        \A t \in Threads : call[t].pMemory = b => At(t, "globalFreed")}
GlobalBalanced ==
    /\ Balances(s_allocateStats, GlobalCounted)
    /\ \E n \in 0 .. Cardinality(Blocks) : CountsBalance(copied, n)

\* getAllocateStats copies without a lock on the counters, but if no thread that
\* has the Owner's T, its own or through a slot an earlier holder left, calls
\* meanwhile, the copy is what the counters hold at its end.
\* (allocator_impl.cpp:138)
SnapshotExact ==
    Copying /\ quiet => \A f \in Fields : snapshot[f] \in {NULL, stats[f]}
=============================================================================
