-------------------------- MODULE LldkThreadLocal ---------------------------
(***************************************************************************)
(* LldkThreadLocal<T> of src/src/utilities/lldk_thread_local.{h,cpp}.      *)
(* An object holds an instance id, the lowest free bit of s_bitset.  Each  *)
(* thread owns a table s_ppInstances, indexed by instance id, of pointers  *)
(* to its own T; the tables are registered in s_vecpppInstances for        *)
(* foreach.  Only the constructing thread ever gets a T.                   *)
(*                                                                         *)
(* Threads call constructors, destructors, get, foreach and moves in any   *)
(* order and interleave between the atomic sections of the code: what runs *)
(* under s_mutex, and each access of a table, which takes no lock.         *)
(* lldkAllocate and lldkFree are one step each.  The client keeps the C++  *)
(* rules: no call on an object that is not constructed, none that overlaps *)
(* its constructor, destructor or a move.  A step whose behaviour C++      *)
(* leaves undefined sets fault, and nothing runs after it.                 *)
(***************************************************************************)
EXTENDS LldkBitset, Sequences

CONSTANTS Threads,
          Objects,             \* the places where an LldkThreadLocal can live
          Blocks,              \* addresses lldkAllocate can return for a T
          NULL,
          WILD,                \* a pointer read outside a table
          AnyThreadDestroys    \* FALSE: only the constructing thread destroys

kMaxInstanceId     == kSize
kInvalidInstanceId == kMaxInstanceId
InstanceId         == Index \cup {kInvalidInstanceId}

\* Mutant: the table has one slot too few.
EmptyTable_Short == [u \in 0 .. kSize - 2 |-> NULL]
EmptyTable == [u \in Index |-> NULL]
Tables     == [Index -> Blocks \cup {NULL}]

ASSUME ThreadLocalAssumption ==
    /\ AnyThreadDestroys \in BOOLEAN
    /\ NULL \notin Threads \cup Objects \cup Blocks \cup Tables
    /\ WILD \notin Blocks \cup {NULL}

VARIABLES
    s_mutex,             \* the thread that holds it, or NULL
    s_bitset,            \* instance ids in use
    s_vecpppInstances,   \* the registered tables, each named by its thread
    s_ppInstances,       \* thread_local: the table of each thread, or NULL
    heap,                \* the blocks that are allocated
    objState,            \* raw, building, live or dying
    m_uInstanceId,       \* the member of each object
    owner,               \* history: the thread that constructed the instance
    storage,             \* history: the T allocated for the instance
    pc, self, pStorage,  \* each thread's current call, its object, its local
    uPos, visited,       \* foreach: loop position, pointers passed to func
    ret,                 \* outcome of each thread's last call
    fault                \* none, or the undefined behaviour that happened

sharedVars  == <<s_mutex, s_bitset, s_vecpppInstances, s_ppInstances>>
objectVars  == <<objState, m_uInstanceId, owner>>
foreachVars == <<uPos, visited>>
vars == <<sharedVars, heap, objectVars, storage, pc, self, pStorage,
          foreachVars, ret, fault>>

Init ==
    /\ s_mutex = NULL
    /\ s_bitset = ZeroBits
    /\ s_vecpppInstances = <<>>
    /\ s_ppInstances = [t \in Threads |-> NULL]
    /\ heap = {}
    /\ objState = [o \in Objects |-> "raw"]
    /\ m_uInstanceId = [o \in Objects |-> kInvalidInstanceId]
    /\ owner = [o \in Objects |-> NULL]
    /\ storage = [o \in Objects |-> NULL]
    /\ pc = [t \in Threads |-> "idle"]
    /\ self = [t \in Threads |-> NULL]
    /\ pStorage = [t \in Threads |-> NULL]
    /\ uPos = [t \in Threads |-> 0]
    /\ visited = [t \in Threads |-> {}]
    /\ ret = [t \in Threads |-> "ok"]
    /\ fault = "none"

-----------------------------------------------------------------------------
(* Frames and calls *)

Call(t, o, at) == pc' = [pc EXCEPT ![t] = at] /\ self' = [self EXCEPT ![t] = o]
Goto(t, at)    == pc' = [pc EXCEPT ![t] = at] /\ UNCHANGED self
Answer(t, r)   == ret' = [ret EXCEPT ![t] = r]
Return(t, r)   == /\ Call(t, NULL, "idle")
                  /\ pStorage' = [pStorage EXCEPT ![t] = NULL]
                  /\ Answer(t, r)

\* The object is gone: its constructor threw or its destructor returned.
Drop(o) ==
    /\ objState' = [objState EXCEPT ![o] = "raw"]
    /\ m_uInstanceId' = [m_uInstanceId EXCEPT ![o] = kInvalidInstanceId]
    /\ owner' = [owner EXCEPT ![o] = NULL]
    /\ storage' = [storage EXCEPT ![o] = NULL]

Fault(f) ==
    /\ fault' = f
    /\ UNCHANGED <<sharedVars, heap, objectVars, storage, pc, self, pStorage,
                   foreachVars, ret>>

InUse(o)       == \E t \in Threads : self[t] = o
CanCall(t, o)  == pc[t] = "idle" /\ objState[o] = "live"
CanDestroy(t, o) ==
    CanCall(t, o) /\ ~InUse(o) /\ (AnyThreadDestroys \/ owner[o] = t)

\* Mutant: memset runs at every call, not only for a new table.
SetSlot_Memset(table, u, p) ==
    IF u = kInvalidInstanceId \/ p = NULL THEN table ELSE [EmptyTable EXCEPT ![u] = p]

\* The slot write of setThreadLocalStorage: it refuses a null pointer.
SetSlot(table, u, p) ==
    IF u = kInvalidInstanceId \/ p = NULL THEN table ELSE [table EXCEPT ![u] = p]

\* What s_ppInstances[u] can be: past the end of the table, anything.
ReadSlot(t, u) ==
    IF u = kInvalidInstanceId THEN {NULL, WILD} ELSE {s_ppInstances[t][u]}

-----------------------------------------------------------------------------
(* LldkThreadLocal() *)

\* newInstanceId under s_mutex.
NewInstanceId(t, o) ==
    LET u == findFirstNone(s_bitset) IN
    /\ pc[t] = "idle" /\ objState[o] = "raw" /\ s_mutex = NULL
    /\ u # kMaxInstanceId
    /\ s_bitset' = set(s_bitset, u)
    /\ m_uInstanceId' = [m_uInstanceId EXCEPT ![o] = u]
    /\ objState' = [objState EXCEPT ![o] = "building"]
    /\ owner' = [owner EXCEPT ![o] = t]
    /\ Call(t, o, "allocate")
    /\ UNCHANGED <<s_mutex, s_vecpppInstances, s_ppInstances, heap, storage,
                   pStorage, foreachVars, ret, fault>>

\* Every id is in use: the constructor throws.
IdsExhausted(t, o) ==
    /\ pc[t] = "idle" /\ objState[o] = "raw" /\ s_mutex = NULL
    /\ findFirstNone(s_bitset) = kMaxInstanceId
    /\ Answer(t, "throw")
    /\ UNCHANGED <<sharedVars, heap, objectVars, storage, pc, self, pStorage,
                   foreachVars, fault>>

\* lldkAllocate and T() succeed.
AllocateStorage(t) ==
    /\ pc[t] = "allocate"
    /\ \E b \in Blocks \ heap :
          /\ heap' = heap \cup {b}
          /\ pStorage' = [pStorage EXCEPT ![t] = b]
          /\ storage' = [storage EXCEPT ![self[t]] = b]
    /\ Goto(t, "setStorage")
    /\ UNCHANGED <<sharedVars, objectVars, foreachVars, ret, fault>>

\* No memory, or T() throws: nothing is undone, the id (and the block) leak.
ConstructorThrows(t) ==
    /\ pc[t] = "allocate"
    /\ \/ UNCHANGED heap
       \/ \E b \in Blocks \ heap : heap' = heap \cup {b}
    /\ Drop(self[t])
    /\ Return(t, "throw")
    /\ UNCHANGED <<sharedVars, foreachVars, fault>>

\* setThreadLocalStorage on a thread without a table: allocate and zero one.
NewTable(t) ==
    /\ pc[t] = "setStorage" /\ s_ppInstances[t] = NULL
    /\ s_ppInstances' = [s_ppInstances EXCEPT ![t] = EmptyTable]
    /\ Goto(t, "pushTable")
    /\ UNCHANGED <<s_mutex, s_bitset, s_vecpppInstances, heap, objectVars,
                   storage, pStorage, foreachVars, ret, fault>>

NewTableFails(t) ==
    /\ pc[t] = "setStorage" /\ s_ppInstances[t] = NULL
    /\ Goto(t, "undoFree")
    /\ UNCHANGED <<sharedVars, heap, objectVars, storage, pStorage,
                   foreachVars, ret, fault>>

\* Registers the table under s_mutex.
PushTable(t) ==
    /\ pc[t] = "pushTable" /\ s_mutex = NULL
    /\ s_vecpppInstances' = Append(s_vecpppInstances, t)
    /\ Goto(t, "setStorage")
    /\ UNCHANGED <<s_mutex, s_bitset, s_ppInstances, heap, objectVars, storage,
                   pStorage, foreachVars, ret, fault>>

\* Mutant: the freed table is not forgotten.
PushTableThrows_Dangling(t) ==
    /\ pc[t] = "pushTable" /\ s_mutex = NULL
    /\ Goto(t, "undoFree")
    /\ UNCHANGED <<sharedVars, heap, objectVars, storage, pStorage,
                   foreachVars, ret, fault>>

\* push_back throws: the table is freed and forgotten.
PushTableThrows(t) ==
    /\ pc[t] = "pushTable" /\ s_mutex = NULL
    /\ s_ppInstances' = [s_ppInstances EXCEPT ![t] = NULL]
    /\ Goto(t, "undoFree")
    /\ UNCHANGED <<s_mutex, s_bitset, s_vecpppInstances, heap, objectVars,
                   storage, pStorage, foreachVars, ret, fault>>

\* The slot is written without the mutex; the object is constructed.
StoreSlot(t) ==
    /\ pc[t] = "setStorage" /\ s_ppInstances[t] # NULL
    /\ s_ppInstances' = [s_ppInstances EXCEPT
                            ![t] = SetSlot(@, m_uInstanceId[self[t]], pStorage[t])]
    /\ objState' = [objState EXCEPT ![self[t]] = "live"]
    /\ Return(t, "ok")
    /\ UNCHANGED <<s_mutex, s_bitset, s_vecpppInstances, heap, m_uInstanceId,
                   owner, storage, foreachVars, fault>>

\* Mutant: the constructor throws on without freeing the T.
UndoFree_KeepsT(t) ==
    /\ pc[t] = "undoFree"
    /\ storage' = [storage EXCEPT ![self[t]] = NULL]
    /\ Goto(t, "undoId")
    /\ UNCHANGED <<sharedVars, heap, objectVars, pStorage, foreachVars, ret, fault>>

\* setThreadLocalStorage failed: free the T, then DeleteInstanceId.
UndoFree(t) ==
    /\ pc[t] = "undoFree"
    /\ heap' = heap \ {pStorage[t]}
    /\ storage' = [storage EXCEPT ![self[t]] = NULL]
    /\ Goto(t, "undoId")
    /\ UNCHANGED <<sharedVars, objectVars, pStorage, foreachVars, ret, fault>>

-----------------------------------------------------------------------------
(* ~LldkThreadLocal(), on the calling thread's own table *)

ReadOwnSlot(t, o) ==
    /\ CanDestroy(t, o) /\ s_ppInstances[t] # NULL
    /\ \E p \in ReadSlot(t, m_uInstanceId[o]) \ {WILD} :
          /\ pStorage' = [pStorage EXCEPT ![t] = p]
          /\ Call(t, o, IF p = NULL THEN "deleteId" ELSE "free")
    /\ objState' = [objState EXCEPT ![o] = "dying"]
    /\ UNCHANGED <<sharedVars, heap, m_uInstanceId, owner, storage,
                   foreachVars, ret, fault>>

\* ~T() and lldkFree.
FreeStorage(t) ==
    /\ pc[t] = "free" /\ pStorage[t] \in heap
    /\ heap' = heap \ {pStorage[t]}
    /\ storage' = [storage EXCEPT ![self[t]] = NULL]
    /\ Goto(t, "clearSlot")
    /\ UNCHANGED <<sharedVars, objectVars, pStorage, foreachVars, ret, fault>>

FreeTwice(t) ==
    /\ pc[t] = "free" /\ pStorage[t] \notin heap
    /\ Fault("double_free")

\* setThreadLocalStorage(m_uInstanceId, nullptr); its result is not looked at.
ClearSlot(t) ==
    /\ pc[t] = "clearSlot"
    /\ s_ppInstances' = [s_ppInstances EXCEPT
                            ![t] = SetSlot(@, m_uInstanceId[self[t]], NULL)]
    /\ Goto(t, "deleteId")
    /\ UNCHANGED <<s_mutex, s_bitset, s_vecpppInstances, heap, objectVars,
                   storage, pStorage, foreachVars, ret, fault>>

\* deleteInstanceId, at the end of a destructor or of a failed constructor.
\* The id of a moved-from object clears a bit beyond the array.
DeleteInstanceId(t) ==
    LET u == m_uInstanceId[self[t]] IN
    /\ pc[t] \in {"deleteId", "undoId"} /\ s_mutex = NULL
    /\ s_bitset' = IF u = kInvalidInstanceId THEN s_bitset ELSE clear(s_bitset, u)
    /\ Drop(self[t])
    /\ Return(t, IF pc[t] = "undoId" THEN "throw" ELSE "ok")
    /\ UNCHANGED <<s_mutex, s_vecpppInstances, s_ppInstances, heap,
                   foreachVars, fault>>

-----------------------------------------------------------------------------
(* get(), and what get() and the destructor share *)

Get(t, o) ==
    /\ CanCall(t, o) /\ s_ppInstances[t] # NULL
    /\ \E p \in ReadSlot(t, m_uInstanceId[o]) : Answer(t, p)
    /\ UNCHANGED <<sharedVars, heap, objectVars, storage, pc, self, pStorage,
                   foreachVars, fault>>

\* getThreadLocalStorage on a thread that has no table.
NullTable(t, o) ==
    /\ CanCall(t, o) /\ s_ppInstances[t] = NULL
    /\ Fault("null_deref")

\* The destructor of a moved-from object frees what it read past the table.
FreeWild(t, o) ==
    /\ CanDestroy(t, o) /\ s_ppInstances[t] # NULL
    /\ WILD \in ReadSlot(t, m_uInstanceId[o])
    /\ Fault("wild_free")

-----------------------------------------------------------------------------
(* foreach(func) *)

\* A moved-from object or an empty func.
ForeachRefused(t, o, hasFunc) ==
    /\ CanCall(t, o)
    /\ ~(m_uInstanceId[o] # kInvalidInstanceId /\ hasFunc)
    /\ Answer(t, "failed")
    /\ UNCHANGED <<sharedVars, heap, objectVars, storage, pc, self, pStorage,
                   foreachVars, fault>>

ForeachLock(t, o) ==
    /\ CanCall(t, o) /\ m_uInstanceId[o] # kInvalidInstanceId /\ s_mutex = NULL
    /\ s_mutex' = t
    /\ uPos' = [uPos EXCEPT ![t] = 1]
    /\ Call(t, o, "foreach")
    /\ UNCHANGED <<s_bitset, s_vecpppInstances, s_ppInstances, heap, objectVars,
                   storage, pStorage, visited, ret, fault>>

InLoop(t)  == pc[t] = "foreach" /\ uPos[t] <= Len(s_vecpppInstances)
\* ppInstance[uInstanceId] of the table the loop is at.
Visitee(t) == s_ppInstances[s_vecpppInstances[uPos[t]]][m_uInstanceId[self[t]]]

\* Mutant: a null slot skips the next table too.
ForeachSkip_Two(t) ==
    /\ InLoop(t) /\ Visitee(t) = NULL
    /\ uPos' = [uPos EXCEPT ![t] = @ + 2]
    /\ UNCHANGED <<sharedVars, heap, objectVars, storage, pc, self, pStorage,
                   visited, ret, fault>>

ForeachSkip(t) ==
    /\ InLoop(t) /\ Visitee(t) = NULL
    /\ uPos' = [uPos EXCEPT ![t] = @ + 1]
    /\ UNCHANGED <<sharedVars, heap, objectVars, storage, pc, self, pStorage,
                   visited, ret, fault>>

\* func returns 0.
ForeachVisit(t) ==
    /\ InLoop(t) /\ Visitee(t) # NULL
    /\ visited' = [visited EXCEPT ![t] = @ \cup {Visitee(t)}]
    /\ uPos' = [uPos EXCEPT ![t] = @ + 1]
    /\ UNCHANGED <<sharedVars, heap, objectVars, storage, pc, self, pStorage,
                   ret, fault>>

\* Mutant: lock and unlock by hand, and the early return forgets the unlock.
ForeachUnlock_Leak(t, r) ==
    /\ s_mutex' = IF r = "ok" THEN NULL ELSE s_mutex
    /\ uPos' = [uPos EXCEPT ![t] = 0]
    /\ visited' = [visited EXCEPT ![t] = {}]
    /\ Return(t, r)
    /\ UNCHANGED <<s_bitset, s_vecpppInstances, s_ppInstances, heap, objectVars,
                   storage, fault>>

\* The lock_guard's scope ends.
ForeachUnlock(t, r) ==
    /\ s_mutex' = NULL
    /\ uPos' = [uPos EXCEPT ![t] = 0]
    /\ visited' = [visited EXCEPT ![t] = {}]
    /\ Return(t, r)
    /\ UNCHANGED <<s_bitset, s_vecpppInstances, s_ppInstances, heap, objectVars,
                   storage, fault>>

\* func returns nonzero, or throws.
ForeachStop(t) ==
    /\ InLoop(t) /\ Visitee(t) # NULL
    /\ \E r \in {"failed", "throw"} : ForeachUnlock(t, r)

ForeachEnd(t) ==
    /\ pc[t] = "foreach" /\ uPos[t] > Len(s_vecpppInstances)
    /\ ForeachUnlock(t, "ok")

-----------------------------------------------------------------------------
(* Moves: the target takes the id, the source keeps kInvalidInstanceId.    *)

\* Mutant: the source is not invalidated.
Transfer_Copy(to, from) ==
    /\ m_uInstanceId' = [m_uInstanceId EXCEPT ![to] = m_uInstanceId[from]]
    /\ storage' = [storage EXCEPT ![to] = storage[from]]
    /\ owner' = [owner EXCEPT ![to] = owner[from]]
    /\ objState' = [objState EXCEPT ![to] = "live"]
    /\ UNCHANGED <<sharedVars, heap, pc, self, pStorage, foreachVars, ret, fault>>

Transfer(to, from) ==
    /\ m_uInstanceId' = [m_uInstanceId EXCEPT ![to] = m_uInstanceId[from],
                                              ![from] = kInvalidInstanceId]
    /\ storage' = [storage EXCEPT ![to] = storage[from], ![from] = NULL]
    /\ owner' = [owner EXCEPT ![to] = owner[from]]
    /\ objState' = [objState EXCEPT ![to] = "live"]
    /\ UNCHANGED <<sharedVars, heap, pc, self, pStorage, foreachVars, ret, fault>>

MoveConstruct(t, to, from) ==
    /\ CanCall(t, from) /\ ~InUse(from)
    /\ objState[to] = "raw"
    /\ Transfer(to, from)

\* The target's previous id and T are not released.
MoveAssign(t, to, from) ==
    /\ CanCall(t, from) /\ ~InUse(from)
    /\ CanCall(t, to) /\ ~InUse(to) /\ to # from
    /\ Transfer(to, from)

-----------------------------------------------------------------------------
Construct(t, o) == NewInstanceId(t, o) \/ IdsExhausted(t, o)
ConstructorStep(t) ==
    \/ AllocateStorage(t) \/ ConstructorThrows(t)
    \/ NewTable(t) \/ NewTableFails(t)
    \/ PushTable(t) \/ PushTableThrows(t)
    \/ StoreSlot(t) \/ UndoFree(t)
Destruct(t, o)    == ReadOwnSlot(t, o) \/ FreeWild(t, o)
DestructorStep(t) == FreeStorage(t) \/ FreeTwice(t) \/ ClearSlot(t) \/ DeleteInstanceId(t)
ForeachStep(t)    == ForeachSkip(t) \/ ForeachVisit(t) \/ ForeachStop(t) \/ ForeachEnd(t)

\* A call goes on, and a call begins.
ThreadStep(t) == ConstructorStep(t) \/ DestructorStep(t) \/ ForeachStep(t)
ClientStep(t) ==
    \E o \in Objects :
       \/ Construct(t, o) \/ Destruct(t, o)
       \/ Get(t, o) \/ NullTable(t, o)
       \/ \E hasFunc \in BOOLEAN : ForeachRefused(t, o, hasFunc)
       \/ ForeachLock(t, o)
       \/ \E from \in Objects : MoveConstruct(t, o, from) \/ MoveAssign(t, o, from)

Crashed == fault # "none" /\ UNCHANGED vars

Next ==
    \/ fault = "none" /\ \E t \in Threads : ThreadStep(t) \/ ClientStep(t)
    \/ Crashed

Spec == Init /\ [][Next]_vars

\* A thread inside foreach runs on, and func returns: it holds the mutex, so
\* nothing can block it.
Fairness == \A t \in Threads : WF_vars(fault = "none" /\ ForeachStep(t))
FairSpec == Spec /\ Fairness
-----------------------------------------------------------------------------
(* Properties *)

Locations == {"idle", "allocate", "setStorage", "pushTable", "undoFree", "undoId",
              "free", "clearSlot", "deleteId", "foreach"}

TypeOK ==
    /\ s_mutex \in Threads \cup {NULL}
    /\ s_bitset \in BitArray
    /\ s_vecpppInstances \in Seq(Threads)
    /\ s_ppInstances \in [Threads -> Tables \cup {NULL}]
    /\ heap \in SUBSET Blocks
    /\ objState \in [Objects -> {"raw", "building", "live", "dying"}]
    /\ m_uInstanceId \in [Objects -> InstanceId]
    /\ owner \in [Objects -> Threads \cup {NULL}]
    /\ storage \in [Objects -> Blocks \cup {NULL}]
    /\ pc \in [Threads -> Locations]
    /\ self \in [Threads -> Objects \cup {NULL}]
    /\ pStorage \in [Threads -> Blocks \cup {NULL}]
    /\ uPos \in [Threads -> Nat]
    /\ visited \in [Threads -> SUBSET Blocks]
    /\ ret \in [Threads -> {"ok", "failed", "throw", NULL, WILD} \cup Blocks]
    /\ fault \in {"none", "null_deref", "double_free", "wild_free"}

\* No two objects hold the same instance id, and a held id stays marked in
\* s_bitset: concurrent constructors, destructors, failed constructors and
\* moves never hand an id out twice. (thread_local.cpp:18-34, .h:85-144)
UniqueIds ==
    /\ \A o \in Objects : m_uInstanceId[o] # kInvalidInstanceId
                             => m_uInstanceId[o] \in Bits(s_bitset)
    /\ \A o, p \in Objects : m_uInstanceId[o] = m_uInstanceId[p]
                             => o = p \/ m_uInstanceId[o] = kInvalidInstanceId

\* While an object is live, the slot of its id in its constructing thread's
\* table points to the object's own T, whatever other objects and threads do
\* to the table. (thread_local.cpp:36-75)
OwnSlot ==
    \A o \in Objects :
        objState[o] = "live" /\ m_uInstanceId[o] # kInvalidInstanceId
        => /\ owner[o] \in Threads /\ s_ppInstances[owner[o]] # NULL
           /\ storage[o] # NULL
           /\ s_ppInstances[owner[o]][m_uInstanceId[o]] = storage[o]

\* The T of a live object is allocated and belongs to no other object.
OwnStorage ==
    /\ \A o \in Objects : storage[o] # NULL => storage[o] \in heap
    /\ \A o, p \in Objects : storage[o] = storage[p] => o = p \/ storage[o] = NULL

\* A thread is registered for foreach once it has a table, and only once,
\* even when push_back or a constructor fails. (thread_local.cpp:44-66)
Registered ==
    /\ \A i, j \in DOMAIN s_vecpppInstances :
          s_vecpppInstances[i] = s_vecpppInstances[j] => i = j
    /\ \A t \in Threads :
          (\E i \in DOMAIN s_vecpppInstances : s_vecpppInstances[i] = t)
          <=> s_ppInstances[t] # NULL /\ pc[t] # "pushTable"

\* A foreach that runs to its end has passed the object's own T to func,
\* however constructors and destructors run meanwhile, "the all thread local
\* storages" of the header.  The T is the constructor's: NothingWithoutGet is
\* what a test expects instead.  (thread_local.h:54, cpp:77-98)
ForeachComplete ==
    \A t \in Threads :
        pc[t] = "foreach" /\ uPos[t] > Len(s_vecpppInstances)
        => storage[self[t]] \in visited[t]

\* Ids in use that no object holds, and blocks that are no object's T.
LostIds    == Bits(s_bitset) \ {m_uInstanceId[o] : o \in Objects}
LostBlocks == heap \ {storage[o] : o \in Objects}

\* When owners destroy, an id or a T is lost only where a constructor throws
\* for want of a T, and where a move is assigned to a live object: what
\* setThreadLocalStorage fails to store is undone, the id after the T, and
\* destructors, also of objects moved to, give both back.
\* (thread_local.h:93-107, 119-144)
OnlyKnownLeaks ==
    [][~(\E t \in Threads :
            \/ ConstructorThrows(t)
            \/ \E to \in Objects, from \in Objects : MoveAssign(t, to, from))
       => LostIds' \subseteq LostIds /\ LostBlocks' \subseteq LostBlocks]_vars

\* No destructor frees a T that is not allocated. (thread_local.h:133-144)
NoDoubleFree == fault # "double_free"

\* An id is released by the thread that destroys (or fails to construct) its
\* holder, never while another object holds it. (cpp:30-34)
IdReleasedByHolder ==
    [][\A u \in Bits(s_bitset) \ Bits(s_bitset)' :
          \E o \in Objects : /\ m_uInstanceId[o] = u /\ m_uInstanceId'[o] # u
                             /\ \E t \in Threads : self[t] = o /\ self'[t] = NULL]_vars

\* Every foreach releases s_mutex if func returns. (cpp:85-97)
MutexReleased ==
    \A t \in Threads : s_mutex = t ~> (s_mutex # t \/ fault # "none")

\* "Foreach the all thread local storages of the instance id"
\* (thread_local.h:54): func is called with Ts that are allocated.
ForeachVisitsLive ==
    [][\A t \in Threads : visited'[t] \ visited[t] \subseteq heap]_vars

\* "EXPECT_EQ(count, 0)" (test_lldk_thread_local.cpp:797): in a program that
\* never calls get, foreach passes nothing to func.
NothingWithoutGet == \A t \in Threads : visited[t] = {}

-----------------------------------------------------------------------------
(* What makes the invariants inductive *)

ConstructorAt == {"allocate", "setStorage", "pushTable", "undoFree", "undoId"}
DestructorAt  == {"free", "clearSlot", "deleteId"}

CallState(t) ==
    /\ pc[t] = "idle" => self[t] = NULL
    /\ pc[t] # "idle" => self[t] \in Objects
    /\ pc[t] \in ConstructorAt => objState[self[t]] = "building"
    /\ pc[t] = "pushTable" => s_ppInstances[t] # NULL
    /\ pc[t] \in DestructorAt => objState[self[t]] = "dying"
    /\ pc[t] = "foreach" => /\ objState[self[t]] = "live"
                            /\ m_uInstanceId[self[t]] # kInvalidInstanceId
                            /\ uPos[t] # 0
    /\ s_mutex = t <=> pc[t] = "foreach"

\* A call in progress works on an object in the state the call put it in, and
\* a constructor or destructor has its object for itself: s_mutex is held by
\* the thread in foreach, and only there. (thread_local.h:85-171, cpp:85)
CallInv ==
    /\ \A t \in Threads : CallState(t)
    /\ \A t, u \in Threads : self[t] = self[u]
                             => t = u \/ pc[t] \in {"idle", "foreach"}
    /\ \A o \in Objects :
          /\ objState[o] = "raw" => m_uInstanceId[o] = kInvalidInstanceId
          /\ objState[o] = "building" => m_uInstanceId[o] # kInvalidInstanceId

\* A constructor knows its T, and a table that push_back may still undo holds
\* no T of a live object. (thread_local.h:93-107, cpp:44-66)
BuildInv ==
    \A t \in Threads :
       /\ pc[t] \in ConstructorAt => owner[self[t]] = t
       /\ pc[t] \in {"setStorage", "pushTable", "undoFree"}
             => pStorage[t] \in Blocks /\ pStorage[t] = storage[self[t]]
       /\ pc[t] = "pushTable"
             => \A o \in Objects : objState[o] = "live" /\ owner[o] = t
                                   => m_uInstanceId[o] = kInvalidInstanceId

\* A destructor on the constructing thread frees the object's own T.
DestroyInv ==
    \A t \in Threads :
       pc[t] = "free" => pStorage[t] \in Blocks /\ pStorage[t] = storage[self[t]]

\* The loop of foreach has passed the T to func if it is beyond its table.
LoopInv ==
    \A t \in Threads : pc[t] = "foreach" =>
       \A i \in DOMAIN s_vecpppInstances :
          i < uPos[t] /\ s_vecpppInstances[i] = owner[self[t]]
          => storage[self[t]] \in visited[t]

\* A T is an object's own from AllocateStorage until it is freed or moved on:
\* an object that is not constructed, or was moved from, has none, nor has a
\* call before it allocates and after it frees.  (thread_local.h:93-144)
StorageInv ==
    /\ \A o \in Objects :
          \/ objState[o] = "raw"
          \/ objState[o] = "live" /\ m_uInstanceId[o] = kInvalidInstanceId
          => storage[o] = NULL
    /\ \A t \in Threads :
          pc[t] \in {"allocate", "undoId", "clearSlot", "deleteId"} => storage[self[t]] = NULL

\* Together: every step of every thread keeps its call, its object and the
\* tables consistent when only the constructing thread destroys.
Inductive == CallInv /\ BuildInv /\ DestroyInv /\ LoopInv /\ StorageInv
=============================================================================
