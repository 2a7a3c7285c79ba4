---------------------- MODULE AllocatorRegistryProofs -----------------------
(***************************************************************************)
(* Proofs about AllocatorRegistry for any number of threads, names,        *)
(* addresses and instance ids.                                             *)
(***************************************************************************)
EXTENDS AllocatorRegistry, TLAPS

-----------------------------------------------------------------------------
(* The inductive invariants *)

Constructing == {"takeId", "takeStorage", "storeSlot"}

\* What a call works on.
CallShape(t) ==
    /\ call[t].at \in {"idle", "singleton", "lockSingleton", "newObject", "publish",
                       "stats"} => call[t].self = NULL
    /\ call[t].at \in {"emplace", "deleter", "deleteId"} => call[t].self # NULL
    /\ call[t].at = "newObject" => call[t].name # NULL
    /\ call[t].at \in {"takeStorage", "storeSlot"} => call[t].uId \in Ids
    /\ call[t].at \in Constructing \cup {"emplace"} /\ call[t].self # NULL
          => /\ alloc[call[t].self].state = "building"
             /\ alloc[call[t].self].name = call[t].name
             /\ call[t].name # NULL
    /\ call[t].at \in {"deleter", "deleteId"} => alloc[call[t].self].state = "dying"

\* Where a thread can hold which mutex.
LockShape(t) ==
    /\ holder["singletonMutex"] = t
          => /\ call[t].at \in Constructing \cup {"publish"}
             /\ call[t].self = NULL /\ s_pAllocator = NULL
    /\ call[t].at = "publish" => holder["singletonMutex"] = t
    /\ holder["s_mutex"] = t => call[t].at \in {"deleter", "deleteId"}
    /\ holder["tlMutex"] = t <=> call[t].at = "stats"

Shape == \A t \in Threads : CallShape(t) /\ LockShape(t)

Basis == TypeOK /\ Shape /\ NoOrphan /\ RegistryConsistent

USE DEF registry, locals, At, Goto, Return, Free, Lock, Unlock, CanLock

\* NULL is no thread, name or address, and the records calls and allocators
\* start from are well typed.
LEMMA Nulls ==
    /\ NULL \notin Threads /\ NULL \notin Names /\ NULL \notin Allocs
    /\ kMaxInstanceId \in Nat
    /\ NoCall \in CallRecords /\ NoAlloc \in AllocRecords
    /\ NoCall.at = "idle" /\ NoCall.self = NULL /\ NoCall.name = NULL
    /\ NoAlloc.state = "free" /\ NoAlloc.name = NULL /\ NoAlloc.id = kMaxInstanceId
BY RegistryAssumption DEF NoCall, NoAlloc, Locations, CallRecords, AllocRecords

\* The locations of a call, one by one, so that the set need not be expanded.
LEMMA LocationNames ==
    /\ "idle" \in Locations /\ "singleton" \in Locations
    /\ "lockSingleton" \in Locations /\ "takeId" \in Locations
    /\ "takeStorage" \in Locations /\ "storeSlot" \in Locations
    /\ "publish" \in Locations /\ "newObject" \in Locations
    /\ "emplace" \in Locations /\ "deleter" \in Locations
    /\ "deleteId" \in Locations /\ "stats" \in Locations
BY DEF Locations

\* The fields of calls and allocators have their types.
LEMMA FieldTypes ==
    ASSUME TypeOK
    PROVE  /\ \A t \in Threads :
                 /\ call[t].at \in Locations
                 /\ call[t].self \in Allocs \cup {NULL}
                 /\ call[t].uId \in 0 .. kMaxInstanceId
                 /\ call[t].name \in Names \cup {NULL}
           /\ \A a \in Allocs :
                 /\ alloc[a].name \in Names \cup {NULL}
                 /\ alloc[a].id \in 0 .. kMaxInstanceId
BY DEF TypeOK, CallRecords, AllocRecords

\* A caller that has its singleton goes on with a name, or returns.
LEMMA Ready ==
    ASSUME TypeOK, NEW t \in Threads, SingletonReady(t), call[t].self = NULL
    PROVE  /\ call' \in [Threads -> CallRecords]
           /\ \A v \in Threads \ {t} : call'[v] = call[v]
           /\ call'[t].self = NULL
           /\ call'[t].at \in {"idle", "newObject"}
           /\ call'[t].at = "newObject" => call'[t].name # NULL
<1> USE Nulls, LocationNames DEF TypeOK, SingletonReady
<1>1. CASE call[t].name = NULL
  BY <1>1
<1>2. CASE call[t].name # NULL
  BY <1>2 DEF CallRecords
<1> QED BY <1>1, <1>2

\* A call that goes on as it was, while no allocator changes, keeps its shape.
LEMMA CallShapeKept ==
    ASSUME TypeOK, NEW v \in Threads, CallShape(v), call'[v] = call[v],
           \A a \in Allocs : alloc'[a].state = alloc[a].state /\ alloc'[a].name = alloc[a].name
    PROVE  CallShape(v)'
<1>1. call[v].self \in Allocs \cup {NULL}
  BY FieldTypes
<1> QED BY <1>1 DEF CallShape

\* Calls that keep their allocators, while no allocator changes state, orphan none.
LEMMA NoOrphanKept ==
    ASSUME NoOrphan,
           \A v \in Threads : call'[v].self = call[v].self,
           \A a \in Allocs : alloc'[a].state = alloc[a].state
    PROVE  NoOrphan'
BY DEF NoOrphan

\* A name that was free only starts a call.
LEMMA BasisNameFree ==
    ASSUME Basis, NEW t \in Threads, NEW n \in Names, NameFree(t, n), UNCHANGED crashed
    PROVE  Basis'
<1> USE Nulls
<1>0. /\ TypeOK
      /\ call[t].at \in {"emplace", "deleteId"} => call[t].self \in Allocs
      /\ call[t].uId \in 0 .. kMaxInstanceId /\ call[t].name \in Names \cup {NULL}
  BY FieldTypes DEF Basis, Shape, CallShape
<1>1. TypeOK'
  <2>1. call' \in [Threads -> CallRecords]
    BY <1>0, LocationNames DEF NameFree, NameIsFree, TypeOK, CallRecords, Ids
  <2>2. alloc' \in [Allocs -> AllocRecords]
    BY <1>0 DEF NameFree, NameIsFree, TypeOK, AllocRecords
  <2> QED BY <1>0, <2>1, <2>2 DEF NameFree, NameIsFree, TypeOK, Mutexes, Ids
<1>b. /\ \A v \in Threads : call'[v].self = call[v].self
      /\ UNCHANGED alloc
  BY <1>0 DEF NameFree, TypeOK
<1>3. NoOrphan'
  BY <1>b, NoOrphanKept DEF Basis
<1> USE DEF NameFree, NameIsFree, Basis, CallRecords, AllocRecords
<1>2. Shape'
  <2> SUFFICES ASSUME NEW v \in Threads PROVE (CallShape(v) /\ LockShape(v))'
    BY DEF Shape
  <2> USE DEF TypeOK, Shape, NoOrphan, Locks, Mutexes, Constructing
  <2>1. CallShape(v)'
    BY DEF CallShape
  <2>2. LockShape(v)'
    BY DEF CallShape, LockShape
  <2> QED BY <2>1, <2>2
<1>4. RegistryConsistent'
  BY DEF TypeOK, RegistryConsistent, Shape, CallShape, Constructing
<1> QED BY <1>1, <1>2, <1>3, <1>4

\* A client's own call of lldkGetAllocatorSingleton has no allocator.
LEMMA BasisGetSingleton ==
    ASSUME Basis, NEW t \in Threads, GetSingleton(t), UNCHANGED crashed
    PROVE  Basis'
<1> USE Nulls
<1>0. /\ TypeOK
      /\ call[t].at \in {"emplace", "deleteId"} => call[t].self \in Allocs
      /\ call[t].uId \in 0 .. kMaxInstanceId /\ call[t].name \in Names \cup {NULL}
  BY FieldTypes DEF Basis, Shape, CallShape
<1>1. TypeOK'
  <2>1. call' \in [Threads -> CallRecords]
    BY <1>0, LocationNames DEF GetSingleton, TypeOK, CallRecords, Ids
  <2>2. alloc' \in [Allocs -> AllocRecords]
    BY <1>0 DEF GetSingleton, TypeOK, AllocRecords
  <2> QED BY <1>0, <2>1, <2>2 DEF GetSingleton, TypeOK, Mutexes, Ids
<1> USE DEF GetSingleton, Basis, CallRecords, AllocRecords
<1>2. Shape'
  <2> SUFFICES ASSUME NEW v \in Threads PROVE (CallShape(v) /\ LockShape(v))'
    BY DEF Shape
  <2> USE DEF TypeOK, Shape, NoOrphan, Locks, Mutexes, Constructing
  <2>1. CallShape(v)'
    BY DEF CallShape
  <2>2. LockShape(v)'
    BY DEF CallShape, LockShape
  <2> QED BY <2>1, <2>2
<1>3. NoOrphan'
  BY DEF TypeOK, NoOrphan, Shape, CallShape, Constructing
<1>4. RegistryConsistent'
  BY DEF TypeOK, RegistryConsistent, Shape, CallShape, Constructing
<1> QED BY <1>1, <1>2, <1>3, <1>4

\* The first check changes the caller's location only.
LEMMA BasisFirstCheck ==
    ASSUME Basis, NEW t \in Threads, FirstCheck(t), UNCHANGED crashed
    PROVE  Basis'
<1> USE Nulls
<1>0. /\ TypeOK
      /\ call[t].at \in {"emplace", "deleteId"} => call[t].self \in Allocs
      /\ call[t].uId \in 0 .. kMaxInstanceId /\ call[t].name \in Names \cup {NULL}
  BY FieldTypes DEF Basis, Shape, CallShape
<1>a. call[t].self = NULL
  BY DEF Basis, Shape, CallShape, FirstCheck
<1>b. /\ \A v \in Threads \ {t} : call'[v] = call[v]
      /\ call'[t].self = NULL /\ call'[t].at \in {"idle", "newObject", "lockSingleton"}
      /\ call'[t].at = "newObject" => call'[t].name # NULL
  BY <1>0, <1>a, Ready DEF FirstCheck, TypeOK, CallRecords
<1>c. UNCHANGED alloc
  BY DEF FirstCheck
<1>1. TypeOK'
  <2>1. call' \in [Threads -> CallRecords]
    BY <1>0, LocationNames DEF FirstCheck, SingletonReady, TypeOK, CallRecords, Ids
  <2>2. alloc' \in [Allocs -> AllocRecords]
    BY <1>0 DEF FirstCheck, SingletonReady, TypeOK, AllocRecords
  <2> QED BY <1>0, <2>1, <2>2 DEF FirstCheck, SingletonReady, TypeOK, Mutexes, Ids
<1>d. ASSUME NEW v \in Threads PROVE CallShape(v)'
  <2>1. CASE v = t
    BY <2>1, <1>b DEF CallShape, Constructing
  <2>2. CASE v # t
    BY <2>2, <1>0, <1>b, <1>c, CallShapeKept DEF Basis, Shape
  <2> QED BY <2>1, <2>2
<1> USE DEF FirstCheck, SingletonReady, Basis, CallRecords, AllocRecords
<1>2. Shape'
  <2> SUFFICES ASSUME NEW v \in Threads PROVE (CallShape(v) /\ LockShape(v))'
    BY DEF Shape
  <2> USE DEF TypeOK, Shape, NoOrphan, Locks, Mutexes, Constructing
  <2>1. CallShape(v)'
    BY <1>d
  <2>2. LockShape(v)'
    BY DEF CallShape, LockShape
  <2> QED BY <2>1, <2>2
<1>3. NoOrphan'
  <2>1. \A v \in Threads : call'[v].self = call[v].self
    BY <1>a, <1>b
  <2> QED BY <1>c, <2>1 DEF NoOrphan
<1>4. RegistryConsistent'
  BY DEF TypeOK, RegistryConsistent, Shape, CallShape, Constructing
<1> QED BY <1>1, <1>2, <1>3, <1>4

\* The second check keeps the mutex only if there is no singleton.
LEMMA BasisSecondCheck ==
    ASSUME Basis, NEW t \in Threads, SecondCheck(t), UNCHANGED crashed
    PROVE  Basis'
<1> USE Nulls
<1>0. /\ TypeOK
      /\ call[t].at \in {"emplace", "deleteId"} => call[t].self \in Allocs
      /\ call[t].uId \in 0 .. kMaxInstanceId /\ call[t].name \in Names \cup {NULL}
  BY FieldTypes DEF Basis, Shape, CallShape
<1>a. call[t].self = NULL
  BY DEF Basis, Shape, CallShape, SecondCheck
<1>b. /\ \A v \in Threads \ {t} : call'[v] = call[v]
      /\ call'[t].self = NULL /\ call'[t].at \in {"idle", "newObject", "takeId"}
      /\ call'[t].at = "newObject" => call'[t].name # NULL
  BY <1>0, <1>a, Ready DEF SecondCheck, TypeOK, CallRecords
<1>c. UNCHANGED alloc
  BY DEF SecondCheck
<1>1. TypeOK'
  <2>1. call' \in [Threads -> CallRecords]
    BY <1>0, LocationNames DEF SecondCheck, SingletonReady, TypeOK, CallRecords, Ids
  <2>2. alloc' \in [Allocs -> AllocRecords]
    BY <1>0 DEF SecondCheck, SingletonReady, TypeOK, AllocRecords
  <2> QED BY <1>0, <2>1, <2>2 DEF SecondCheck, SingletonReady, TypeOK, Mutexes, Ids
<1> USE DEF SecondCheck, SingletonReady, Basis, CallRecords, AllocRecords
<1>2. Shape'
  <2> SUFFICES ASSUME NEW v \in Threads PROVE (CallShape(v) /\ LockShape(v))'
    BY DEF Shape
  <2> USE DEF TypeOK, Shape, NoOrphan, Locks, Mutexes, Constructing
  <2>1. CallShape(v)'
    BY <1>a, <1>b, <1>c DEF CallShape
  <2>2. LockShape(v)'
    BY DEF CallShape, LockShape
  <2> QED BY <2>1, <2>2
<1>3. NoOrphan'
  <2>1. \A v \in Threads : call'[v].self = call[v].self
    BY <1>a, <1>b
  <2> QED BY <1>c, <2>1 DEF NoOrphan
<1>4. RegistryConsistent'
  BY DEF TypeOK, RegistryConsistent, Shape, CallShape, Constructing
<1> QED BY <1>1, <1>2, <1>3, <1>4

\* A client's thread local object belongs to no allocator.
LEMMA BasisClientThreadLocal ==
    ASSUME Basis, NEW t \in Threads, ClientThreadLocal(t), UNCHANGED crashed
    PROVE  Basis'
<1> USE Nulls
<1>0. /\ TypeOK
      /\ call[t].at \in {"emplace", "deleteId"} => call[t].self \in Allocs
      /\ call[t].uId \in 0 .. kMaxInstanceId /\ call[t].name \in Names \cup {NULL}
  BY FieldTypes DEF Basis, Shape, CallShape
<1>1. TypeOK'
  <2>1. call' \in [Threads -> CallRecords]
    BY <1>0, LocationNames DEF ClientThreadLocal, TypeOK, CallRecords, Ids
  <2>2. alloc' \in [Allocs -> AllocRecords]
    BY <1>0 DEF ClientThreadLocal, TypeOK, AllocRecords
  <2> QED BY <1>0, <2>1, <2>2 DEF ClientThreadLocal, TypeOK, Mutexes, Ids
<1> USE DEF ClientThreadLocal, Basis, CallRecords, AllocRecords
<1>2. Shape'
  <2> SUFFICES ASSUME NEW v \in Threads PROVE (CallShape(v) /\ LockShape(v))'
    BY DEF Shape
  <2> USE DEF TypeOK, Shape, NoOrphan, Locks, Mutexes, Constructing
  <2>1. CallShape(v)'
    BY DEF CallShape
  <2>2. LockShape(v)'
    BY DEF CallShape, LockShape
  <2> QED BY <2>1, <2>2
<1>3. NoOrphan'
  BY DEF TypeOK, NoOrphan, Shape, CallShape, Constructing
<1>4. RegistryConsistent'
  BY DEF TypeOK, RegistryConsistent, Shape, CallShape, Constructing
<1> QED BY <1>1, <1>2, <1>3, <1>4

\* The id a constructor takes is one of Ids.
LEMMA BasisTakeId ==
    ASSUME Basis, NEW t \in Threads, TakeId(t), UNCHANGED crashed
    PROVE  Basis'
<1> USE Nulls
<1>0. /\ TypeOK
      /\ call[t].at \in {"emplace", "deleteId"} => call[t].self \in Allocs
      /\ call[t].uId \in 0 .. kMaxInstanceId /\ call[t].name \in Names \cup {NULL}
  BY FieldTypes DEF Basis, Shape, CallShape
<1>1. TypeOK'
  <2>1. call' \in [Threads -> CallRecords]
    <3>1. PICK u \in FreeIds :
               call' = [call EXCEPT ![t].at = "takeStorage", ![t].uId = u]
      BY DEF TakeId
    <3>2. u \in 0 .. kMaxInstanceId
      BY DEF FreeIds, Ids
    <3> QED BY <1>0, <3>1, <3>2, LocationNames DEF TypeOK, CallRecords
  <2>2. alloc' \in [Allocs -> AllocRecords]
    BY <1>0 DEF TakeId, FreeIds, TypeOK, AllocRecords
  <2> QED BY <1>0, <2>1, <2>2 DEF TakeId, FreeIds, TypeOK, Mutexes, Ids
<1> USE DEF TakeId, FreeIds, Basis, CallRecords, AllocRecords
<1>2. Shape'
  <2> SUFFICES ASSUME NEW v \in Threads PROVE (CallShape(v) /\ LockShape(v))'
    BY DEF Shape
  <2> USE DEF TypeOK, Shape, NoOrphan, Locks, Mutexes, Constructing
  <2>1. CallShape(v)'
    BY DEF CallShape
  <2>2. LockShape(v)'
    BY DEF CallShape, LockShape
  <2> QED BY <2>1, <2>2
<1>3. NoOrphan'
  BY DEF TypeOK, NoOrphan, Shape, CallShape, Constructing
<1>4. RegistryConsistent'
  BY DEF TypeOK, RegistryConsistent, Shape, CallShape, Constructing
<1> QED BY <1>1, <1>2, <1>3, <1>4

\* Counting an allocation leaves the allocators alone.
LEMMA BasisTakeStorage ==
    ASSUME Basis, NEW t \in Threads, TakeStorage(t), UNCHANGED crashed
    PROVE  Basis'
<1> USE Nulls
<1>0. /\ TypeOK
      /\ call[t].at \in {"emplace", "deleteId"} => call[t].self \in Allocs
      /\ call[t].uId \in 0 .. kMaxInstanceId /\ call[t].name \in Names \cup {NULL}
  BY FieldTypes DEF Basis, Shape, CallShape
<1>1. TypeOK'
  <2>1. call' \in [Threads -> CallRecords]
    BY <1>0, LocationNames DEF TakeStorage, TypeOK, CallRecords, Ids
  <2>2. alloc' \in [Allocs -> AllocRecords]
    BY <1>0 DEF TakeStorage, TypeOK, AllocRecords
  <2> QED BY <1>0, <2>1, <2>2 DEF TakeStorage, TypeOK, Mutexes, Ids
<1> USE DEF TakeStorage, Basis, CallRecords, AllocRecords
<1>2. Shape'
  <2> SUFFICES ASSUME NEW v \in Threads PROVE (CallShape(v) /\ LockShape(v))'
    BY DEF Shape
  <2> USE DEF TypeOK, Shape, NoOrphan, Locks, Mutexes, Constructing
  <2>1. CallShape(v)'
    BY DEF CallShape
  <2>2. LockShape(v)'
    BY DEF CallShape, LockShape
  <2> QED BY <2>1, <2>2
<1>3. NoOrphan'
  BY DEF TypeOK, NoOrphan, Shape, CallShape, Constructing
<1>4. RegistryConsistent'
  BY DEF TypeOK, RegistryConsistent, Shape, CallShape, Constructing
<1> QED BY <1>1, <1>2, <1>3, <1>4

\* A constructor that throws gives its allocator back, and its mutex.
LEMMA BasisConstructorThrows ==
    ASSUME Basis, NEW t \in Threads, ConstructorThrows(t), UNCHANGED crashed
    PROVE  Basis'
<1> USE Nulls
<1>0. /\ TypeOK
      /\ call[t].at \in {"emplace", "deleteId"} => call[t].self \in Allocs
      /\ call[t].uId \in 0 .. kMaxInstanceId /\ call[t].name \in Names \cup {NULL}
  BY FieldTypes DEF Basis, Shape, CallShape
<1>1. TypeOK'
  <2>1. call' \in [Threads -> CallRecords]
    BY <1>0, LocationNames DEF ConstructorThrows, Throw, TypeOK, CallRecords, Ids
  <2>2. alloc' \in [Allocs -> AllocRecords]
    BY <1>0 DEF ConstructorThrows, Throw, TypeOK, AllocRecords
  <2> QED BY <1>0, <2>1, <2>2 DEF ConstructorThrows, Throw, TypeOK, Mutexes, Ids
<1> USE DEF ConstructorThrows, Throw, Basis, CallRecords, AllocRecords
<1>2. Shape'
  <2> SUFFICES ASSUME NEW v \in Threads PROVE (CallShape(v) /\ LockShape(v))'
    BY DEF Shape
  <2> USE DEF TypeOK, Shape, NoOrphan, Locks, Mutexes, Constructing
  <2>1. CallShape(v)'
    BY DEF CallShape
  <2>2. LockShape(v)'
    BY DEF CallShape, LockShape
  <2> QED BY <2>1, <2>2
<1>3. NoOrphan'
  BY DEF TypeOK, NoOrphan, Shape, CallShape, Constructing
<1>4. RegistryConsistent'
  BY DEF TypeOK, RegistryConsistent, Shape, CallShape, Constructing
<1> QED BY <1>1, <1>2, <1>3, <1>4

\* Storing the slot ends a construction: with the registration, with the
\* publication of the singleton, or with the return of a client's call.
LEMMA BasisStoreSlot ==
    ASSUME Basis, NEW t \in Threads, StoreSlot(t), UNCHANGED crashed
    PROVE  Basis'
<1> USE Nulls
<1>0. /\ TypeOK
      /\ call[t].at \in {"emplace", "deleteId"} => call[t].self \in Allocs
      /\ call[t].uId \in 0 .. kMaxInstanceId /\ call[t].name \in Names \cup {NULL}
      /\ call[t].uId \in Ids
  BY FieldTypes DEF Basis, Shape, CallShape, StoreSlot
<1>1. TypeOK'
  <2>1. call' \in [Threads -> CallRecords]
    BY <1>0, LocationNames DEF StoreSlot, TypeOK, CallRecords, Ids
  <2>2. alloc' \in [Allocs -> AllocRecords]
    BY <1>0 DEF StoreSlot, TypeOK, AllocRecords
  <2> QED BY <1>0, <2>1, <2>2 DEF StoreSlot, TypeOK, Mutexes, Ids
<1>b. /\ \A v \in Threads \ {t} : call'[v] = call[v]
      /\ call[t].self # NULL => /\ call'[t].self = call[t].self
                                 /\ call'[t].name = call[t].name
                                 /\ call'[t].at = "emplace"
      /\ call[t].self = NULL => /\ call'[t].self = NULL
                                 /\ call'[t].at \in {"publish", "idle"}
      /\ \A a \in Allocs : /\ alloc'[a].state = alloc[a].state
                            /\ alloc'[a].name = alloc[a].name
  BY <1>0 DEF StoreSlot, TypeOK, CallRecords, AllocRecords
<1>c. call[t].self # NULL => /\ alloc[call[t].self].state = "building"
                             /\ alloc[call[t].self].name = call[t].name
                             /\ call[t].name # NULL
                             /\ call[t].self \in Allocs
  BY FieldTypes DEF Basis, Shape, CallShape, StoreSlot, Constructing
<1>d. ASSUME NEW v \in Threads PROVE CallShape(v)'
  <2>1. CASE v = t
    BY <2>1, <1>b, <1>c DEF CallShape, Constructing
  <2>2. CASE v # t
    BY <2>2, <1>0, <1>b, CallShapeKept DEF Basis, Shape
  <2> QED BY <2>1, <2>2
<1> USE DEF StoreSlot, Basis, CallRecords, AllocRecords
<1>2. Shape'
  <2> SUFFICES ASSUME NEW v \in Threads PROVE (CallShape(v) /\ LockShape(v))'
    BY DEF Shape
  <2> USE DEF TypeOK, Shape, NoOrphan, Locks, Mutexes, Constructing
  <2>1. CallShape(v)'
    BY <1>d
  <2>2. LockShape(v)'
    BY DEF CallShape, LockShape
  <2> QED BY <2>1, <2>2
<1>3. NoOrphan'
  <2>1. \A v \in Threads : call'[v].self = call[v].self
    BY <1>b
  <2> QED BY <1>b, <2>1 DEF NoOrphan
<1>4. RegistryConsistent'
  BY DEF TypeOK, RegistryConsistent, Shape, CallShape, Constructing
<1> QED BY <1>1, <1>2, <1>3, <1>4

\* A constructor that gets no table gives back its allocator, id and mutex.
LEMMA BasisNoTable ==
    ASSUME Basis, NEW t \in Threads, NoTable(t), UNCHANGED crashed
    PROVE  Basis'
<1> USE Nulls
<1>0. /\ TypeOK
      /\ call[t].at \in {"emplace", "deleteId"} => call[t].self \in Allocs
      /\ call[t].uId \in 0 .. kMaxInstanceId /\ call[t].name \in Names \cup {NULL}
  BY FieldTypes DEF Basis, Shape, CallShape
<1>1. TypeOK'
  <2>1. call' \in [Threads -> CallRecords]
    BY <1>0, LocationNames DEF NoTable, Throw, ReleaseId, TypeOK, CallRecords, Ids
  <2>2. alloc' \in [Allocs -> AllocRecords]
    BY <1>0 DEF NoTable, Throw, ReleaseId, TypeOK, AllocRecords
  <2> QED BY <1>0, <2>1, <2>2 DEF NoTable, Throw, ReleaseId, TypeOK, Mutexes, Ids
<1> USE DEF NoTable, Throw, ReleaseId, Basis, CallRecords, AllocRecords
<1>2. Shape'
  <2> SUFFICES ASSUME NEW v \in Threads PROVE (CallShape(v) /\ LockShape(v))'
    BY DEF Shape
  <2> USE DEF TypeOK, Shape, NoOrphan, Locks, Mutexes, Constructing
  <2>1. CallShape(v)'
    BY DEF CallShape
  <2>2. LockShape(v)'
    BY DEF CallShape, LockShape
  <2> QED BY <2>1, <2>2
<1>3. NoOrphan'
  BY DEF TypeOK, NoOrphan, Shape, CallShape, Constructing
<1>4. RegistryConsistent'
  BY DEF TypeOK, RegistryConsistent, Shape, CallShape, Constructing
<1> QED BY <1>1, <1>2, <1>3, <1>4

\* Only the thread that holds the singleton's mutex assigns the singleton.
LEMMA BasisPublish ==
    ASSUME Basis, NEW t \in Threads, Publish(t), UNCHANGED crashed
    PROVE  Basis'
<1> USE Nulls
<1>0. /\ TypeOK
      /\ call[t].at \in {"emplace", "deleteId"} => call[t].self \in Allocs
      /\ call[t].uId \in 0 .. kMaxInstanceId /\ call[t].name \in Names \cup {NULL}
  BY FieldTypes DEF Basis, Shape, CallShape
<1>a. call[t].self = NULL
  BY DEF Basis, Shape, CallShape, Publish
<1>b. /\ \A v \in Threads \ {t} : call'[v] = call[v]
      /\ call'[t].self = NULL /\ call'[t].at \in {"idle", "newObject"}
      /\ call'[t].at = "newObject" => call'[t].name # NULL
  BY <1>0, <1>a, Ready DEF Publish, TypeOK, CallRecords
<1>c. UNCHANGED alloc
  BY DEF Publish
<1>1. TypeOK'
  <2>1. call' \in [Threads -> CallRecords]
    BY <1>0, LocationNames DEF Publish, SingletonReady, TypeOK, CallRecords, Ids
  <2>2. alloc' \in [Allocs -> AllocRecords]
    BY <1>0 DEF Publish, SingletonReady, TypeOK, AllocRecords
  <2> QED BY <1>0, <2>1, <2>2 DEF Publish, SingletonReady, TypeOK, Mutexes, Ids
<1> USE DEF Publish, SingletonReady, Basis, CallRecords, AllocRecords
<1>2. Shape'
  <2> SUFFICES ASSUME NEW v \in Threads PROVE (CallShape(v) /\ LockShape(v))'
    BY DEF Shape
  <2> USE DEF TypeOK, Shape, NoOrphan, Locks, Mutexes, Constructing
  <2>1. CallShape(v)'
    BY <1>a, <1>b, <1>c DEF CallShape
  <2>2. LockShape(v)'
    BY DEF CallShape, LockShape
  <2> QED BY <2>1, <2>2
<1>3. NoOrphan'
  <2>1. \A v \in Threads : call'[v].self = call[v].self
    BY <1>a, <1>b
  <2> QED BY <1>c, <2>1 DEF NoOrphan
<1>4. RegistryConsistent'
  BY DEF TypeOK, RegistryConsistent, Shape, CallShape, Constructing
<1> QED BY <1>1, <1>2, <1>3, <1>4

\* The allocator of a call was free, so it is no other call's.
LEMMA BasisNewObject ==
    ASSUME Basis, NEW t \in Threads, NewObject(t), UNCHANGED crashed
    PROVE  Basis'
<1> USE Nulls
<1>0. /\ TypeOK
      /\ call[t].at \in {"emplace", "deleteId"} => call[t].self \in Allocs
      /\ call[t].uId \in 0 .. kMaxInstanceId /\ call[t].name \in Names \cup {NULL}
  BY FieldTypes DEF Basis, Shape, CallShape
<1>1. TypeOK'
  <2>0. PICK a \in Allocs :
          /\ alloc' = [alloc EXCEPT ![a].state = "building", ![a].name = call[t].name]
          /\ call' = [call EXCEPT ![t].at = "takeId", ![t].self = a]
    BY DEF NewObject
  <2>1. call' \in [Threads -> CallRecords]
    BY <1>0, <2>0, LocationNames DEF TypeOK, CallRecords
  <2>2. alloc' \in [Allocs -> AllocRecords]
    BY <1>0, <2>0 DEF TypeOK, AllocRecords
  <2> QED BY <1>0, <2>1, <2>2 DEF NewObject, TypeOK, Mutexes, Ids
<1> USE DEF NewObject, Basis, CallRecords, AllocRecords
<1>2. Shape'
  <2> SUFFICES ASSUME NEW v \in Threads PROVE (CallShape(v) /\ LockShape(v))'
    BY DEF Shape
  <2> USE DEF TypeOK, Shape, NoOrphan, Locks, Mutexes, Constructing
  <2>1. CallShape(v)'
    BY DEF CallShape
  <2>2. LockShape(v)'
    BY DEF CallShape, LockShape
  <2> QED BY <2>1, <2>2
<1>3. NoOrphan'
  BY DEF TypeOK, NoOrphan, Shape, CallShape, Constructing
<1>4. RegistryConsistent'
  BY DEF TypeOK, RegistryConsistent, Shape, CallShape, Constructing
<1> QED BY <1>1, <1>2, <1>3, <1>4

\* A call that gets no memory returns without an allocator.
LEMMA BasisNoObject ==
    ASSUME Basis, NEW t \in Threads, NoObject(t), UNCHANGED crashed
    PROVE  Basis'
<1> USE Nulls
<1>0. /\ TypeOK
      /\ call[t].at \in {"emplace", "deleteId"} => call[t].self \in Allocs
      /\ call[t].uId \in 0 .. kMaxInstanceId /\ call[t].name \in Names \cup {NULL}
  BY FieldTypes DEF Basis, Shape, CallShape
<1>1. TypeOK'
  <2>1. call' \in [Threads -> CallRecords]
    BY <1>0, LocationNames DEF NoObject, TypeOK, CallRecords, Ids
  <2>2. alloc' \in [Allocs -> AllocRecords]
    BY <1>0 DEF NoObject, TypeOK, AllocRecords
  <2> QED BY <1>0, <2>1, <2>2 DEF NoObject, TypeOK, Mutexes, Ids
<1> USE DEF NoObject, Basis, CallRecords, AllocRecords
<1>2. Shape'
  <2> SUFFICES ASSUME NEW v \in Threads PROVE (CallShape(v) /\ LockShape(v))'
    BY DEF Shape
  <2> USE DEF TypeOK, Shape, NoOrphan, Locks, Mutexes, Constructing
  <2>1. CallShape(v)'
    BY DEF CallShape
  <2>2. LockShape(v)'
    BY DEF CallShape, LockShape
  <2> QED BY <2>1, <2>2
<1>3. NoOrphan'
  BY DEF TypeOK, NoOrphan, Shape, CallShape, Constructing
<1>4. RegistryConsistent'
  BY DEF TypeOK, RegistryConsistent, Shape, CallShape, Constructing
<1> QED BY <1>1, <1>2, <1>3, <1>4

\* The name is free when the allocator is registered under it.
LEMMA BasisEmplace ==
    ASSUME Basis, NEW t \in Threads, Emplace(t), UNCHANGED crashed
    PROVE  Basis'
<1> USE Nulls
<1>0. /\ TypeOK
      /\ call[t].at \in {"emplace", "deleteId"} => call[t].self \in Allocs
      /\ call[t].uId \in 0 .. kMaxInstanceId /\ call[t].name \in Names \cup {NULL}
  BY FieldTypes DEF Basis, Shape, CallShape
<1>1. TypeOK'
  <2>1. call' \in [Threads -> CallRecords]
    BY <1>0, LocationNames DEF Emplace, NameIsFree, TypeOK, CallRecords, Ids
  <2>2. alloc' \in [Allocs -> AllocRecords]
    BY <1>0 DEF Emplace, NameIsFree, TypeOK, AllocRecords
  <2> QED BY <1>0, <2>1, <2>2 DEF Emplace, NameIsFree, TypeOK, Mutexes, Ids
<1> USE DEF Emplace, NameIsFree, Basis, CallRecords, AllocRecords
<1>2. Shape'
  <2> SUFFICES ASSUME NEW v \in Threads PROVE (CallShape(v) /\ LockShape(v))'
    BY DEF Shape
  <2> USE DEF TypeOK, Shape, NoOrphan, Locks, Mutexes, Constructing
  <2>1. CallShape(v)'
    BY DEF CallShape
  <2>2. LockShape(v)'
    BY DEF CallShape, LockShape
  <2> QED BY <2>1, <2>2
<1>3. NoOrphan'
  BY DEF TypeOK, NoOrphan, Shape, CallShape, Constructing
<1>4. RegistryConsistent'
  BY DEF TypeOK, RegistryConsistent, Shape, CallShape, Constructing
<1> QED BY <1>1, <1>2, <1>3, <1>4

\* An allocator whose name was taken meanwhile dies with s_mutex held.
LEMMA BasisEmplaceDropsNode ==
    ASSUME Basis, NEW t \in Threads, EmplaceDropsNode(t), UNCHANGED crashed
    PROVE  Basis'
<1> USE Nulls
<1>0. /\ TypeOK
      /\ call[t].at \in {"emplace", "deleteId"} => call[t].self \in Allocs
      /\ call[t].uId \in 0 .. kMaxInstanceId /\ call[t].name \in Names \cup {NULL}
  BY FieldTypes DEF Basis, Shape, CallShape
<1>1. TypeOK'
  <2>1. call' \in [Threads -> CallRecords]
    BY <1>0, LocationNames DEF EmplaceDropsNode, TypeOK, CallRecords, Ids
  <2>2. alloc' \in [Allocs -> AllocRecords]
    BY <1>0 DEF EmplaceDropsNode, TypeOK, AllocRecords
  <2> QED BY <1>0, <2>1, <2>2 DEF EmplaceDropsNode, TypeOK, Mutexes, Ids
<1> USE DEF EmplaceDropsNode, Basis, CallRecords, AllocRecords
<1>2. Shape'
  <2> SUFFICES ASSUME NEW v \in Threads PROVE (CallShape(v) /\ LockShape(v))'
    BY DEF Shape
  <2> USE DEF TypeOK, Shape, NoOrphan, Locks, Mutexes, Constructing
  <2>1. CallShape(v)'
    BY DEF CallShape
  <2>2. LockShape(v)'
    BY DEF CallShape, LockShape
  <2> QED BY <2>1, <2>2
<1>3. NoOrphan'
  BY DEF TypeOK, NoOrphan, Shape, CallShape, Constructing
<1>4. RegistryConsistent'
  BY DEF TypeOK, RegistryConsistent, Shape, CallShape, Constructing
<1> QED BY <1>1, <1>2, <1>3, <1>4

\* An allocator that gets no node dies with s_mutex unlocked.
LEMMA BasisEmplaceThrows ==
    ASSUME Basis, NEW t \in Threads, EmplaceThrows(t), UNCHANGED crashed
    PROVE  Basis'
<1> USE Nulls
<1>0. /\ TypeOK
      /\ call[t].at \in {"emplace", "deleteId"} => call[t].self \in Allocs
      /\ call[t].uId \in 0 .. kMaxInstanceId /\ call[t].name \in Names \cup {NULL}
  BY FieldTypes DEF Basis, Shape, CallShape
<1>1. TypeOK'
  <2>1. call' \in [Threads -> CallRecords]
    BY <1>0, LocationNames DEF EmplaceThrows, TypeOK, CallRecords, Ids
  <2>2. alloc' \in [Allocs -> AllocRecords]
    BY <1>0 DEF EmplaceThrows, TypeOK, AllocRecords
  <2> QED BY <1>0, <2>1, <2>2 DEF EmplaceThrows, TypeOK, Mutexes, Ids
<1> USE DEF EmplaceThrows, Basis, CallRecords, AllocRecords
<1>2. Shape'
  <2> SUFFICES ASSUME NEW v \in Threads PROVE (CallShape(v) /\ LockShape(v))'
    BY DEF Shape
  <2> USE DEF TypeOK, Shape, NoOrphan, Locks, Mutexes, Constructing
  <2>1. CallShape(v)'
    BY DEF CallShape
  <2>2. LockShape(v)'
    BY DEF CallShape, LockShape
  <2> QED BY <2>1, <2>2
<1>3. NoOrphan'
  BY DEF TypeOK, NoOrphan, Shape, CallShape, Constructing
<1>4. RegistryConsistent'
  BY DEF TypeOK, RegistryConsistent, Shape, CallShape, Constructing
<1> QED BY <1>1, <1>2, <1>3, <1>4

\* The allocator a client destroys is the one its name leads to.
LEMMA BasisDestroy ==
    ASSUME Basis, NEW t \in Threads, NEW a \in Allocs, Destroy(t, a), UNCHANGED crashed
    PROVE  Basis'
<1> USE Nulls
<1>0. /\ TypeOK
      /\ call[t].at \in {"emplace", "deleteId"} => call[t].self \in Allocs
      /\ call[t].uId \in 0 .. kMaxInstanceId /\ call[t].name \in Names \cup {NULL}
  BY FieldTypes DEF Basis, Shape, CallShape
<1>1. TypeOK'
  <2>1. call' \in [Threads -> CallRecords]
    BY <1>0, LocationNames DEF Destroy, TypeOK, CallRecords, Ids
  <2>2. alloc' \in [Allocs -> AllocRecords]
    BY <1>0 DEF Destroy, TypeOK, AllocRecords
  <2> QED BY <1>0, <2>1, <2>2 DEF Destroy, TypeOK, Mutexes, Ids
<1> USE DEF Destroy, Basis, CallRecords, AllocRecords
<1>2. Shape'
  <2> SUFFICES ASSUME NEW v \in Threads PROVE (CallShape(v) /\ LockShape(v))'
    BY DEF Shape
  <2> USE DEF TypeOK, Shape, NoOrphan, Locks, Mutexes, Constructing
  <2>1. CallShape(v)'
    BY DEF CallShape
  <2>2. LockShape(v)'
    BY DEF CallShape, LockShape
  <2> QED BY <2>1, <2>2
<1>3. NoOrphan'
  BY DEF TypeOK, NoOrphan, Shape, CallShape, Constructing
<1>4. RegistryConsistent'
  BY DEF TypeOK, RegistryConsistent, Shape, CallShape, Constructing
<1> QED BY <1>1, <1>2, <1>3, <1>4

\* Freeing the slot leaves the allocator to its deleter.
LEMMA BasisDeleter ==
    ASSUME Basis, NEW t \in Threads, Deleter(t), UNCHANGED crashed
    PROVE  Basis'
<1> USE Nulls
<1>0. /\ TypeOK
      /\ call[t].at \in {"emplace", "deleteId"} => call[t].self \in Allocs
      /\ call[t].uId \in 0 .. kMaxInstanceId /\ call[t].name \in Names \cup {NULL}
  BY FieldTypes DEF Basis, Shape, CallShape
<1>1. TypeOK'
  <2>1. call' \in [Threads -> CallRecords]
    BY <1>0, LocationNames DEF Deleter, TypeOK, CallRecords, Ids
  <2>2. alloc' \in [Allocs -> AllocRecords]
    BY <1>0 DEF Deleter, TypeOK, AllocRecords
  <2> QED BY <1>0, <2>1, <2>2 DEF Deleter, TypeOK, Mutexes, Ids
<1> USE DEF Deleter, Basis, CallRecords, AllocRecords
<1>2. Shape'
  <2> SUFFICES ASSUME NEW v \in Threads PROVE (CallShape(v) /\ LockShape(v))'
    BY DEF Shape
  <2> USE DEF TypeOK, Shape, NoOrphan, Locks, Mutexes, Constructing
  <2>1. CallShape(v)'
    BY DEF CallShape
  <2>2. LockShape(v)'
    BY DEF CallShape, LockShape
  <2> QED BY <2>1, <2>2
<1>3. NoOrphan'
  BY DEF TypeOK, NoOrphan, Shape, CallShape, Constructing
<1>4. RegistryConsistent'
  BY DEF TypeOK, RegistryConsistent, Shape, CallShape, Constructing
<1> QED BY <1>1, <1>2, <1>3, <1>4

\* The deleter frees an allocator that no other call works on.
LEMMA BasisDeleteId ==
    ASSUME Basis, NEW t \in Threads, DeleteId(t), UNCHANGED crashed
    PROVE  Basis'
<1> USE Nulls
<1>0. /\ TypeOK
      /\ call[t].at \in {"emplace", "deleteId"} => call[t].self \in Allocs
      /\ call[t].uId \in 0 .. kMaxInstanceId /\ call[t].name \in Names \cup {NULL}
  BY FieldTypes DEF Basis, Shape, CallShape
<1>1. TypeOK'
  <2>1. call' \in [Threads -> CallRecords]
    BY <1>0, LocationNames DEF DeleteId, ReleaseId, TypeOK, CallRecords, Ids
  <2>2. alloc' \in [Allocs -> AllocRecords]
    BY <1>0 DEF DeleteId, ReleaseId, TypeOK, AllocRecords
  <2> QED BY <1>0, <2>1, <2>2 DEF DeleteId, ReleaseId, TypeOK, Mutexes, Ids
<1> USE DEF DeleteId, ReleaseId, Basis, CallRecords, AllocRecords
<1>2. Shape'
  <2> SUFFICES ASSUME NEW v \in Threads PROVE (CallShape(v) /\ LockShape(v))'
    BY DEF Shape
  <2> USE DEF TypeOK, Shape, NoOrphan, Locks, Mutexes, Constructing
  <2>1. CallShape(v)'
    BY DEF CallShape
  <2>2. LockShape(v)'
    BY DEF CallShape, LockShape
  <2> QED BY <2>1, <2>2
<1>3. NoOrphan'
  BY DEF TypeOK, NoOrphan, Shape, CallShape, Constructing
<1>4. RegistryConsistent'
  BY DEF TypeOK, RegistryConsistent, Shape, CallShape, Constructing
<1> QED BY <1>1, <1>2, <1>3, <1>4

\* getAllocateStats holds tlMutex where it copies, and only there.
LEMMA BasisStatsLock ==
    ASSUME Basis, NEW t \in Threads, StatsLock(t), UNCHANGED crashed
    PROVE  Basis'
<1> USE Nulls
<1>0. /\ TypeOK
      /\ call[t].at \in {"emplace", "deleteId"} => call[t].self \in Allocs
      /\ call[t].uId \in 0 .. kMaxInstanceId /\ call[t].name \in Names \cup {NULL}
  BY FieldTypes DEF Basis, Shape, CallShape
<1>1. TypeOK'
  <2>1. call' \in [Threads -> CallRecords]
    BY <1>0, LocationNames DEF StatsLock, TypeOK, CallRecords, Ids
  <2>2. alloc' \in [Allocs -> AllocRecords]
    BY <1>0 DEF StatsLock, TypeOK, AllocRecords
  <2> QED BY <1>0, <2>1, <2>2 DEF StatsLock, TypeOK, Mutexes, Ids
<1> USE DEF StatsLock, Basis, CallRecords, AllocRecords
<1>2. Shape'
  <2> SUFFICES ASSUME NEW v \in Threads PROVE (CallShape(v) /\ LockShape(v))'
    BY DEF Shape
  <2> USE DEF TypeOK, Shape, NoOrphan, Locks, Mutexes, Constructing
  <2>1. CallShape(v)'
    BY DEF CallShape
  <2>2. LockShape(v)'
    BY DEF CallShape, LockShape
  <2> QED BY <2>1, <2>2
<1>3. NoOrphan'
  BY DEF TypeOK, NoOrphan, Shape, CallShape, Constructing
<1>4. RegistryConsistent'
  BY DEF TypeOK, RegistryConsistent, Shape, CallShape, Constructing
<1> QED BY <1>1, <1>2, <1>3, <1>4

\* getAllocateStats unlocks tlMutex when it returns.
LEMMA BasisStatsUnlock ==
    ASSUME Basis, NEW t \in Threads, StatsUnlock(t), UNCHANGED crashed
    PROVE  Basis'
<1> USE Nulls
<1>0. /\ TypeOK
      /\ call[t].at \in {"emplace", "deleteId"} => call[t].self \in Allocs
      /\ call[t].uId \in 0 .. kMaxInstanceId /\ call[t].name \in Names \cup {NULL}
  BY FieldTypes DEF Basis, Shape, CallShape
<1>1. TypeOK'
  <2>1. call' \in [Threads -> CallRecords]
    BY <1>0, LocationNames DEF StatsUnlock, TypeOK, CallRecords, Ids
  <2>2. alloc' \in [Allocs -> AllocRecords]
    BY <1>0 DEF StatsUnlock, TypeOK, AllocRecords
  <2> QED BY <1>0, <2>1, <2>2 DEF StatsUnlock, TypeOK, Mutexes, Ids
<1> USE DEF StatsUnlock, Basis, CallRecords, AllocRecords
<1>2. Shape'
  <2> SUFFICES ASSUME NEW v \in Threads PROVE (CallShape(v) /\ LockShape(v))'
    BY DEF Shape
  <2> USE DEF TypeOK, Shape, NoOrphan, Locks, Mutexes, Constructing
  <2>1. CallShape(v)'
    BY DEF CallShape
  <2>2. LockShape(v)'
    BY DEF CallShape, LockShape
  <2> QED BY <2>1, <2>2
<1>3. NoOrphan'
  BY DEF TypeOK, NoOrphan, Shape, CallShape, Constructing
<1>4. RegistryConsistent'
  BY DEF TypeOK, RegistryConsistent, Shape, CallShape, Constructing
<1> QED BY <1>1, <1>2, <1>3, <1>4

-----------------------------------------------------------------------------
(* The basis is inductive *)

\* Every state of the model is one of the basis.
LEMMA BasisInit == Init => Basis
<1> SUFFICES ASSUME Init PROVE Basis
  OBVIOUS
<1> USE Nulls DEF Init
<1>1. TypeOK
  BY DEF TypeOK, Mutexes, Ids
<1>2. /\ \A t \in Threads : call[t].at = "idle" /\ call[t].self = NULL
      /\ \A a \in Allocs : alloc[a].state = "free"
      /\ \A m \in Mutexes : holder[m] = NULL
  OBVIOUS
<1>3. Shape
  BY <1>2 DEF Shape, CallShape, LockShape, Constructing, Mutexes
<1>4. NoOrphan
  BY <1>2 DEF NoOrphan
<1>5. RegistryConsistent
  BY <1>2 DEF RegistryConsistent
<1> QED BY <1>1, <1>3, <1>4, <1>5 DEF Basis

\* A null table stops everything, and changes nothing but crashed.
LEMMA BasisNullTable ==
    ASSUME Basis, NEW t \in Threads, NullTable(t)
    PROVE  Basis'
BY DEF NullTable, Basis, TypeOK, Shape, CallShape, LockShape, NoOrphan, RegistryConsistent

\* Every step keeps the basis, one lemma for each action.
LEMMA BasisStep == Basis /\ [Next]_vars => Basis'
<1> SUFFICES ASSUME Basis, [Next]_vars PROVE Basis'
  OBVIOUS
<1>1. CASE UNCHANGED vars
  BY <1>1 DEF vars, Basis, TypeOK, Shape, CallShape, LockShape, NoOrphan, RegistryConsistent
<1>2. ASSUME NEW t \in Threads, NullTable(t) PROVE Basis'
  BY <1>2, BasisNullTable
<1>3. ASSUME NEW t \in Threads, CallStep(t), UNCHANGED crashed PROVE Basis'
  <2>1. CASE FirstCheck(t)
    BY <1>3, <2>1, BasisFirstCheck
  <2>2. CASE SecondCheck(t)
    BY <1>3, <2>2, BasisSecondCheck
  <2>3. CASE Publish(t)
    BY <1>3, <2>3, BasisPublish
  <2>4. CASE TakeId(t)
    BY <1>3, <2>4, BasisTakeId
  <2>5. CASE TakeStorage(t)
    BY <1>3, <2>5, BasisTakeStorage
  <2>6. CASE ConstructorThrows(t)
    BY <1>3, <2>6, BasisConstructorThrows
  <2>7. CASE StoreSlot(t)
    BY <1>3, <2>7, BasisStoreSlot
  <2>8. CASE NoTable(t)
    BY <1>3, <2>8, BasisNoTable
  <2>9. CASE NewObject(t)
    BY <1>3, <2>9, BasisNewObject
  <2>10. CASE NoObject(t)
    BY <1>3, <2>10, BasisNoObject
  <2>11. CASE Emplace(t)
    BY <1>3, <2>11, BasisEmplace
  <2>12. CASE EmplaceDropsNode(t)
    BY <1>3, <2>12, BasisEmplaceDropsNode
  <2>13. CASE EmplaceThrows(t)
    BY <1>3, <2>13, BasisEmplaceThrows
  <2>14. CASE Deleter(t)
    BY <1>3, <2>14, BasisDeleter
  <2>15. CASE DeleteId(t)
    BY <1>3, <2>15, BasisDeleteId
  <2>16. CASE StatsUnlock(t)
    BY <1>3, <2>16, BasisStatsUnlock
  <2> QED
    BY <1>3, <2>1, <2>2, <2>3, <2>4, <2>5, <2>6, <2>7, <2>8, <2>9, <2>10, <2>11,
       <2>12, <2>13, <2>14, <2>15, <2>16 DEF CallStep
<1>4. ASSUME NEW t \in Threads, ClientStep(t), UNCHANGED crashed PROVE Basis'
  <2>1. CASE GetSingleton(t)
    BY <1>4, <2>1, BasisGetSingleton
  <2>2. CASE ClientThreadLocal(t)
    BY <1>4, <2>2, BasisClientThreadLocal
  <2>3. CASE StatsLock(t)
    BY <1>4, <2>3, BasisStatsLock
  <2>4. ASSUME NEW n \in Names, NameFree(t, n) PROVE Basis'
    BY <1>4, <2>4, BasisNameFree
  <2>5. ASSUME NEW a \in Allocs, Destroy(t, a) PROVE Basis'
    BY <1>4, <2>5, BasisDestroy
  <2> QED
    BY <1>4, <2>1, <2>2, <2>3, <2>4, <2>5 DEF ClientStep
<1> QED BY <1>1, <1>2, <1>3, <1>4 DEF Next

\* The basis holds in every reachable state.
LEMMA BasisAlways == Spec => []Basis
BY BasisInit, BasisStep, PTL DEF Spec

-----------------------------------------------------------------------------
(* What is proved of the program *)

\* The variables keep their types: no call works on an allocator, an id or a
\* name that does not exist. (allocator_impl.cpp:151-313)
THEOREM TypeCorrect == Spec => []TypeOK
BY BasisAlways, PTL DEF Basis

\* The name map and the allocators agree, for any number of threads and names.
\* (allocator_impl.cpp:177-208, 227-233)
THEOREM RegistryAlwaysConsistent == Spec => []RegistryConsistent
BY BasisAlways, PTL DEF Basis

\* No failing call loses an allocator, and no two calls work on one.
\* (allocator.h:77-86, allocator_impl.cpp:191-213)
THEOREM NeverOrphan == Spec => []NoOrphan
BY BasisAlways, PTL DEF Basis

\* What a thread waits for, by where it is.
LEMMA LocksAt ==
    ASSUME NEW t
    PROVE  /\ call[t].at \in Constructing \cup {"publish"}
                 => Locks(t) \subseteq {"s_mutex", "tlMutex"}
           /\ call[t].at = "deleter" => Locks(t) \subseteq {"s_mutex"}
           /\ call[t].at = "deleter" /\ ~Stored(t) => Locks(t) = {}
           /\ call[t].at = "deleteId" => Locks(t) = {"tlMutex"}
           /\ call[t].at = "stats" => Locks(t) = {}
           /\ Locks(t) \subseteq Mutexes
BY DEF Locks, Constructing, Mutexes

\* Where a thread can hold a mutex decides what it can still wait for.
LEMMA BasisLockOrder == Basis => LockOrder
<1> SUFFICES ASSUME Basis, NEW t \in Threads, NEW m \in Mutexes, NEW n \in Locks(t),
                    holder[m] = t
             PROVE  Rank[m] < Rank[n] \/ SelfDeadlocked(t)
  BY DEF LockOrder
<1> USE LocksAt
<1>0. LockShape(t)
  BY DEF Basis, Shape
<1>1. CASE m = "singletonMutex"
  <2>1. n \in {"s_mutex", "tlMutex"}
    BY <1>0, <1>1 DEF LockShape
  <2> QED BY <1>1, <2>1 DEF Rank
<1>2. CASE m = "s_mutex"
  <2>1. CASE call[t].at = "deleteId"
    BY <1>2, <2>1 DEF Rank
  <2>2. CASE call[t].at = "deleter"
    BY <1>2, <2>2 DEF SelfDeadlocked
  <2> QED BY <1>0, <1>2, <2>1, <2>2 DEF LockShape
<1>3. CASE m = "tlMutex"
  BY <1>0, <1>3 DEF LockShape
<1> QED BY <1>1, <1>2, <1>3 DEF Mutexes

\* The mutexes are locked in one order, but for the deleter's second lock of
\* s_mutex. (allocator_impl.cpp:227-232, 252-255)
THEOREM LocksOrdered == Spec => []LockOrder
BY BasisAlways, BasisLockOrder, PTL

\* The holder of the last mutex in the order can go on.
LEMMA BasisNoOtherDeadlock == Basis => OnlySelfDeadlock
<1> SUFFICES ASSUME Basis, \A t \in Threads : ~SelfDeadlocked(t),
                    NEW w \in Threads, ~At(w, "idle")
             PROVE  \E t \in Threads : ~At(t, "idle") /\ CanLock(t)
  BY DEF OnlySelfDeadlock
<1> USE LocksAt
<1>0. \A t \in Threads : LockShape(t)
  BY DEF Basis, Shape
<1>1. \A m \in Mutexes : holder[m] \in Threads \/ holder[m] = NULL
  BY DEF Basis, TypeOK
<1>2. CASE holder["tlMutex"] \in Threads
  <2> DEFINE t == holder["tlMutex"]
  <2>1. call[t].at = "stats"
    BY <1>0, <1>2 DEF LockShape
  <2> QED BY <1>2, <2>1
<1>3. CASE holder["tlMutex"] = NULL /\ holder["s_mutex"] \in Threads
  <2> DEFINE t == holder["s_mutex"]
  <2>1. call[t].at \in {"deleter", "deleteId"}
    BY <1>0, <1>3 DEF LockShape
  <2>2. call[t].at = "deleter" => ~Stored(t)
    BY <1>3 DEF SelfDeadlocked
  <2> QED BY <1>3, <2>1, <2>2
<1>4. CASE holder["tlMutex"] = NULL /\ holder["s_mutex"] = NULL
           /\ holder["singletonMutex"] \in Threads
  <2> DEFINE t == holder["singletonMutex"]
  <2>1. call[t].at \in Constructing \cup {"publish"}
    BY <1>0, <1>4 DEF LockShape
  <2>2. call[t].at # "idle"
    BY <2>1 DEF Constructing
  <2> QED BY <1>4, <2>1, <2>2
<1>5. CASE \A m \in Mutexes : holder[m] = NULL
  BY <1>5
<1> QED BY <1>1, <1>2, <1>3, <1>4, <1>5 DEF Mutexes

\* However many threads there are, no set of them waits for each other: only
\* the deleter can wait for itself. (allocator_impl.cpp:151-313)
THEOREM NoOtherDeadlock == Spec => []OnlySelfDeadlock
BY BasisAlways, BasisNoOtherDeadlock, PTL

\* The singleton is built once and never replaced, and the thread that assigns
\* it holds its mutex. (allocator_impl.cpp:243-271)
THEOREM SingletonBuiltOnce == Spec => OneSingleton
<1>1. ASSUME Basis, [Next]_vars
      PROVE  [/\ s_pAllocator # NULL => s_pAllocator' = s_pAllocator
              /\ s_pAllocator # s_pAllocator' => holder["singletonMutex"] = s_pAllocator']_vars
  <2>1. CASE UNCHANGED vars
    BY <2>1
  <2>2. ASSUME NEW t \in Threads, Publish(t)
        PROVE  s_pAllocator = NULL /\ holder["singletonMutex"] = s_pAllocator'
    BY <1>1, <2>2 DEF Publish, Basis, Shape, LockShape
  <2>3. ASSUME NEW t \in Threads, ~Publish(t), CallStep(t) \/ ClientStep(t) \/ NullTable(t)
        PROVE  UNCHANGED s_pAllocator
    BY <2>3 DEF CallStep, ClientStep, NullTable, FirstCheck, SecondCheck, TakeId,
                TakeStorage, ConstructorThrows, Throw, StoreSlot, NoTable, NewObject,
                NoObject, Emplace, EmplaceDropsNode, EmplaceThrows, Deleter, DeleteId,
                StatsUnlock, GetSingleton, ClientThreadLocal, StatsLock, NameFree, Destroy
  <2> QED BY <1>1, <2>1, <2>2, <2>3 DEF Next
<1> QED BY <1>1, BasisAlways, PTL DEF Spec, OneSingleton

-----------------------------------------------------------------------------
(* Instance ids.  An id in use may be leaked, but it has at most one of an *)
(* allocator and a constructor in progress; other actions leave ids alone. *)

\* The constructor t is in has taken an id that it has not stored.
Taken(t) == call[t].at \in {"takeStorage", "storeSlot"}

IdInv ==
    /\ \A a \in Allocs : alloc[a].id \in Ids => alloc[a].id \in usedIds
    /\ \A a, b \in Allocs : alloc[a].id = alloc[b].id /\ alloc[a].id \in Ids => a = b
    /\ \A t \in Threads : Taken(t) => /\ call[t].uId \in usedIds
                                     /\ \A a \in Allocs : alloc[a].id # call[t].uId
    /\ \A t, u \in Threads : Taken(t) /\ Taken(u) /\ call[t].uId = call[u].uId => t = u
    /\ \A a \in Allocs : alloc[a].state \in {"registered", "dying"} => alloc[a].id \in Ids
    /\ \A t \in Threads : call[t].at = "emplace" => alloc[call[t].self].id \in Ids

\* What the basis says of the ids and the allocators of calls.
LEMMA IdBasis ==
    ASSUME Basis
    PROVE  /\ usedIds \subseteq Ids /\ kMaxInstanceId \notin Ids
           /\ call \in [Threads -> CallRecords] /\ alloc \in [Allocs -> AllocRecords]
           /\ \A t \in Threads :
                 /\ Taken(t) => call[t].uId \in Ids
                 /\ call[t].self \in Allocs \cup {NULL}
                 /\ call[t].at \in {"emplace", "deleter", "deleteId"} => call[t].self \in Allocs
                 /\ call[t].at \in Constructing \cup {"emplace"} /\ call[t].self # NULL
                      => alloc[call[t].self].state = "building"
           /\ \A t, u \in Threads : call[t].self = call[u].self /\ call[t].self # NULL => t = u
<1>1. kMaxInstanceId \notin Ids
  BY Nulls DEF Ids
<1> QED BY <1>1, FieldTypes DEF Basis, TypeOK, Shape, CallShape, NoOrphan, Taken

\* A step that changes no ids, and neither registers nor destroys an
\* allocator whose id is not stored.
LEMMA IdKept ==
    ASSUME Basis, IdInv, UNCHANGED usedIds,
           \A a \in Allocs : alloc'[a].id = alloc[a].id,
           \A a \in Allocs : alloc'[a].state \in {"registered", "dying"} => alloc[a].id \in Ids,
           \A t \in Threads : Taken(t)' => Taken(t) /\ call'[t].uId = call[t].uId,
           \A t \in Threads : call'[t].at = "emplace" => call'[t] = call[t]
    PROVE  IdInv'
<1>1. \A t \in Threads : call'[t].at = "emplace" => call'[t].self \in Allocs
  BY IdBasis
<1> QED BY <1>1 DEF IdInv

LEMMA IdTakeId ==
    ASSUME Basis, IdInv, NEW t \in Threads, TakeId(t)
    PROVE  IdInv'
<1>1. PICK u \in FreeIds : /\ usedIds' = usedIds \cup {u}
                          /\ call' = [call EXCEPT ![t].at = "takeStorage", ![t].uId = u]
  BY DEF TakeId
<1>2. /\ u \in Ids /\ u \notin usedIds /\ alloc' = alloc
      /\ u \in usedIds' /\ usedIds \subseteq usedIds'
  BY <1>1 DEF TakeId, FreeIds
<1>3. /\ call'[t].at = "takeStorage" /\ call'[t].uId = u
      /\ \A v \in Threads \ {t} : call'[v] = call[v]
  BY <1>1, IdBasis DEF CallRecords
<1>4. \A a \in Allocs : alloc[a].id # u
  BY <1>2 DEF IdInv
<1>5. \A v \in Threads \ {t} : Taken(v)' => Taken(v) /\ call'[v].uId # u
  BY <1>2, <1>3 DEF IdInv, Taken
<1>6. \A v, w \in Threads :
          Taken(v)' /\ Taken(w)' /\ call'[v].uId = call'[w].uId => v = w
  BY <1>3, <1>5 DEF IdInv
<1>7. \A v \in Threads : Taken(v)' => /\ call'[v].uId \in usedIds'
                                     /\ \A a \in Allocs : alloc'[a].id # call'[v].uId
  <2>1. call'[t].uId \in usedIds' /\ \A a \in Allocs : alloc'[a].id # call'[t].uId
    BY <1>2, <1>3, <1>4
  <2>2. ASSUME NEW v \in Threads \ {t}, Taken(v)'
        PROVE  call'[v].uId \in usedIds' /\ \A a \in Allocs : alloc'[a].id # call'[v].uId
    BY <1>2, <1>3, <2>2 DEF IdInv, Taken
  <2> QED BY <2>1, <2>2
<1>8. \A v \in Threads : call'[v].at = "emplace" => alloc'[call'[v].self].id \in Ids
  BY <1>2, <1>3 DEF IdInv
<1> QED BY <1>2, <1>6, <1>7, <1>8 DEF IdInv

\* The constructor of t ends by an exception, with its id or without.
LEMMA IdThrow ==
    ASSUME Basis, IdInv, NEW t \in Threads, Throw(t),
           \/ UNCHANGED usedIds
           \/ Taken(t) /\ ReleaseId(call[t].uId),
           call[t].at \in Constructing
    PROVE  IdInv'
<1>1. /\ ~Taken(t)' /\ call'[t].at # "emplace"
      /\ \A v \in Threads \ {t} : call'[v] = call[v]
  BY IdBasis, Nulls DEF Throw, Taken
<1>2. \A a \in Allocs : alloc'[a] = alloc[a] \/ (alloc'[a] = NoAlloc /\ a = call[t].self)
  BY DEF Throw
<1>3. \A a \in Allocs : alloc'[a].id \in Ids => alloc'[a] = alloc[a]
  BY <1>2, IdBasis, Nulls
<1>4. \A a \in Allocs : alloc'[a].id \in Ids => alloc'[a].id \in usedIds'
  BY <1>3 DEF IdInv, ReleaseId
<1>5. \A v \in Threads : Taken(v)' => /\ v # t /\ Taken(v) /\ call'[v] = call[v]
                                     /\ call[v].uId \in Ids /\ call[v].uId \in usedIds'
  BY <1>1, IdBasis DEF IdInv, ReleaseId, Taken
<1>6. \A v \in Threads : Taken(v)' => \A a \in Allocs : alloc'[a].id # call'[v].uId
  BY <1>3, <1>5 DEF IdInv
<1>7. \A a \in Allocs : alloc'[a].state \in {"registered", "dying"} => alloc'[a].id \in Ids
  BY <1>2, Nulls DEF IdInv
<1>8. \A v \in Threads : call'[v].at = "emplace" => alloc'[call'[v].self].id \in Ids
  BY <1>1, <1>2, IdBasis, Nulls DEF IdInv
<1> QED BY <1>3, <1>4, <1>5, <1>6, <1>7, <1>8 DEF IdInv

LEMMA IdStoreSlot ==
    ASSUME Basis, IdInv, NEW t \in Threads, StoreSlot(t)
    PROVE  IdInv'
<1> DEFINE u == call[t].uId
           b == call[t].self
<1>1. Taken(t) /\ u \in Ids /\ u \in usedIds /\ UNCHANGED usedIds
  BY IdBasis DEF StoreSlot, Taken, IdInv
<1>2. /\ ~Taken(t)' /\ (call'[t].at = "emplace" => b \in Allocs /\ call'[t].self = b)
      /\ \A v \in Threads \ {t} : call'[v] = call[v]
  BY IdBasis, Nulls DEF StoreSlot, Taken, CallRecords
<1>3. \A a \in Allocs : /\ alloc'[a].state = alloc[a].state
                       /\ alloc'[a].id = IF a = b THEN u ELSE alloc[a].id
  BY IdBasis DEF StoreSlot, AllocRecords
<1> HIDE DEF u, b
<1>4. \A a \in Allocs : alloc[a].id # u
  BY <1>1 DEF IdInv, u
<1>5. \A v \in Threads : Taken(v)' => /\ v # t /\ Taken(v) /\ call'[v] = call[v]
                                     /\ call[v].uId # u
  BY <1>1, <1>2 DEF IdInv, Taken, u
<1>6. \A v \in Threads : call'[v].at = "emplace" => alloc'[call'[v].self].id \in Ids
  BY <1>1, <1>2, <1>3, IdBasis DEF IdInv
<1> QED BY <1>1, <1>3, <1>4, <1>5, <1>6 DEF IdInv

LEMMA IdDeleteId ==
    ASSUME Basis, IdInv, NEW t \in Threads, DeleteId(t)
    PROVE  IdInv'
<1> DEFINE b == call[t].self
<1>1. b \in Allocs /\ usedIds' = usedIds \ {alloc[b].id}
  BY IdBasis DEF DeleteId, ReleaseId
<1>2. alloc[b].id \in Ids
  BY <1>1 DEF DeleteId, Basis, Shape, CallShape, IdInv
<1>3. /\ ~Taken(t)' /\ call'[t].at # "emplace"
      /\ \A v \in Threads \ {t} : call'[v] = call[v] /\ call[v].self # b
  BY <1>1, IdBasis, Nulls DEF DeleteId, Taken
<1>4. \A a \in Allocs : alloc'[a] = IF a = b THEN NoAlloc ELSE alloc[a]
  BY IdBasis DEF DeleteId
<1> HIDE DEF b
<1>5. \A a \in Allocs : alloc'[a].id \in Ids
          => a # b /\ alloc'[a] = alloc[a] /\ alloc[a].id \in usedIds'
  BY <1>1, <1>2, <1>4, IdBasis, Nulls DEF IdInv
<1>6. \A v \in Threads : Taken(v)' => /\ v # t /\ Taken(v) /\ call'[v] = call[v]
                                     /\ call[v].uId \in Ids /\ call[v].uId \in usedIds'
  BY <1>1, <1>3, IdBasis DEF IdInv, Taken
<1>7. \A v \in Threads : Taken(v)' => \A a \in Allocs : alloc'[a].id # call'[v].uId
  BY <1>5, <1>6 DEF IdInv
<1>8. \A a \in Allocs : alloc'[a].state \in {"registered", "dying"} => alloc'[a].id \in Ids
  BY <1>4, Nulls DEF IdInv
<1>9. \A v \in Threads : call'[v].at = "emplace" => alloc'[call'[v].self].id \in Ids
  BY <1>3, <1>4, IdBasis DEF IdInv
<1> QED BY <1>5, <1>6, <1>7, <1>8, <1>9 DEF IdInv

\* The actions that IdKept covers.
LEMMA IdOthers ==
    ASSUME Basis, IdInv, NEW t \in Threads, CallStep(t) \/ ClientStep(t),
           ~TakeId(t), ~ConstructorThrows(t), ~StoreSlot(t), ~NoTable(t), ~DeleteId(t)
    PROVE  IdInv'
<1>1. \/ FirstCheck(t) \/ SecondCheck(t) \/ Publish(t) \/ TakeStorage(t) \/ NewObject(t)
      \/ NoObject(t) \/ Emplace(t) \/ EmplaceDropsNode(t) \/ EmplaceThrows(t)
      \/ Deleter(t) \/ StatsUnlock(t) \/ StatsLock(t) \/ GetSingleton(t)
      \/ ClientThreadLocal(t) \/ (\E n \in Names : NameFree(t, n))
      \/ (\E a \in Allocs : Destroy(t, a))
  BY DEF CallStep, ClientStep
<1>2. UNCHANGED usedIds
  BY <1>1 DEF FirstCheck, SecondCheck, Publish, TakeStorage, NewObject, NoObject, Emplace,
              EmplaceDropsNode, EmplaceThrows, Deleter, StatsUnlock, StatsLock,
              GetSingleton, ClientThreadLocal, NameFree, Destroy
<1>3. /\ \A a \in Allocs : alloc'[a].id = alloc[a].id
      /\ \A a \in Allocs : alloc'[a].state \in {"registered", "dying"} => alloc[a].id \in Ids
  <2>1. CASE Emplace(t) \/ EmplaceDropsNode(t) \/ EmplaceThrows(t)
    <3>1. call[t].self \in Allocs /\ alloc[call[t].self].id \in Ids
      BY <2>1, IdBasis DEF Emplace, EmplaceDropsNode, EmplaceThrows, IdInv
    <3>2. \E st \in {"registered", "dying"} : alloc' = [alloc EXCEPT ![call[t].self].state = st]
      BY <2>1 DEF Emplace, EmplaceDropsNode, EmplaceThrows
    <3>3. \A a \in Allocs : alloc'[a].id = alloc[a].id
      BY <3>1, <3>2, IdBasis DEF AllocRecords
    <3>4. \A a \in Allocs : a = call[t].self \/ alloc'[a] = alloc[a]
      BY <3>1, <3>2, IdBasis
    <3> QED BY <3>1, <3>3, <3>4 DEF IdInv
  <2>2. ASSUME NEW b \in Allocs, Destroy(t, b)
        PROVE  /\ \A a \in Allocs : alloc'[a].id = alloc[a].id
               /\ \A a \in Allocs : alloc'[a].state \in {"registered", "dying"}
                      => alloc[a].id \in Ids
    BY <2>2, IdBasis DEF Destroy, AllocRecords, IdInv
  <2>3. CASE NewObject(t)
    BY <2>3, IdBasis DEF NewObject, AllocRecords, IdInv
  <2>4. CASE UNCHANGED alloc
    BY <2>4 DEF IdInv
  <2> QED BY <1>1, <2>1, <2>2, <2>3, <2>4
          DEF FirstCheck, SecondCheck, Publish, TakeStorage, NoObject, Deleter, StatsUnlock,
              StatsLock, GetSingleton, ClientThreadLocal, NameFree
<1>4. /\ \A v \in Threads \ {t} : call'[v] = call[v]
      /\ call'[t].at # "emplace"
      /\ Taken(t)' => Taken(t) /\ call'[t].uId = call[t].uId
  <2> USE IdBasis, Nulls DEF CallRecords, Taken
  <2>1. CASE FirstCheck(t) \/ SecondCheck(t) \/ Publish(t)
    BY <2>1 DEF FirstCheck, SecondCheck, Publish, SingletonReady
  <2>2. CASE TakeStorage(t) \/ GetSingleton(t) \/ ClientThreadLocal(t)
    BY <2>2 DEF TakeStorage, GetSingleton, ClientThreadLocal
  <2>3. CASE NewObject(t)
    BY <2>3 DEF NewObject
  <2>4. CASE NoObject(t) \/ Emplace(t) \/ StatsUnlock(t)
    BY <2>4 DEF NoObject, Emplace, StatsUnlock
  <2>5. CASE EmplaceDropsNode(t) \/ EmplaceThrows(t) \/ Deleter(t) \/ StatsLock(t)
    BY <2>5 DEF EmplaceDropsNode, EmplaceThrows, Deleter, StatsLock
  <2>6. CASE \E n \in Names : NameFree(t, n)
    BY <2>6 DEF NameFree
  <2>7. CASE \E a \in Allocs : Destroy(t, a)
    BY <2>7 DEF Destroy
  <2> QED BY <1>1, <2>1, <2>2, <2>3, <2>4, <2>5, <2>6, <2>7
<1>5. /\ \A v \in Threads : Taken(v)' => Taken(v) /\ call'[v].uId = call[v].uId
      /\ \A v \in Threads : call'[v].at = "emplace" => call'[v] = call[v]
  BY <1>4 DEF Taken
<1> QED BY <1>2, <1>3, <1>5, IdKept

LEMMA IdStep == Basis /\ IdInv /\ [Next]_vars => IdInv'
<1> SUFFICES ASSUME Basis, IdInv, [Next]_vars PROVE IdInv'
  OBVIOUS
<1>1. CASE UNCHANGED vars
  BY <1>1 DEF vars, IdInv, Taken
<1>2. ASSUME NEW t \in Threads, NullTable(t) PROVE IdInv'
  BY <1>2 DEF NullTable, IdInv, Taken
<1>3. ASSUME NEW t \in Threads, CallStep(t) \/ ClientStep(t) PROVE IdInv'
  <2>1. CASE ConstructorThrows(t)
    BY <2>1, IdThrow DEF ConstructorThrows, Constructing
  <2>2. CASE NoTable(t)
    BY <2>2, IdThrow DEF NoTable, Constructing, Taken
  <2> QED BY <1>3, <2>1, <2>2, IdTakeId, IdStoreSlot, IdDeleteId, IdOthers
<1> QED BY <1>1, <1>2, <1>3 DEF Next

\* Every registered allocator has an id of its own, in use, for any number of
\* threads, allocators and ids, and whatever constructions fail.
\* (allocator_impl.cpp:190, lldk_thread_local.h:85-108)
THEOREM OwnInstanceIdAlways == Spec => []OwnInstanceId
<1>1. Init => IdInv
  BY Nulls DEF Init, IdInv, Taken, Ids
<1>2. IdInv => OwnInstanceId
  BY DEF IdInv, OwnInstanceId
<1> QED BY <1>1, <1>2, IdStep, BasisAlways, PTL DEF Spec

-----------------------------------------------------------------------------
(* The registry implements a name table.  Emplace registers and Destroy    *)
(* withdraws; other steps pass an allocator or a name to a call, take them *)
(* back at its end, or change neither.                                     *)

Wants == [t \in Threads |-> call[t].name]
Hands == [t \in Threads |-> call[t].self]

\* A thread that makes no call is creating nothing.
IdleInv == \A t \in Threads : call[t].at = "idle" => call[t].name = NULL

\* An allocator that is built or registered has a name.
NamedInv == \A a \in Allocs : alloc[a].state # "free" => alloc[a].name # NULL

\* A call goes on with its name and allocator, and is not idle.
GoesOn(t) == \E at \in Locations \ {"idle"}, u \in 0 .. kMaxInstanceId :
                call' = [call EXCEPT ![t].at = at, ![t].uId = u]

\* Steps that neither begin nor end the use of a name or of an allocator.
LEMMA StepsGoOn ==
    ASSUME Basis, NEW t \in Threads, CallStep(t) \/ ClientStep(t)
    PROVE  \/ GoesOn(t) /\ UNCHANGED s_pAllocatorMap
           \/ Return(t) /\ UNCHANGED s_pAllocatorMap
           \/ \E n \in Names : NameFree(t, n)
           \/ NewObject(t) \/ Emplace(t)
           \/ \E a \in Allocs : Destroy(t, a)
<1>1. call \in [Threads -> CallRecords] /\ call[t].uId \in 0 .. kMaxInstanceId
  BY FieldTypes DEF Basis, TypeOK
<1>2. ASSUME NEW at \in Locations \ {"idle"}, Goto(t, at) PROVE GoesOn(t)
  <2>1. call' = [call EXCEPT ![t].at = at, ![t].uId = call[t].uId]
    BY <1>1, <1>2 DEF CallRecords
  <2> QED BY <1>1, <2>1 DEF GoesOn
<1>3. SingletonReady(t) => Return(t) \/ GoesOn(t)
  BY <1>2 DEF SingletonReady, Locations
<1>4. TakeId(t) => GoesOn(t)
  <2> SUFFICES ASSUME TakeId(t) PROVE GoesOn(t)
    OBVIOUS
  <2>1. PICK u \in FreeIds : call' = [call EXCEPT ![t].at = "takeStorage", ![t].uId = u]
    BY DEF TakeId
  <2>2. u \in 0 .. kMaxInstanceId
    BY Nulls DEF FreeIds, Ids
  <2> QED BY <2>1, <2>2 DEF GoesOn, Locations
<1>5. FirstCheck(t) \/ SecondCheck(t) \/ Publish(t) => Return(t) \/ GoesOn(t)
  BY <1>2, <1>3 DEF FirstCheck, SecondCheck, Publish, Locations
<1>6. \/ TakeStorage(t) \/ EmplaceDropsNode(t) \/ EmplaceThrows(t) \/ Deleter(t)
      \/ GetSingleton(t) \/ ClientThreadLocal(t) \/ StatsLock(t)
      => GoesOn(t)
  BY <1>2 DEF TakeStorage, EmplaceDropsNode, EmplaceThrows, Deleter, GetSingleton,
              ClientThreadLocal, StatsLock, Locations
<1>7. StoreSlot(t) => Return(t) \/ GoesOn(t)
  BY <1>2 DEF StoreSlot, Locations
<1>8. ConstructorThrows(t) \/ NoTable(t) \/ NoObject(t) \/ DeleteId(t) \/ StatsUnlock(t)
      => Return(t)
  BY DEF ConstructorThrows, NoTable, Throw, NoObject, DeleteId, StatsUnlock
<1>9. \/ FirstCheck(t) \/ SecondCheck(t) \/ Publish(t) \/ TakeId(t) \/ TakeStorage(t)
      \/ EmplaceDropsNode(t) \/ EmplaceThrows(t) \/ Deleter(t) \/ GetSingleton(t)
      \/ ClientThreadLocal(t) \/ StatsLock(t) \/ StoreSlot(t) \/ ConstructorThrows(t)
      \/ NoTable(t) \/ NoObject(t) \/ DeleteId(t) \/ StatsUnlock(t)
      => UNCHANGED s_pAllocatorMap
  BY DEF FirstCheck, SecondCheck, Publish, TakeId, TakeStorage, EmplaceDropsNode,
         EmplaceThrows, Deleter, GetSingleton, ClientThreadLocal, StatsLock, StoreSlot,
         ConstructorThrows, NoTable, Throw, NoObject, DeleteId, StatsUnlock
<1> HIDE DEF Return
<1> QED BY <1>4, <1>5, <1>6, <1>7, <1>8, <1>9 DEF CallStep, ClientStep

LEMMA IdleStep == Basis /\ IdleInv /\ [Next]_vars => IdleInv'
<1> SUFFICES ASSUME Basis, IdleInv, [Next]_vars, NEW v \in Threads,
                    call'[v].at = "idle"
             PROVE  call'[v].name = NULL
  BY DEF IdleInv
<1>0. call \in [Threads -> CallRecords] /\ (call[v].at = "idle" => call[v].name = NULL)
  BY DEF Basis, TypeOK, IdleInv
<1>1. CASE UNCHANGED call
  BY <1>0, <1>1
<1>2. ASSUME NEW t \in Threads, GoesOn(t) PROVE call'[v].name = NULL
  BY <1>0, <1>2 DEF GoesOn, CallRecords
<1>3. ASSUME NEW t \in Threads, Return(t) PROVE call'[v].name = NULL
  BY <1>0, <1>3, Nulls
<1>4. ASSUME NEW t \in Threads, NEW n \in Names, NameFree(t, n) PROVE call'[v].name = NULL
  BY <1>0, <1>4 DEF NameFree, CallRecords
<1>5. ASSUME NEW t \in Threads, NewObject(t) PROVE call'[v].name = NULL
  BY <1>0, <1>5 DEF NewObject, CallRecords
<1>6. ASSUME NEW t \in Threads, Emplace(t) PROVE call'[v].name = NULL
  BY <1>3, <1>6 DEF Emplace
<1>7. ASSUME NEW t \in Threads, NEW a \in Allocs, Destroy(t, a) PROVE call'[v].name = NULL
  BY <1>0, <1>7 DEF Destroy, CallRecords
<1>8. UNCHANGED vars => UNCHANGED call
  BY DEF vars
<1>9. \A t \in Threads : NullTable(t) => UNCHANGED call
  BY DEF NullTable
<1> HIDE DEF Return
<1> QED BY <1>1, <1>2, <1>3, <1>4, <1>5, <1>6, <1>7, <1>8, <1>9, StepsGoOn DEF Next

LEMMA NamedStep == Basis /\ NamedInv /\ [Next]_vars => NamedInv'
<1> SUFFICES ASSUME Basis, NamedInv, [Next]_vars, NEW a \in Allocs,
                    alloc'[a].state # "free"
             PROVE  alloc'[a].name # NULL
  BY DEF NamedInv
<1>0. alloc \in [Allocs -> AllocRecords] /\ (alloc[a].state # "free" => alloc[a].name # NULL)
  BY DEF Basis, TypeOK, NamedInv
<1>1. CASE alloc'[a].state = alloc[a].state /\ alloc'[a].name = alloc[a].name
  BY <1>0, <1>1
<1>2. ASSUME NEW t \in Threads, ConstructorThrows(t) \/ NoTable(t) \/ DeleteId(t)
      PROVE  alloc'[a].name # NULL
  BY <1>0, <1>2, Nulls DEF ConstructorThrows, NoTable, Throw, DeleteId
<1>3. ASSUME NEW t \in Threads, NewObject(t) PROVE alloc'[a].name # NULL
  BY <1>0, <1>3 DEF NewObject, AllocRecords, Basis, Shape, CallShape
<1>4. ASSUME NEW t \in Threads, Emplace(t) \/ EmplaceDropsNode(t) \/ EmplaceThrows(t)
      PROVE  alloc'[a].name # NULL
  <2>1. alloc[call[t].self].state = "building"
    BY <1>4 DEF Emplace, EmplaceDropsNode, EmplaceThrows, Basis, Shape, CallShape
  <2> QED BY <1>0, <1>4, <2>1 DEF Emplace, EmplaceDropsNode, EmplaceThrows, AllocRecords
<1>5. ASSUME NEW t \in Threads, NEW d \in Allocs, Destroy(t, d) PROVE alloc'[a].name # NULL
  BY <1>0, <1>5 DEF Destroy, AllocRecords
<1>6. ASSUME NEW t \in Threads, StoreSlot(t) PROVE alloc'[a].name # NULL
  BY <1>0, <1>6 DEF StoreSlot, AllocRecords
<1>7. ASSUME UNCHANGED alloc PROVE alloc'[a].name # NULL
  BY <1>1, <1>7
<1>8. ASSUME NEW t \in Threads, CallStep(t) \/ ClientStep(t) \/ NullTable(t)
      PROVE  \/ UNCHANGED alloc
             \/ ConstructorThrows(t) \/ NoTable(t) \/ DeleteId(t) \/ NewObject(t)
             \/ Emplace(t) \/ EmplaceDropsNode(t) \/ EmplaceThrows(t)
             \/ StoreSlot(t) \/ \E d \in Allocs : Destroy(t, d)
  BY <1>8 DEF CallStep, ClientStep, NullTable, FirstCheck, SecondCheck, TakeId, Publish,
              TakeStorage, NoObject, Deleter, StatsUnlock, GetSingleton, ClientThreadLocal,
              StatsLock, NameFree
<1>9. UNCHANGED vars => UNCHANGED alloc
  BY DEF vars
<1> QED BY <1>2, <1>3, <1>4, <1>5, <1>6, <1>7, <1>8, <1>9 DEF Next

LEMMA TableBusy ==
    ASSUME NEW t \in Threads
    PROVE  Table!Busy(t) <=> call[t].name # NULL \/ call[t].self # NULL
BY Zenon DEF Table!Busy

LEMMA TablePasses ==
    ASSUME NEW t \in Threads, \A v \in Threads \ {t} : call'[v] = call[v]
    PROVE  /\ Wants' = [Wants EXCEPT ![t] = call'[t].name]
           /\ Hands' = [Hands EXCEPT ![t] = call'[t].self]
BY DEF Wants, Hands

LEMMA TableInit == Init => Table!Init
BY Nulls DEF Init, Table!Init

\* Every step is one of the name table, or none.
LEMMA TableStep == Basis /\ IdleInv /\ NamedInv /\ [Next]_vars => [Table!Next]_(Table!vars)
<1> SUFFICES ASSUME Basis, IdleInv, NamedInv, [Next]_vars PROVE Table!Next \/ UNCHANGED Table!vars
  OBVIOUS
<1>0. /\ call \in [Threads -> CallRecords] /\ TypeOK
      /\ s_pAllocatorMap \in [Names -> Allocs \cup {NULL}]
  BY DEF Basis, TypeOK
<1>1. CASE UNCHANGED <<call, s_pAllocatorMap>>
  BY <1>1 DEF Table!vars
<1>2. ASSUME NEW t \in Threads, GoesOn(t), UNCHANGED s_pAllocatorMap
      PROVE  UNCHANGED Table!vars
  <2>1. \A v \in Threads : call'[v].name = call[v].name /\ call'[v].self = call[v].self
    BY <1>0, <1>2 DEF GoesOn, CallRecords
  <2> QED BY <1>2, <2>1 DEF Table!vars
<1>3. ASSUME NEW t \in Threads, Return(t), UNCHANGED s_pAllocatorMap
      PROVE  Table!Next \/ UNCHANGED Table!vars
  <2>1. /\ call'[t].name = NULL /\ call'[t].self = NULL
        /\ \A v \in Threads \ {t} : call'[v] = call[v]
    BY <1>0, <1>3, Nulls
  <2>2. CASE call[t].name = NULL /\ call[t].self = NULL
    BY <1>3, <2>1, <2>2 DEF Table!vars
  <2>3. CASE call[t].name # NULL \/ call[t].self # NULL
    <3>1. Table!Busy(t)
      BY <2>3, TableBusy
    <3>2. Table!Finish(t)
      BY <1>3, <2>1, <3>1, TablePasses, Zenon DEF Table!Finish, Wants, Hands
    <3> QED BY <3>2 DEF Table!Next
  <2> QED BY <2>2, <2>3
<1>4. ASSUME NEW t \in Threads, NEW n \in Names, NameFree(t, n) PROVE Table!Next
  <2>1. /\ call[t].name = NULL /\ call[t].self = NULL
        /\ s_pAllocatorMap[n] = NULL /\ UNCHANGED s_pAllocatorMap
    BY <1>4 DEF NameFree, NameIsFree, Basis, Shape, CallShape, IdleInv
  <2>2. /\ call'[t].name = n /\ call'[t].self = call[t].self
        /\ \A v \in Threads \ {t} : call'[v] = call[v]
    BY <1>0, <1>4 DEF NameFree, CallRecords
  <2>3. Table!Ask(t, n)
    BY <2>1, <2>2, TableBusy DEF Table!Ask
  <2> QED BY <2>3 DEF Table!Next
<1>5. ASSUME NEW t \in Threads, NewObject(t) PROVE Table!Next
  <2>1. PICK a \in Allocs :
             /\ alloc[a].state = "free"
             /\ call' = [call EXCEPT ![t].at = "takeId", ![t].self = a]
    BY <1>5 DEF NewObject
  <2>2. /\ call[t].name # NULL /\ call[t].self = NULL /\ UNCHANGED s_pAllocatorMap
    BY <1>5 DEF NewObject, Basis, Shape, CallShape
  <2>3. /\ call'[t].name = call[t].name /\ call'[t].self = a
        /\ \A v \in Threads \ {t} : call'[v] = call[v]
    BY <1>0, <2>1 DEF CallRecords
  <2>4. Table!Nobodys(a)
    <3>1. \A n \in Names : s_pAllocatorMap[n] # a
      BY <2>1, Nulls DEF Basis, RegistryConsistent
    <3>2. \A v \in Threads : call[v].self # a
      BY <2>1 DEF Basis, NoOrphan
    <3> QED BY <3>1, <3>2 DEF Table!Nobodys
  <2>5. Table!Obtain(t, a)
    BY <2>2, <2>3, <2>4 DEF Table!Obtain
  <2> QED BY <2>5 DEF Table!Next
<1>6. ASSUME NEW t \in Threads, Emplace(t) PROVE Table!Next
  <2>1. /\ call[t].self # NULL /\ call[t].name # NULL
        /\ s_pAllocatorMap[call[t].name] = NULL
        /\ s_pAllocatorMap' = [s_pAllocatorMap EXCEPT ![call[t].name] = call[t].self]
    BY <1>6 DEF Emplace, NameIsFree, Basis, Shape, CallShape
  <2>2. /\ call'[t].name = NULL /\ call'[t].self = NULL
        /\ \A v \in Threads \ {t} : call'[v] = call[v]
    BY <1>0, <1>6, Nulls DEF Emplace
  <2>3. Table!Register(t)
    BY <2>1, <2>2 DEF Table!Register
  <2> QED BY <2>3 DEF Table!Next
<1>7. ASSUME NEW t \in Threads, NEW a \in Allocs, Destroy(t, a) PROVE Table!Next
  <2>n. PICK n \in Names : n = alloc[a].name
    <3>1. alloc[a].name \in Names \cup {NULL}
      BY <1>0, FieldTypes
    <3>2. alloc[a].name # NULL
      BY <1>7 DEF Destroy, NamedInv
    <3> QED BY <3>1, <3>2
  <2>1. /\ s_pAllocatorMap[n] = a
        /\ s_pAllocatorMap' = [s_pAllocatorMap EXCEPT ![n] = NULL]
        /\ call[t].name = NULL /\ call[t].self = NULL
    BY <1>7, <2>n DEF Destroy, Basis, Shape, CallShape, IdleInv
  <2>2. a # NULL
    BY Nulls
  <2>3. /\ call'[t].name = call[t].name /\ call'[t].self = a
        /\ \A v \in Threads \ {t} : call'[v] = call[v]
    BY <1>0, <1>7 DEF Destroy, CallRecords
  <2>4. Table!Withdraw(t, n)
    <3>1. ~Table!Busy(t)
      BY <2>1, TableBusy
    <3>2. Wants' = Wants /\ Hands' = [Hands EXCEPT ![t] = s_pAllocatorMap[n]]
      BY <2>1, <2>3, TablePasses DEF Wants
    <3>3. s_pAllocatorMap[n] # NULL
      BY <2>1, <2>2
    <3> QED BY <2>1, <3>1, <3>2, <3>3, Zenon DEF Table!Withdraw, Wants, Hands
  <2> QED BY <2>4 DEF Table!Next
<1>8. UNCHANGED vars => UNCHANGED <<call, s_pAllocatorMap>>
  BY DEF vars
<1>9. \A t \in Threads : NullTable(t) => UNCHANGED <<call, s_pAllocatorMap>>
  BY DEF NullTable
<1> HIDE DEF Return
<1> QED BY <1>1, <1>2, <1>3, <1>4, <1>5, <1>6, <1>7, <1>8, <1>9, StepsGoOn DEF Next

\* Creations and destructions of any number of threads appear as if each took
\* effect at once, at emplace and at erase.  (allocator_impl.cpp:164-238)
THEOREM Refinement == Spec => IsNameTable
<1>1. Init => IdleInv /\ NamedInv
  BY Nulls DEF Init, IdleInv, NamedInv
<1> QED BY <1>1, BasisAlways, IdleStep, NamedStep, TableInit, TableStep, PTL
        DEF Spec, IsNameTable, Table!Spec
=============================================================================
