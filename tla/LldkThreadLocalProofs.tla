------------------------ MODULE LldkThreadLocalProofs -----------------------
(***************************************************************************)
(* Proofs about LldkThreadLocal for any number of threads, objects and     *)
(* instance ids.                                                           *)
(***************************************************************************)
EXTENDS LldkThreadLocal, LldkBitsetProofs

USE DEF kMaxInstanceId, kInvalidInstanceId,
        sharedVars, objectVars, foreachVars, Call, Goto, Answer, Return, Drop

Basis == TypeOK /\ CallInv /\ Registered

\* The id newInstanceId takes is a free index.
LEMMA NewIdIsFree ==
    ASSUME NEW m \in BitArray, findFirstNone(m) # kMaxInstanceId
    PROVE  findFirstNone(m) \in Index \ Bits(m)
BY FindFirstNoneLeast

\* Reading and writing slots stays within the types of a table.
LEMMA TableTypes ==
    /\ EmptyTable \in Tables
    /\ \A table \in Tables, u \in Index : table[u] \in Blocks \cup {NULL}
    /\ \A table \in Tables, u \in InstanceId, p \in Blocks \cup {NULL} :
          SetSlot(table, u, p) \in Tables
BY BitsetAssumption DEF EmptyTable, Tables, SetSlot, InstanceId, Index

\* The invalid id is not an index, and NULL names no thread, object or
\* table.
LEMMA IdTypes ==
    /\ kSize \notin Index
    /\ InstanceId = Index \cup {kSize}
    /\ NULL \notin Threads /\ NULL \notin Objects /\ NULL \notin Blocks
    /\ NULL \notin Tables
BY BitsetAssumption, ThreadLocalAssumption DEF Index, InstanceId

\* No call in progress works on an object that does not exist.
LEMMA RawUnused ==
    ASSUME Basis, NEW o \in Objects, objState[o] = "raw", NEW v \in Threads
    PROVE  self[v] # o
<1>1. pc[v] \in Locations /\ CallState(v)
  BY DEF Basis, TypeOK, CallInv
<1>2. pc[v] \in ConstructorAt \cup DestructorAt \cup {"idle", "foreach"}
  BY <1>1 DEF Locations, ConstructorAt, DestructorAt
<1>3. pc[v] = "idle" => self[v] # o
  BY <1>1, IdTypes DEF CallState
<1>4. pc[v] \in ConstructorAt \cup DestructorAt \cup {"foreach"} => self[v] # o
  BY <1>1 DEF CallState
<1> QED BY <1>2, <1>3, <1>4

\* At start nothing is constructed, registered or called.
LEMMA BasisInit == Init => Basis
<1> SUFFICES ASSUME Init PROVE Basis
  OBVIOUS
<1>1. TypeOK
  BY ZeroBitsEmpty, IdTypes DEF Init, TypeOK, Locations
<1>2. CallInv
  BY IdTypes DEF Init, CallInv, CallState, ConstructorAt, DestructorAt
<1>3. Registered
  BY DEF Init, Registered
<1> QED BY <1>1, <1>2, <1>3 DEF Basis

\* Basis survives taking an id for a raw object (thread_local.cpp:18-28).
LEMMA BasisNewInstanceId ==
    ASSUME Basis, NEW t \in Threads, NEW o \in Objects, NewInstanceId(t, o)
    PROVE  Basis'
<1> DEFINE u == findFirstNone(s_bitset)
<1>1. u \in Index /\ set(s_bitset, u) \in BitArray
  BY NewIdIsFree, SetBits DEF Basis, TypeOK, NewInstanceId
<1> HIDE DEF u
<1> USE IdTypes DEF NewInstanceId, Call
<1>2. TypeOK'
  BY <1>1 DEF Basis, TypeOK, u, Locations
<1>3. CallInv'
  <2>0. \A v \in Threads : self[v] # o
    BY RawUnused DEF NewInstanceId
  <2> USE <1>1 DEF Basis, TypeOK, Locations, CallInv, CallState,
                   ConstructorAt, DestructorAt
  <2>1. ASSUME NEW v \in Threads
        PROVE  CallState(v)'
    BY <2>0
  <2>2. \A v, w \in Threads : (self[v] = self[w]
                             => v = w \/ pc[v] \in {"idle", "foreach"})'
    BY <2>0
  <2>3. \A p \in Objects :
          (/\ objState[p] = "raw" => m_uInstanceId[p] = kInvalidInstanceId
          /\ objState[p] = "building" => m_uInstanceId[p] # kInvalidInstanceId)'
    OBVIOUS
  <2> QED BY <2>1, <2>2, <2>3
<1>4. Registered'
  BY DEF Basis, TypeOK, Registered
<1> QED BY <1>2, <1>3, <1>4 DEF Basis

\* Basis survives the refusal when all ids are in use
\* (thread_local.h:88-91).
LEMMA BasisIdsExhausted ==
    ASSUME Basis, NEW t \in Threads, NEW o \in Objects, IdsExhausted(t, o)
    PROVE  Basis'
<1> USE IdTypes DEF IdsExhausted, Basis, TypeOK
<1>1. TypeOK'
  BY DEF Locations, CallInv, CallState
<1>2. CallInv'
  BY DEF CallInv, CallState, ConstructorAt, DestructorAt
<1>3. Registered'
  BY DEF Registered
<1> QED BY <1>1, <1>2, <1>3

\* Basis survives allocating the T of a constructor (thread_local.h:93-99).
LEMMA BasisAllocateStorage ==
    ASSUME Basis, NEW t \in Threads, AllocateStorage(t)
    PROVE  Basis'
<1> USE IdTypes DEF AllocateStorage, Basis, TypeOK
<1>1. TypeOK'
  BY DEF Locations, CallInv, CallState
<1>2. CallInv'
  BY DEF CallInv, CallState, ConstructorAt, DestructorAt
<1>3. Registered'
  BY DEF Registered
<1> QED BY <1>1, <1>2, <1>3

\* Basis survives the throw that leaks the id (thread_local.h:94-99).
LEMMA BasisConstructorThrows ==
    ASSUME Basis, NEW t \in Threads, ConstructorThrows(t)
    PROVE  Basis'
<1> USE IdTypes DEF ConstructorThrows, Basis, TypeOK
<1>1. TypeOK'
  BY DEF Locations, CallInv, CallState
<1>2. CallInv'
  BY DEF CallInv, CallState, ConstructorAt, DestructorAt
<1>3. Registered'
  BY DEF Registered
<1> QED BY <1>1, <1>2, <1>3

\* Basis survives creating the first table of a thread
\* (thread_local.cpp:44-52).
LEMMA BasisNewTable ==
    ASSUME Basis, NEW t \in Threads, NewTable(t)
    PROVE  Basis'
<1> USE IdTypes DEF NewTable, Basis, TypeOK
<1>1. TypeOK'
  BY TableTypes DEF Locations, CallInv, CallState
<1>2. CallInv'
  BY TableTypes DEF CallInv, CallState, ConstructorAt, DestructorAt
<1>3. Registered'
  BY DEF Registered
<1> QED BY <1>1, <1>2, <1>3

\* Basis survives finding no memory for a table (thread_local.cpp:47-51).
LEMMA BasisNewTableFails ==
    ASSUME Basis, NEW t \in Threads, NewTableFails(t)
    PROVE  Basis'
<1> USE IdTypes DEF NewTableFails, Basis, TypeOK
<1>1. TypeOK'
  BY DEF Locations, CallInv, CallState
<1>2. CallInv'
  BY DEF CallInv, CallState, ConstructorAt, DestructorAt
<1>3. Registered'
  BY DEF Registered
<1> QED BY <1>1, <1>2, <1>3

\* Basis survives registering a table (thread_local.cpp:56-57).
LEMMA BasisPushTable ==
    ASSUME Basis, NEW t \in Threads, PushTable(t)
    PROVE  Basis'
<1> USE IdTypes DEF PushTable, Basis, TypeOK
<1>1. TypeOK'
  BY DEF Locations, CallInv, CallState
<1>2. CallInv'
  BY DEF CallInv, CallState, ConstructorAt, DestructorAt
<1>0. /\ Len(s_vecpppInstances) \in Nat
      /\ DOMAIN s_vecpppInstances = 1 .. Len(s_vecpppInstances)
      /\ DOMAIN s_vecpppInstances' = 1 .. Len(s_vecpppInstances) + 1
      /\ \A i \in 1 .. Len(s_vecpppInstances) :
            s_vecpppInstances'[i] = s_vecpppInstances[i]
      /\ s_vecpppInstances'[Len(s_vecpppInstances) + 1] = t
  OBVIOUS
<1>3. Registered'
  <2> DEFINE n == Len(s_vecpppInstances)
  <2>1. \A i \in 1 .. n : s_vecpppInstances[i] # t
    BY <1>0 DEF Registered
  <2>2. s_ppInstances[t] # NULL
    BY DEF CallInv, CallState
  <2>3. \A i, j \in DOMAIN s_vecpppInstances' :
            s_vecpppInstances'[i] = s_vecpppInstances'[j] => i = j
    BY <1>0, <2>1 DEF Registered
  <2>4. ASSUME NEW v \in Threads
        PROVE  ((\E i \in DOMAIN s_vecpppInstances : s_vecpppInstances[i] = v)
                 <=> s_ppInstances[v] # NULL /\ pc[v] # "pushTable")'
    <3>1. CASE v = t
      <4>1. n + 1 \in DOMAIN s_vecpppInstances' /\ s_vecpppInstances'[n + 1] = v
        BY <1>0, <3>1
      <4>2. s_ppInstances'[v] # NULL /\ pc'[v] # "pushTable"
        BY <2>2, <3>1
      <4> QED BY <4>1, <4>2
    <3>2. CASE v # t
      BY <1>0, <3>2 DEF Registered
    <3> QED BY <3>1, <3>2
  <2> QED BY <2>3, <2>4 DEF Registered
<1> QED BY <1>1, <1>2, <1>3

\* Basis survives forgetting a table that could not be registered
\* (thread_local.cpp:59-65).
LEMMA BasisPushTableThrows ==
    ASSUME Basis, NEW t \in Threads, PushTableThrows(t)
    PROVE  Basis'
<1> USE IdTypes DEF PushTableThrows, Basis, TypeOK
<1>1. TypeOK'
  BY DEF Locations, CallInv, CallState
<1>2. CallInv'
  BY DEF CallInv, CallState, ConstructorAt, DestructorAt
<1>3. Registered'
  BY DEF Registered
<1> QED BY <1>1, <1>2, <1>3

\* Basis survives the slot write that ends a constructor
\* (thread_local.cpp:68).
LEMMA BasisStoreSlot ==
    ASSUME Basis, NEW t \in Threads, StoreSlot(t)
    PROVE  Basis'
<1> USE IdTypes DEF StoreSlot, SetSlot, Basis, TypeOK
<1>0. /\ self[t] \in Objects /\ m_uInstanceId[self[t]] \in InstanceId
      /\ s_ppInstances[t] \in Tables /\ pStorage[t] \in Blocks \cup {NULL}
      /\ SetSlot(s_ppInstances[t], m_uInstanceId[self[t]], pStorage[t]) \in Tables
  BY TableTypes DEF CallInv, CallState
<1> HIDE DEF SetSlot
<1>1. TypeOK'
  BY <1>0 DEF Locations, CallInv, CallState
<1>2. CallInv'
  BY DEF CallInv, CallState, ConstructorAt, DestructorAt
<1>3. Registered'
  BY <1>0 DEF Registered
<1> QED BY <1>1, <1>2, <1>3

\* Basis survives freeing the T of a failed constructor
\* (thread_local.h:103).
LEMMA BasisUndoFree ==
    ASSUME Basis, NEW t \in Threads, UndoFree(t)
    PROVE  Basis'
<1> USE IdTypes DEF UndoFree, Basis, TypeOK
<1>1. TypeOK'
  BY DEF Locations, CallInv, CallState
<1>2. CallInv'
  BY DEF CallInv, CallState, ConstructorAt, DestructorAt
<1>3. Registered'
  BY DEF Registered
<1> QED BY <1>1, <1>2, <1>3

\* Basis survives the slot read that begins a destructor
\* (thread_local.h:135).
LEMMA BasisReadOwnSlot ==
    ASSUME Basis, NEW t \in Threads, NEW o \in Objects, ReadOwnSlot(t, o)
    PROVE  Basis'
<1> USE IdTypes DEF ReadOwnSlot, CanDestroy, CanCall, InUse, ReadSlot, Basis,
                    TypeOK
<1>0. /\ s_ppInstances[t] \in Tables
      /\ \A q \in ReadSlot(t, m_uInstanceId[o]) : q \in Blocks \cup {NULL, WILD}
  BY TableTypes
<1>1. TypeOK'
  BY <1>0 DEF Locations, CallInv, CallState
<1>2. CallInv'
  BY DEF CallInv, CallState, ConstructorAt, DestructorAt
<1>3. Registered'
  BY DEF Registered
<1> QED BY <1>1, <1>2, <1>3

\* Basis survives freeing what the slot held (thread_local.h:138-139).
LEMMA BasisFreeStorage ==
    ASSUME Basis, NEW t \in Threads, FreeStorage(t)
    PROVE  Basis'
<1> USE IdTypes DEF FreeStorage, Basis, TypeOK
<1>1. TypeOK'
  BY DEF Locations, CallInv, CallState
<1>2. CallInv'
  BY DEF CallInv, CallState, ConstructorAt, DestructorAt
<1>3. Registered'
  BY DEF Registered
<1> QED BY <1>1, <1>2, <1>3

\* Basis survives freeing a block that is not allocated
\* (thread_local.h:139).
LEMMA BasisFreeTwice ==
    ASSUME Basis, NEW t \in Threads, FreeTwice(t)
    PROVE  Basis'
<1> USE IdTypes DEF FreeTwice, Fault, Basis, TypeOK
<1>1. TypeOK'
  BY DEF Locations, CallInv, CallState
<1>2. CallInv'
  BY DEF CallInv, CallState, ConstructorAt, DestructorAt
<1>3. Registered'
  BY DEF Registered
<1> QED BY <1>1, <1>2, <1>3

\* Basis survives the refused write of a null pointer (thread_local.h:140).
LEMMA BasisClearSlot ==
    ASSUME Basis, NEW t \in Threads, ClearSlot(t)
    PROVE  Basis'
<1> USE IdTypes DEF ClearSlot, SetSlot, Basis, TypeOK
<1>0. /\ self[t] \in Objects /\ m_uInstanceId[self[t]] \in InstanceId
  BY TableTypes DEF CallInv, CallState
<1>1. TypeOK'
  BY <1>0 DEF Locations, CallInv, CallState
<1>2. CallInv'
  BY DEF CallInv, CallState, ConstructorAt, DestructorAt
<1>3. Registered'
  BY DEF Registered
<1> QED BY <1>1, <1>2, <1>3

\* Basis survives releasing the id (thread_local.h:104, 142).
LEMMA BasisDeleteInstanceId ==
    ASSUME Basis, NEW t \in Threads, DeleteInstanceId(t)
    PROVE  Basis'
<1> USE IdTypes DEF DeleteInstanceId, Basis, TypeOK
<1>0. /\ self[t] \in Objects /\ m_uInstanceId[self[t]] \in InstanceId
      /\ s_bitset' \in BitArray
  BY ClearBits DEF CallInv, CallState
<1>1. TypeOK'
  BY <1>0 DEF Locations, CallInv, CallState
<1>2. CallInv'
  BY DEF CallInv, CallState, ConstructorAt, DestructorAt
<1>3. Registered'
  BY DEF Registered
<1> QED BY <1>1, <1>2, <1>3

\* Basis survives a get (thread_local.h:150-153).
LEMMA BasisGet ==
    ASSUME Basis, NEW t \in Threads, NEW o \in Objects, Get(t, o)
    PROVE  Basis'
<1> USE IdTypes DEF Get, CanCall, ReadSlot, Basis, TypeOK
<1>0. /\ s_ppInstances[t] \in Tables
      /\ \A q \in ReadSlot(t, m_uInstanceId[o]) : q \in Blocks \cup {NULL, WILD}
  BY TableTypes
<1>1. TypeOK'
  BY <1>0 DEF Locations, CallInv, CallState
<1>2. CallInv'
  BY DEF CallInv, CallState, ConstructorAt, DestructorAt
<1>3. Registered'
  BY DEF Registered
<1> QED BY <1>1, <1>2, <1>3

\* Basis survives reading the table of a thread that has none
\* (thread_local.cpp:74).
LEMMA BasisNullTable ==
    ASSUME Basis, NEW t \in Threads, NEW o \in Objects, NullTable(t, o)
    PROVE  Basis'
<1> USE IdTypes DEF NullTable, Fault, Basis, TypeOK
<1>1. TypeOK'
  BY DEF Locations, CallInv, CallState
<1>2. CallInv'
  BY DEF CallInv, CallState, ConstructorAt, DestructorAt
<1>3. Registered'
  BY DEF Registered
<1> QED BY <1>1, <1>2, <1>3

\* Basis survives freeing what lies past the table (thread_local.h:139).
LEMMA BasisFreeWild ==
    ASSUME Basis, NEW t \in Threads, NEW o \in Objects, FreeWild(t, o)
    PROVE  Basis'
<1> USE IdTypes DEF FreeWild, Fault, Basis, TypeOK
<1>1. TypeOK'
  BY DEF Locations, CallInv, CallState
<1>2. CallInv'
  BY DEF CallInv, CallState, ConstructorAt, DestructorAt
<1>3. Registered'
  BY DEF Registered
<1> QED BY <1>1, <1>2, <1>3

\* Basis survives a foreach that is refused (thread_local.h:170).
LEMMA BasisForeachRefused ==
    ASSUME Basis, NEW t \in Threads, NEW o \in Objects, NEW h \in BOOLEAN,
           ForeachRefused(t, o, h)
    PROVE  Basis'
<1> USE IdTypes DEF ForeachRefused, Basis, TypeOK
<1>1. TypeOK'
  BY DEF Locations, CallInv, CallState
<1>2. CallInv'
  BY DEF CallInv, CallState, ConstructorAt, DestructorAt
<1>3. Registered'
  BY DEF Registered
<1> QED BY <1>1, <1>2, <1>3

\* Basis survives entering foreach (thread_local.cpp:85).
LEMMA BasisForeachLock ==
    ASSUME Basis, NEW t \in Threads, NEW o \in Objects, ForeachLock(t, o)
    PROVE  Basis'
<1> USE IdTypes DEF ForeachLock, CanCall, Basis, TypeOK
<1>1. TypeOK'
  BY DEF Locations, CallInv, CallState
<1>2. CallInv'
  <2> USE DEF CallInv, CallState, ConstructorAt, DestructorAt
  <2>1. ASSUME NEW v \in Threads
        PROVE  CallState(v)'
    OBVIOUS
  <2>2. ASSUME NEW v \in Threads, NEW w \in Threads, (self[v] = self[w])', v # w
        PROVE  (pc[v] \in {"idle", "foreach"})'
    <3>1. CASE v = t
      BY <3>1
    <3>2. CASE v # t /\ w # t
      BY <2>2, <3>2
    <3>3. CASE w = t
      <4>1. self[v] = o /\ pc[v] \in Locations
        BY <2>2, <3>3
      <4>2. objState[o] = "live"
        OBVIOUS
      <4> QED BY <2>2, <3>3, <4>1, <4>2 DEF Locations
    <3> QED BY <3>1, <3>2, <3>3
  <2> QED BY <2>1, <2>2
<1>3. Registered'
  BY DEF Registered
<1> QED BY <1>1, <1>2, <1>3

\* Basis survives passing over an empty slot (thread_local.cpp:88).
LEMMA BasisForeachSkip ==
    ASSUME Basis, NEW t \in Threads, ForeachSkip(t)
    PROVE  Basis'
<1> USE IdTypes DEF ForeachSkip, InLoop, Basis, TypeOK
<1>1. TypeOK'
  BY DEF Locations, CallInv, CallState
<1>2. CallInv'
  BY DEF CallInv, CallState, ConstructorAt, DestructorAt
<1>3. Registered'
  BY DEF Registered
<1> QED BY <1>1, <1>2, <1>3

\* Basis survives calling func on a slot (thread_local.cpp:90).
LEMMA BasisForeachVisit ==
    ASSUME Basis, NEW t \in Threads, ForeachVisit(t)
    PROVE  Basis'
<1> USE IdTypes DEF ForeachVisit, InLoop, Visitee, Basis, TypeOK
<1>0. Visitee(t) \in Blocks
  <2> DEFINE v == s_vecpppInstances[uPos[t]]
  <2>1. uPos[t] \in DOMAIN s_vecpppInstances /\ v \in Threads
    BY DEF CallInv, CallState
  <2>2. s_ppInstances[v] \in Tables
    BY <2>1 DEF Registered
  <2>3. self[t] \in Objects /\ m_uInstanceId[self[t]] \in Index
    BY DEF CallInv, CallState
  <2> QED BY <2>2, <2>3, TableTypes
<1> HIDE DEF Visitee
<1>1. TypeOK'
  BY <1>0 DEF Locations, CallInv, CallState
<1>2. CallInv'
  BY DEF CallInv, CallState, ConstructorAt, DestructorAt
<1>3. Registered'
  BY DEF Registered
<1> QED BY <1>1, <1>2, <1>3

\* Basis survives leaving foreach early (thread_local.cpp:90-94).
LEMMA BasisForeachStop ==
    ASSUME Basis, NEW t \in Threads, ForeachStop(t)
    PROVE  Basis'
<1> USE IdTypes DEF ForeachStop, InLoop, ForeachUnlock, Basis, TypeOK
<1>1. TypeOK'
  BY DEF Locations, CallInv, CallState
<1>2. CallInv'
  BY DEF CallInv, CallState, ConstructorAt, DestructorAt
<1>3. Registered'
  BY DEF Registered
<1> QED BY <1>1, <1>2, <1>3

\* Basis survives leaving foreach at its end (thread_local.cpp:97).
LEMMA BasisForeachEnd ==
    ASSUME Basis, NEW t \in Threads, ForeachEnd(t)
    PROVE  Basis'
<1> USE IdTypes DEF ForeachEnd, ForeachUnlock, Basis, TypeOK
<1>1. TypeOK'
  BY DEF Locations, CallInv, CallState
<1>2. CallInv'
  BY DEF CallInv, CallState, ConstructorAt, DestructorAt
<1>3. Registered'
  BY DEF Registered
<1> QED BY <1>1, <1>2, <1>3

\* Basis survives a move construction (thread_local.h:110-117).
LEMMA BasisMoveConstruct ==
    ASSUME Basis, NEW t \in Threads, NEW o \in Objects, NEW p \in Objects,
           MoveConstruct(t, o, p)
    PROVE  Basis'
<1> USE IdTypes DEF MoveConstruct, CanCall, InUse, Transfer, Basis, TypeOK
<1>1. TypeOK'
  BY DEF Locations, CallInv, CallState
<1>2. CallInv'
  BY DEF CallInv, CallState, ConstructorAt, DestructorAt
<1>3. Registered'
  BY DEF Registered
<1> QED BY <1>1, <1>2, <1>3

\* Basis survives a move assignment (thread_local.h:119-128).
LEMMA BasisMoveAssign ==
    ASSUME Basis, NEW t \in Threads, NEW o \in Objects, NEW p \in Objects,
           MoveAssign(t, o, p)
    PROVE  Basis'
<1> USE IdTypes DEF MoveAssign, CanCall, InUse, Transfer, Basis, TypeOK
<1>1. TypeOK'
  BY DEF Locations, CallInv, CallState
<1>2. CallInv'
  BY DEF CallInv, CallState, ConstructorAt, DestructorAt
<1>3. Registered'
  BY DEF Registered
<1> QED BY <1>1, <1>2, <1>3

\* Every step of every thread, and a stutter, keeps Basis.
LEMMA BasisStep == Basis /\ [Next]_vars => Basis'
<1> SUFFICES ASSUME Basis, [Next]_vars
             PROVE  Basis'
  OBVIOUS
<1>1. CASE UNCHANGED vars
  BY <1>1 DEF vars, Basis, TypeOK, CallInv, CallState, Registered
<1>2. ASSUME NEW t \in Threads, ConstructorStep(t)
      PROVE  Basis'
  BY <1>2, BasisAllocateStorage, BasisConstructorThrows, BasisNewTable,
     BasisNewTableFails, BasisPushTable, BasisPushTableThrows, BasisStoreSlot,
     BasisUndoFree DEF ConstructorStep
<1>3. ASSUME NEW t \in Threads, DestructorStep(t)
      PROVE  Basis'
  BY <1>3, BasisFreeStorage, BasisFreeTwice, BasisClearSlot,
     BasisDeleteInstanceId DEF DestructorStep
<1>4. ASSUME NEW t \in Threads, ForeachStep(t)
      PROVE  Basis'
  BY <1>4, BasisForeachSkip, BasisForeachVisit, BasisForeachStop,
     BasisForeachEnd DEF ForeachStep
<1>5. ASSUME NEW t \in Threads, ClientStep(t)
      PROVE  Basis'
  BY <1>5, BasisNewInstanceId, BasisIdsExhausted, BasisReadOwnSlot,
     BasisFreeWild, BasisGet, BasisNullTable, BasisForeachRefused,
     BasisForeachLock, BasisMoveConstruct, BasisMoveAssign
  DEF ClientStep, Construct, Destruct
<1> QED BY <1>1, <1>2, <1>3, <1>4, <1>5 DEF Next, ThreadStep, Crashed

\* Basis is an invariant of every behaviour.
LEMMA BasisAlways == Spec => []Basis
BY BasisInit, BasisStep, PTL DEF Spec

\* Every variable keeps its type: in particular s_bitset never grows past its
\* words, and every table entry is NULL or the address of a T.
THEOREM TypeCorrect == Spec => []TypeOK
<1>1. Basis => TypeOK
  BY DEF Basis
<1> QED BY <1>1, BasisAlways, PTL

\* A thread's table is registered for foreach exactly once, and is never
\* registered and then freed.
THEOREM RegisteredAlways == Spec => []Registered
<1>1. Basis => Registered
  BY DEF Basis
<1> QED BY <1>1, BasisAlways, PTL

-----------------------------------------------------------------------------
(* Instance ids *)

\* The steps that change s_bitset or an object's id.
LEMMA IdSteps ==
    ASSUME [Next]_vars
    PROVE  \/ UNCHANGED <<s_bitset, m_uInstanceId>>
           \/ \E t \in Threads : \/ \E o \in Objects : NewInstanceId(t, o)
                                 \/ ConstructorThrows(t)
                                 \/ DeleteInstanceId(t)
           \/ \E t \in Threads, o, p \in Objects : MoveConstruct(t, o, p) \/ MoveAssign(t, o, p)
BY DEF Next, vars, Crashed, ThreadStep, ClientStep, ConstructorStep,
       DestructorStep, ForeachStep, Construct, Destruct, Fault,
       IdsExhausted, AllocateStorage, NewTable, NewTableFails, PushTable,
       PushTableThrows, StoreSlot, UndoFree, ReadOwnSlot, FreeStorage,
       FreeTwice, ClearSlot, Get, NullTable, FreeWild, ForeachRefused,
       ForeachLock, ForeachSkip, ForeachVisit, ForeachStop, ForeachEnd,
       ForeachUnlock

\* A step that hands an id on or out leaves it with one holder.
LEMMA UniqueIdsStep == Basis /\ UniqueIds /\ [Next]_vars => UniqueIds'
<1> SUFFICES ASSUME Basis, UniqueIds, [Next]_vars
             PROVE  UniqueIds'
  OBVIOUS
<1> USE DEF Basis, TypeOK
<1>1. CASE UNCHANGED <<s_bitset, m_uInstanceId>>
  BY <1>1 DEF UniqueIds
<1>2. ASSUME NEW t \in Threads, NEW o \in Objects, NewInstanceId(t, o)
      PROVE  UniqueIds'
  <2> DEFINE u == findFirstNone(s_bitset)
  <2>1. u \in Index \ Bits(s_bitset) /\ Bits(s_bitset)' = Bits(s_bitset) \cup {u}
    <3>1. u \in Index \ Bits(s_bitset) /\ s_bitset' = set(s_bitset, u)
      BY <1>2, NewIdIsFree DEF NewInstanceId
    <3> QED BY <3>1, SetBits
  <2>2. m_uInstanceId' = [m_uInstanceId EXCEPT ![o] = u]
    BY <1>2 DEF NewInstanceId
  <2> HIDE DEF u
  <2> QED BY <2>1, <2>2, IdTypes DEF UniqueIds
<1>3. ASSUME NEW t \in Threads, ConstructorThrows(t)
      PROVE  UniqueIds'
  BY <1>3 DEF ConstructorThrows, UniqueIds
<1>4. ASSUME NEW t \in Threads, DeleteInstanceId(t)
      PROVE  UniqueIds'
  <2> DEFINE o == self[t]
             u == m_uInstanceId[o]
  <2>1. o \in Objects /\ u \in InstanceId
    BY <1>4 DEF DeleteInstanceId, CallInv, CallState
  <2>2. m_uInstanceId' = [m_uInstanceId EXCEPT ![o] = kSize]
    BY <1>4 DEF DeleteInstanceId
  <2>3. Bits(s_bitset)' = Bits(s_bitset) \ {u}
    <3>1. CASE u = kSize
      BY <1>4, <3>1, IdTypes DEF DeleteInstanceId, Bits
    <3>2. CASE u # kSize
      <4>1. u \in Index /\ s_bitset' = clear(s_bitset, u)
        BY <1>4, <2>1, <3>2, IdTypes DEF DeleteInstanceId
      <4> QED BY <4>1, ClearBits
    <3> QED BY <3>1, <3>2
  <2> HIDE DEF o, u
  <2>4. u = m_uInstanceId[o]
    BY DEF u
  <2> QED BY <2>1, <2>2, <2>3, <2>4 DEF UniqueIds
<1>5. ASSUME NEW t \in Threads, NEW o \in Objects, NEW p \in Objects,
             MoveConstruct(t, o, p) \/ MoveAssign(t, o, p)
      PROVE  UniqueIds'
  <2>1. Transfer(o, p)
    BY <1>5 DEF MoveConstruct, MoveAssign
  <2> QED BY <2>1, IdTypes DEF Transfer, UniqueIds
<1> QED BY <1>1, <1>2, <1>3, <1>4, <1>5, IdSteps

\* No two objects ever hold the same instance id, and the id of an object
\* stays marked as used, for any number of threads, objects and ids.
THEOREM UniqueIdsAlways == Spec => []UniqueIds
<1>1. Init => UniqueIds
  BY DEF Init, UniqueIds
<1> QED BY <1>1, UniqueIdsStep, BasisAlways, PTL DEF Spec

\* An id becomes free again only in the last step of its holder's destructor
\* or failed constructor.
THEOREM IdReleasedByHolderAlways == Spec => IdReleasedByHolder
<1> DEFINE Released ==
      \A u \in Bits(s_bitset) \ Bits(s_bitset)' :
          \E o \in Objects : /\ m_uInstanceId[o] = u /\ m_uInstanceId'[o] # u
                             /\ \E t \in Threads : self[t] = o /\ self'[t] = NULL
<1>1. ASSUME Basis, [Next]_vars
      PROVE  Released
  <2>1. CASE UNCHANGED s_bitset
    BY <2>1 DEF Bits
  <2>2. ASSUME NEW t \in Threads, NEW o \in Objects, NewInstanceId(t, o)
        PROVE  Released
    <3>1. s_bitset' = set(s_bitset, findFirstNone(s_bitset))
          /\ findFirstNone(s_bitset) \in Index
      BY <1>1, <2>2, NewIdIsFree DEF NewInstanceId, Basis, TypeOK
    <3> QED BY <1>1, <3>1, SetBits DEF Basis, TypeOK
  <2>3. ASSUME NEW t \in Threads, DeleteInstanceId(t)
        PROVE  Released
    <3> DEFINE o == self[t]
               u == m_uInstanceId[o]
    <3>1. /\ o \in Objects /\ u \in InstanceId /\ self'[t] = NULL
          /\ m_uInstanceId'[o] = kSize
      BY <1>1, <2>3 DEF DeleteInstanceId, Basis, TypeOK, CallInv, CallState
    <3>2. CASE u = kSize
      BY <2>1, <2>3, <3>2 DEF DeleteInstanceId
    <3>3. CASE u # kSize
      <4>1. u \in Index /\ s_bitset' = clear(s_bitset, u)
        BY <2>3, <3>1, <3>3, IdTypes DEF DeleteInstanceId
      <4>2. Bits(s_bitset)' = Bits(s_bitset) \ {u}
        BY <1>1, <4>1, ClearBits DEF Basis, TypeOK
      <4> QED BY <3>1, <3>3, <4>2
    <3> QED BY <3>2, <3>3
  <2> QED BY <1>1, <2>1, <2>2, <2>3, IdSteps
      DEF ConstructorThrows, MoveConstruct, MoveAssign, Transfer
<1>2. Basis /\ [Next]_vars => [Released]_vars
  BY <1>1
<1> QED BY <1>2, BasisAlways, PTL DEF Spec, IdReleasedByHolder

-----------------------------------------------------------------------------
(* Slots *)

\* A slot write changes the slot of that id and no other.
LEMMA SlotWritten ==
    ASSUME NEW table \in Tables, NEW u \in Index, NEW b \in Blocks
    PROVE  /\ SetSlot(table, u, b)[u] = b
           /\ \A v \in Index \ {u} : SetSlot(table, u, b)[v] = table[v]
BY IdTypes DEF SetSlot, Tables

Slots == OwnSlot /\ BuildInv
SlotsHyp == Basis /\ UniqueIds /\ Slots


\* Slots survives taking an id for a raw object (thread_local.cpp:18-28).
LEMMA SlotsNewInstanceId ==
    ASSUME SlotsHyp, NEW t \in Threads, NEW o \in Objects, NewInstanceId(t, o)
    PROVE  Slots'
<1> USE IdTypes DEF NewInstanceId, SlotsHyp, Basis, TypeOK, CallInv, CallState,
                    UniqueIds, ConstructorAt, DestructorAt, Slots
<1>1. OwnSlot'
  BY DEF OwnSlot
<1>2. BuildInv'
  BY DEF BuildInv
<1> QED BY <1>1, <1>2

\* Slots survives allocating the T of a constructor (thread_local.h:93-99).
LEMMA SlotsAllocateStorage ==
    ASSUME SlotsHyp, NEW t \in Threads, AllocateStorage(t)
    PROVE  Slots'
<1> USE IdTypes DEF AllocateStorage, SlotsHyp, Basis, TypeOK, CallInv, CallState,
                    UniqueIds, ConstructorAt, DestructorAt, Slots
<1>1. OwnSlot'
  BY DEF OwnSlot
<1>2. BuildInv'
  BY DEF BuildInv
<1> QED BY <1>1, <1>2

\* Slots survives the throw that leaks the id (thread_local.h:94-99).
LEMMA SlotsConstructorThrows ==
    ASSUME SlotsHyp, NEW t \in Threads, ConstructorThrows(t)
    PROVE  Slots'
<1> USE IdTypes DEF ConstructorThrows, SlotsHyp, Basis, TypeOK, CallInv,
                    CallState, UniqueIds, ConstructorAt, DestructorAt, Slots
<1>1. OwnSlot'
  BY DEF OwnSlot
<1>2. BuildInv'
  BY DEF BuildInv
<1> QED BY <1>1, <1>2

\* Slots survives creating the first table of a thread
\* (thread_local.cpp:44-52).
LEMMA SlotsNewTable ==
    ASSUME SlotsHyp, NEW t \in Threads, NewTable(t)
    PROVE  Slots'
<1> USE IdTypes DEF NewTable, SlotsHyp, Basis, TypeOK, CallInv, CallState,
                    UniqueIds, ConstructorAt, DestructorAt, Slots
<1>1. OwnSlot'
  BY DEF OwnSlot
<1>2. BuildInv'
  BY DEF BuildInv, OwnSlot
<1> QED BY <1>1, <1>2

\* Slots survives finding no memory for a table (thread_local.cpp:47-51).
LEMMA SlotsNewTableFails ==
    ASSUME SlotsHyp, NEW t \in Threads, NewTableFails(t)
    PROVE  Slots'
<1> USE IdTypes DEF NewTableFails, SlotsHyp, Basis, TypeOK, CallInv, CallState,
                    UniqueIds, ConstructorAt, DestructorAt, Slots
<1>1. OwnSlot'
  BY DEF OwnSlot
<1>2. BuildInv'
  BY DEF BuildInv
<1> QED BY <1>1, <1>2

\* Slots survives registering a table (thread_local.cpp:56-57).
LEMMA SlotsPushTable ==
    ASSUME SlotsHyp, NEW t \in Threads, PushTable(t)
    PROVE  Slots'
<1> USE IdTypes DEF PushTable, SlotsHyp, Basis, TypeOK, CallInv, CallState,
                    UniqueIds, ConstructorAt, DestructorAt, Slots
<1>1. OwnSlot'
  BY DEF OwnSlot
<1>2. BuildInv'
  BY DEF BuildInv
<1> QED BY <1>1, <1>2

\* Slots survives forgetting a table that could not be registered
\* (thread_local.cpp:59-65).
LEMMA SlotsPushTableThrows ==
    ASSUME SlotsHyp, NEW t \in Threads, PushTableThrows(t)
    PROVE  Slots'
<1> USE IdTypes DEF PushTableThrows, SlotsHyp, Basis, TypeOK, CallInv, CallState,
                    UniqueIds, ConstructorAt, DestructorAt, Slots
<1>1. OwnSlot'
  BY DEF OwnSlot, BuildInv
<1>2. BuildInv'
  BY DEF BuildInv
<1> QED BY <1>1, <1>2

\* Slots survives the slot write that ends a constructor
\* (thread_local.cpp:68).
LEMMA SlotsStoreSlot ==
    ASSUME SlotsHyp, NEW t \in Threads, StoreSlot(t)
    PROVE  Slots'
<1> USE IdTypes DEF StoreSlot, SetSlot, SlotsHyp, Basis, TypeOK, CallInv,
                    CallState, UniqueIds, ConstructorAt, DestructorAt, Slots
<1> DEFINE me == self[t]
           u == m_uInstanceId[me]
           new == SetSlot(s_ppInstances[t], u, pStorage[t])
<1>0. /\ me \in Objects /\ objState[me] = "building" /\ owner[me] = t
      /\ u \in Index /\ pStorage[t] \in Blocks /\ pStorage[t] = storage[me]
      /\ s_ppInstances[t] \in Tables /\ new \in Tables
  BY TableTypes DEF BuildInv
<1>3. /\ s_ppInstances' = [s_ppInstances EXCEPT ![t] = new]
      /\ objState' = [objState EXCEPT ![me] = "live"]
      /\ UNCHANGED <<m_uInstanceId, owner, storage>>
  OBVIOUS
<1>4. /\ new[u] = pStorage[t]
      /\ \A v \in Index \ {u} : new[v] = s_ppInstances[t][v]
  BY <1>0, SlotWritten
<1>5. \A p \in Objects : m_uInstanceId[p] = u => p = me
  BY <1>0
<1>6. /\ s_ppInstances \in [Threads -> Tables \cup {NULL}]
      /\ objState \in [Objects -> {"raw", "building", "live", "dying"}]
      /\ m_uInstanceId \in [Objects -> InstanceId]
      /\ NULL \notin Tables /\ NULL \notin Blocks
      /\ OwnSlot
  OBVIOUS
<1>2. BuildInv'
  BY <1>0, <1>3 DEF BuildInv
<1> HIDE DEF new, u, me, StoreSlot, SetSlot, SlotsHyp, Basis, TypeOK, CallInv,
             CallState, UniqueIds, ConstructorAt, DestructorAt
<1>1. OwnSlot'
  <2> SUFFICES ASSUME NEW p \in Objects,
                      (objState[p] = "live" /\ m_uInstanceId[p] # kInvalidInstanceId)'
               PROVE  (/\ owner[p] \in Threads /\ s_ppInstances[owner[p]] # NULL
                       /\ storage[p] # NULL
                       /\ s_ppInstances[owner[p]][m_uInstanceId[p]] = storage[p])'
    BY DEF OwnSlot
  <2>1. CASE p = me
    <3>1. m_uInstanceId'[p] = u /\ owner'[p] = t /\ storage'[p] = pStorage[t]
      BY <1>0, <1>3, <2>1 DEF u
    <3>2. s_ppInstances'[t] = new
      BY <1>3, <1>6
    <3> QED BY <1>0, <1>4, <1>6, <3>1, <3>2
  <2>2. CASE p # me /\ owner[p] = t
    <3>1. objState[p] = "live" /\ m_uInstanceId[p] \in Index \ {u}
      BY <1>3, <1>5, <1>6, <2>2, IdTypes
    <3>2. s_ppInstances[t][m_uInstanceId[p]] = storage[p] /\ storage[p] # NULL
      BY <1>6, <2>2, <3>1 DEF OwnSlot
    <3>3. s_ppInstances'[t] = new
      BY <1>3, <1>6
    <3> QED BY <1>0, <1>3, <1>4, <1>6, <2>2, <3>1, <3>2, <3>3
  <2>3. CASE p # me /\ owner[p] # t
    BY <1>3, <1>6, <2>3 DEF OwnSlot
  <2> QED BY <2>1, <2>2, <2>3
<1> QED BY <1>1, <1>2

\* Slots survives freeing the T of a failed constructor
\* (thread_local.h:103).
LEMMA SlotsUndoFree ==
    ASSUME SlotsHyp, NEW t \in Threads, UndoFree(t)
    PROVE  Slots'
<1> USE IdTypes DEF UndoFree, SlotsHyp, Basis, TypeOK, CallInv, CallState,
                    UniqueIds, ConstructorAt, DestructorAt, Slots
<1>1. OwnSlot'
  BY DEF OwnSlot
<1>2. BuildInv'
  BY DEF BuildInv
<1> QED BY <1>1, <1>2

\* Slots survives the slot read that begins a destructor
\* (thread_local.h:135).
LEMMA SlotsReadOwnSlot ==
    ASSUME SlotsHyp, NEW t \in Threads, NEW o \in Objects, ReadOwnSlot(t, o)
    PROVE  Slots'
<1> USE IdTypes DEF ReadOwnSlot, CanDestroy, CanCall, InUse, SlotsHyp, Basis,
                    TypeOK, CallInv, CallState, UniqueIds, ConstructorAt,
                    DestructorAt, Slots
<1>1. OwnSlot'
  BY DEF OwnSlot
<1>2. BuildInv'
  BY DEF BuildInv
<1> QED BY <1>1, <1>2

\* Slots survives freeing what the slot held (thread_local.h:138-139).
LEMMA SlotsFreeStorage ==
    ASSUME SlotsHyp, NEW t \in Threads, FreeStorage(t)
    PROVE  Slots'
<1> USE IdTypes DEF FreeStorage, SlotsHyp, Basis, TypeOK, CallInv, CallState,
                    UniqueIds, ConstructorAt, DestructorAt, Slots
<1>1. OwnSlot'
  BY DEF OwnSlot
<1>2. BuildInv'
  BY DEF BuildInv
<1> QED BY <1>1, <1>2

\* Slots survives the refused write of a null pointer (thread_local.h:140).
LEMMA SlotsClearSlot ==
    ASSUME SlotsHyp, NEW t \in Threads, ClearSlot(t)
    PROVE  Slots'
<1> USE IdTypes DEF ClearSlot, SetSlot, SlotsHyp, Basis, TypeOK, CallInv,
                    CallState, UniqueIds, ConstructorAt, DestructorAt, Slots
<1>1. OwnSlot'
  BY DEF OwnSlot
<1>2. BuildInv'
  BY DEF BuildInv
<1> QED BY <1>1, <1>2

\* Slots survives releasing the id (thread_local.h:104, 142).
LEMMA SlotsDeleteInstanceId ==
    ASSUME SlotsHyp, NEW t \in Threads, DeleteInstanceId(t)
    PROVE  Slots'
<1> USE IdTypes DEF DeleteInstanceId, SlotsHyp, Basis, TypeOK, CallInv,
                    CallState, UniqueIds, ConstructorAt, DestructorAt, Slots
<1>1. OwnSlot'
  BY DEF OwnSlot
<1>2. BuildInv'
  BY DEF BuildInv
<1> QED BY <1>1, <1>2

\* Slots survives entering foreach (thread_local.cpp:85).
LEMMA SlotsForeachLock ==
    ASSUME SlotsHyp, NEW t \in Threads, NEW o \in Objects, ForeachLock(t, o)
    PROVE  Slots'
<1> USE IdTypes DEF ForeachLock, CanCall, SlotsHyp, Basis, TypeOK, CallInv,
                    CallState, UniqueIds, ConstructorAt, DestructorAt, Slots
<1>1. OwnSlot'
  BY DEF OwnSlot
<1>2. BuildInv'
  BY DEF BuildInv
<1> QED BY <1>1, <1>2

\* Slots survives leaving foreach early (thread_local.cpp:90-94).
LEMMA SlotsForeachStop ==
    ASSUME SlotsHyp, NEW t \in Threads, ForeachStop(t)
    PROVE  Slots'
<1> USE IdTypes DEF ForeachStop, ForeachUnlock, SlotsHyp, Basis, TypeOK, CallInv,
                    CallState, UniqueIds, ConstructorAt, DestructorAt, Slots
<1>1. OwnSlot'
  BY DEF OwnSlot
<1>2. BuildInv'
  BY DEF BuildInv
<1> QED BY <1>1, <1>2

\* Slots survives leaving foreach at its end (thread_local.cpp:97).
LEMMA SlotsForeachEnd ==
    ASSUME SlotsHyp, NEW t \in Threads, ForeachEnd(t)
    PROVE  Slots'
<1> USE IdTypes DEF ForeachEnd, ForeachUnlock, SlotsHyp, Basis, TypeOK, CallInv,
                    CallState, UniqueIds, ConstructorAt, DestructorAt, Slots
<1>1. OwnSlot'
  BY DEF OwnSlot
<1>2. BuildInv'
  BY DEF BuildInv
<1> QED BY <1>1, <1>2

\* Slots survives a move construction (thread_local.h:110-117).
LEMMA SlotsMoveConstruct ==
    ASSUME SlotsHyp, NEW t \in Threads, NEW o \in Objects, NEW p \in Objects,
           MoveConstruct(t, o, p)
    PROVE  Slots'
<1> USE IdTypes DEF MoveConstruct, CanCall, InUse, Transfer, SlotsHyp, Basis,
                    TypeOK, CallInv, CallState, UniqueIds, ConstructorAt,
                    DestructorAt, Slots
<1>1. OwnSlot'
  BY DEF OwnSlot
<1>2. BuildInv'
  BY DEF BuildInv
<1> QED BY <1>1, <1>2

\* Slots survives a move assignment (thread_local.h:119-128).
LEMMA SlotsMoveAssign ==
    ASSUME SlotsHyp, NEW t \in Threads, NEW o \in Objects, NEW p \in Objects,
           MoveAssign(t, o, p)
    PROVE  Slots'
<1> USE IdTypes DEF MoveAssign, CanCall, InUse, Transfer, SlotsHyp, Basis,
                    TypeOK, CallInv, CallState, UniqueIds, ConstructorAt,
                    DestructorAt, Slots
<1>1. OwnSlot'
  BY DEF OwnSlot
<1>2. BuildInv'
  BY DEF BuildInv
<1> QED BY <1>1, <1>2

\* Every step keeps the slots of live objects as their constructors wrote
\* them.
LEMMA SlotsStep == Basis /\ UniqueIds /\ Slots /\ [Next]_vars => Slots'
<1> SUFFICES ASSUME Basis, UniqueIds, Slots, [Next]_vars
             PROVE  Slots'
  OBVIOUS
<1>0. SlotsHyp
  BY DEF SlotsHyp
<1>1. CASE UNCHANGED <<s_ppInstances, objectVars, storage, pc, self, pStorage>>
  BY <1>1 DEF Slots, OwnSlot, BuildInv
<1>2. ASSUME NEW t \in Threads, ConstructorStep(t)
      PROVE  Slots'
  BY <1>0, <1>2, SlotsAllocateStorage, SlotsConstructorThrows, SlotsNewTable,
     SlotsNewTableFails, SlotsPushTable, SlotsPushTableThrows, SlotsStoreSlot,
     SlotsUndoFree DEF ConstructorStep
<1>3. ASSUME NEW t \in Threads, DestructorStep(t)
      PROVE  Slots'
  BY <1>0, <1>1, <1>3, SlotsFreeStorage, SlotsClearSlot, SlotsDeleteInstanceId
  DEF DestructorStep, FreeTwice, Fault
<1>4. ASSUME NEW t \in Threads, ForeachStep(t)
      PROVE  Slots'
  BY <1>0, <1>1, <1>4, SlotsForeachStop, SlotsForeachEnd
  DEF ForeachStep, ForeachSkip, ForeachVisit
<1>5. ASSUME NEW t \in Threads, ClientStep(t)
      PROVE  Slots'
  BY <1>0, <1>1, <1>5, SlotsNewInstanceId, SlotsReadOwnSlot, SlotsForeachLock,
     SlotsMoveConstruct, SlotsMoveAssign
  DEF ClientStep, Construct, Destruct, IdsExhausted, FreeWild, Get, NullTable,
      ForeachRefused, Fault
<1> QED BY <1>1, <1>2, <1>3, <1>4, <1>5 DEF Next, ThreadStep, Crashed, vars

\* Ids stay unique and slots stay as written, in every behaviour.
LEMMA SlotsAlways == Spec => [](UniqueIds /\ Slots)
<1>1. Init => UniqueIds /\ Slots
  BY IdTypes DEF Init, UniqueIds, Slots, OwnSlot, BuildInv, ConstructorAt
<1> QED BY <1>1, UniqueIdsStep, SlotsStep, BasisAlways, PTL DEF Spec

\* The slot of a live object's id in its constructing thread's table points
\* to the object's own T, whoever destroys objects.
THEOREM OwnSlotAlways == Spec => []OwnSlot
<1>1. Slots => OwnSlot
  BY DEF Slots
<1> QED BY <1>1, SlotsAlways, PTL

-----------------------------------------------------------------------------
(* Ownership, when only the constructing thread destroys an object *)

Owned == OwnStorage /\ DestroyInv
OwnedHyp == SlotsHyp /\ Owned /\ ~AnyThreadDestroys


\* Owned survives taking an id for a raw object (thread_local.cpp:18-28).
LEMMA OwnedNewInstanceId ==
    ASSUME OwnedHyp, NEW t \in Threads, NEW o \in Objects, NewInstanceId(t, o)
    PROVE  Owned'
<1> USE IdTypes DEF NewInstanceId, OwnedHyp, SlotsHyp, Basis, TypeOK, CallInv,
                    CallState, ConstructorAt, DestructorAt, Slots, BuildInv,
                    Owned, OwnStorage, DestroyInv
<1>1. OwnStorage'
  OBVIOUS
<1>2. DestroyInv'
  OBVIOUS
<1> QED BY <1>1, <1>2

\* Owned survives allocating the T of a constructor (thread_local.h:93-99).
LEMMA OwnedAllocateStorage ==
    ASSUME OwnedHyp, NEW t \in Threads, AllocateStorage(t)
    PROVE  Owned'
<1> USE IdTypes DEF AllocateStorage, OwnedHyp, SlotsHyp, Basis, TypeOK, CallInv,
                    CallState, ConstructorAt, DestructorAt, Slots, BuildInv,
                    Owned, OwnStorage, DestroyInv
<1>1. OwnStorage'
  OBVIOUS
<1>2. DestroyInv'
  OBVIOUS
<1> QED BY <1>1, <1>2

\* Owned survives the throw that leaks the id (thread_local.h:94-99).
LEMMA OwnedConstructorThrows ==
    ASSUME OwnedHyp, NEW t \in Threads, ConstructorThrows(t)
    PROVE  Owned'
<1> USE IdTypes DEF ConstructorThrows, OwnedHyp, SlotsHyp, Basis, TypeOK,
                    CallInv, CallState, ConstructorAt, DestructorAt, Slots,
                    BuildInv, Owned, OwnStorage, DestroyInv
<1>1. OwnStorage'
  OBVIOUS
<1>2. DestroyInv'
  OBVIOUS
<1> QED BY <1>1, <1>2

\* Owned survives freeing the T of a failed constructor
\* (thread_local.h:103).
LEMMA OwnedUndoFree ==
    ASSUME OwnedHyp, NEW t \in Threads, UndoFree(t)
    PROVE  Owned'
<1> USE IdTypes DEF UndoFree, OwnedHyp, SlotsHyp, Basis, TypeOK, CallInv,
                    CallState, ConstructorAt, DestructorAt, Slots, BuildInv,
                    Owned, OwnStorage, DestroyInv
<1>1. OwnStorage'
  OBVIOUS
<1>2. DestroyInv'
  OBVIOUS
<1> QED BY <1>1, <1>2

\* Owned survives the slot read that begins a destructor
\* (thread_local.h:135).
LEMMA OwnedReadOwnSlot ==
    ASSUME OwnedHyp, NEW t \in Threads, NEW o \in Objects, ReadOwnSlot(t, o)
    PROVE  Owned'
<1> USE IdTypes DEF ReadOwnSlot, CanDestroy, CanCall, InUse, ReadSlot, OwnedHyp,
                    SlotsHyp, Basis, TypeOK, CallInv, CallState, ConstructorAt,
                    DestructorAt, Slots, BuildInv, Owned, OwnStorage, DestroyInv
<1>1. OwnStorage'
  OBVIOUS
<1>3. ASSUME pc'[t] = "free"
      PROVE  (pStorage[t] \in Blocks /\ pStorage[t] = storage[self[t]])'
  <2>0. PICK q \in ReadSlot(t, m_uInstanceId[o]) \ {WILD} :
             /\ pStorage' = [pStorage EXCEPT ![t] = q]
             /\ Call(t, o, IF q = NULL THEN "deleteId" ELSE "free")
    OBVIOUS
  <2>1. q # NULL /\ q # WILD /\ pStorage'[t] = q
    BY <1>3, <2>0
  <2>2. m_uInstanceId[o] # kSize /\ q = s_ppInstances[t][m_uInstanceId[o]]
    BY <2>1
  <2>3. owner[o] = t /\ self'[t] = o
    OBVIOUS
  <2>4. q = storage[o] /\ storage[o] \in Blocks
    BY <2>2, <2>3 DEF OwnSlot
  <2> QED BY <2>1, <2>3, <2>4
<1>2. DestroyInv'
  <2> SUFFICES ASSUME NEW v \in Threads, pc'[v] = "free"
               PROVE  (pStorage[v] \in Blocks /\ pStorage[v] = storage[self[v]])'
    OBVIOUS
  <2>1. CASE v = t
    BY <1>3, <2>1
  <2>2. CASE v # t
    BY <2>2
  <2> QED BY <2>1, <2>2
<1> QED BY <1>1, <1>2

\* Owned survives freeing what the slot held (thread_local.h:138-139).
LEMMA OwnedFreeStorage ==
    ASSUME OwnedHyp, NEW t \in Threads, FreeStorage(t)
    PROVE  Owned'
<1> USE IdTypes DEF FreeStorage, OwnedHyp, SlotsHyp, Basis, TypeOK, CallInv,
                    CallState, ConstructorAt, DestructorAt, Slots, BuildInv,
                    Owned, OwnStorage, DestroyInv
<1>1. OwnStorage'
  OBVIOUS
<1>2. DestroyInv'
  OBVIOUS
<1> QED BY <1>1, <1>2

\* Owned survives releasing the id (thread_local.h:104, 142).
LEMMA OwnedDeleteInstanceId ==
    ASSUME OwnedHyp, NEW t \in Threads, DeleteInstanceId(t)
    PROVE  Owned'
<1> USE IdTypes DEF DeleteInstanceId, OwnedHyp, SlotsHyp, Basis, TypeOK, CallInv,
                    CallState, ConstructorAt, DestructorAt, Slots, BuildInv,
                    Owned, OwnStorage, DestroyInv
<1>1. OwnStorage'
  OBVIOUS
<1>2. DestroyInv'
  OBVIOUS
<1> QED BY <1>1, <1>2

\* A move hands the T on to the target, and to nobody else.
LEMMA TransferKeepsOwnership ==
    ASSUME TypeOK, OwnStorage, NEW o \in Objects, NEW p \in Objects, o # p,
           Transfer(o, p)
    PROVE  OwnStorage'
<1>1. /\ storage'[o] = storage[p] /\ storage'[p] = NULL
      /\ \A q \in Objects \ {o, p} : storage'[q] = storage[q]
      /\ heap' = heap
  BY DEF Transfer, TypeOK
<1>2. \A q \in Objects : storage'[q] # NULL => storage'[q] \in heap'
  BY <1>1 DEF OwnStorage
<1>3. ASSUME NEW q \in Objects, NEW r \in Objects, storage'[q] = storage'[r],
             storage'[q] # NULL
      PROVE  q = r
  BY <1>1, <1>3 DEF OwnStorage
<1> QED BY <1>2, <1>3 DEF OwnStorage

\* Owned survives a move construction (thread_local.h:110-117).
LEMMA OwnedMoveConstruct ==
    ASSUME OwnedHyp, NEW t \in Threads, NEW o \in Objects, NEW p \in Objects,
           MoveConstruct(t, o, p)
    PROVE  Owned'
<1> USE IdTypes DEF MoveConstruct, CanCall, InUse, Transfer, OwnedHyp, SlotsHyp,
                    Basis, TypeOK, CallInv, CallState, ConstructorAt,
                    DestructorAt, Slots, BuildInv, Owned, OwnStorage, DestroyInv
<1>1. OwnStorage'
  BY TransferKeepsOwnership
<1>2. DestroyInv'
  OBVIOUS
<1> QED BY <1>1, <1>2

\* Owned survives a move assignment (thread_local.h:119-128).
LEMMA OwnedMoveAssign ==
    ASSUME OwnedHyp, NEW t \in Threads, NEW o \in Objects, NEW p \in Objects,
           MoveAssign(t, o, p)
    PROVE  Owned'
<1> USE IdTypes DEF MoveAssign, CanCall, InUse, Transfer, OwnedHyp, SlotsHyp,
                    Basis, TypeOK, CallInv, CallState, ConstructorAt,
                    DestructorAt, Slots, BuildInv, Owned, OwnStorage, DestroyInv
<1>1. OwnStorage'
  BY TransferKeepsOwnership
<1>2. DestroyInv'
  OBVIOUS
<1> QED BY <1>1, <1>2

\* When owners destroy, every step keeps each T with one object.
LEMMA OwnedStep ==
    OwnedHyp /\ [Next]_vars => Owned'
<1> SUFFICES ASSUME OwnedHyp, [Next]_vars
             PROVE  Owned'
  OBVIOUS
<1>1. CASE UNCHANGED <<heap, storage, pc, self, pStorage>>
  BY <1>1 DEF OwnedHyp, Owned, OwnStorage, DestroyInv
<1>2. ASSUME NEW t \in Threads, UNCHANGED <<heap, storage>>,
             \A v \in Threads \ {t} : /\ self'[v] = self[v] /\ pc'[v] = pc[v]
                                      /\ pStorage'[v] = pStorage[v],
             pc'[t] # "free"
      PROVE  Owned'
  BY <1>2 DEF OwnedHyp, Owned, OwnStorage, DestroyInv
<1>3. ASSUME NEW t \in Threads, ConstructorStep(t)
      PROVE  Owned'
  BY <1>2, <1>3, OwnedAllocateStorage, OwnedConstructorThrows, OwnedUndoFree
  DEF ConstructorStep, NewTable, NewTableFails, PushTable, PushTableThrows,
      StoreSlot, OwnedHyp, SlotsHyp, Basis, TypeOK
<1>4. ASSUME NEW t \in Threads, DestructorStep(t)
      PROVE  Owned'
  BY <1>1, <1>2, <1>4, OwnedFreeStorage, OwnedDeleteInstanceId
  DEF DestructorStep, FreeTwice, Fault, ClearSlot,
      OwnedHyp, SlotsHyp, Basis, TypeOK
<1>5. ASSUME NEW t \in Threads, ForeachStep(t)
      PROVE  Owned'
  BY <1>1, <1>2, <1>5
  DEF ForeachStep, ForeachSkip, ForeachVisit, ForeachStop, ForeachEnd,
      ForeachUnlock, OwnedHyp, SlotsHyp, Basis, TypeOK
<1>6. ASSUME NEW t \in Threads, ClientStep(t)
      PROVE  Owned'
  BY <1>1, <1>2, <1>6, OwnedNewInstanceId, OwnedReadOwnSlot,
     OwnedMoveConstruct, OwnedMoveAssign
  DEF ClientStep, Construct, Destruct, IdsExhausted, FreeWild, Get, NullTable,
      ForeachRefused, ForeachLock, Fault, OwnedHyp, SlotsHyp, Basis, TypeOK
<1> QED BY <1>1, <1>3, <1>4, <1>5, <1>6 DEF Next, ThreadStep, Crashed, vars

\* When owners destroy, each T is with one object in every behaviour.
LEMMA OwnedAlways == ASSUME ~AnyThreadDestroys
                     PROVE  Spec => []Owned
<1>1. Init => Owned
  BY DEF Init, Owned, OwnStorage, DestroyInv
<1>2. Basis /\ UniqueIds /\ Slots /\ Owned /\ [Next]_vars => Owned'
  BY OwnedStep DEF OwnedHyp, SlotsHyp
<1> QED BY <1>1, <1>2, SlotsAlways, BasisAlways, PTL DEF Spec

\* If objects are destroyed by the threads that constructed them, the T of a
\* live object stays allocated and is never shared.
THEOREM OwnStorageAlways == ASSUME ~AnyThreadDestroys
                            PROVE  Spec => []OwnStorage
<1>1. Owned => OwnStorage
  BY DEF Owned
<1> QED BY <1>1, OwnedAlways, PTL

\* ... and no destructor frees a T twice.
THEOREM NoDoubleFreeAlways == ASSUME ~AnyThreadDestroys
                              PROVE  Spec => []NoDoubleFree
<1>1. Init => NoDoubleFree
  BY DEF Init, NoDoubleFree
<1>2. ASSUME Basis, Owned, NoDoubleFree, [Next]_vars
      PROVE  NoDoubleFree'
  <2>1. ASSUME NEW t \in Threads
        PROVE  ~FreeTwice(t)
    <3> SUFFICES ASSUME pc[t] = "free" PROVE pStorage[t] \in heap
      BY DEF FreeTwice
    <3>1. self[t] \in Objects /\ pStorage[t] = storage[self[t]] /\ pStorage[t] \in Blocks
      BY <1>2 DEF Basis, CallInv, CallState, Owned, DestroyInv
    <3> QED BY <1>2, <3>1, IdTypes DEF Owned, OwnStorage
  <2>2. fault' \in {fault, "null_deref", "wild_free"}
    BY <1>2, <2>1
    DEF Next, vars, Crashed, ThreadStep, ClientStep, ConstructorStep,
       DestructorStep, ForeachStep, Construct, Destruct, Fault, NewInstanceId,
       IdsExhausted, AllocateStorage, ConstructorThrows, NewTable,
       NewTableFails, PushTable, PushTableThrows, StoreSlot, UndoFree,
       ReadOwnSlot, FreeStorage, ClearSlot, DeleteInstanceId, Get, NullTable,
       FreeWild, ForeachRefused, ForeachLock, ForeachSkip, ForeachVisit,
       ForeachStop, ForeachEnd, ForeachUnlock, MoveConstruct, MoveAssign,
       Transfer
  <2> QED BY <1>2, <2>2 DEF NoDoubleFree
<1> QED BY <1>1, <1>2, OwnedAlways, BasisAlways, PTL DEF Spec

-----------------------------------------------------------------------------
(* What is lost, when only the constructing thread destroys an object *)

StoredHyp == OwnedHyp /\ StorageInv

\* StorageInv survives taking an id for a raw object (thread_local.cpp:18-28).
LEMMA StoredNewInstanceId ==
    ASSUME StoredHyp, NEW t \in Threads, NEW o \in Objects, NewInstanceId(t, o)
    PROVE  StorageInv'
<1> USE IdTypes DEF NewInstanceId, StoredHyp, OwnedHyp, SlotsHyp, Basis, TypeOK,
                    CallInv, CallState, ConstructorAt, DestructorAt, StorageInv
<1>1. \A p \in Objects : objState'[p] \in {"raw", "live"}
                         => objState[p] = objState'[p] /\ m_uInstanceId[p] = m_uInstanceId'[p]
  OBVIOUS
<1>2. ASSUME NEW v \in Threads,
             pc'[v] \in {"allocate", "undoId", "clearSlot", "deleteId"}
      PROVE  storage'[self'[v]] = NULL
  <2>1. CASE v = t
    BY <2>1
  <2>2. CASE v # t
    BY <1>2, <2>2
  <2> QED BY <2>1, <2>2
<1> QED BY <1>1, <1>2

\* StorageInv survives the steps of a constructor (thread_local.h:93-107).
LEMMA StoredConstructorStep ==
    ASSUME StoredHyp, NEW t \in Threads, ConstructorStep(t)
    PROVE  StorageInv'
<1> USE IdTypes DEF StoredHyp, OwnedHyp, SlotsHyp, Basis, TypeOK,
                    CallInv, CallState, ConstructorAt, DestructorAt, StorageInv
<1>1. CASE AllocateStorage(t)
  BY <1>1 DEF AllocateStorage
<1>2. CASE ConstructorThrows(t)
  BY <1>2 DEF ConstructorThrows
<1>3. CASE NewTable(t) \/ NewTableFails(t) \/ PushTable(t) \/ PushTableThrows(t)
  BY <1>3 DEF NewTable, NewTableFails, PushTable, PushTableThrows
<1>4. CASE StoreSlot(t)
  BY <1>4 DEF StoreSlot
<1>5. CASE UndoFree(t)
  BY <1>5 DEF UndoFree
<1> QED BY <1>1, <1>2, <1>3, <1>4, <1>5 DEF ConstructorStep

\* StorageInv survives the slot read that begins a destructor: a slot that is
\* null is that of an object moved from (thread_local.h:135).
LEMMA StoredReadOwnSlot ==
    ASSUME StoredHyp, NEW t \in Threads, NEW o \in Objects, ReadOwnSlot(t, o)
    PROVE  StorageInv'
<1> USE IdTypes DEF ReadOwnSlot, CanDestroy, CanCall, InUse, ReadSlot, StoredHyp,
                    OwnedHyp, SlotsHyp, Basis, TypeOK, CallInv, CallState,
                    ConstructorAt, DestructorAt, StorageInv
<1>1. ASSUME pc'[t] = "deleteId"
      PROVE  storage[o] = NULL
  <2>0. PICK q \in ReadSlot(t, m_uInstanceId[o]) \ {WILD} :
             Call(t, o, IF q = NULL THEN "deleteId" ELSE "free")
    OBVIOUS
  <2>1. q = NULL
    BY <1>1, <2>0
  <2>2. m_uInstanceId[o] # kSize => q = storage[o] /\ storage[o] # NULL
    BY <2>0 DEF Slots, OwnSlot
  <2> QED BY <2>1, <2>2
<1>2. /\ self'[t] = o /\ pc'[t] \in {"deleteId", "free"} /\ UNCHANGED storage
      /\ \A v \in Threads \ {t} : self'[v] = self[v] /\ pc'[v] = pc[v]
  OBVIOUS
<1> QED BY <1>1, <1>2

\* StorageInv survives the other steps of a destructor (thread_local.h:137-142).
LEMMA StoredDestructorStep ==
    ASSUME StoredHyp, NEW t \in Threads, DestructorStep(t)
    PROVE  StorageInv'
<1> USE IdTypes DEF StoredHyp, OwnedHyp, SlotsHyp, Basis, TypeOK,
                    CallInv, CallState, ConstructorAt, DestructorAt, StorageInv
<1>1. CASE FreeStorage(t)
  BY <1>1 DEF FreeStorage
<1>2. CASE FreeTwice(t)
  BY <1>2 DEF FreeTwice, Fault
<1>3. CASE ClearSlot(t)
  BY <1>3 DEF ClearSlot
<1>4. CASE DeleteInstanceId(t)
  BY <1>4 DEF DeleteInstanceId
<1> QED BY <1>1, <1>2, <1>3, <1>4 DEF DestructorStep

\* StorageInv survives a move: the source is left without a T.
LEMMA StoredMove ==
    ASSUME StoredHyp, NEW t \in Threads, NEW o \in Objects, NEW p \in Objects,
           MoveConstruct(t, o, p) \/ MoveAssign(t, o, p)
    PROVE  StorageInv'
<1> USE IdTypes DEF MoveConstruct, MoveAssign, CanCall, InUse, Transfer, StoredHyp,
                    OwnedHyp, SlotsHyp, Basis, TypeOK, CallInv, CallState,
                    ConstructorAt, DestructorAt, StorageInv
<1>1. o # p /\ objState[p] = "live" /\ \A v \in Threads : self[v] # p
  OBVIOUS
<1>2. \A v \in Threads : pc[v] # "idle" => self[v] # o
  BY RawUnused
<1>3. \A q \in Objects :
          \/ objState'[q] = "raw"
          \/ objState'[q] = "live" /\ m_uInstanceId'[q] = kInvalidInstanceId
          => storage'[q] = NULL
  BY <1>1
<1>4. \A v \in Threads :
          pc'[v] \in {"allocate", "undoId", "clearSlot", "deleteId"}
          => storage'[self'[v]] = NULL
  BY <1>1, <1>2
<1> QED BY <1>3, <1>4

\* StorageInv survives every step when owners destroy.
LEMMA StoredStep == StoredHyp /\ [Next]_vars => StorageInv'
<1> SUFFICES ASSUME StoredHyp, [Next]_vars
             PROVE  StorageInv'
  OBVIOUS
<1>1. CASE UNCHANGED <<storage, objState, m_uInstanceId, pc, self>>
  BY <1>1 DEF StoredHyp, StorageInv
<1>2. ASSUME NEW t \in Threads, UNCHANGED <<storage, objState, m_uInstanceId>>,
             \A v \in Threads \ {t} : self'[v] = self[v] /\ pc'[v] = pc[v],
             pc'[t] \in {"idle", "foreach"}
      PROVE  StorageInv'
  BY <1>2 DEF StoredHyp, StorageInv
<1>3. ASSUME NEW t \in Threads, ForeachStep(t)
      PROVE  StorageInv'
  BY <1>1, <1>2, <1>3
  DEF ForeachStep, ForeachSkip, ForeachVisit, ForeachStop, ForeachEnd,
      ForeachUnlock, StoredHyp, OwnedHyp, SlotsHyp, Basis, TypeOK
<1>4. ASSUME NEW t \in Threads, ClientStep(t)
      PROVE  StorageInv'
  BY <1>1, <1>2, <1>4, StoredNewInstanceId, StoredReadOwnSlot, StoredMove
  DEF ClientStep, Construct, Destruct, IdsExhausted, FreeWild, Get, NullTable,
      ForeachRefused, ForeachLock, Fault, StoredHyp, OwnedHyp, SlotsHyp, Basis, TypeOK
<1> QED BY <1>1, <1>3, <1>4, StoredConstructorStep, StoredDestructorStep
        DEF Next, ThreadStep, Crashed, vars

\* When owners destroy, StorageInv holds in every behaviour.
LEMMA StoredAlways == ASSUME ~AnyThreadDestroys
                      PROVE  Spec => []StorageInv
<1>1. Init => StorageInv
  BY IdTypes DEF Init, StorageInv
<1>2. Basis /\ UniqueIds /\ Slots /\ Owned /\ StorageInv /\ [Next]_vars => StorageInv'
  BY StoredStep DEF StoredHyp, OwnedHyp, SlotsHyp
<1> QED BY <1>1, <1>2, OwnedAlways, SlotsAlways, BasisAlways, PTL DEF Spec

\* A step that loses an id is a constructor that throws, or a move assignment.
LEMMA IdsKept ==
    ASSUME Basis, [Next]_vars,
           ~\E t \in Threads :
               \/ ConstructorThrows(t)
               \/ \E to \in Objects, from \in Objects : MoveAssign(t, to, from)
    PROVE  LostIds' \subseteq LostIds
<1> USE DEF Basis, TypeOK
<1>1. CASE UNCHANGED <<s_bitset, m_uInstanceId>>
  BY <1>1 DEF LostIds, Bits
<1>2. ASSUME NEW t \in Threads, NEW o \in Objects, NewInstanceId(t, o)
      PROVE  LostIds' \subseteq LostIds
  <2> DEFINE u == findFirstNone(s_bitset)
  <2>1. u \in Index /\ s_bitset' = set(s_bitset, u)
    BY <1>2, NewIdIsFree DEF NewInstanceId
  <2>2. Bits(s_bitset)' = Bits(s_bitset) \cup {u}
    BY <2>1, SetBits
  <2>3. m_uInstanceId' = [m_uInstanceId EXCEPT ![o] = u] /\ m_uInstanceId[o] = kSize
    BY <1>2 DEF NewInstanceId, CallInv
  <2>4. Bits(s_bitset) \subseteq Index
    BY DEF Bits
  <2> HIDE DEF u
  <2> QED BY <2>2, <2>3, <2>4, IdTypes DEF LostIds
<1>3. ASSUME NEW t \in Threads, DeleteInstanceId(t)
      PROVE  LostIds' \subseteq LostIds
  <2> DEFINE o == self[t]
             u == m_uInstanceId[o]
  <2>1. o \in Objects /\ u \in InstanceId
    BY <1>3 DEF DeleteInstanceId, CallInv, CallState
  <2>2. m_uInstanceId' = [m_uInstanceId EXCEPT ![o] = kSize]
    BY <1>3 DEF DeleteInstanceId
  <2>3. Bits(s_bitset)' = Bits(s_bitset) \ {u}
    <3>1. CASE u = kSize
      BY <1>3, <3>1, IdTypes DEF DeleteInstanceId, Bits
    <3>2. CASE u # kSize
      <4>1. u \in Index /\ s_bitset' = clear(s_bitset, u)
        BY <1>3, <2>1, <3>2, IdTypes DEF DeleteInstanceId
      <4> QED BY <4>1, ClearBits
    <3> QED BY <3>1, <3>2
  <2>4. u = m_uInstanceId[o]
    OBVIOUS
  <2> HIDE DEF o, u
  <2> QED BY <2>1, <2>2, <2>3, <2>4 DEF LostIds
<1>4. ASSUME NEW t \in Threads, NEW o \in Objects, NEW p \in Objects,
             MoveConstruct(t, o, p)
      PROVE  LostIds' \subseteq LostIds
  <2>1. m_uInstanceId[o] = kSize /\ o # p /\ UNCHANGED s_bitset
    BY <1>4 DEF MoveConstruct, CanCall, Transfer, CallInv
  <2>2. m_uInstanceId' = [m_uInstanceId EXCEPT ![o] = m_uInstanceId[p], ![p] = kSize]
    BY <1>4 DEF MoveConstruct, Transfer
  <2>3. Bits(s_bitset) \subseteq Index /\ UNCHANGED Bits(s_bitset)
    BY <2>1 DEF Bits
  <2> QED BY <2>1, <2>2, <2>3, IdTypes DEF LostIds
<1> QED BY <1>1, <1>2, <1>3, <1>4, IdSteps

\* The steps that change the heap or an object's T.
LEMMA StorageSteps ==
    ASSUME [Next]_vars
    PROVE  \/ UNCHANGED <<heap, storage>>
           \/ \E t \in Threads : \/ AllocateStorage(t) \/ ConstructorThrows(t)
                                 \/ UndoFree(t) \/ FreeStorage(t)
                                 \/ DeleteInstanceId(t)
           \/ \E t \in Threads, o, p \in Objects : MoveConstruct(t, o, p) \/ MoveAssign(t, o, p)
BY DEF Next, vars, Crashed, ThreadStep, ClientStep, ConstructorStep,
       DestructorStep, ForeachStep, Construct, Destruct, Fault,
       NewInstanceId, IdsExhausted, NewTable, NewTableFails, PushTable,
       PushTableThrows, StoreSlot, ReadOwnSlot,
       FreeTwice, ClearSlot, Get, NullTable, FreeWild, ForeachRefused,
       ForeachLock, ForeachSkip, ForeachVisit, ForeachStop, ForeachEnd,
       ForeachUnlock

\* So is a step that loses a T, when owners destroy.
LEMMA BlocksKept ==
    ASSUME StoredHyp, [Next]_vars,
           ~\E t \in Threads :
               \/ ConstructorThrows(t)
               \/ \E to \in Objects, from \in Objects : MoveAssign(t, to, from)
    PROVE  LostBlocks' \subseteq LostBlocks
<1> USE IdTypes DEF StoredHyp, OwnedHyp, SlotsHyp, Basis, TypeOK
<1>1. CASE UNCHANGED <<heap, storage>>
  BY <1>1 DEF LostBlocks
<1>2. ASSUME NEW t \in Threads, NEW o \in Objects, NEW b,
             storage' = [storage EXCEPT ![o] = b],
             \/ heap' = heap \cup {b} /\ storage[o] = NULL
             \/ heap' = heap \ {storage[o]}
             \/ heap' = heap /\ storage[o] = NULL
      PROVE  LostBlocks' \subseteq LostBlocks
  BY <1>2 DEF LostBlocks
<1>3. ASSUME NEW t \in Threads, AllocateStorage(t)
      PROVE  LostBlocks' \subseteq LostBlocks
  <2>1. PICK b \in Blocks \ heap : /\ heap' = heap \cup {b}
                                   /\ storage' = [storage EXCEPT ![self[t]] = b]
    BY <1>3 DEF AllocateStorage
  <2>2. self[t] \in Objects /\ storage[self[t]] = NULL
    BY <1>3 DEF AllocateStorage, CallInv, CallState, StorageInv
  <2> QED BY <1>2, <2>1, <2>2
<1>4. ASSUME NEW t \in Threads, UndoFree(t)
      PROVE  LostBlocks' \subseteq LostBlocks
  BY <1>2, <1>4 DEF UndoFree, CallInv, CallState, Slots, BuildInv
<1>5. ASSUME NEW t \in Threads, FreeStorage(t)
      PROVE  LostBlocks' \subseteq LostBlocks
  BY <1>2, <1>5 DEF FreeStorage, CallInv, CallState, Owned, DestroyInv
<1>6. ASSUME NEW t \in Threads, DeleteInstanceId(t)
      PROVE  LostBlocks' \subseteq LostBlocks
  BY <1>2, <1>6 DEF DeleteInstanceId, CallInv, CallState, StorageInv
<1>7. ASSUME NEW t \in Threads, NEW o \in Objects, NEW p \in Objects,
             MoveConstruct(t, o, p)
      PROVE  LostBlocks' \subseteq LostBlocks
  <2>1. storage[o] = NULL /\ o # p /\ UNCHANGED heap
    BY <1>7 DEF MoveConstruct, CanCall, Transfer, StorageInv
  <2>2. storage' = [storage EXCEPT ![o] = storage[p], ![p] = NULL]
    BY <1>7 DEF MoveConstruct, Transfer
  <2>3. ASSUME NEW q \in Objects, storage[q] # NULL
        PROVE  \E r \in Objects : storage'[r] = storage[q]
    <3>1. CASE q = p
      BY <2>1, <2>2, <3>1
    <3>2. CASE q # p
      BY <2>1, <2>2, <2>3, <3>2
    <3> QED BY <3>1, <3>2
  <2>4. NULL \notin heap
    OBVIOUS
  <2>5. ASSUME NEW c \in LostBlocks'
        PROVE  c \in heap /\ ~\E q \in Objects : storage[q] = c
    <3>1. c \in heap /\ c # NULL /\ ~\E r \in Objects : storage'[r] = c
      BY <2>1, <2>4 DEF LostBlocks
    <3> QED BY <2>3, <3>1
  <2> QED BY <2>5 DEF LostBlocks
<1> QED BY <1>1, <1>3, <1>4, <1>5, <1>6, <1>7, StorageSteps

\* If objects are destroyed by the threads that constructed them, no id and no
\* T is lost but by a constructor that throws for want of a T and by a move
\* assignment, however many threads, objects and ids there are.
THEOREM OnlyKnownLeaksAlways == ASSUME ~AnyThreadDestroys
                                PROVE  Spec => OnlyKnownLeaks
<1> DEFINE Kept ==
      ~(\E t \in Threads :
            \/ ConstructorThrows(t)
            \/ \E to \in Objects, from \in Objects : MoveAssign(t, to, from))
      => LostIds' \subseteq LostIds /\ LostBlocks' \subseteq LostBlocks
<1>1. Basis /\ UniqueIds /\ Slots /\ Owned /\ StorageInv /\ [Next]_vars => [Kept]_vars
  BY IdsKept, BlocksKept DEF StoredHyp, OwnedHyp, SlotsHyp
<1> QED BY <1>1, StoredAlways, OwnedAlways, SlotsAlways, BasisAlways, PTL
        DEF Spec, OnlyKnownLeaks

-----------------------------------------------------------------------------
(* foreach *)

\* A step that leaves v's loop and v's object alone keeps its part of LoopInv.
LEMMA LoopFrame ==
    ASSUME LoopInv, UNCHANGED s_vecpppInstances,
           \A v \in Threads : pc'[v] = "foreach" =>
              /\ pc[v] = "foreach" /\ self'[v] = self[v]
              /\ uPos'[v] = uPos[v] /\ visited'[v] = visited[v]
              /\ owner'[self[v]] = owner[self[v]]
              /\ storage'[self[v]] = storage[self[v]]
    PROVE  LoopInv'
BY DEF LoopInv

\* Nobody constructs, destroys or moves an object that a foreach is using.
LEMMA LoopObject ==
    ASSUME Basis, NEW v \in Threads, pc[v] = "foreach"
    PROVE  /\ self[v] \in Objects /\ objState[self[v]] = "live"
           /\ \A t \in Threads : pc[t] \in ConstructorAt \cup DestructorAt
                                 => t # v /\ self[t] # self[v]
BY DEF Basis, CallInv, CallState, ConstructorAt, DestructorAt

\* A constructor that runs during a foreach does not hide a table the loop
\* passed.
LEMMA LoopConstructorStep ==
    ASSUME Basis, LoopInv, NEW t \in Threads, ConstructorStep(t)
    PROVE  LoopInv'
<1>1. CASE PushTable(t)
  <2>1. \A v \in Threads : pc'[v] # "foreach"
    BY <1>1, IdTypes DEF PushTable, Basis, TypeOK, CallInv, CallState
  <2> QED BY <2>1 DEF LoopInv
<1>2. CASE ~PushTable(t)
  <2>1. pc[t] \in ConstructorAt /\ pc'[t] # "foreach"
    BY <1>2 DEF ConstructorStep, AllocateStorage, ConstructorThrows, NewTable,
       NewTableFails, PushTableThrows, StoreSlot, UndoFree, ConstructorAt,
       Basis, TypeOK
  <2>2. /\ UNCHANGED <<s_vecpppInstances, uPos, visited>>
        /\ \A v \in Threads \ {t} : pc'[v] = pc[v] /\ self'[v] = self[v]
        /\ \A o \in Objects \ {self[t]} : owner'[o] = owner[o] /\ storage'[o] = storage[o]
    BY <1>2 DEF ConstructorStep, AllocateStorage, ConstructorThrows, NewTable,
       NewTableFails, PushTableThrows, StoreSlot, UndoFree, Basis, TypeOK
  <2> QED BY <2>1, <2>2, LoopObject, LoopFrame
<1> QED BY <1>1, <1>2

\* A destructor that runs during a foreach leaves the object of the loop
\* alone.
LEMMA LoopDestructorStep ==
    ASSUME Basis, LoopInv, NEW t \in Threads, DestructorStep(t)
    PROVE  LoopInv'
<1>1. pc[t] \in ConstructorAt \cup DestructorAt /\ pc'[t] # "foreach"
  BY DEF DestructorStep, FreeStorage, FreeTwice, ClearSlot, DeleteInstanceId,
     Fault, ConstructorAt, DestructorAt, Basis, TypeOK
<1>2. /\ UNCHANGED <<s_vecpppInstances, uPos, visited>>
      /\ \A v \in Threads \ {t} : pc'[v] = pc[v] /\ self'[v] = self[v]
      /\ \A o \in Objects \ {self[t]} : owner'[o] = owner[o] /\ storage'[o] = storage[o]
  BY DEF DestructorStep, FreeStorage, FreeTwice, ClearSlot, DeleteInstanceId,
     Fault, Basis, TypeOK
<1> QED BY <1>1, <1>2, LoopObject, LoopFrame

\* The loop moves past a table only after passing its slot to func.
LEMMA LoopForeachStep ==
    ASSUME Basis, OwnSlot, LoopInv, NEW t \in Threads, ForeachStep(t)
    PROVE  LoopInv'
<1>0. /\ pc[t] = "foreach" /\ self[t] \in Objects /\ objState[self[t]] = "live"
      /\ m_uInstanceId[self[t]] # kSize
  BY DEF ForeachStep, ForeachSkip, ForeachVisit, ForeachStop, ForeachEnd, InLoop,
     Basis, CallInv, CallState
\* At the table of the constructing thread the loop finds the object's own T.
<1>1. ASSUME InLoop(t), s_vecpppInstances[uPos[t]] = owner[self[t]]
      PROVE  Visitee(t) = storage[self[t]] /\ Visitee(t) # NULL
  BY <1>0, <1>1 DEF OwnSlot, Visitee
<1>2. CASE ForeachSkip(t)
  <2>1. /\ uPos'[t] = uPos[t] + 1 /\ uPos[t] \in Nat
        /\ \A v \in Threads \ {t} : uPos'[v] = uPos[v]
        /\ UNCHANGED <<s_vecpppInstances, owner, storage, pc, self, visited>>
    BY <1>2 DEF ForeachSkip, Basis, TypeOK
  <2>2. s_vecpppInstances[uPos[t]] # owner[self[t]]
    BY <1>1, <1>2 DEF ForeachSkip
  <2>3. DOMAIN s_vecpppInstances \subseteq Nat
    BY DEF Basis, TypeOK
  <2> QED BY <2>1, <2>2, <2>3 DEF LoopInv
<1>3. CASE ForeachVisit(t)
  <2>1. /\ uPos'[t] = uPos[t] + 1 /\ uPos[t] \in Nat
        /\ \A v \in Threads \ {t} : uPos'[v] = uPos[v] /\ visited'[v] = visited[v]
        /\ visited'[t] = visited[t] \cup {Visitee(t)}
        /\ UNCHANGED <<s_vecpppInstances, owner, storage, pc, self>>
    BY <1>3 DEF ForeachVisit, Basis, TypeOK
  <2>2. s_vecpppInstances[uPos[t]] = owner[self[t]] => Visitee(t) = storage[self[t]]
    BY <1>1, <1>3 DEF ForeachVisit
  <2>3. DOMAIN s_vecpppInstances \subseteq Nat
    BY DEF Basis, TypeOK
  <2> QED BY <2>1, <2>2, <2>3 DEF LoopInv
<1>4. CASE ForeachStop(t) \/ ForeachEnd(t)
  <2>1. /\ pc'[t] # "foreach"
        /\ \A v \in Threads \ {t} : /\ pc'[v] = pc[v] /\ self'[v] = self[v]
                                    /\ uPos'[v] = uPos[v] /\ visited'[v] = visited[v]
        /\ UNCHANGED <<s_vecpppInstances, owner, storage>>
    BY <1>4 DEF ForeachStop, ForeachEnd, ForeachUnlock, Basis, TypeOK
  <2> QED BY <2>1, LoopFrame
<1> QED BY <1>2, <1>3, <1>4 DEF ForeachStep

\* Calls that begin during a foreach leave its progress alone.
LEMMA LoopClientStep ==
    ASSUME Basis, LoopInv, NEW t \in Threads, ClientStep(t)
    PROVE  LoopInv'
<1>1. ASSUME NEW o \in Objects, ForeachLock(t, o)
      PROVE  LoopInv'
  <2>1. /\ uPos'[t] = 1
        /\ \A v \in Threads \ {t} : /\ pc'[v] = pc[v] /\ self'[v] = self[v]
                                    /\ uPos'[v] = uPos[v]
        /\ UNCHANGED <<s_vecpppInstances, owner, storage, visited>>
    BY <1>1 DEF ForeachLock, Basis, TypeOK
  <2>2. \A i \in DOMAIN s_vecpppInstances : ~(i < 1)
    BY DEF Basis, TypeOK
  <2> QED BY <2>1, <2>2 DEF LoopInv
<1>2. ASSUME NEW o \in Objects, NewInstanceId(t, o) \/ ReadOwnSlot(t, o)
      PROVE  LoopInv'
  <2>1. /\ \A v \in Threads : pc'[v] = "foreach" => v # t
        /\ \A v \in Threads \ {t} : pc'[v] = pc[v] /\ self'[v] = self[v]
        /\ \A p \in Objects \ {o} : owner'[p] = owner[p]
        /\ UNCHANGED <<s_vecpppInstances, uPos, visited, storage>>
    BY <1>2 DEF NewInstanceId, ReadOwnSlot, Basis, TypeOK
  <2>2. objState[o] = "raw" \/ owner' = owner
    BY <1>2 DEF NewInstanceId, ReadOwnSlot
  <2> QED BY <2>1, <2>2, LoopObject, LoopFrame
<1>3. ASSUME NEW o \in Objects, NEW p \in Objects,
             MoveConstruct(t, o, p) \/ MoveAssign(t, o, p)
      PROVE  LoopInv'
  <2>1. \A v \in Threads : self[v] # o /\ self[v] # p
    BY <1>3, RawUnused DEF MoveConstruct, MoveAssign, InUse
  <2>2. /\ \A q \in Objects \ {o, p} : owner'[q] = owner[q] /\ storage'[q] = storage[q]
        /\ UNCHANGED <<s_vecpppInstances, pc, self, uPos, visited>>
    BY <1>3 DEF MoveConstruct, MoveAssign, Transfer, Basis, TypeOK
  <2> QED BY <2>1, <2>2, LoopObject, LoopFrame
<1>4. CASE UNCHANGED <<s_vecpppInstances, owner, storage, pc, self, uPos, visited>>
  BY <1>4 DEF LoopInv
<1> QED BY <1>1, <1>2, <1>3, <1>4
        DEF ClientStep, Construct, Destruct, IdsExhausted, FreeWild, Get,
            NullTable, ForeachRefused, Fault

\* The loop has visited what it is past, in every behaviour.
LEMMA LoopAlways == Spec => []LoopInv
<1>1. Init => LoopInv
  BY DEF Init, LoopInv
<1>2. Basis /\ Slots /\ LoopInv /\ [Next]_vars => LoopInv'
  <2>1. UNCHANGED vars /\ LoopInv => LoopInv'
    BY DEF vars, LoopInv
  <2> QED BY <2>1, LoopConstructorStep, LoopDestructorStep, LoopForeachStep,
             LoopClientStep DEF Next, ThreadStep, Crashed, Slots
<1> QED BY <1>1, <1>2, BasisAlways, SlotsAlways, PTL DEF Spec

\* A foreach that reaches the end of the tables has passed the object's own T
\* to func, whatever the other threads construct, destroy and move meanwhile.
THEOREM ForeachCompleteAlways == Spec => []ForeachComplete
<1>1. Basis /\ Slots /\ LoopInv => ForeachComplete
  <2> SUFFICES ASSUME Basis, Slots, LoopInv, NEW t \in Threads,
                      pc[t] = "foreach", uPos[t] > Len(s_vecpppInstances)
               PROVE  storage[self[t]] \in visited[t]
    BY DEF ForeachComplete
  <2> DEFINE o == self[t]
  <2>1. /\ o \in Objects /\ objState[o] = "live" /\ m_uInstanceId[o] # kSize
    BY DEF Basis, CallInv, CallState
  <2>2. owner[o] \in Threads /\ s_ppInstances[owner[o]] # NULL
    BY <2>1 DEF Slots, OwnSlot
  <2>3. pc[owner[o]] # "pushTable"
    BY <2>1, <2>2 DEF Slots, BuildInv
  <2>4. PICK i \in DOMAIN s_vecpppInstances : s_vecpppInstances[i] = owner[o]
    BY <2>2, <2>3 DEF Basis, Registered
  <2>5. i < uPos[t]
    BY <2>4 DEF Basis, TypeOK
  <2> QED BY <2>4, <2>5 DEF LoopInv
<1> QED BY <1>1, LoopAlways, SlotsAlways, BasisAlways, PTL

\* The layers together: calls, constructors, destructors and loops stay
\* consistent when only the constructing thread destroys an object.
THEOREM InductiveAlways == ASSUME ~AnyThreadDestroys
                           PROVE  Spec => []Inductive
<1>1. Basis /\ Slots /\ Owned /\ LoopInv /\ StorageInv => Inductive
  BY DEF Basis, Slots, Owned, Inductive
<1> QED BY <1>1, BasisAlways, SlotsAlways, OwnedAlways, LoopAlways, StoredAlways, PTL
=============================================================================
