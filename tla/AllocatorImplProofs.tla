------------------------ MODULE AllocatorImplProofs -------------------------
(***************************************************************************)
(* For any threads, slots, blocks, sizes and widths: blocks have room for  *)
(* their sizes, statistics copied while nobody counts are exact, and       *)
(* counters balance.                                                       *)
(***************************************************************************)
EXTENDS AllocatorImpl, SumTheorems

\* Unsigned addition stays in range, and is exact below the modulus.
LEMMA PlusType == ASSUME NEW x \in Nat, NEW y \in Nat PROVE Plus(x, y) \in Size64
BY AllocatorAssumption DEF Plus, Size64

LEMMA PlusExact ==
    ASSUME NEW x \in Nat, NEW y \in Nat, x + y < kModulus PROVE Plus(x, y) = x + y
BY AllocatorAssumption DEF Plus

LEMMA Sizes64 ==
    /\ 0 \in Size64 /\ Size64 \subseteq Nat /\ Sizes \subseteq Size64
    /\ \A u \in Sizes : Request(u) \in Size64
<1>1. 0 \in Size64 /\ Size64 \subseteq Nat /\ Sizes \subseteq Size64
  BY AllocatorAssumption DEF Size64
<1>2. kHeader \in Nat
  BY AllocatorAssumption
<1>3. \A u \in Sizes : Request(u) \in Size64
  BY <1>1, <1>2, PlusType DEF Request
<1> QED BY <1>1, <1>3

LEMMA Named == ASSUME NEW e \in {"kNoMemory", "kInvalidParam", "kSuccess"}
               PROVE  ErrorCodes[e] \in s_pErrorStrMap
BY DEF ErrorCodes, s_pErrorStrMap

-----------------------------------------------------------------------------
(* What a step does to the blocks, the counters, the calls and the errors. *)

BlockType == [kind : {"free", "impl", "lldk"}, uSize : Size64,
              uRoom : Size64, by : Threads \cup {NULL}]
StatsType == [Fields -> Size64]
CallType  == [at : Steps, pMemory : Blocks \cup {NULL}, uSize : Size64, uOldSize : Size64,
              uRead : Size64 \cup {NULL}]

LEMMA Empties == NoBlock \in BlockType /\ NoStats \in StatsType /\ NoCall \in CallType
BY Sizes64 DEF NoBlock, NoStats, NoCall, BlockType, StatsType, CallType, Steps

CountSteps == {"addAllocatedSize", "addAllocatedCount", "addFreedSize",
               "addFreedCount", "reAddFreedSize", "reAddFreedCount"}

LEMMA CallTypes ==
    ASSUME TypeOK, NEW t \in Threads
    PROVE  /\ call \in [Threads -> CallType]
           /\ \A at \in Steps : Goto(t, at) => call' \in [Threads -> CallType]
           /\ Return(t) => call' \in [Threads -> CallType]
           /\ \A at \in Steps, b \in Blocks, u \in Size64, old \in Size64 :
                Enter(t, at, b, u, old) => call' \in [Threads -> CallType]
<1>1. call \in [Threads -> CallType]
  BY DEF TypeOK, CallType
<1>2. ASSUME NEW at \in Steps, Goto(t, at) PROVE call' \in [Threads -> CallType]
  BY <1>1, <1>2 DEF Goto, CallType
<1>3. Return(t) => call' \in [Threads -> CallType]
  BY <1>1, Empties DEF Return
<1>4. ASSUME NEW at \in Steps, NEW b \in Blocks, NEW u \in Size64, NEW old \in Size64,
             Enter(t, at, b, u, old)
      PROVE  call' \in [Threads -> CallType]
  BY <1>1, <1>4 DEF Enter, CallType
<1> QED BY <1>1, <1>2, <1>3, <1>4

LEMMA Moves ==
    ASSUME call \in [Threads -> CallType], NEW t \in Threads
    PROVE  /\ \A at : Goto(t, at) =>
                /\ call'[t].at = at /\ call'[t].pMemory = call[t].pMemory
                /\ call'[t].uSize = call[t].uSize /\ call'[t].uOldSize = call[t].uOldSize
                /\ call'[t].uRead = NULL /\ \A u \in Threads \ {t} : call'[u] = call[u]
           /\ Return(t) => call'[t] = NoCall /\ \A u \in Threads \ {t} : call'[u] = call[u]
BY DEF Goto, Return, CallType

\* What a copy of the statistics does to the call that makes it.
LEMMA CopyMoves ==
    ASSUME call \in [Threads -> CallType], NEW t \in Threads, StatsBegin(t) \/ StatsEnd(t)
    PROVE  /\ \A u \in Threads \ {t} : call'[u] = call[u]
           /\ call'[t].uRead = NULL /\ call'[t].pMemory \in {NULL, call[t].pMemory}
           /\ \/ call[t].at = "idle" /\ call'[t].at = "copying"
              \/ call[t].at = "copying" /\ call'[t] = NoCall
<1>1. StatsBegin(t) => At(t, "idle") /\ Goto(t, "copying")
  BY Zenon DEF StatsBegin
<1>2. StatsEnd(t) => At(t, "copying") /\ Return(t)
  BY Zenon DEF StatsEnd
<1> QED BY <1>1, <1>2, Moves DEF At, NoCall

LEMMA PlaceType ==
    ASSUME NEW t \in Threads, NEW u \in Sizes, NEW kind \in {"impl", "lldk"}
    PROVE  Place(t, kind, u, Request(u)) \in BlockType
BY Sizes64 DEF Place, BlockType

ErrorType ==
    /\ s_eErrorCode \in [Threads -> s_pErrorStrMap]
    /\ s_strErrorMsg \in [Threads -> Threads \cup {NULL}]

LEMMA ErrorTypes ==
    ASSUME ErrorType, NEW t \in Threads
    PROVE  /\ NoError => ErrorType'
           /\ \A e \in {"kNoMemory", "kInvalidParam"} : Fail(t, e) => ErrorType'
           /\ lldkSetErrorMsg(t) => ErrorType'
<1>1. NoError => ErrorType'
  BY DEF NoError, errors, ErrorType
<1>2. ASSUME NEW e \in {"kNoMemory", "kInvalidParam"}, Fail(t, e) PROVE ErrorType'
  <2>1. ErrorCodes[e] \in s_pErrorStrMap
    BY Named
  <2> QED BY <1>2, <2>1 DEF Fail, lldkSetErrorCode, ErrorType
<1>3. ASSUME lldkSetErrorMsg(t) PROVE ErrorType'
  BY <1>3 DEF lldkSetErrorMsg, StoreMsg, ErrorType
<1> QED BY <1>1, <1>2, <1>3

-----------------------------------------------------------------------------
(* Types.                                                                  *)

Typed ==
    /\ block \in [Blocks -> BlockType]
    /\ stats \in StatsType /\ s_allocateStats \in StatsType /\ copied \in StatsType
    /\ call \in [Threads -> CallType]
    /\ snapshot \in [Fields -> Size64 \cup {NULL}]
    /\ quiet \in BOOLEAN /\ crossed \in BOOLEAN
    /\ ErrorType
    /\ interface \in Interfaces
    /\ slot \in [Threads -> Slots] /\ slot[Owner] = "own"
    /\ fault \in {"none", "stale"}

\* The codes that have a text.
LEMMA Texts ==
    ASSUME NEW f
    PROVE  f \in [Threads -> s_pErrorStrMap]
           <=> f \in [Threads -> Int] /\ \A t \in Threads : lldkGetErrorStr(f[t]) # ""
<1>1. s_pErrorStrMap \subseteq Int
  BY DEF s_pErrorStrMap, ErrorCodes
<1>2. \A e : lldkGetErrorStr(e) # "" <=> e \in s_pErrorStrMap
  BY DEF lldkGetErrorStr
<1> QED BY <1>1, <1>2

LEMMA SameTypes == (TypeOK <=> Typed) /\ (TypeOK' <=> Typed')
BY Texts DEF TypeOK, Typed, BlockType, StatsType, CallType, ErrorType, lldkGetErrorCode

LEMMA TypeInit == Init => TypeOK
<1> SUFFICES ASSUME Init PROVE Typed
  BY SameTypes
<1>1. ErrorType
  BY Named DEF Init, ErrorInit, ErrorType
<1>2. snapshot \in [Fields -> Size64 \cup {NULL}]
  BY DEF Init, NoCopy
<1> QED BY <1>1, <1>2, Empties DEF Init, Typed

\* The steps that count: one counter moves, and the call goes on or returns.
LEMMA AddTypes ==
    ASSUME TypeOK, NEW t \in Threads, NEW n \in Nat, Add(t, n), call[t].at \in CountSteps
    PROVE  stats' \in StatsType
<1>1. stats \in StatsType /\ call[t].uRead \in Size64
  BY SameTypes DEF Typed, CallType, Add
<1>2. Plus(call[t].uRead, n) \in Size64
  BY <1>1, Sizes64, PlusType
<1> QED BY <1>1, <1>2 DEF Add, StatsType

LEMMA CountTypes ==
    ASSUME TypeOK, NEW t \in Threads
    PROVE  /\ ReadCounter(t) => call' \in [Threads -> CallType]
           /\ \/ AddAllocatedSize(t) \/ AddAllocatedCount(t)
              \/ AddFreedSize(t) \/ AddFreedCount(t)
              => stats' \in StatsType /\ call' \in [Threads -> CallType]
           /\ AddGlobalAllocated(t) \/ AddGlobalFreed(t)
              => s_allocateStats' \in StatsType /\ call' \in [Threads -> CallType]
<1>1. /\ stats \in StatsType /\ s_allocateStats \in StatsType
      /\ call[t].uSize \in Nat /\ call[t].uOldSize \in Nat
      /\ call \in [Threads -> CallType]
  BY SameTypes, Sizes64 DEF Typed, CallType
<1>2. ReadCounter(t) => call' \in [Threads -> CallType]
  <2>1. ASSUME call[t].at \in DOMAIN Counter PROVE stats[Counter[call[t].at]] \in Size64
    BY <1>1, <2>1 DEF Counter, StatsType, Fields
  <2> QED BY <1>1, <2>1 DEF ReadCounter, CallType
<1>3. 1 \in Nat
  OBVIOUS
<1>4. AddAllocatedSize(t) => stats' \in StatsType /\ call' \in [Threads -> CallType]
  BY <1>1, AddTypes, CallTypes DEF AddAllocatedSize, At, Steps, CountSteps
<1>5. AddAllocatedCount(t) => stats' \in StatsType /\ call' \in [Threads -> CallType]
  BY <1>3, AddTypes, CallTypes DEF AddAllocatedCount, At, CountSteps
<1>6. AddFreedSize(t) => stats' \in StatsType /\ call' \in [Threads -> CallType]
  BY <1>1, AddTypes, CallTypes DEF AddFreedSize, At, Steps, CountSteps
<1>7. AddFreedCount(t) => stats' \in StatsType /\ call' \in [Threads -> CallType]
  BY <1>3, AddTypes, CallTypes DEF AddFreedCount, At, Steps, CountSteps
<1>8. \A f \in Fields : /\ Plus(s_allocateStats[f], 1) \in Size64
                        /\ Plus(s_allocateStats[f], call[t].uSize) \in Size64
                        /\ Plus(s_allocateStats[f], call[t].uOldSize) \in Size64
  BY <1>1, Sizes64, PlusType DEF StatsType
<1>9. AddGlobalAllocated(t) => s_allocateStats' \in StatsType /\ call' \in [Threads -> CallType]
  BY <1>1, <1>8, CallTypes DEF AddGlobalAllocated, StatsType, Fields
<1>10. AddGlobalFreed(t) => s_allocateStats' \in StatsType /\ call' \in [Threads -> CallType]
  BY <1>1, <1>8, CallTypes DEF AddGlobalFreed, StatsType, Fields, Steps
<1> QED BY <1>2, <1>4, <1>5, <1>6, <1>7, <1>9, <1>10

\* A step is one of a thread, or leaves everything but fault as it is.
Stutter ==
    /\ UNCHANGED <<block, slot, stats, s_allocateStats, copied, call, snapshot, quiet>>
    /\ UNCHANGED <<crossed, s_eErrorCode, s_strErrorMsg, interface>>
    /\ fault' \in {fault, "stale"}

LEMMA NextCases ==
    ASSUME [Next]_vars
    PROVE  Stutter \/ \E t \in Threads : Step(t) /\ UNCHANGED <<slot, interface, fault>>
BY DEF Next, Crashed, StaleCount, StaleCopy, Fault, Stutter, vars, statistics, copying, errors

LEMMA TypeStep == TypeOK /\ [Next]_vars => TypeOK'
<1> SUFFICES ASSUME TypeOK, [Next]_vars PROVE Typed'
  BY SameTypes
<1> Typed
  BY SameTypes
<1>1. CASE Stutter
  BY <1>1 DEF Stutter, Typed, ErrorType
<1>2. ASSUME NEW t \in Threads, Step(t), UNCHANGED <<slot, interface, fault>> PROVE Typed'
  <2> USE <1>2, CallTypes, ErrorTypes DEF Typed, statistics, copying
  <2>1. CASE AllocateFails(t) \/ NullArgument(t)
    BY <2>1 DEF AllocateFails, NullArgument
  <2>2. CASE SetErrorMsg(t)
    BY <2>2 DEF SetErrorMsg
  <2>3. CASE AddAllocatedSize(t)
    BY <2>3, CountTypes DEF AddAllocatedSize
  <2>4. CASE AddAllocatedCount(t)
    BY <2>4, CountTypes DEF AddAllocatedCount
  <2>5. CASE AddFreedSize(t)
    BY <2>5, CountTypes DEF AddFreedSize
  <2>6. CASE AddFreedCount(t)
    BY <2>6, CountTypes DEF AddFreedCount
  <2>7. CASE AddGlobalAllocated(t)
    BY <2>7, CountTypes DEF AddGlobalAllocated
  <2>8. CASE AddGlobalFreed(t)
    BY <2>8, CountTypes DEF AddGlobalFreed
  <2>9. CASE Release(t) \/ GlobalStats(t)
    BY <2>9, Empties DEF Release, GlobalStats
  <2>20. CASE ReadCounter(t)
    BY <2>20, CountTypes DEF ReadCounter
  <2>10. CASE StatsBegin(t)
    BY <2>10 DEF StatsBegin, At, Steps
  <2>11. CASE StatsEnd(t)
    BY <2>11 DEF StatsEnd, NoCopy
  <2>12. ASSUME NEW f \in Fields, CopyField(t, f) PROVE Typed'
    BY <2>12 DEF CopyField, StatsType
  <2>13. ASSUME NEW b \in Blocks PROVE block[b].uSize \in Size64
    BY DEF BlockType
  <2>14. ASSUME NEW b \in Blocks, Free(t, b) PROVE Typed'
    <3>1. call' \in [Threads -> CallType]
      BY <2>13, <2>14, Sizes64 DEF Free, Steps
    <3> QED BY <2>14, <3>1 DEF Free, Begins, Crosses
  <2>15. ASSUME NEW b \in Blocks, GlobalFree(t, b) PROVE Typed'
    <3>1. call' \in [Threads -> CallType]
      BY <2>13, <2>15, Sizes64 DEF GlobalFree, Steps
    <3> QED BY <2>15, <3>1 DEF GlobalFree
  <2>16. ASSUME NEW b \in Blocks, NEW u \in Sizes, Allocate(t, b, u) PROVE Typed'
    <3>1. call' \in [Threads -> CallType]
      BY <2>16, Sizes64 DEF Allocate, Steps
    <3>2. block' \in [Blocks -> BlockType]
      BY <2>16, PlaceType DEF Allocate
    <3> QED BY <2>16, <3>1, <3>2 DEF Allocate, Begins
  <2>17. ASSUME NEW b \in Blocks, NEW u \in Sizes, GlobalAllocate(t, b, u) PROVE Typed'
    <3>1. call' \in [Threads -> CallType]
      BY <2>17, Sizes64 DEF GlobalAllocate, Steps
    <3>2. block' \in [Blocks -> BlockType]
      BY <2>17, PlaceType DEF GlobalAllocate
    <3> QED BY <2>17, <3>1, <3>2 DEF GlobalAllocate
  <2>18. ASSUME NEW b \in Blocks, NEW u \in Sizes,
                ReAllocateFails(t, b, u) \/ ReAllocateFrees(t, b, u)
         PROVE  Typed'
    BY <2>18, Empties DEF ReAllocateFails, ReAllocateFrees
  <2>19. ASSUME NEW b \in Blocks, NEW u \in Sizes, NEW c \in Blocks, ReAllocate(t, b, c, u)
         PROVE  Typed'
    <3>1. call' \in [Threads -> CallType]
      BY <2>13, <2>19, Sizes64 DEF ReAllocate, OldSize, Steps
    <3>2. block' \in [Blocks -> BlockType]
      BY <2>19, PlaceType, Empties DEF ReAllocate, ReRequest
    <3> QED BY <2>19, <3>1, <3>2 DEF ReAllocate, Begins, Crosses
  <2> HIDE DEF Typed, statistics, copying
  <2> QED BY <1>2, <2>1, <2>2, <2>3, <2>4, <2>5, <2>6, <2>7, <2>8, <2>9, <2>10, <2>11,
             <2>12, <2>14, <2>15, <2>16, <2>17, <2>18, <2>19, <2>20 DEF Step
<1> QED BY <1>1, <1>2, NextCases

\* Every reachable state is type correct, for any threads, blocks and sizes.
THEOREM TypeCorrect == Spec => []TypeOK
BY TypeInit, TypeStep, PTL DEF Spec

-----------------------------------------------------------------------------
(* Blocks have room.                                                       *)

Fitting(bl) == bl.kind # "free" /\ bl.uSize < kModulus - kHeader => bl.uRoom >= kHeader + bl.uSize

LEMMA PlaceFits ==
    ASSUME NEW t \in Threads, NEW u \in Sizes, NEW kind
    PROVE  Fitting(Place(t, kind, u, Request(u)))
<1>1. u \in Nat /\ kHeader \in Nat /\ kModulus \in Nat
  BY AllocatorAssumption, Sizes64
<1>2. u < kModulus - kHeader => Request(u) = u + kHeader
  BY <1>1, PlusExact DEF Request
<1> QED BY <1>1, <1>2 DEF Place, Fitting

LEMMA FitsStep == TypeOK /\ BlockFits /\ [Next]_vars => BlockFits'
<1> SUFFICES ASSUME TypeOK, BlockFits, [Next]_vars, NEW d \in Blocks
             PROVE  Fitting(block'[d])
  BY DEF BlockFits, Fitting
<1>1. block \in [Blocks -> BlockType] /\ Fitting(block[d])
  BY SameTypes DEF Typed, BlockFits, Fitting
<1>2. Fitting(NoBlock)
  BY DEF NoBlock, Fitting
<1>3. CASE UNCHANGED block
  BY <1>1, <1>3
<1>4. ASSUME NEW t \in Threads, Release(t) PROVE Fitting(block'[d])
  BY <1>1, <1>2, <1>4 DEF Release
<1>5. ASSUME NEW t \in Threads, NEW b \in Blocks, NEW u \in Sizes,
             Allocate(t, b, u) \/ GlobalAllocate(t, b, u) \/ ReAllocateFrees(t, b, u)
      PROVE  Fitting(block'[d])
  BY <1>1, <1>2, <1>5, PlaceFits DEF Allocate, GlobalAllocate, ReAllocateFrees
<1>6. ASSUME NEW t \in Threads, NEW b \in Blocks, NEW u \in Sizes, NEW c \in Blocks,
             ReAllocate(t, b, c, u)
      PROVE  Fitting(block'[d])
  BY <1>1, <1>2, <1>6, PlaceFits DEF ReAllocate, ReRequest
<1>7. ASSUME NEW t \in Threads, Step(t)
      PROVE  \/ UNCHANGED block \/ Release(t)
             \/ \E b \in Blocks, u \in Sizes :
                   \/ Allocate(t, b, u) \/ GlobalAllocate(t, b, u) \/ ReAllocateFrees(t, b, u)
                   \/ \E c \in Blocks : ReAllocate(t, b, c, u)
  BY <1>7 DEF Step, AllocateFails, NullArgument, SetErrorMsg, ReadCounter, AddAllocatedSize, AddAllocatedCount,
              AddFreedSize, AddFreedCount, AddGlobalAllocated, AddGlobalFreed, GlobalStats, StatsBegin,
              StatsEnd, CopyField, Free, GlobalFree, ReAllocateFails
<1>8. CASE Stutter
  BY <1>1, <1>8 DEF Stutter
<1> QED BY <1>3, <1>4, <1>5, <1>6, <1>7, <1>8, NextCases

\* A block has room for its header and its size through any allocations,
\* moves and reuse, for every width of the integers and every header.
\* (allocator_impl.cpp:20,71,278)
THEOREM BlocksAlwaysFit == Spec => []BlockFits
<1>1. Init => BlockFits
  BY DEF Init, NoBlock, BlockFits
<1> QED BY <1>1, TypeInit, TypeStep, FitsStep, PTL DEF Spec

-----------------------------------------------------------------------------
(* Copies of the statistics.  Only threads that share the Owner's T count, *)
(* and they do not while a copy is made that they did not interrupt.       *)

Counting(t) == call[t].at \in CountSteps

OneCopy == \A t, u \in Threads : At(t, "copying") /\ At(u, "copying") => t = u

SnapInv ==
    /\ \A t \in Threads : Counting(t) => Shares(t)
    /\ OneCopy
    /\ ~Copying => snapshot = NoCopy
    /\ Copying /\ quiet => \A t \in Threads : ~Counting(t)
    /\ SnapshotExact

\* A step that leaves counters and copy alone: it may begin to count, which
\* ends the quiet, but does not begin or end a copy.
LEMMA CallSteps ==
    ASSUME TypeOK, SnapInv, NEW t \in Threads, ~At(t, "copying"),
           call'[t].at # "copying", \A u \in Threads \ {t} : call'[u] = call[u],
           Counting(t)' => Shares(t), Counting(t)' /\ Copying => ~quiet',
           quiet' => quiet, UNCHANGED <<stats, snapshot, slot>>
    PROVE  SnapInv'
<1>1. (Copying' <=> Copying) /\ OneCopy'
  BY DEF Copying, At, SnapInv, OneCopy
<1>2. \A u \in Threads : Counting(u)' => Shares(u)'
  BY DEF SnapInv, Counting, Shares
<1>3. Copying /\ quiet' => \A u \in Threads : ~Counting(u)'
  BY DEF SnapInv, Counting
<1>4. SnapshotExact'
  BY <1>1 DEF SnapInv, SnapshotExact
<1> QED BY <1>1, <1>2, <1>3, <1>4 DEF SnapInv

\* A step that counts.
LEMMA CounterSteps ==
    ASSUME TypeOK, SnapInv, NEW t \in Threads, Counting(t), call'[t].at # "copying",
           \A u \in Threads \ {t} : call'[u] = call[u], UNCHANGED <<snapshot, quiet, slot>>
    PROVE  SnapInv'
<1>1. Shares(t) /\ ~At(t, "copying") /\ ~(Copying /\ quiet)
  BY DEF SnapInv, Counting, CountSteps, At
<1>2. (Copying' <=> Copying) /\ OneCopy'
  BY <1>1 DEF Copying, At, SnapInv, OneCopy
<1>3. \A u \in Threads : Counting(u)' => Shares(u)'
  BY <1>1 DEF SnapInv, Counting, Shares
<1> QED BY <1>1, <1>2, <1>3 DEF SnapInv, SnapshotExact

LEMMA SnapStep == TypeOK /\ SnapInv /\ [Next]_vars => SnapInv'
<1> SUFFICES ASSUME TypeOK, SnapInv, [Next]_vars PROVE SnapInv'
  OBVIOUS
<1>0. call \in [Threads -> CallType]
  BY SameTypes DEF Typed
<1>1. CASE UNCHANGED <<stats, call, snapshot, quiet, slot>>
  BY <1>1 DEF SnapInv, SnapshotExact, OneCopy, Counting, Copying, At, Shares
<1>2. CASE Stutter
  BY <1>1, <1>2 DEF Stutter
<1>3. ASSUME NEW t \in Threads, Step(t), UNCHANGED slot PROVE SnapInv'
  <2>1. CASE AllocateFails(t) \/ NullArgument(t) \/ SetErrorMsg(t) \/ GlobalStats(t)
    BY <1>1, <1>3, <2>1 DEF AllocateFails, NullArgument, SetErrorMsg, GlobalStats, statistics, copying
  <2>2. CASE \/ ReadCounter(t) \/ AddAllocatedSize(t) \/ AddAllocatedCount(t)
             \/ AddFreedSize(t) \/ AddFreedCount(t)
    <3>1. Counting(t)
      BY <2>2 DEF ReadCounter, Counter, AddAllocatedSize, AddAllocatedCount, AddFreedSize,
                  AddFreedCount, At, Counting, CountSteps
    <3>2. UNCHANGED <<snapshot, quiet>>
      BY <2>2 DEF ReadCounter, AddAllocatedSize, AddAllocatedCount, AddFreedSize, AddFreedCount,
                  copying
    <3>3. call'[t].at # "copying" /\ \A u \in Threads \ {t} : call'[u] = call[u]
      BY <1>0, <2>2, <3>1 DEF ReadCounter, AddAllocatedSize, AddAllocatedCount, AddFreedSize,
                        AddFreedCount, Goto, Return, NoCall, CallType, Counting, CountSteps
    <3> QED BY <1>3, <3>1, <3>2, <3>3, CounterSteps
  <2>3. CASE Release(t) \/ AddGlobalAllocated(t) \/ AddGlobalFreed(t)
    <3>1. ~At(t, "copying") /\ UNCHANGED <<stats, copying>>
      BY <2>3 DEF Release, AddGlobalAllocated, AddGlobalFreed, At, statistics
    <3>2. /\ call'[t].at \in {"idle", "release"}
          /\ \A u \in Threads \ {t} : call'[u] = call[u]
      BY <1>0, <2>3 DEF Release, AddGlobalAllocated, AddGlobalFreed,
                        Goto, Return, NoCall, CallType
    <3> QED BY <1>3, <3>1, <3>2, CallSteps DEF Counting, CountSteps, copying
  <2>4. CASE StatsBegin(t)
    <3>1. /\ ~Copying /\ snapshot' = NoCopy /\ stats' = stats
          /\ quiet' => \A u \in Threads : ~Counting(u)
      BY <2>4 DEF StatsBegin, SnapInv, At, Counting, CountSteps, statistics
    <3>2. call'[t].at = "copying" /\ \A u \in Threads \ {t} : call'[u] = call[u]
      BY <1>0, <2>4 DEF StatsBegin, Goto, CallType
    <3>3. SnapshotExact' /\ Copying' /\ OneCopy'
      BY <3>1, <3>2 DEF SnapshotExact, NoCopy, Copying, OneCopy, At
    <3>4. \A u \in Threads : Counting(u)' => Counting(u)
      BY <3>2 DEF Counting, CountSteps
    <3> QED BY <1>3, <3>1, <3>3, <3>4 DEF SnapInv, Shares
  <2>5. CASE StatsEnd(t)
    <3>1. snapshot' = NoCopy /\ call'[t].at = "idle"
          /\ \A u \in Threads \ {t} : call'[u] = call[u]
      BY <1>0, <2>5 DEF StatsEnd, Return, NoCall, CallType
    <3>2. SnapshotExact'
      BY <3>1 DEF SnapshotExact, NoCopy
    <3>3. \A u \in Threads : Counting(u)' => Counting(u)
      BY <3>1 DEF Counting, CountSteps
    <3>4. ~Copying' /\ OneCopy'
      BY <2>5, <3>1 DEF StatsEnd, SnapInv, Copying, OneCopy, At
    <3> QED BY <1>3, <3>1, <3>2, <3>3, <3>4 DEF SnapInv, Shares
  <2>6. ASSUME NEW f \in Fields, CopyField(t, f) PROVE SnapInv'
    <3>1. Copying /\ Copying' /\ UNCHANGED <<stats, call, quiet>>
      BY <2>6 DEF CopyField, Copying, At, statistics
    <3>2. SnapshotExact'
      <4>1. snapshot \in [Fields -> Size64 \cup {NULL}]
        BY DEF TypeOK
      <4> QED BY <2>6, <3>1, <4>1 DEF SnapInv, SnapshotExact, CopyField
    <3> QED BY <1>3, <3>1, <3>2 DEF SnapInv, OneCopy, Counting, At, Shares
  <2>7. ASSUME NEW b \in Blocks,
               \/ Free(t, b)
               \/ \E u \in Sizes : \/ Allocate(t, b, u)
                                   \/ \E c \in Blocks : ReAllocate(t, b, c, u)
        PROVE  SnapInv'
    <3>1. ~At(t, "copying") /\ UNCHANGED <<stats, snapshot>>
      BY <2>7 DEF Free, Allocate, ReAllocate, At, statistics
    <3>2. /\ quiet' => quiet
          /\ Shares(t) /\ Copying => ~quiet'
      BY <2>7 DEF Free, Allocate, ReAllocate, Begins
    <3>3. /\ call'[t].at # "copying"
          /\ Counting(t)' => Shares(t)
          /\ \A v \in Threads \ {t} : call'[v] = call[v]
      BY <1>0, <2>7, <3>1 DEF Free, Allocate, ReAllocate, Enter, HasStats, CallType, At,
                              Counting, CountSteps
    <3> QED BY <1>3, <3>1, <3>2, <3>3, CallSteps
  <2>8. ASSUME NEW b \in Blocks,
               GlobalFree(t, b) \/ \E u \in Sizes : GlobalAllocate(t, b, u)
        PROVE  SnapInv'
    <3>1. ~At(t, "copying") /\ UNCHANGED <<stats, copying>>
      BY <2>8 DEF GlobalFree, GlobalAllocate, At, statistics
    <3>2. /\ call'[t].at \in {"globalAllocated", "globalFreed"}
          /\ \A v \in Threads \ {t} : call'[v] = call[v]
      BY <1>0, <2>8 DEF GlobalFree, GlobalAllocate, Enter, CallType
    <3> QED BY <1>3, <3>1, <3>2, CallSteps DEF Counting, CountSteps, copying
  <2>9. ASSUME NEW b \in Blocks, NEW u \in Sizes,
               ReAllocateFails(t, b, u) \/ ReAllocateFrees(t, b, u)
        PROVE  SnapInv'
    BY <1>1, <1>3, <2>9 DEF ReAllocateFails, ReAllocateFrees, statistics, copying
  <2> QED BY <1>3, <2>1, <2>2, <2>3, <2>4, <2>5, <2>6, <2>7, <2>8, <2>9 DEF Step
<1> QED BY <1>2, <1>3, NextCases

\* A copy that no thread interrupted that has the Owner's T, its own or through
\* a slot an earlier holder of the id left, is what its counters hold, for any
\* slots and any number of threads that copy and call meanwhile.
\* (allocator_impl.cpp:138)
THEOREM SnapshotAlwaysExact == Spec => []SnapshotExact
<1>1. Init => SnapInv
  BY DEF Init, NoCall, NoCopy, SnapInv, SnapshotExact, OneCopy, Counting, CountSteps, Copying, At
<1>2. SnapInv => SnapshotExact
  BY DEF SnapInv
<1> QED BY <1>1, <1>2, TypeInit, TypeStep, SnapStep, PTL DEF Spec

-----------------------------------------------------------------------------
(* Counts.  Modulo 2^64, allocations counted are releases counted and the  *)
(* blocks in use, less one that a call in progress has still to count, or  *)
(* has counted as freed but not given back.                                *)

LEMMA ModUnique ==
    ASSUME NEW d \in Nat \ {0}, NEW q \in Nat, NEW r \in 0 .. d - 1
    PROVE  (d * q + r) % d = r
OBVIOUS

LEMMA ModShift ==
    ASSUME NEW d \in Nat \ {0}, NEW q \in Nat, NEW s \in Nat
    PROVE  (d * q + s) % d = s % d
<1> DEFINE p == s \div d
           r == s % d
<1>1. p \in Nat /\ r \in 0 .. d - 1 /\ s = d * p + r
  OBVIOUS
<1> HIDE DEF p, r
<1>2. d * q + s = d * (q + p) + r /\ q + p \in Nat
  BY <1>1
<1>3. (d * (q + p) + r) % d = r
  BY <1>1, <1>2, ModUnique
<1> QED BY <1>2, <1>3 DEF r

LEMMA PlusPlus ==
    ASSUME NEW x \in Nat, NEW y \in Nat, NEW z \in Nat
    PROVE  Plus(Plus(x, y), z) = Plus(x, y + z)
<1> DEFINE d == kModulus
           q == (x + y) \div d
           r == (x + y) % d
<1>0. d \in Nat \ {0}
  BY AllocatorAssumption
<1> HIDE DEF d
<1>1. q \in Nat /\ r \in Nat /\ x + y = d * q + r
  BY <1>0
<1>r. Plus(x, y) = r
  BY DEF Plus, d
<1> HIDE DEF q, r
<1>2. x + (y + z) = d * q + (r + z) /\ r + z \in Nat
  <2>1. d * q \in Nat
    BY <1>0, <1>1
  <2> DEFINE m == d * q
  <2> HIDE DEF m
  <2>2. m \in Nat /\ x + y = m + r
    BY <1>1, <2>1 DEF m
  <2>3. x + (y + z) = m + (r + z)
    BY <1>1, <2>2
  <2> QED BY <1>1, <2>3 DEF m
<1>3. (d * q + (r + z)) % d = (r + z) % d
  BY <1>0, <1>1, <1>2, ModShift
<1>4. Plus(x, y) = r /\ Plus(r, z) = (r + z) % d /\ Plus(x, y + z) = (x + (y + z)) % d
  BY <1>r DEF Plus, d
<1> QED BY <1>2, <1>3, <1>4

\* Cardinalities of sets of blocks.
LEMMA BlockSets ==
    ASSUME NEW S \in SUBSET Blocks
    PROVE  /\ IsFiniteSet(S) /\ Cardinality(S) \in 0 .. Cardinality(Blocks)
           /\ \A b \in Blocks \ S : Cardinality(S \cup {b}) = Cardinality(S) + 1
           /\ \A b \in S : Cardinality(S \ {b}) = Cardinality(S) - 1 /\ Cardinality(S) >= 1
<1>1. IsFiniteSet(Blocks) /\ Cardinality(Blocks) \in Nat
  BY AllocatorAssumption, FS_CardinalityType
<1>2. IsFiniteSet(S) /\ Cardinality(S) <= Cardinality(Blocks) /\ Cardinality(S) \in Nat
  BY <1>1, FS_Subset, FS_CardinalityType
<1>3. \A b \in Blocks \ S : Cardinality(S \cup {b}) = Cardinality(S) + 1
  BY <1>2, FS_AddElement
<1>4. ASSUME NEW b \in S PROVE Cardinality(S \ {b}) = Cardinality(S) - 1 /\ Cardinality(S) >= 1
  <2>1. IsFiniteSet(S \ {b}) /\ Cardinality(S \ {b}) = Cardinality(S) - 1
    BY <1>2, FS_RemoveElement
  <2>2. Cardinality(S \ {b}) \in Nat
    BY <2>1, FS_CardinalityType
  <2> QED BY <1>2, <2>1, <2>2
<1> QED BY <1>1, <1>2, <1>3, <1>4

-----------------------------------------------------------------------------
(* A block is in one call at a time, of its kind and size.                 *)

GlobalSteps == {"globalAllocated", "globalFreed"}
NewSizes    == {"addAllocatedSize", "reAddFreedSize", "reAddFreedCount", "globalAllocated"}
OldSizes    == {"addFreedSize", "globalFreed"}

Sound(t) == LET b == call[t].pMemory IN
    /\ call[t].at \in {"idle", "copying"} <=> b = NULL
    /\ call[t].at \in GlobalSteps => block[b].kind = "lldk"
    /\ call[t].at \in CountSteps => block[b].kind = "impl"
    /\ call[t].at \in NewSizes => call[t].uSize = block[b].uSize
    /\ call[t].at \in OldSizes => call[t].uOldSize = block[b].uSize
    /\ b # NULL => block[b].kind # "free"
    /\ b # NULL /\ block[b].kind = "impl" /\ ~crossed => (block[b].by = Owner <=> t = Owner)

HeapInv ==
    /\ \A t \in Threads : Sound(t)
    /\ \A t, u \in Threads : t # u /\ call[t].pMemory # NULL => call[t].pMemory # call[u].pMemory

\* A step of t leaves the blocks of other calls alone.
Apart(t) ==
    /\ \A u \in Threads \ {t} :
         /\ call'[u] = call[u]
         /\ call[u].pMemory # NULL => /\ block'[call[u].pMemory] = block[call[u].pMemory]
                                      /\ call'[t].pMemory # call[u].pMemory
    /\ crossed => crossed'

LEMMA HeapKeep ==
    ASSUME HeapInv, NEW t \in Threads, Apart(t), Sound(t)'
    PROVE  HeapInv'
<1>1. ASSUME NEW u \in Threads \ {t} PROVE Sound(u)'
  <2>1. Sound(u) /\ call'[u] = call[u] /\ (crossed => crossed')
    BY DEF HeapInv, Apart
  <2>2. CASE call[u].pMemory = NULL
    BY <2>1, <2>2 DEF Sound, GlobalSteps, CountSteps, NewSizes, OldSizes
  <2>3. CASE call[u].pMemory # NULL
    <3>1. block'[call[u].pMemory] = block[call[u].pMemory]
      BY <2>3 DEF Apart
    <3> QED BY <2>1, <2>3, <3>1 DEF Sound
  <2> QED BY <2>2, <2>3
<1>2. ASSUME NEW u \in Threads, NEW v \in Threads, u # v, call'[u].pMemory # NULL
      PROVE  call'[u].pMemory # call'[v].pMemory
  BY <1>2 DEF HeapInv, Apart
<1> QED BY <1>1, <1>2 DEF HeapInv

\* Steps that change no block and go on with theirs, or return.
LEMMA GoSteps ==
    ASSUME TypeOK, HeapInv, NEW t \in Threads, UNCHANGED <<block, crossed>>,
           \/ ReadCounter(t) \/ AddAllocatedSize(t) \/ AddAllocatedCount(t)
           \/ AddFreedSize(t) \/ AddFreedCount(t)
           \/ AddGlobalAllocated(t) \/ AddGlobalFreed(t) \/ StatsBegin(t) \/ StatsEnd(t)
    PROVE  Apart(t) /\ Sound(t)'
<1>1. call \in [Threads -> CallType] /\ Sound(t)
  BY SameTypes DEF Typed, HeapInv
<1>2. /\ \A u \in Threads \ {t} : call'[u] = call[u]
      /\ \/ call'[t] = NoCall
         \/ /\ call'[t].at = call[t].at /\ call'[t].pMemory = call[t].pMemory
            /\ call'[t].uSize = call[t].uSize /\ call'[t].uOldSize = call[t].uOldSize
         \/ /\ call'[t].pMemory = call[t].pMemory
            /\ call'[t].uSize = call[t].uSize
            /\ \/ /\ call[t].at \in CountSteps
                  /\ call'[t].at \in (CountSteps \cup {"release"}) \ {"addFreedSize"}
                  /\ call'[t].at \in NewSizes => call[t].at \in NewSizes
               \/ call[t].at = "globalFreed" /\ call'[t].at = "release"
               \/ call[t].at = "idle" /\ call'[t].at = "copying"
  <2>1. CASE ReadCounter(t)
    BY <1>1, <2>1 DEF ReadCounter, CallType
  <2>2. CASE \/ AddAllocatedSize(t) \/ AddAllocatedCount(t) \/ AddFreedSize(t) \/ AddFreedCount(t)
    BY <1>1, <2>2, Moves DEF AddAllocatedSize, AddAllocatedCount, AddFreedSize, AddFreedCount, At,
       CountSteps, NewSizes
  <2>3. CASE \/ AddGlobalAllocated(t) \/ AddGlobalFreed(t) \/ StatsBegin(t) \/ StatsEnd(t)
    BY <1>1, <2>3, Moves DEF AddGlobalAllocated, AddGlobalFreed, StatsBegin, StatsEnd, At
  <2> QED BY <2>1, <2>2, <2>3
<1>3. Apart(t)
  BY <1>2 DEF Apart, HeapInv, NoCall
<1>4. Sound(t)'
  <2>1. CASE call'[t] = NoCall
    BY <2>1 DEF Sound, NoCall, GlobalSteps, CountSteps, NewSizes, OldSizes
  <2>2. CASE /\ call[t].at \in CountSteps
             /\ call'[t].at \in (CountSteps \cup {"release"}) \ {"addFreedSize"}
             /\ call'[t].at \in NewSizes => call[t].at \in NewSizes
             /\ call'[t].pMemory = call[t].pMemory /\ call'[t].uSize = call[t].uSize
    BY <1>1, <2>2 DEF Sound, GlobalSteps, CountSteps, NewSizes, OldSizes
  <2>3. CASE call[t].at = "globalFreed" /\ call'[t].at = "release"
             /\ call'[t].pMemory = call[t].pMemory
    BY <1>1, <2>3 DEF Sound, GlobalSteps, CountSteps, NewSizes, OldSizes
  <2>4. CASE call[t].at = "idle" /\ call'[t].at = "copying"
             /\ call'[t].pMemory = call[t].pMemory
    BY <1>1, <2>4 DEF Sound, GlobalSteps, CountSteps, NewSizes, OldSizes
  <2>5. CASE /\ call'[t].at = call[t].at /\ call'[t].pMemory = call[t].pMemory
             /\ call'[t].uSize = call[t].uSize /\ call'[t].uOldSize = call[t].uOldSize
    BY <1>1, <2>5 DEF Sound
  <2> QED BY <1>2, <2>1, <2>2, <2>3, <2>4, <2>5
<1> QED BY <1>3, <1>4

LEMMA FreeSteps ==
    ASSUME TypeOK, HeapInv, NEW t \in Threads, NEW b \in Blocks, Free(t, b) \/ GlobalFree(t, b)
    PROVE  Apart(t) /\ Sound(t)'
<1>1. call \in [Threads -> CallType] /\ b # NULL
  BY SameTypes, AllocatorAssumption DEF Typed
<1>2. /\ \A u \in Threads \ {t} : call'[u] = call[u]
      /\ call'[t].pMemory = b /\ block' = block
  BY <1>1 DEF Free, GlobalFree, Enter, CallType
<1>3. (\A u \in Threads : call[u].pMemory # b) /\ (crossed => crossed')
  <2>1. \A u \in Threads : call[u].pMemory # b
    BY DEF Free, GlobalFree, Held
  <2>2. crossed => crossed'
    BY DEF Free, GlobalFree, Crosses
  <2> QED BY <2>1, <2>2
<1>4. Apart(t)
  BY <1>2, <1>3 DEF Apart
<1>5. CASE GlobalFree(t, b)
  <2>1. /\ block[b].kind = "lldk" /\ call'[t].at = "globalFreed"
        /\ call'[t].uOldSize = block[b].uSize
    BY <1>1, <1>5 DEF GlobalFree, Held, Enter
  <2> QED BY <1>1, <1>2, <1>4, <2>1 DEF Sound, GlobalSteps, CountSteps, NewSizes, OldSizes
<1>6. CASE Free(t, b)
  <2>1. block[b].kind = "impl"
    BY <1>6 DEF Free, Held
  <2>2. /\ call'[t].at \in {"addFreedSize", "release"}
        /\ call'[t].uOldSize = block[b].uSize
    BY <1>1, <1>6 DEF Free, Enter
  <2>3. ~crossed' => (block[b].by = Owner <=> t = Owner)
    BY <1>6 DEF Free, Crosses
  <2> QED BY <1>1, <1>2, <1>4, <2>1, <2>2, <2>3 DEF Sound, GlobalSteps, CountSteps, NewSizes, OldSizes
<1> QED BY <1>5, <1>6

LEMMA PlaceSteps ==
    ASSUME TypeOK, HeapInv, NEW t \in Threads, NEW b \in Blocks, NEW u \in Sizes,
           Allocate(t, b, u) \/ GlobalAllocate(t, b, u)
    PROVE  Apart(t) /\ Sound(t)'
<1>1. call \in [Threads -> CallType] /\ block \in [Blocks -> BlockType] /\ b # NULL
      /\ Sound(t) /\ At(t, "idle")
  BY SameTypes, AllocatorAssumption DEF Typed, HeapInv, Allocate, GlobalAllocate
<1>2. \A v \in Threads : call[v].pMemory # b
  BY <1>1 DEF HeapInv, Sound, Allocate, GlobalAllocate
<1>3. /\ \A v \in Threads \ {t} : call'[v] = call[v]
      /\ \A c \in Blocks \ {b} : block'[c] = block[c]
      /\ block'[b].by = t /\ block'[b].uSize = u /\ crossed' = crossed
      /\ \/ /\ block'[b].kind = "lldk" /\ call'[t].pMemory = b /\ call'[t].at = "globalAllocated"
            /\ call'[t].uSize = u
         \/ /\ block'[b].kind = "impl"
            /\ call'[t].pMemory = b /\ call'[t].at = "addAllocatedSize" /\ call'[t].uSize = u
         \/ call'[t] = call[t]
  BY <1>1 DEF Allocate, GlobalAllocate, Enter, Place, CallType
<1>4. Apart(t)
  <2>1. \A v \in Threads \ {t} : call[v].pMemory # NULL => call[v].pMemory \in Blocks \ {b}
    BY <1>1, <1>2 DEF CallType
  <2>2. \A v \in Threads \ {t} : call[v].pMemory # NULL => call'[t].pMemory # call[v].pMemory
    BY <1>2, <1>3 DEF HeapInv
  <2> QED BY <1>3, <2>1, <2>2 DEF Apart
<1>5. Sound(t)'
  BY <1>1, <1>3 DEF Sound, At, GlobalSteps, CountSteps, NewSizes, OldSizes
<1> QED BY <1>4, <1>5

LEMMA ReAllocateSteps ==
    ASSUME TypeOK, HeapInv, NEW t \in Threads, NEW b \in Blocks, NEW c \in Blocks, NEW u \in Sizes,
           ReAllocate(t, b, c, u)
    PROVE  Apart(t) /\ Sound(t)'
<1>1. call \in [Threads -> CallType] /\ block \in [Blocks -> BlockType] /\ c # NULL
      /\ Sound(t) /\ At(t, "idle")
  BY SameTypes, AllocatorAssumption DEF Typed, HeapInv, ReAllocate
<1>2. \A v \in Threads : call[v].pMemory # b /\ call[v].pMemory # c
  BY <1>1 DEF HeapInv, Sound, ReAllocate, Held
<1>3. /\ \A v \in Threads \ {t} : call'[v] = call[v]
      /\ \A d \in Blocks \ {b, c} : block'[d] = block[d]
      /\ block'[c].by = t /\ block'[c].kind = "impl" /\ block'[c].uSize = u
      /\ (crossed => crossed')
      /\ \/ /\ call'[t].pMemory = c /\ call'[t].at = "reAddFreedSize"
            /\ call'[t].uSize = u
         \/ call'[t] = call[t]
  <2>1. \A d \in Blocks \ {b, c} : block'[d] = block[d]
    BY <1>1 DEF ReAllocate
  <2>2. /\ block'[c].by = t /\ block'[c].kind = "impl" /\ block'[c].uSize = u
        /\ (crossed => crossed')
    BY <1>1 DEF ReAllocate, Place, Crosses
  <2>3. CASE HasStats(t)
    <3>1. Enter(t, "reAddFreedSize", c, u, OldSize(b, u))
      BY <2>3 DEF ReAllocate
    <3> QED BY <1>1, <2>1, <2>2, <2>3, <3>1 DEF Enter
  <2>4. CASE ~HasStats(t)
    BY <2>1, <2>2, <2>4 DEF ReAllocate
  <2> QED BY <2>3, <2>4
<1>4. Apart(t)
  <2>1. \A v \in Threads \ {t} : call[v].pMemory # NULL => call[v].pMemory \in Blocks \ {b, c}
    BY <1>1, <1>2 DEF CallType
  <2>2. \A v \in Threads \ {t} : call[v].pMemory # NULL => call'[t].pMemory # call[v].pMemory
    BY <1>2, <1>3 DEF HeapInv
  <2> QED BY <1>3, <2>1, <2>2 DEF Apart
<1>5. Sound(t)'
  BY <1>1, <1>3 DEF Sound, At, GlobalSteps, CountSteps, NewSizes, OldSizes
<1> QED BY <1>4, <1>5

\* A block is given back: one that no call uses, or that of the call.
LEMMA ReleaseSteps ==
    ASSUME TypeOK, HeapInv, NEW t \in Threads,
           Release(t) \/ \E b \in Blocks, u \in Sizes : ReAllocateFrees(t, b, u)
    PROVE  Apart(t) /\ Sound(t)'
<1>1. call \in [Threads -> CallType] /\ block \in [Blocks -> BlockType] /\ Sound(t)
  BY SameTypes DEF Typed, HeapInv
<1>2. CASE Release(t)
  <2>1. /\ \A v \in Threads \ {t} : call'[v] = call[v]
        /\ \A d \in Blocks \ {call[t].pMemory} : block'[d] = block[d]
        /\ call'[t] = NoCall /\ crossed' = crossed /\ call[t].pMemory # NULL
    BY <1>1, <1>2 DEF Release, Return, At, Sound
  <2>2. \A v \in Threads \ {t} : call[v].pMemory # NULL => call[v].pMemory \in Blocks \ {call[t].pMemory}
    BY <1>1, <2>1 DEF HeapInv, CallType
  <2>3. Apart(t)
    BY <2>1, <2>2 DEF Apart, NoCall
  <2>4. Sound(t)'
    BY <2>1 DEF Sound, NoCall, GlobalSteps, CountSteps, NewSizes, OldSizes
  <2> QED BY <2>3, <2>4
<1>3. ASSUME NEW b \in Blocks, NEW u \in Sizes, ReAllocateFrees(t, b, u)
      PROVE  Apart(t) /\ Sound(t)'
  <2>1. /\ call' = call /\ (crossed => crossed')
        /\ \A d \in Blocks \ {b} : block'[d] = block[d]
        /\ \A v \in Threads : call[v].pMemory # b
        /\ At(t, "idle")
    BY <1>1, <1>3 DEF ReAllocateFrees, Held
  <2>2. \A v \in Threads \ {t} : call[v].pMemory # NULL => call[v].pMemory \in Blocks \ {b}
    BY <1>1, <2>1 DEF CallType
  <2>3. Apart(t)
    BY <2>1, <2>2 DEF Apart, HeapInv
  <2>4. Sound(t)'
    BY <1>1, <2>1 DEF Sound, At, GlobalSteps, CountSteps, NewSizes, OldSizes
  <2> QED BY <2>3, <2>4
<1> QED BY <1>2, <1>3

LEMMA HeapStep == TypeOK /\ HeapInv /\ [Next]_vars => HeapInv'
<1> SUFFICES ASSUME TypeOK, HeapInv, [Next]_vars PROVE HeapInv'
  OBVIOUS
<1>1. CASE UNCHANGED <<block, call, crossed>>
  BY <1>1 DEF HeapInv, Sound
<1>2. ASSUME NEW t \in Threads, Step(t) PROVE HeapInv'
  <2>1. CASE \/ AllocateFails(t) \/ NullArgument(t) \/ SetErrorMsg(t) \/ GlobalStats(t)
             \/ \E f \in Fields : CopyField(t, f)
             \/ \E b \in Blocks, u \in Sizes : ReAllocateFails(t, b, u)
    BY <1>1, <2>1 DEF AllocateFails, NullArgument, SetErrorMsg, GlobalStats, CopyField,
                      ReAllocateFails
  <2>2. CASE \/ ReadCounter(t) \/ AddAllocatedSize(t) \/ AddAllocatedCount(t)
             \/ AddFreedSize(t) \/ AddFreedCount(t) \/ AddGlobalAllocated(t) \/ AddGlobalFreed(t)
             \/ StatsBegin(t) \/ StatsEnd(t)
    <3>1. UNCHANGED <<block, crossed>>
      BY <2>2 DEF ReadCounter, AddAllocatedSize, AddAllocatedCount, AddFreedSize, AddFreedCount,
                  AddGlobalAllocated, AddGlobalFreed, StatsBegin, StatsEnd
    <3> QED BY <2>2, <3>1, GoSteps, HeapKeep
  <2>3. ASSUME NEW b \in Blocks, Free(t, b) \/ GlobalFree(t, b) PROVE HeapInv'
    BY <2>3, FreeSteps, HeapKeep
  <2>4. ASSUME NEW b \in Blocks, NEW u \in Sizes, Allocate(t, b, u) \/ GlobalAllocate(t, b, u)
        PROVE  HeapInv'
    BY <2>4, PlaceSteps, HeapKeep
  <2>5. ASSUME NEW b \in Blocks, NEW c \in Blocks, NEW u \in Sizes, ReAllocate(t, b, c, u)
        PROVE  HeapInv'
    BY <2>5, ReAllocateSteps, HeapKeep
  <2>6. CASE Release(t) \/ \E b \in Blocks, u \in Sizes : ReAllocateFrees(t, b, u)
    BY <2>6, ReleaseSteps, HeapKeep
  <2> QED BY <1>2, <2>1, <2>2, <2>3, <2>4, <2>5, <2>6 DEF Step
<1>3. CASE Stutter
  BY <1>1, <1>3 DEF Stutter
<1> QED BY <1>2, <1>3, NextCases

LEMMA HeapInit == Init => HeapInv
BY DEF Init, HeapInv, Sound, NoCall, GlobalSteps, CountSteps, NewSizes, OldSizes

-----------------------------------------------------------------------------
(* A set of blocks and the counters that count it.                         *)

LEMMA CountUp ==
    ASSUME NEW s \in StatsType, NEW r, NEW S \in SUBSET Blocks, NEW b \in Blocks \ S,
           CountsBalance(s, Cardinality(S)),
           r.uAllocatedCount = Plus(s.uAllocatedCount, 1), r.uFreedCount = s.uFreedCount
    PROVE  CountsBalance(r, Cardinality(S \cup {b}))
<1> DEFINE n == Cardinality(S)
<1>1. s.uFreedCount \in Nat /\ n \in Nat /\ Cardinality(S \cup {b}) = n + 1
  <2>1. s.uFreedCount \in Size64
    BY DEF StatsType, Fields
  <2>2. Cardinality(S) \in 0 .. Cardinality(Blocks) /\ Cardinality(S \cup {b}) = Cardinality(S) + 1
    BY BlockSets
  <2>3. Cardinality(Blocks) \in Nat
    BY AllocatorAssumption, FS_CardinalityType
  <2> HIDE DEF n
  <2>4. n \in Nat
    BY <2>2, <2>3 DEF n
  <2> QED BY <2>1, <2>2, <2>4, Sizes64 DEF n
<1> HIDE DEF n
<1>2. Plus(Plus(s.uFreedCount, n), 1) = Plus(s.uFreedCount, n + 1)
  BY <1>1, PlusPlus
<1>3. s.uAllocatedCount = Plus(s.uFreedCount, n)
  BY DEF CountsBalance, n
<1> QED BY <1>1, <1>2, <1>3 DEF CountsBalance

LEMMA CountDown ==
    ASSUME NEW s \in StatsType, NEW r, NEW S \in SUBSET Blocks, NEW b \in S,
           CountsBalance(s, Cardinality(S)),
           r.uFreedCount = Plus(s.uFreedCount, 1), r.uAllocatedCount = s.uAllocatedCount
    PROVE  CountsBalance(r, Cardinality(S \ {b}))
<1> DEFINE m == Cardinality(S \ {b})
<1>1. s.uFreedCount \in Nat /\ m \in Nat /\ Cardinality(S) = 1 + m
  <2>1. s.uFreedCount \in Size64
    BY DEF StatsType, Fields
  <2>2. /\ Cardinality(S) \in 0 .. Cardinality(Blocks)
        /\ Cardinality(S \ {b}) = Cardinality(S) - 1 /\ Cardinality(S) >= 1
    BY BlockSets
  <2>3. Cardinality(Blocks) \in Nat
    BY AllocatorAssumption, FS_CardinalityType
  <2>4. s.uFreedCount \in Nat
    BY <2>1, Sizes64
  <2> HIDE DEF m
  <2>5. m \in Nat /\ Cardinality(S) = 1 + m
    BY <2>2, <2>3 DEF m
  <2> QED BY <2>4, <2>5
<1> HIDE DEF m
<1>2. Plus(Plus(s.uFreedCount, 1), m) = Plus(s.uFreedCount, 1 + m)
  BY <1>1, PlusPlus
<1>3. s.uAllocatedCount = Plus(s.uFreedCount, 1 + m)
  BY <1>1 DEF CountsBalance
<1> QED BY <1>2, <1>3 DEF CountsBalance, m

LEMMA CountNone == CountsBalance(NoStats, 0) /\ 0 \in 0 .. Cardinality(Blocks)
<1>1. Plus(0, 0) = 0
  BY PlusExact, AllocatorAssumption
<1>2. Cardinality(Blocks) \in Nat
  BY AllocatorAssumption, FS_CardinalityType
<1> QED BY <1>1, <1>2 DEF CountsBalance, NoStats, Fields

\* Sizes of the blocks, and sums of them.
SizeFunctions == [Blocks -> Size64]

LEMMA SumOfSizes ==
    ASSUME NEW f \in SizeFunctions, NEW S \in SUBSET Blocks
    PROVE  SumFunctionOnSet(f, S) \in Nat
<1>1. f \in [Blocks -> Nat] /\ IsFiniteSet(Blocks)
  BY Sizes64, AllocatorAssumption DEF SizeFunctions
<1> QED BY <1>1, SumType

LEMMA SizesUp ==
    ASSUME NEW s \in StatsType, NEW r, NEW f, NEW g \in SizeFunctions,
           NEW S \in SUBSET Blocks, NEW b \in Blocks \ S, \A d \in S : f[d] = g[d],
           SizesBalance(s, SumFunctionOnSet(f, S)),
           r.uAllocatedSize = Plus(s.uAllocatedSize, g[b]), r.uFreedSize = s.uFreedSize
    PROVE  SizesBalance(r, SumFunctionOnSet(g, S \cup {b}))
<1> DEFINE n == SumFunctionOnSet(g, S)
<1>1. s.uFreedSize \in Nat /\ n \in Nat /\ g[b] \in Nat
  <2>1. s.uFreedSize \in Size64 /\ g[b] \in Size64
    BY DEF StatsType, Fields, SizeFunctions
  <2> QED BY <2>1, Sizes64, SumOfSizes
<1>2. SumFunctionOnSet(f, S) = n
  BY SumSame, AllocatorAssumption
<1>3. SumFunctionOnSet(g, S \cup {b}) = g[b] + n
  <2>1. S \cup {b} \in SUBSET Blocks /\ b \in S \cup {b} /\ (S \cup {b}) \ {b} = S
    OBVIOUS
  <2>2. g \in [Blocks -> Nat] /\ IsFiniteSet(Blocks)
    BY Sizes64, AllocatorAssumption DEF SizeFunctions
  <2>3. SumFunctionOnSet(g, S \cup {b}) = g[b] + SumFunctionOnSet(g, (S \cup {b}) \ {b})
    BY <2>1, <2>2, SumRemove
  <2> QED BY <2>1, <2>3
<1> HIDE DEF n
<1>4. Plus(Plus(s.uFreedSize, n), g[b]) = Plus(s.uFreedSize, n + g[b])
  BY <1>1, PlusPlus
<1>5. n + g[b] = g[b] + n
  BY <1>1
<1> QED BY <1>2, <1>3, <1>4, <1>5 DEF SizesBalance

LEMMA SizesDown ==
    ASSUME NEW s \in StatsType, NEW r, NEW f \in SizeFunctions, NEW g,
           NEW S \in SUBSET Blocks, NEW b \in S, \A d \in S \ {b} : f[d] = g[d],
           SizesBalance(s, SumFunctionOnSet(f, S)),
           r.uFreedSize = Plus(s.uFreedSize, f[b]), r.uAllocatedSize = s.uAllocatedSize
    PROVE  SizesBalance(r, SumFunctionOnSet(g, S \ {b}))
<1> DEFINE n == SumFunctionOnSet(f, S \ {b})
<1>1. s.uFreedSize \in Nat /\ n \in Nat /\ f[b] \in Nat
  <2>1. s.uFreedSize \in Size64 /\ f[b] \in Size64
    BY DEF StatsType, Fields, SizeFunctions
  <2> QED BY <2>1, Sizes64, SumOfSizes
<1>2. SumFunctionOnSet(g, S \ {b}) = n
  <2>1. S \ {b} \in SUBSET Blocks
    OBVIOUS
  <2> QED BY <2>1, SumSame, AllocatorAssumption
<1>3. SumFunctionOnSet(f, S) = f[b] + n
  <2>1. f \in [Blocks -> Nat] /\ IsFiniteSet(Blocks)
    BY Sizes64, AllocatorAssumption DEF SizeFunctions
  <2> QED BY <2>1, SumRemove
<1> HIDE DEF n
<1>4. Plus(Plus(s.uFreedSize, f[b]), n) = Plus(s.uFreedSize, f[b] + n)
  BY <1>1, PlusPlus
<1> QED BY <1>2, <1>3, <1>4 DEF SizesBalance

LEMMA SizesNone == ASSUME NEW f PROVE SizesBalance(NoStats, SumFunctionOnSet(f, {}))
<1>1. Plus(0, 0) = 0
  BY PlusExact, AllocatorAssumption
<1>2. SumFunctionOnSet(f, {}) = 0
  BY SumEquation, FS_EmptySet
<1> QED BY <1>1, <1>2 DEF SizesBalance, NoStats, Fields

LEMMA BlockSizes == ASSUME TypeOK PROVE uSizes \in SizeFunctions
<1>1. \A b \in Blocks : block[b].uSize \in Size64
  BY SameTypes DEF Typed, BlockType
<1> QED BY <1>1 DEF uSizes, SizeFunctions

-----------------------------------------------------------------------------
(* The global counters.                                                    *)

\* Whether the release of b, given to a client by __lldkAllocate, is to come.
GlobalIn(b) ==
    /\ block[b].kind = "lldk"
    /\ \A t \in Threads : call[t].pMemory = b => call[t].at = "globalFreed"

LEMMA SameGlobal == /\ GlobalCounted = {b \in Blocks : GlobalIn(b)}
                    /\ GlobalCounted' = {b \in Blocks : GlobalIn(b)'}
BY DEF GlobalCounted, GlobalIn, At

\* A step of t that leaves a block and whether t is freeing it.
LEMMA GlobalKeep ==
    ASSUME HeapInv, NEW t \in Threads, Apart(t), NEW b \in Blocks, block'[b] = block[b],
           call[t].pMemory = b /\ call[t].at # "globalFreed"
             <=> call'[t].pMemory = b /\ call'[t].at # "globalFreed"
    PROVE  GlobalIn(b)' <=> GlobalIn(b)
<1>1. \A u \in Threads \ {t} : call'[u] = call[u]
  BY DEF Apart
<1> QED BY <1>1 DEF GlobalIn

LEMMA GlobalSame ==
    ASSUME HeapInv, NEW t \in Threads, Apart(t), GlobalBalanced,
           UNCHANGED <<s_allocateStats, copied>>,
           \A b \in Blocks :
             \/ ~GlobalIn(b) /\ ~GlobalIn(b)'
             \/ /\ block'[b] = block[b]
                /\ call[t].pMemory = b /\ call[t].at # "globalFreed"
                     <=> call'[t].pMemory = b /\ call'[t].at # "globalFreed"
    PROVE  GlobalBalanced'
<1>1. \A b \in Blocks : GlobalIn(b)' <=> GlobalIn(b)
  BY GlobalKeep
<1>2. GlobalCounted' = GlobalCounted /\ GlobalCounted \in SUBSET Blocks
  BY <1>1, SameGlobal
<1>3. \A b \in GlobalCounted : uSizes[b] = uSizes'[b]
  BY SameGlobal DEF uSizes
<1>4. SumFunctionOnSet(uSizes, GlobalCounted) = SumFunctionOnSet(uSizes', GlobalCounted)
  BY <1>2, <1>3, SumSame, AllocatorAssumption
<1> QED BY <1>2, <1>4 DEF GlobalBalanced, Balances, CountsBalance, SizesBalance

LEMMA GlobalGoSteps ==
    ASSUME TypeOK, HeapInv, GlobalBalanced, NEW t \in Threads,
           \/ ReadCounter(t) \/ AddAllocatedSize(t) \/ AddAllocatedCount(t)
           \/ AddFreedSize(t) \/ AddFreedCount(t) \/ StatsBegin(t) \/ StatsEnd(t)
    PROVE  GlobalBalanced'
<1>1. UNCHANGED <<block, crossed, s_allocateStats, copied>>
  BY DEF ReadCounter, AddAllocatedSize, AddAllocatedCount, AddFreedSize, AddFreedCount,
         StatsBegin, StatsEnd, statistics
<1>2. Apart(t) /\ call \in [Threads -> CallType] /\ Sound(t)
  BY <1>1, GoSteps, SameTypes DEF Typed, HeapInv
<1>3. CASE StatsBegin(t) \/ StatsEnd(t)
  <2>1. call[t].pMemory = NULL /\ call'[t].pMemory = NULL
    BY <1>2, <1>3, CopyMoves DEF NoCall, Sound
  <2>2. \A b \in Blocks : b # NULL
    BY AllocatorAssumption
  <2> QED BY <1>1, <1>2, <2>1, <2>2, GlobalSame
<1>4. CASE \/ ReadCounter(t) \/ AddAllocatedSize(t) \/ AddAllocatedCount(t)
           \/ AddFreedSize(t) \/ AddFreedCount(t)
  <2>1. /\ call[t].at \in CountSteps
        /\ call'[t].pMemory \in {call[t].pMemory, NULL}
    BY <1>2, <1>4 DEF ReadCounter, Counter, AddAllocatedSize, AddAllocatedCount, AddFreedSize,
       AddFreedCount, At, Goto, Return, NoCall, CallType, CountSteps
  <2>2. block[call[t].pMemory].kind = "impl"
    BY <1>2, <2>1 DEF Sound
  <2>3. ASSUME NEW b \in Blocks
        PROVE  \/ ~GlobalIn(b) /\ ~GlobalIn(b)'
               \/ call[t].pMemory # b /\ call'[t].pMemory # b
    <3>1. b # NULL
      BY AllocatorAssumption
    <3>2. CASE call[t].pMemory = b
      BY <1>1, <2>2, <3>2 DEF GlobalIn
    <3> QED BY <2>1, <3>1, <3>2
  <2> QED BY <1>1, <1>2, <2>3, GlobalSame
<1> QED BY <1>3, <1>4

LEMMA GlobalFreeSteps ==
    ASSUME TypeOK, HeapInv, GlobalBalanced, NEW t \in Threads, NEW b \in Blocks,
           Free(t, b) \/ GlobalFree(t, b)
    PROVE  GlobalBalanced'
<1>1. UNCHANGED <<block, s_allocateStats, copied>> /\ call[t].at = "idle"
  BY DEF Free, GlobalFree, statistics, At
<1>2. Apart(t) /\ call \in [Threads -> CallType] /\ Sound(t) /\ b # NULL
  BY FreeSteps, SameTypes, AllocatorAssumption DEF Typed, HeapInv
<1>3. call[t].pMemory = NULL
  BY <1>1, <1>2 DEF Sound
<1>4. CASE GlobalFree(t, b)
  <2>1. call'[t].at = "globalFreed"
    BY <1>2, <1>4 DEF GlobalFree, Enter
  <2>2. \A d \in Blocks : d # NULL
    BY AllocatorAssumption
  <2> QED BY <1>1, <1>2, <1>3, <2>1, <2>2, GlobalSame
<1>5. CASE Free(t, b)
  <2>1. call'[t].pMemory = b /\ block[b].kind = "impl"
    BY <1>2, <1>5 DEF Free, Enter, Held
  <2>2. ~GlobalIn(b) /\ ~GlobalIn(b)'
    BY <1>1, <2>1 DEF GlobalIn
  <2>3. \A d \in Blocks : d # NULL
    BY AllocatorAssumption
  <2> QED BY <1>1, <1>2, <1>3, <2>1, <2>2, <2>3, GlobalSame
<1> QED BY <1>4, <1>5

\* Steps that begin or end a block.
LEMMA GlobalBlockSteps ==
    ASSUME TypeOK, HeapInv, GlobalBalanced, NEW t \in Threads,
           \/ Release(t)
           \/ \E b \in Blocks, u \in Sizes :
                 \/ Allocate(t, b, u) \/ GlobalAllocate(t, b, u) \/ ReAllocateFrees(t, b, u)
                 \/ \E c \in Blocks : ReAllocate(t, b, c, u)
    PROVE  GlobalBalanced'
<1>1. UNCHANGED <<s_allocateStats, copied>>
  BY DEF Release, Allocate, GlobalAllocate, ReAllocateFrees, ReAllocate, statistics
<1>2. call \in [Threads -> CallType] /\ block \in [Blocks -> BlockType] /\ Sound(t)
  BY SameTypes DEF Typed, HeapInv
<1>3. \A d \in Blocks : d # NULL
  BY AllocatorAssumption
<1>4. CASE Release(t)
  <2>b. PICK b \in Blocks : b = call[t].pMemory
    BY <1>2, <1>4 DEF Release, At, Sound, CallType
  <2>1. /\ call[t].at = "release" /\ call'[t].pMemory = NULL
        /\ \A d \in Blocks \ {b} : block'[d] = block[d]
    BY <1>2, <1>4, <2>b DEF Release, Return, NoCall, At
  <2>2. block'[b].kind = "free"
    BY <1>2, <1>4, <2>b DEF Release, NoBlock
  <2>3. ~GlobalIn(b) /\ ~GlobalIn(b)'
    BY <2>b, <2>1, <2>2 DEF GlobalIn
  <2>4. Apart(t)
    BY <1>4, ReleaseSteps
  <2> QED BY <1>1, <1>3, <2>b, <2>1, <2>3, <2>4, GlobalSame
<1>5. ASSUME NEW b \in Blocks, NEW u \in Sizes, Allocate(t, b, u) PROVE GlobalBalanced'
  <2>1. /\ call[t].pMemory = NULL /\ call'[t].pMemory \in {NULL, b}
        /\ \A d \in Blocks \ {b} : block'[d] = block[d]
        /\ block[b].kind = "free" /\ block'[b].kind = "impl"
    BY <1>2, <1>5 DEF Allocate, Enter, Place, At, Sound, CallType
  <2>2. ~GlobalIn(b) /\ ~GlobalIn(b)'
    BY <2>1 DEF GlobalIn
  <2>3. Apart(t)
    BY <1>5, PlaceSteps
  <2> QED BY <1>1, <1>3, <2>1, <2>2, <2>3, GlobalSame
<1>6. ASSUME NEW b \in Blocks, NEW u \in Sizes, GlobalAllocate(t, b, u) PROVE GlobalBalanced'
  <2>1. /\ call[t].pMemory = NULL /\ call'[t].pMemory = b /\ call'[t].at = "globalAllocated"
        /\ \A d \in Blocks \ {b} : block'[d] = block[d]
        /\ block[b].kind = "free"
    BY <1>2, <1>6 DEF GlobalAllocate, Enter, Place, At, Sound, CallType
  <2>2. ~GlobalIn(b) /\ ~GlobalIn(b)'
    BY <2>1 DEF GlobalIn
  <2>3. Apart(t)
    BY <1>6, PlaceSteps
  <2> QED BY <1>1, <1>3, <2>1, <2>2, <2>3, GlobalSame
<1>7. ASSUME NEW b \in Blocks, NEW u \in Sizes, ReAllocateFrees(t, b, u) PROVE GlobalBalanced'
  <2>1. /\ call[t].pMemory = NULL /\ call'[t].pMemory = NULL
        /\ \A d \in Blocks \ {b} : block'[d] = block[d]
        /\ block[b].kind = "impl" /\ block'[b].kind = "free"
    BY <1>2, <1>7 DEF ReAllocateFrees, Held, NoBlock, At, Sound
  <2>2. ~GlobalIn(b) /\ ~GlobalIn(b)'
    BY <2>1 DEF GlobalIn
  <2>3. Apart(t)
    BY <1>7, ReleaseSteps
  <2> QED BY <1>1, <1>3, <2>1, <2>2, <2>3, GlobalSame
<1>8. ASSUME NEW b \in Blocks, NEW u \in Sizes, NEW c \in Blocks, ReAllocate(t, b, c, u)
      PROVE  GlobalBalanced'
  <2>1. /\ call[t].pMemory = NULL
        /\ \A d \in Blocks \ {b, c} : block'[d] = block[d]
        /\ block[b].kind = "impl" /\ block[c].kind \in {"free", "impl"}
    BY <1>2, <1>8 DEF ReAllocate, Held, At, Sound
  <2>2. block'[b].kind # "lldk" /\ block'[c].kind = "impl"
    BY <1>2, <1>8 DEF ReAllocate, Place, NoBlock
  <2>3. call'[t].pMemory \in {NULL, c}
    BY <1>2, <1>8, <2>1 DEF ReAllocate, Enter
  <2>4. \A d \in {b, c} : ~GlobalIn(d) /\ ~GlobalIn(d)'
    BY <2>1, <2>2 DEF GlobalIn
  <2>5. Apart(t)
    BY <1>8, ReAllocateSteps
  <2>6. \A d \in Blocks \ {b, c} : call[t].pMemory # d /\ call'[t].pMemory # d
    BY <1>3, <2>1, <2>3
  <2> QED BY <1>1, <2>1, <2>4, <2>5, <2>6, GlobalSame
<1> QED BY <1>4, <1>5, <1>6, <1>7, <1>8

\* A block becomes counted as allocated, or as freed.
LEMMA GlobalCountSteps ==
    ASSUME TypeOK, HeapInv, GlobalBalanced, NEW t \in Threads,
           AddGlobalAllocated(t) \/ AddGlobalFreed(t)
    PROVE  GlobalBalanced'
<1>1. /\ call \in [Threads -> CallType] /\ Sound(t) /\ call[t].at \in GlobalSteps
      /\ s_allocateStats \in StatsType
  BY SameTypes DEF Typed, HeapInv, AddGlobalAllocated, AddGlobalFreed, At, GlobalSteps
<1>b. PICK b \in Blocks : b = call[t].pMemory
  BY <1>1 DEF Sound, GlobalSteps, CallType
<1>2. UNCHANGED <<block, crossed, copied>> /\ block[b].kind = "lldk"
  BY <1>1, <1>b DEF AddGlobalAllocated, AddGlobalFreed, Sound
<1>3. Apart(t)
  BY <1>2, GoSteps
<1>4. \A u \in Threads \ {t} : call[u].pMemory # b /\ call'[u] = call[u]
  BY <1>b, <1>3, AllocatorAssumption DEF HeapInv, Apart
<1>5. call'[t].pMemory \in {b, NULL}
  BY <1>1, <1>b DEF AddGlobalAllocated, AddGlobalFreed, Goto, Return, NoCall, CallType
<1>6. \A d \in Blocks \ {b} : GlobalIn(d)' <=> GlobalIn(d)
  <2>1. \A d \in Blocks : d # NULL
    BY AllocatorAssumption
  <2> QED BY <1>b, <1>2, <1>3, <1>5, <2>1, GlobalKeep
<1>7. /\ GlobalCounted \in SUBSET Blocks
      /\ CountsBalance(s_allocateStats, Cardinality(GlobalCounted))
      /\ SizesBalance(s_allocateStats, SumFunctionOnSet(uSizes, GlobalCounted))
  BY SameGlobal DEF GlobalBalanced, Balances
<1>8. (\E n \in 0 .. Cardinality(Blocks) : CountsBalance(copied, n))'
  BY <1>2 DEF GlobalBalanced, CountsBalance
<1>u. uSizes \in SizeFunctions /\ uSizes' = uSizes /\ uSizes[b] = block[b].uSize
  BY <1>2, BlockSizes DEF uSizes
<1>9. CASE AddGlobalAllocated(t)
  <2>1. call[t].at = "globalAllocated" /\ call'[t].pMemory = NULL
    BY <1>1, <1>9 DEF AddGlobalAllocated, Return, NoCall, At
  <2>2. ~GlobalIn(b) /\ b # NULL
    BY <1>b, <2>1, AllocatorAssumption DEF GlobalIn
  <2>3. GlobalIn(b)'
    BY <1>2, <1>4, <2>1, <2>2 DEF GlobalIn
  <2>4. GlobalCounted' = GlobalCounted \cup {b} /\ b \in Blocks \ GlobalCounted
    BY <1>2, <1>6, <2>2, <2>3, SameGlobal
  <2>5. /\ s_allocateStats'.uAllocatedCount = Plus(s_allocateStats.uAllocatedCount, 1)
        /\ s_allocateStats'.uFreedCount = s_allocateStats.uFreedCount
        /\ s_allocateStats'.uAllocatedSize = Plus(s_allocateStats.uAllocatedSize, call[t].uSize)
        /\ s_allocateStats'.uFreedSize = s_allocateStats.uFreedSize
    BY <1>1, <1>9 DEF AddGlobalAllocated, StatsType, Fields
  <2>6. CountsBalance(s_allocateStats', Cardinality(GlobalCounted'))
    BY <1>1, <1>7, <2>4, <2>5, CountUp
  <2>7. call[t].uSize = uSizes[b]
    BY <1>1, <1>b, <1>u, <2>1 DEF Sound, NewSizes
  <2>8. SizesBalance(s_allocateStats', SumFunctionOnSet(uSizes, GlobalCounted'))
    BY <1>1, <1>7, <1>u, <2>4, <2>5, <2>7, SizesUp
  <2> QED BY <1>8, <1>u, <2>6, <2>8 DEF GlobalBalanced, Balances, CountsBalance, SizesBalance
<1>10. CASE AddGlobalFreed(t)
  <2>1. call[t].at = "globalFreed" /\ call'[t].pMemory = b /\ call'[t].at = "release"
    BY <1>1, <1>b, <1>10 DEF AddGlobalFreed, Goto, At, CallType
  <2>2. GlobalIn(b)
    BY <1>2, <1>4, <2>1 DEF GlobalIn
  <2>3. ~GlobalIn(b)'
    BY <2>1 DEF GlobalIn
  <2>4. GlobalCounted' = GlobalCounted \ {b} /\ b \in GlobalCounted
    BY <1>2, <1>6, <2>2, <2>3, SameGlobal
  <2>5. /\ s_allocateStats'.uFreedCount = Plus(s_allocateStats.uFreedCount, 1)
        /\ s_allocateStats'.uAllocatedCount = s_allocateStats.uAllocatedCount
        /\ s_allocateStats'.uFreedSize = Plus(s_allocateStats.uFreedSize, call[t].uOldSize)
        /\ s_allocateStats'.uAllocatedSize = s_allocateStats.uAllocatedSize
    BY <1>1, <1>10 DEF AddGlobalFreed, StatsType, Fields
  <2>6. CountsBalance(s_allocateStats', Cardinality(GlobalCounted'))
    BY <1>1, <1>7, <2>4, <2>5, CountDown
  <2>7. call[t].uOldSize = uSizes[b]
    BY <1>1, <1>b, <1>u, <2>1 DEF Sound, OldSizes
  <2>8. SizesBalance(s_allocateStats', SumFunctionOnSet(uSizes, GlobalCounted'))
    BY <1>1, <1>7, <1>u, <2>4, <2>5, <2>7, SizesDown
  <2> QED BY <1>8, <1>u, <2>6, <2>8 DEF GlobalBalanced, Balances, CountsBalance, SizesBalance
<1> QED BY <1>9, <1>10

LEMMA GlobalStep == TypeOK /\ HeapInv /\ GlobalBalanced /\ [Next]_vars => GlobalBalanced'
<1> SUFFICES ASSUME TypeOK, HeapInv, GlobalBalanced, [Next]_vars PROVE GlobalBalanced'
  OBVIOUS
<1>1. CASE UNCHANGED <<block, call, s_allocateStats, copied>>
  BY <1>1 DEF GlobalBalanced, GlobalCounted, Balances, CountsBalance, SizesBalance, uSizes, At
<1>2. ASSUME NEW t \in Threads, GlobalStats(t) PROVE GlobalBalanced'
  <2>1. UNCHANGED <<block, call, s_allocateStats>> /\ copied' = s_allocateStats
    BY <1>2 DEF GlobalStats
  <2>2. Cardinality(GlobalCounted) \in 0 .. Cardinality(Blocks)
    BY BlockSets, SameGlobal
  <2>3. GlobalCounted' = GlobalCounted /\ uSizes' = uSizes
    BY <2>1 DEF GlobalCounted, uSizes, At
  <2> QED BY <2>1, <2>2, <2>3 DEF GlobalBalanced, Balances, CountsBalance, SizesBalance
<1>3. ASSUME NEW t \in Threads, Step(t) PROVE GlobalBalanced'
  <2>1. CASE \/ AllocateFails(t) \/ NullArgument(t) \/ SetErrorMsg(t)
             \/ \E f \in Fields : CopyField(t, f)
             \/ \E b \in Blocks, u \in Sizes : ReAllocateFails(t, b, u)
    BY <1>1, <2>1 DEF AllocateFails, NullArgument, SetErrorMsg, CopyField, ReAllocateFails,
                      statistics
  <2> QED BY <1>2, <1>3, <2>1, GlobalGoSteps, GlobalFreeSteps, GlobalBlockSteps,
             GlobalCountSteps DEF Step
<1>4. CASE Stutter
  BY <1>1, <1>4 DEF Stutter
<1> QED BY <1>3, <1>4, NextCases

\* The global counters differ by the number and the sizes of the blocks of
\* __lldkAllocate that were not given back, modulo 2^64, for any threads that
\* allocate and free meanwhile, and the counts of every copy of them by at most
\* the heap.  (allocator_impl.cpp:289,308,324)
THEOREM GlobalBalancedAlways == Spec => []GlobalBalanced
<1>1. Init => GlobalBalanced
  <2>1. ASSUME Init PROVE GlobalCounted = {}
    BY <2>1 DEF Init, NoBlock, GlobalCounted
  <2> QED BY <2>1, CountNone, SizesNone, FS_EmptySet DEF Init, GlobalBalanced, Balances
<1> QED BY <1>1, TypeInit, TypeStep, HeapInit, HeapStep, GlobalStep, PTL DEF Spec

-----------------------------------------------------------------------------
(* The counters of the Owner, when no other thread has its T.              *)

LEMMA OnlyOwner == ASSUME TypeOK, Alone, NEW t \in Threads PROVE HasStats(t) <=> t = Owner
BY DEF TypeOK, Alone, HasStats, Shares

\* What a thread read of a counter is what the counter still holds.
ReadInv == \A t \in Threads : call[t].uRead # NULL =>
    call[t].at \in CountSteps /\ call[t].uRead = stats[Counter[call[t].at]]

\* So a step that adds to a counter adds to what it holds.
LEMMA Adds ==
    ASSUME TypeOK, ReadInv, NEW t \in Threads, NEW n, Add(t, n)
    PROVE  LET f == Counter[call[t].at] IN
             stats' = [stats EXCEPT ![f] = Plus(stats[f], n)]
BY DEF ReadInv, Add

LEMMA ReadStep ==
    ASSUME TypeOK, SnapInv, Alone, ReadInv, NEW t \in Threads, Step(t)
    PROVE  ReadInv'
<1>1. call \in [Threads -> CallType]
  BY SameTypes DEF Typed
<1>2. ASSUME stats' = stats, \A u \in Threads \ {t} : call'[u] = call[u],
             call'[t] = call[t] \/ call'[t].uRead = NULL
      PROVE  ReadInv'
  BY <1>2 DEF ReadInv
<1>3. CASE ReadCounter(t)
  <2>1. /\ \A u \in Threads \ {t} : call'[u] = call[u]
        /\ call'[t].at = call[t].at /\ call[t].at \in CountSteps /\ stats' = stats
        /\ call'[t].uRead = stats[Counter[call[t].at]]
    BY <1>1, <1>3 DEF ReadCounter, Counter, CountSteps, CallType, statistics
  <2> QED BY <2>1 DEF ReadInv
<1>4. CASE AddAllocatedSize(t) \/ AddAllocatedCount(t) \/ AddFreedSize(t) \/ AddFreedCount(t)
  <2>1. /\ Counting(t) /\ call'[t].uRead = NULL
        /\ \A u \in Threads \ {t} : call'[u] = call[u]
    BY <1>1, <1>4 DEF AddAllocatedSize, AddAllocatedCount, AddFreedSize, AddFreedCount, At,
                      Counting, CountSteps, Goto, Return, NoCall, CallType
  <2>2. \A u \in Threads : Counting(u) => u = Owner
    BY OnlyOwner DEF SnapInv, HasStats
  <2>3. \A u \in Threads \ {t} : call[u].uRead = NULL
    BY <2>1, <2>2 DEF ReadInv, Counting
  <2> QED BY <2>1, <2>3 DEF ReadInv
<1>5. CASE \/ AllocateFails(t) \/ NullArgument(t) \/ SetErrorMsg(t) \/ GlobalStats(t)
           \/ \E f \in Fields : CopyField(t, f)
           \/ \E b \in Blocks, u \in Sizes : ReAllocateFails(t, b, u) \/ ReAllocateFrees(t, b, u)
  BY <1>2, <1>5 DEF AllocateFails, NullArgument, SetErrorMsg, GlobalStats, CopyField,
                    ReAllocateFails, ReAllocateFrees, statistics
<1>6. CASE Release(t) \/ AddGlobalAllocated(t) \/ AddGlobalFreed(t) \/ StatsBegin(t) \/ StatsEnd(t)
  <2>1. call'[t].uRead = NULL /\ \A u \in Threads \ {t} : call'[u] = call[u]
    BY <1>1, <1>6, Moves, CopyMoves DEF Release, AddGlobalAllocated, AddGlobalFreed, NoCall
  <2>2. stats' = stats
    BY <1>6 DEF Release, AddGlobalAllocated, AddGlobalFreed, StatsBegin, StatsEnd, statistics
  <2> QED BY <1>2, <2>1, <2>2
<1>7. ASSUME NEW b \in Blocks,
             \/ Free(t, b) \/ GlobalFree(t, b)
             \/ \E u \in Sizes : \/ Allocate(t, b, u) \/ GlobalAllocate(t, b, u)
                                 \/ \E c \in Blocks : ReAllocate(t, b, c, u)
      PROVE  ReadInv'
  <2>1. stats' = stats
    BY <1>7 DEF Free, GlobalFree, Allocate, GlobalAllocate, ReAllocate, statistics
  <2>2. \/ call' = call
        \/ \E at, d, u, old : Enter(t, at, d, u, old)
    BY <1>7 DEF Free, GlobalFree, Allocate, GlobalAllocate, ReAllocate
  <2>3. /\ \A u \in Threads \ {t} : call'[u] = call[u]
        /\ call'[t] = call[t] \/ call'[t].uRead = NULL
    BY <1>1, <2>2 DEF Enter
  <2> QED BY <1>2, <2>1, <2>3
<1> QED BY <1>3, <1>4, <1>5, <1>6, <1>7 DEF Step

\* The Owner has still to count b as allocated, or has counted it as freed.
Lags(b) == /\ call[Owner].pMemory = b
           /\ call[Owner].at \in {"addAllocatedSize", "addAllocatedCount", "release"}

OwnerIn(b) == block[b].kind = "impl" /\ block[b].by = Owner /\ ~Lags(b)

OwnerCounted == {b \in Blocks : OwnerIn(b)}

OwnerInv == ~crossed => CountsBalance(stats, Cardinality(OwnerCounted))

LEMMA OwnerSame ==
    ASSUME HeapInv, NEW t \in Threads, Apart(t), OwnerInv,
           stats'.uAllocatedCount = stats.uAllocatedCount,
           stats'.uFreedCount = stats.uFreedCount,
           ~crossed' => \A b \in Blocks :
             \/ ~OwnerIn(b) /\ ~OwnerIn(b)'
             \/ block'[b] = block[b] /\ (t = Owner => (Lags(b)' <=> Lags(b)))
    PROVE  OwnerInv'
<1> SUFFICES ASSUME ~crossed' PROVE CountsBalance(stats', Cardinality(OwnerCounted'))
  BY DEF OwnerInv, CountsBalance
<1>1. ~crossed /\ Owner \in Threads
  BY AllocatorAssumption DEF Apart
<1>2. t # Owner => call'[Owner] = call[Owner]
  BY <1>1 DEF Apart
<1>3. \A b \in Blocks : OwnerIn(b)' <=> OwnerIn(b)
  BY <1>2 DEF OwnerIn, Lags
<1>4. OwnerCounted' = OwnerCounted
  BY <1>3 DEF OwnerCounted
<1> QED BY <1>1, <1>4 DEF OwnerInv, CountsBalance

\* Steps that change no block and no count.
LEMMA OwnerGoSteps ==
    ASSUME TypeOK, HeapInv, OwnerInv, NEW t \in Threads,
           \/ ReadCounter(t) \/ AddAllocatedSize(t) \/ AddFreedSize(t)
           \/ AddGlobalAllocated(t) \/ AddGlobalFreed(t) \/ StatsBegin(t) \/ StatsEnd(t)
    PROVE  OwnerInv'
<1>1. call \in [Threads -> CallType] /\ Sound(t) /\ stats \in StatsType
  BY SameTypes DEF Typed, HeapInv
<1>2. UNCHANGED <<block, crossed>>
  BY DEF ReadCounter, AddAllocatedSize, AddFreedSize, AddGlobalAllocated, AddGlobalFreed,
         StatsBegin, StatsEnd
<1>3. Apart(t)
  BY <1>2, GoSteps
<1>4. /\ stats'.uAllocatedCount = stats.uAllocatedCount
      /\ stats'.uFreedCount = stats.uFreedCount
  <2>1. CASE AddAllocatedSize(t)
    BY <1>1, <2>1 DEF AddAllocatedSize, Add, At, Counter, StatsType, Fields
  <2>2. CASE AddFreedSize(t)
    BY <1>1, <2>2 DEF AddFreedSize, Add, At, Counter, StatsType, Fields
  <2>3. CASE ~AddAllocatedSize(t) /\ ~AddFreedSize(t)
    BY <2>3 DEF ReadCounter, AddGlobalAllocated, AddGlobalFreed, StatsBegin, StatsEnd, statistics
  <2> QED BY <2>1, <2>2, <2>3
<1>5. \A b \in Blocks : b # NULL
  BY AllocatorAssumption
<1>6. CASE AddGlobalAllocated(t) \/ AddGlobalFreed(t)
  <2>1. block[call[t].pMemory].kind = "lldk" /\ call'[t].pMemory \in {call[t].pMemory, NULL}
    BY <1>1, <1>6 DEF AddGlobalAllocated, AddGlobalFreed, At, Sound, GlobalSteps, Goto, Return,
                      NoCall, CallType
  <2>2. ASSUME NEW b \in Blocks
        PROVE  \/ ~OwnerIn(b) /\ ~OwnerIn(b)'
               \/ t = Owner => (Lags(b)' <=> Lags(b))
    <3>1. CASE call[t].pMemory = b
      BY <1>2, <2>1, <3>1 DEF OwnerIn
    <3>2. CASE call[t].pMemory # b
      BY <1>5, <2>1, <3>2 DEF Lags
    <3> QED BY <3>1, <3>2
  <2> QED BY <1>2, <1>3, <1>4, <2>2, OwnerSame
<1>7. CASE ReadCounter(t) \/ AddAllocatedSize(t) \/ AddFreedSize(t) \/ StatsBegin(t) \/ StatsEnd(t)
  <2>1. ASSUME NEW b \in Blocks, t = Owner PROVE Lags(b)' <=> Lags(b)
    <3>1. CASE AddAllocatedSize(t)
      BY <1>1, <2>1, <3>1 DEF AddAllocatedSize, At, Goto, CallType, Lags
    <3>2. CASE AddFreedSize(t)
      BY <1>1, <2>1, <3>2 DEF AddFreedSize, At, Goto, CallType, Lags
    <3>3. CASE StatsBegin(t) \/ StatsEnd(t)
      BY <1>1, <2>1, <3>3, CopyMoves DEF NoCall, Lags
    <3>4. CASE ReadCounter(t)
      BY <1>1, <2>1, <3>4 DEF ReadCounter, CallType, Lags
    <3> QED BY <1>7, <3>1, <3>2, <3>3, <3>4
  <2> QED BY <1>2, <1>3, <1>4, <2>1, OwnerSame
<1> QED BY <1>6, <1>7

LEMMA OwnerFreeSteps ==
    ASSUME TypeOK, HeapInv, Alone, OwnerInv, NEW t \in Threads, NEW b \in Blocks,
           Free(t, b) \/ GlobalFree(t, b)
    PROVE  OwnerInv'
<1>1. UNCHANGED <<block, stats>> /\ call[t].at = "idle"
  BY DEF Free, GlobalFree, statistics, At
<1>2. Apart(t) /\ call \in [Threads -> CallType]
  BY FreeSteps, SameTypes DEF Typed
<1>3. t = Owner => call'[t].at \in {"addFreedSize", "globalFreed"}
  BY <1>2, OnlyOwner DEF Free, GlobalFree, Enter
<1>4. \A d \in Blocks : t = Owner => ~Lags(d) /\ ~Lags(d)'
  BY <1>1, <1>3 DEF Lags
<1> QED BY <1>1, <1>2, <1>4, OwnerSame

\* The Owner counts an allocation, or a release.
LEMMA OwnerCountSteps ==
    ASSUME TypeOK, HeapInv, Alone, ReadInv, SnapInv, OwnerInv, NEW t \in Threads,
           AddAllocatedCount(t) \/ AddFreedCount(t)
    PROVE  OwnerInv'
<1>1. /\ call \in [Threads -> CallType] /\ Sound(t) /\ call[t].at \in CountSteps
      /\ stats \in StatsType
  BY SameTypes DEF Typed, HeapInv, AddAllocatedCount, AddFreedCount, At, CountSteps
<1>b. PICK b \in Blocks : b = call[t].pMemory
  BY <1>1 DEF Sound, CountSteps, CallType
<1>2. UNCHANGED <<block, crossed>> /\ block[b].kind = "impl" /\ t = Owner
  BY <1>1, <1>b, OnlyOwner DEF AddAllocatedCount, AddFreedCount, Sound, SnapInv, Counting, HasStats
<1> SUFFICES ASSUME ~crossed PROVE CountsBalance(stats', Cardinality(OwnerCounted'))
  BY <1>2 DEF OwnerInv, CountsBalance
<1>3. block[b].by = Owner /\ b # NULL
  BY <1>1, <1>b, <1>2, AllocatorAssumption DEF Sound
<1>4. OwnerCounted \in SUBSET Blocks /\ CountsBalance(stats, Cardinality(OwnerCounted))
  BY DEF OwnerCounted, OwnerInv
<1>5. CASE AddAllocatedCount(t)
  <2>1. call[t].at = "addAllocatedCount" /\ call'[t].pMemory = NULL
    BY <1>1, <1>5 DEF AddAllocatedCount, Return, NoCall, At
  <2>2. Lags(b) /\ ~Lags(b)' /\ \A d \in Blocks \ {b} : ~Lags(d) /\ ~Lags(d)'
    BY <1>b, <1>2, <2>1, AllocatorAssumption DEF Lags
  <2>3. OwnerCounted' = OwnerCounted \cup {b} /\ b \in Blocks \ OwnerCounted
    BY <1>2, <1>3, <2>2 DEF OwnerCounted, OwnerIn
  <2>4. /\ stats'.uAllocatedCount = Plus(stats.uAllocatedCount, 1)
        /\ stats'.uFreedCount = stats.uFreedCount
    BY <1>1, <1>5, Adds DEF AddAllocatedCount, At, Counter, StatsType, Fields
  <2> QED BY <1>1, <1>4, <2>3, <2>4, CountUp
<1>6. CASE AddFreedCount(t)
  <2>1. /\ call[t].at \in {"addFreedCount", "reAddFreedCount"} /\ call'[t].pMemory = b
        /\ call'[t].at \in {"release", "addAllocatedSize"}
    BY <1>1, <1>b, <1>6 DEF AddFreedCount, Goto, At, CallType
  <2>2. ~Lags(b) /\ Lags(b)' /\ \A d \in Blocks \ {b} : ~Lags(d) /\ ~Lags(d)'
    BY <1>b, <1>2, <2>1 DEF Lags
  <2>3. OwnerCounted' = OwnerCounted \ {b} /\ b \in OwnerCounted
    BY <1>2, <1>3, <2>2 DEF OwnerCounted, OwnerIn
  <2>4. /\ stats'.uFreedCount = Plus(stats.uFreedCount, 1)
        /\ stats'.uAllocatedCount = stats.uAllocatedCount
    BY <1>1, <1>6, Adds DEF AddFreedCount, At, Counter, StatsType, Fields
  <2> QED BY <1>1, <1>4, <2>3, <2>4, CountDown
<1> QED BY <1>5, <1>6

\* Steps that begin or end a block.
LEMMA OwnerBlockSteps ==
    ASSUME TypeOK, HeapInv, Alone, OwnerInv, NEW t \in Threads,
           \/ Release(t)
           \/ \E b \in Blocks, u \in Sizes :
                 Allocate(t, b, u) \/ GlobalAllocate(t, b, u) \/ ReAllocateFrees(t, b, u)
    PROVE  OwnerInv'
<1>1. UNCHANGED stats
  BY DEF Release, Allocate, GlobalAllocate, ReAllocateFrees, statistics
<1>2. call \in [Threads -> CallType] /\ block \in [Blocks -> BlockType] /\ Sound(t)
  BY SameTypes DEF Typed, HeapInv
<1>3. \A d \in Blocks : d # NULL
  BY AllocatorAssumption
<1>4. CASE Release(t)
  <2>b. PICK b \in Blocks : b = call[t].pMemory
    BY <1>2, <1>4 DEF Release, At, Sound, CallType
  <2>1. /\ call[t].at = "release" /\ call'[t].pMemory = NULL /\ crossed' = crossed
        /\ \A d \in Blocks \ {b} : block'[d] = block[d]
        /\ block'[b].kind = "free"
    BY <1>2, <1>4, <2>b DEF Release, Return, NoCall, NoBlock, At
  <2>2. ~crossed => ~OwnerIn(b)
    <3>1. CASE t = Owner
      BY <2>b, <2>1, <3>1 DEF OwnerIn, Lags
    <3>2. CASE t # Owner
      BY <1>2, <1>3, <2>b, <3>2 DEF OwnerIn, Sound
    <3> QED BY <3>1, <3>2
  <2>3. ~OwnerIn(b)'
    BY <2>1 DEF OwnerIn
  <2>4. \A d \in Blocks \ {b} : t = Owner => ~Lags(d) /\ ~Lags(d)'
    BY <1>3, <2>b, <2>1 DEF Lags
  <2>5. Apart(t)
    BY <1>4, ReleaseSteps
  <2> QED BY <1>1, <2>1, <2>2, <2>3, <2>4, <2>5, OwnerSame
<1>5. ASSUME NEW b \in Blocks, NEW u \in Sizes, Allocate(t, b, u) \/ GlobalAllocate(t, b, u)
      PROVE  OwnerInv'
  <2>1. /\ call[t].pMemory = NULL /\ block[b].kind = "free"
        /\ \A d \in Blocks \ {b} : block'[d] = block[d]
    BY <1>2, <1>5 DEF Allocate, GlobalAllocate, At, Sound
  <2>2. ~OwnerIn(b)'
    <3>1. CASE GlobalAllocate(t, b, u)
      BY <1>2, <3>1 DEF GlobalAllocate, Place, OwnerIn
    <3>2. CASE Allocate(t, b, u) /\ t # Owner
      BY <1>2, <3>2 DEF Allocate, Place, OwnerIn
    <3>3. CASE Allocate(t, b, u) /\ t = Owner
      <4>1. call'[t].pMemory = b /\ call'[t].at = "addAllocatedSize"
        BY <1>2, <3>3, OnlyOwner DEF Allocate, Enter
      <4> QED BY <3>3, <4>1 DEF OwnerIn, Lags
    <3> QED BY <1>5, <3>1, <3>2, <3>3
  <2>3. call'[t].pMemory \in {NULL, b}
    BY <1>2, <1>5, <2>1 DEF Allocate, GlobalAllocate, Enter
  <2>4. \A d \in Blocks \ {b} : t = Owner => ~Lags(d) /\ ~Lags(d)'
    BY <1>3, <2>1, <2>3 DEF Lags
  <2>5. Apart(t) /\ ~OwnerIn(b)
    BY <1>5, <2>1, PlaceSteps DEF OwnerIn
  <2> QED BY <1>1, <2>1, <2>2, <2>4, <2>5, OwnerSame
<1>6. ASSUME NEW b \in Blocks, NEW u \in Sizes, ReAllocateFrees(t, b, u) PROVE OwnerInv'
  <2>1. /\ call' = call /\ block'[b].kind = "free"
        /\ \A d \in Blocks \ {b} : block'[d] = block[d]
    BY <1>2, <1>6 DEF ReAllocateFrees, NoBlock
  <2>2. ~crossed' => ~OwnerIn(b)
    BY <1>6 DEF ReAllocateFrees, OwnerIn
  <2>3. ~OwnerIn(b)' /\ \A d \in Blocks : Lags(d)' <=> Lags(d)
    BY <2>1 DEF OwnerIn, Lags
  <2>4. Apart(t)
    BY <1>6, ReleaseSteps
  <2> QED BY <1>1, <2>1, <2>2, <2>3, <2>4, OwnerSame
<1> QED BY <1>4, <1>5, <1>6

\* The block of a reAllocate replaces the old one.
LEMMA OwnerReAllocateSteps ==
    ASSUME TypeOK, HeapInv, Alone, OwnerInv, NEW t \in Threads,
           NEW b \in Blocks, NEW c \in Blocks, NEW u \in Sizes, ReAllocate(t, b, c, u)
    PROVE  OwnerInv'
<1>1. /\ call \in [Threads -> CallType] /\ block \in [Blocks -> BlockType] /\ Sound(t)
      /\ call[t].at = "idle" /\ call[t].pMemory = NULL /\ UNCHANGED stats
      /\ block[b].kind = "impl" /\ \A v \in Threads : call[v].pMemory # b
  BY SameTypes DEF Typed, HeapInv, ReAllocate, At, Held, Sound, statistics
<1>2. /\ \A d \in Blocks \ {b, c} : block'[d] = block[d]
      /\ block'[c].kind = "impl" /\ block'[c].by = t
      /\ b # c => block'[b].kind = "free" /\ block[c].kind = "free"
  BY <1>1 DEF ReAllocate, Place, NoBlock
<1>3. Apart(t)
  BY ReAllocateSteps
<1> SUFFICES ASSUME ~crossed' PROVE CountsBalance(stats', Cardinality(OwnerCounted'))
  BY DEF OwnerInv, CountsBalance
<1>4. ~crossed /\ (t = Owner <=> block[b].by = Owner) /\ Owner \in Threads
  BY <1>3, AllocatorAssumption DEF ReAllocate, Crosses, Apart
<1>5. CASE t = Owner
  <2>1. call'[t].pMemory = c /\ call'[t].at = "reAddFreedSize"
    BY <1>1, <1>5, OnlyOwner DEF ReAllocate, Enter
  <2>2. \A d \in Blocks : ~Lags(d) /\ ~Lags(d)'
    BY <1>1, <1>5, <2>1, AllocatorAssumption DEF Lags
  <2>3. b \in OwnerCounted /\ c \in OwnerCounted'
    BY <1>1, <1>2, <1>4, <1>5, <2>2 DEF OwnerCounted, OwnerIn
  <2>4. \A d \in Blocks \ {b, c} : d \in OwnerCounted' <=> d \in OwnerCounted
    BY <1>2, <2>2 DEF OwnerCounted, OwnerIn
  <2>5. b # c => b \notin OwnerCounted' /\ c \notin OwnerCounted
    BY <1>2 DEF OwnerCounted, OwnerIn
  <2>6. OwnerCounted \in SUBSET Blocks /\ OwnerCounted' \in SUBSET Blocks
    BY DEF OwnerCounted
  <2>7. OwnerCounted' = (OwnerCounted \ {b}) \cup {c}
    BY <2>3, <2>4, <2>5, <2>6
  <2>8. Cardinality(OwnerCounted') = Cardinality(OwnerCounted)
    <3>1. CASE b = c
      BY <2>3, <2>7, <3>1
    <3>2. CASE b # c
      <4>1. OwnerCounted \ {b} \in SUBSET Blocks /\ c \in Blocks \ (OwnerCounted \ {b})
        BY <2>5, <2>6, <3>2
      <4>2. Cardinality((OwnerCounted \ {b}) \cup {c}) = Cardinality(OwnerCounted \ {b}) + 1
        BY <4>1, BlockSets
      <4>3. /\ Cardinality(OwnerCounted \ {b}) = Cardinality(OwnerCounted) - 1
            /\ Cardinality(OwnerCounted) \in 0 .. Cardinality(Blocks)
        BY <2>3, <2>6, BlockSets
      <4>4. Cardinality(Blocks) \in Nat
        BY AllocatorAssumption, FS_CardinalityType
      <4>5. Cardinality(OwnerCounted') = Cardinality(OwnerCounted \ {b}) + 1
        BY <2>7, <4>2
      <4> QED BY <4>3, <4>4, <4>5
    <3> QED BY <3>1, <3>2
  <2> QED BY <1>1, <1>4, <2>8 DEF OwnerInv, CountsBalance
<1>6. CASE t # Owner
  <2>1. \A d \in Blocks : (Lags(d)' <=> Lags(d))
    BY <1>3, <1>4, <1>6 DEF Apart, Lags
  <2>2. \A d \in {b, c} : ~OwnerIn(d) /\ ~OwnerIn(d)'
    BY <1>2, <1>4, <1>6 DEF OwnerIn
  <2>3. \A d \in Blocks : OwnerIn(d)' <=> OwnerIn(d)
    BY <1>2, <2>1, <2>2 DEF OwnerIn
  <2>4. OwnerCounted' = OwnerCounted
    BY <2>3 DEF OwnerCounted
  <2> QED BY <1>1, <1>4, <2>4 DEF OwnerInv, CountsBalance
<1> QED BY <1>5, <1>6

LEMMA OwnerStep ==
    ASSUME TypeOK, HeapInv, SnapInv, Alone, ReadInv, OwnerInv, NEW t \in Threads, Step(t)
    PROVE  OwnerInv'
<1>1. CASE UNCHANGED <<block, call, stats, crossed>>
  BY <1>1 DEF OwnerInv, OwnerCounted, OwnerIn, Lags, CountsBalance
<1>2. CASE \/ AllocateFails(t) \/ NullArgument(t) \/ SetErrorMsg(t) \/ GlobalStats(t)
           \/ \E f \in Fields : CopyField(t, f)
           \/ \E b \in Blocks, u \in Sizes : ReAllocateFails(t, b, u)
  BY <1>1, <1>2 DEF AllocateFails, NullArgument, SetErrorMsg, GlobalStats, CopyField,
                    ReAllocateFails, statistics
<1> QED BY <1>2, OwnerGoSteps, OwnerFreeSteps, OwnerCountSteps, OwnerBlockSteps,
           OwnerReAllocateSteps DEF Step

\* Sizes are counted one step before counts.  While a reAllocate has not counted
\* the release of the old block, the new one stands for it, with its size.
SizeLags(b) == /\ call[Owner].pMemory = b
               /\ call[Owner].at \in {"addAllocatedSize", "addFreedCount",
                                      "reAddFreedCount", "release"}
Replaces(b) == call[Owner].pMemory = b /\ call[Owner].at = "reAddFreedSize"

OwnerSizes == [b \in Blocks |-> IF Replaces(b) THEN call[Owner].uOldSize ELSE block[b].uSize]
SizedIn(b) == block[b].kind = "impl" /\ block[b].by = Owner /\ ~SizeLags(b)
OwnerSized == {b \in Blocks : SizedIn(b)}

SizeInv == ~crossed => SizesBalance(stats, SumFunctionOnSet(OwnerSizes, OwnerSized))

LEMMA OwnerSizeType == ASSUME TypeOK PROVE OwnerSizes \in SizeFunctions
<1>1. \A b \in Blocks : block[b].uSize \in Size64 /\ call[Owner].uOldSize \in Size64
  BY SameTypes, AllocatorAssumption DEF Typed, BlockType, CallType
<1> QED BY <1>1 DEF OwnerSizes, SizeFunctions

LEMMA SizesSame ==
    ASSUME HeapInv, NEW t \in Threads, Apart(t), SizeInv,
           stats'.uAllocatedSize = stats.uAllocatedSize,
           stats'.uFreedSize = stats.uFreedSize,
           ~crossed' => \A b \in Blocks :
             \/ ~SizedIn(b) /\ ~SizedIn(b)'
             \/ /\ block'[b] = block[b]
                /\ t = Owner => (SizeLags(b)' <=> SizeLags(b)) /\ ~Replaces(b) /\ ~Replaces(b)'
    PROVE  SizeInv'
<1> SUFFICES ASSUME ~crossed'
             PROVE  SizesBalance(stats', SumFunctionOnSet(OwnerSizes', OwnerSized'))
  BY DEF SizeInv, SizesBalance
<1>1. ~crossed /\ Owner \in Threads
  BY AllocatorAssumption DEF Apart
<1>2. t # Owner => call'[Owner] = call[Owner]
  BY <1>1 DEF Apart
<1>3. \A b \in Blocks : SizedIn(b)' <=> SizedIn(b)
  BY <1>2 DEF SizedIn, SizeLags
<1>4. OwnerSized' = OwnerSized /\ OwnerSized \in SUBSET Blocks
  BY <1>3 DEF OwnerSized
<1>5. \A b \in OwnerSized : OwnerSizes[b] = OwnerSizes'[b]
  BY <1>2 DEF OwnerSized, OwnerSizes, Replaces
<1>6. SumFunctionOnSet(OwnerSizes, OwnerSized) = SumFunctionOnSet(OwnerSizes', OwnerSized)
  BY <1>4, <1>5, SumSame, AllocatorAssumption
<1> QED BY <1>1, <1>4, <1>6 DEF SizeInv, SizesBalance

\* Steps that change no block and no size that is counted.
LEMMA SizeGoSteps ==
    ASSUME TypeOK, HeapInv, SnapInv, SizeInv, NEW t \in Threads,
           \/ ReadCounter(t) \/ AddAllocatedCount(t) \/ AddFreedCount(t)
           \/ AddGlobalAllocated(t) \/ AddGlobalFreed(t) \/ StatsBegin(t) \/ StatsEnd(t)
    PROVE  SizeInv'
<1>1. call \in [Threads -> CallType] /\ Sound(t) /\ stats \in StatsType
  BY SameTypes DEF Typed, HeapInv
<1>2. UNCHANGED <<block, crossed>>
  BY DEF ReadCounter, AddAllocatedCount, AddFreedCount, AddGlobalAllocated, AddGlobalFreed,
         StatsBegin, StatsEnd
<1>3. Apart(t)
  BY <1>2, GoSteps
<1>4. /\ stats'.uAllocatedSize = stats.uAllocatedSize
      /\ stats'.uFreedSize = stats.uFreedSize
  <2>1. CASE AddAllocatedCount(t)
    BY <1>1, <2>1 DEF AddAllocatedCount, Add, At, Counter, StatsType, Fields
  <2>2. CASE AddFreedCount(t)
    BY <1>1, <2>2 DEF AddFreedCount, Add, At, Counter, StatsType, Fields
  <2>3. CASE ~AddAllocatedCount(t) /\ ~AddFreedCount(t)
    BY <2>3 DEF ReadCounter, AddGlobalAllocated, AddGlobalFreed, StatsBegin, StatsEnd, statistics
  <2> QED BY <2>1, <2>2, <2>3
<1>5. \A b \in Blocks : b # NULL
  BY AllocatorAssumption
<1>6. CASE AddGlobalAllocated(t) \/ AddGlobalFreed(t)
  <2>1. block[call[t].pMemory].kind = "lldk" /\ call'[t].pMemory \in {call[t].pMemory, NULL}
    BY <1>1, <1>6 DEF AddGlobalAllocated, AddGlobalFreed, At, Sound, GlobalSteps, Goto, Return,
                      NoCall, CallType
  <2>2. ASSUME NEW b \in Blocks
        PROVE  \/ ~SizedIn(b) /\ ~SizedIn(b)'
               \/ t = Owner => (SizeLags(b)' <=> SizeLags(b)) /\ ~Replaces(b) /\ ~Replaces(b)'
    <3>1. CASE call[t].pMemory = b
      BY <1>2, <2>1, <3>1 DEF SizedIn
    <3>2. CASE call[t].pMemory # b
      BY <1>5, <2>1, <3>2 DEF SizeLags, Replaces
    <3> QED BY <3>1, <3>2
  <2> QED BY <1>2, <1>3, <1>4, <2>2, SizesSame
<1>8. CASE ReadCounter(t)
  <2>1. /\ call'[t].at = call[t].at /\ call'[t].pMemory = call[t].pMemory
        /\ call'[t].uOldSize = call[t].uOldSize /\ \A u \in Threads \ {t} : call'[u] = call[u]
    BY <1>1, <1>8 DEF ReadCounter, CallType
  <2>2. OwnerSized' = OwnerSized /\ OwnerSizes' = OwnerSizes
    BY <1>2, <2>1, AllocatorAssumption DEF OwnerSized, OwnerSizes, SizedIn, SizeLags, Replaces
  <2> QED BY <1>2, <1>4, <2>2 DEF SizeInv, SizesBalance
<1>7. CASE AddAllocatedCount(t) \/ AddFreedCount(t) \/ StatsBegin(t) \/ StatsEnd(t)
  <2>1. ASSUME NEW b \in Blocks, t = Owner
        PROVE  (SizeLags(b)' <=> SizeLags(b)) /\ ~Replaces(b) /\ ~Replaces(b)'
    <3>1. CASE AddAllocatedCount(t)
      BY <1>1, <1>5, <2>1, <3>1 DEF AddAllocatedCount, At, Return, NoCall, CallType, SizeLags, Replaces
    <3>2. CASE AddFreedCount(t)
      BY <1>1, <2>1, <3>2 DEF AddFreedCount, At, Goto, CallType, SizeLags, Replaces
    <3>3. CASE StatsBegin(t) \/ StatsEnd(t)
      BY <1>1, <2>1, <3>3, CopyMoves DEF NoCall, SizeLags, Replaces
    <3> QED BY <1>7, <3>1, <3>2, <3>3
  <2> QED BY <1>2, <1>3, <1>4, <2>1, SizesSame
<1> QED BY <1>6, <1>7, <1>8

LEMMA SizeFreeSteps ==
    ASSUME TypeOK, HeapInv, Alone, SizeInv, NEW t \in Threads, NEW b \in Blocks,
           Free(t, b) \/ GlobalFree(t, b)
    PROVE  SizeInv'
<1>1. UNCHANGED <<block, stats>> /\ call[t].at = "idle"
  BY DEF Free, GlobalFree, statistics, At
<1>2. Apart(t) /\ call \in [Threads -> CallType]
  BY FreeSteps, SameTypes DEF Typed
<1>3. t = Owner => call'[t].at \in {"addFreedSize", "globalFreed"}
  BY <1>2, OnlyOwner DEF Free, GlobalFree, Enter
<1>4. \A d \in Blocks : t = Owner => /\ ~SizeLags(d) /\ ~SizeLags(d)'
                                     /\ ~Replaces(d) /\ ~Replaces(d)'
  BY <1>1, <1>3 DEF SizeLags, Replaces
<1> QED BY <1>1, <1>2, <1>4, SizesSame

\* The Owner counts the size of a new block, or that of an old one.
LEMMA SizeCountSteps ==
    ASSUME TypeOK, HeapInv, Alone, ReadInv, SnapInv, SizeInv, NEW t \in Threads,
           AddAllocatedSize(t) \/ AddFreedSize(t)
    PROVE  SizeInv'
<1>1. /\ call \in [Threads -> CallType] /\ Sound(t) /\ call[t].at \in CountSteps
      /\ stats \in StatsType
  BY SameTypes DEF Typed, HeapInv, AddAllocatedSize, AddFreedSize, At, CountSteps
<1>b. PICK b \in Blocks : b = call[t].pMemory
  BY <1>1 DEF Sound, CountSteps, CallType
<1>2. UNCHANGED <<block, crossed>> /\ block[b].kind = "impl" /\ t = Owner
  BY <1>1, <1>b, OnlyOwner DEF AddAllocatedSize, AddFreedSize, Sound, SnapInv, Counting, HasStats
<1> SUFFICES ASSUME ~crossed
             PROVE  SizesBalance(stats', SumFunctionOnSet(OwnerSizes', OwnerSized'))
  BY <1>2 DEF SizeInv, SizesBalance
<1>3. block[b].by = Owner /\ b # NULL
  BY <1>1, <1>b, <1>2, AllocatorAssumption DEF Sound
<1>4. /\ OwnerSized \in SUBSET Blocks
      /\ SizesBalance(stats, SumFunctionOnSet(OwnerSizes, OwnerSized))
  BY DEF OwnerSized, SizeInv
<1>5. OwnerSizes \in SizeFunctions
  BY OwnerSizeType
<1>6. CASE AddAllocatedSize(t)
  <2>1. /\ call[t].at = "addAllocatedSize" /\ call'[t].pMemory = b
        /\ call'[t].at = "addAllocatedCount"
    BY <1>1, <1>b, <1>6 DEF AddAllocatedSize, Goto, At, CallType
  <2>2. SizeLags(b) /\ ~SizeLags(b)' /\ \A d \in Blocks \ {b} : ~SizeLags(d) /\ ~SizeLags(d)'
    BY <1>b, <1>2, <2>1 DEF SizeLags
  <2>3. OwnerSized' = OwnerSized \cup {b} /\ b \in Blocks \ OwnerSized
    BY <1>2, <1>3, <2>2 DEF OwnerSized, SizedIn
  <2>4. OwnerSizes' = OwnerSizes /\ OwnerSizes[b] = block[b].uSize
    BY <1>2, <2>1 DEF OwnerSizes, Replaces
  <2>5. /\ stats'.uAllocatedSize = Plus(stats.uAllocatedSize, call[t].uSize)
        /\ stats'.uFreedSize = stats.uFreedSize
    BY <1>1, <1>6, Adds DEF AddAllocatedSize, At, Counter, StatsType, Fields
  <2>6. call[t].uSize = OwnerSizes[b]
    BY <1>1, <1>b, <2>1, <2>4 DEF Sound, NewSizes
  <2> QED BY <1>1, <1>4, <1>5, <2>3, <2>4, <2>5, <2>6, SizesUp
<1>7. CASE AddFreedSize(t)
  <2>1. /\ call[t].at \in {"addFreedSize", "reAddFreedSize"} /\ call'[t].pMemory = b
        /\ call'[t].at \in {"addFreedCount", "reAddFreedCount"}
    BY <1>1, <1>b, <1>7 DEF AddFreedSize, Goto, At, CallType
  <2>2. ~SizeLags(b) /\ SizeLags(b)' /\ \A d \in Blocks \ {b} : ~SizeLags(d) /\ ~SizeLags(d)'
    BY <1>b, <1>2, <2>1 DEF SizeLags
  <2>3. OwnerSized' = OwnerSized \ {b} /\ b \in OwnerSized
    BY <1>2, <1>3, <2>2 DEF OwnerSized, SizedIn
  <2>4. \A d \in OwnerSized \ {b} : OwnerSizes[d] = OwnerSizes'[d]
    BY <1>b, <1>2, <1>4, <2>1 DEF OwnerSizes, Replaces
  <2>5. /\ stats'.uFreedSize = Plus(stats.uFreedSize, call[t].uOldSize)
        /\ stats'.uAllocatedSize = stats.uAllocatedSize
    BY <1>1, <1>7, Adds DEF AddFreedSize, At, Counter, StatsType, Fields
  <2>6. call[t].uOldSize = OwnerSizes[b]
    <3>1. CASE call[t].at = "addFreedSize"
      BY <1>1, <1>b, <1>2, <3>1 DEF Sound, OldSizes, OwnerSizes, Replaces
    <3>2. CASE call[t].at = "reAddFreedSize"
      BY <1>b, <1>2, <3>2 DEF OwnerSizes, Replaces
    <3> QED BY <2>1, <3>1, <3>2
  <2> QED BY <1>1, <1>4, <1>5, <2>3, <2>4, <2>5, <2>6, SizesDown
<1> QED BY <1>6, <1>7

\* Steps that begin or end a block.
LEMMA SizeBlockSteps ==
    ASSUME TypeOK, HeapInv, Alone, SizeInv, NEW t \in Threads,
           \/ Release(t)
           \/ \E b \in Blocks, u \in Sizes :
                 Allocate(t, b, u) \/ GlobalAllocate(t, b, u) \/ ReAllocateFrees(t, b, u)
    PROVE  SizeInv'
<1>1. UNCHANGED stats
  BY DEF Release, Allocate, GlobalAllocate, ReAllocateFrees, statistics
<1>2. call \in [Threads -> CallType] /\ block \in [Blocks -> BlockType] /\ Sound(t)
  BY SameTypes DEF Typed, HeapInv
<1>3. \A d \in Blocks : d # NULL
  BY AllocatorAssumption
<1>4. CASE Release(t)
  <2>b. PICK b \in Blocks : b = call[t].pMemory
    BY <1>2, <1>4 DEF Release, At, Sound, CallType
  <2>1. /\ call[t].at = "release" /\ call'[t].pMemory = NULL /\ crossed' = crossed
        /\ \A d \in Blocks \ {b} : block'[d] = block[d]
        /\ block'[b].kind = "free"
    BY <1>2, <1>4, <2>b DEF Release, Return, NoCall, NoBlock, At
  <2>2. ~crossed => ~SizedIn(b)
    <3>1. CASE t = Owner
      BY <2>b, <2>1, <3>1 DEF SizedIn, SizeLags
    <3>2. CASE t # Owner
      BY <1>2, <1>3, <2>b, <3>2 DEF SizedIn, Sound
    <3> QED BY <3>1, <3>2
  <2>3. ~SizedIn(b)'
    BY <2>1 DEF SizedIn
  <2>4. \A d \in Blocks \ {b} : t = Owner => /\ ~SizeLags(d) /\ ~SizeLags(d)'
                                             /\ ~Replaces(d) /\ ~Replaces(d)'
    BY <1>3, <2>b, <2>1 DEF SizeLags, Replaces
  <2>5. Apart(t)
    BY <1>4, ReleaseSteps
  <2> QED BY <1>1, <2>1, <2>2, <2>3, <2>4, <2>5, SizesSame
<1>5. ASSUME NEW b \in Blocks, NEW u \in Sizes, Allocate(t, b, u) \/ GlobalAllocate(t, b, u)
      PROVE  SizeInv'
  <2>1. /\ call[t].pMemory = NULL /\ block[b].kind = "free"
        /\ \A d \in Blocks \ {b} : block'[d] = block[d]
    BY <1>2, <1>5 DEF Allocate, GlobalAllocate, At, Sound
  <2>2. ~SizedIn(b)'
    <3>1. CASE GlobalAllocate(t, b, u)
      BY <1>2, <3>1 DEF GlobalAllocate, Place, SizedIn
    <3>2. CASE Allocate(t, b, u) /\ t # Owner
      BY <1>2, <3>2 DEF Allocate, Place, SizedIn
    <3>3. CASE Allocate(t, b, u) /\ t = Owner
      <4>1. call'[t].pMemory = b /\ call'[t].at = "addAllocatedSize"
        BY <1>2, <3>3, OnlyOwner DEF Allocate, Enter
      <4> QED BY <3>3, <4>1 DEF SizedIn, SizeLags
    <3> QED BY <1>5, <3>1, <3>2, <3>3
  <2>3. call'[t].pMemory \in {NULL, b}
    BY <1>2, <1>5, <2>1 DEF Allocate, GlobalAllocate, Enter
  <2>4. \A d \in Blocks \ {b} : t = Owner => /\ ~SizeLags(d) /\ ~SizeLags(d)'
                                             /\ ~Replaces(d) /\ ~Replaces(d)'
    BY <1>3, <2>1, <2>3 DEF SizeLags, Replaces
  <2>5. Apart(t) /\ ~SizedIn(b)
    BY <1>5, <2>1, PlaceSteps DEF SizedIn
  <2> QED BY <1>1, <2>1, <2>2, <2>4, <2>5, SizesSame
<1>6. ASSUME NEW b \in Blocks, NEW u \in Sizes, ReAllocateFrees(t, b, u) PROVE SizeInv'
  <2>1. /\ call' = call /\ block'[b].kind = "free" /\ call[t].pMemory = NULL
        /\ \A d \in Blocks \ {b} : block'[d] = block[d]
    BY <1>2, <1>6 DEF ReAllocateFrees, NoBlock, At, Sound
  <2>2. ~crossed' => ~SizedIn(b)
    BY <1>6 DEF ReAllocateFrees, SizedIn
  <2>3. /\ ~SizedIn(b)' /\ \A d \in Blocks : SizeLags(d)' <=> SizeLags(d)
        /\ \A d \in Blocks : t = Owner => ~Replaces(d) /\ ~Replaces(d)'
    BY <1>3, <2>1 DEF SizedIn, SizeLags, Replaces
  <2>4. Apart(t)
    BY <1>6, ReleaseSteps
  <2> QED BY <1>1, <2>1, <2>2, <2>3, <2>4, SizesSame
<1> QED BY <1>4, <1>5, <1>6

\* The new block stands for the old one until the old size is counted.
LEMMA SizeReAllocateSteps ==
    ASSUME TypeOK, HeapInv, Alone, SizeInv, NEW t \in Threads,
           NEW b \in Blocks, NEW c \in Blocks, NEW u \in Sizes, ReAllocate(t, b, c, u)
    PROVE  SizeInv'
<1>1. /\ call \in [Threads -> CallType] /\ block \in [Blocks -> BlockType] /\ Sound(t)
      /\ call[t].at = "idle" /\ call[t].pMemory = NULL /\ UNCHANGED stats
      /\ block[b].kind = "impl" /\ \A v \in Threads : call[v].pMemory # b
  BY SameTypes DEF Typed, HeapInv, ReAllocate, At, Held, Sound, statistics
<1>2. /\ \A d \in Blocks \ {b, c} : block'[d] = block[d]
      /\ block'[c].kind = "impl" /\ block'[c].by = t
      /\ b # c => block'[b].kind = "free" /\ block[c].kind = "free"
  BY <1>1 DEF ReAllocate, Place, NoBlock
<1>3. Apart(t)
  BY ReAllocateSteps
<1>4. ~crossed' => (t = Owner <=> block[b].by = Owner) /\ ~crossed
  BY <1>3, AllocatorAssumption DEF ReAllocate, Crosses, Apart
<1>5. CASE t = Owner
  <2>1. /\ call'[t].pMemory = c /\ call'[t].at = "reAddFreedSize"
        /\ call'[t].uOldSize = block[b].uSize
    BY <1>1, <1>5, OnlyOwner DEF ReAllocate, Enter, OldSize
  <2>2. \A d \in Blocks : ~SizeLags(d) /\ ~SizeLags(d)'
    BY <1>1, <1>5, <2>1, AllocatorAssumption DEF SizeLags
  <2>3. \A d \in Blocks : ~Replaces(d) /\ (Replaces(d)' <=> d = c)
    BY <1>1, <1>5, <2>1, AllocatorAssumption DEF Replaces
  <2> SUFFICES ASSUME ~crossed'
               PROVE  SizesBalance(stats', SumFunctionOnSet(OwnerSizes', OwnerSized'))
    BY DEF SizeInv, SizesBalance
  <2>4. b \in OwnerSized /\ c \in OwnerSized'
    BY <1>1, <1>2, <1>4, <1>5, <2>2 DEF OwnerSized, SizedIn
  <2>5. \A d \in Blocks \ {b, c} : d \in OwnerSized' <=> d \in OwnerSized
    BY <1>2, <2>2 DEF OwnerSized, SizedIn
  <2>6. b # c => b \notin OwnerSized' /\ c \notin OwnerSized
    BY <1>2 DEF OwnerSized, SizedIn
  <2>7. OwnerSized \in SUBSET Blocks /\ OwnerSized' \in SUBSET Blocks
    BY DEF OwnerSized
  <2> DEFINE R == OwnerSized \ {b}
             f == OwnerSizes
             g == OwnerSizes'
             sum(h, S) == SumFunctionOnSet(h, S)
  <2>8. OwnerSized' \ {c} = R /\ R \in SUBSET Blocks
    BY <2>4, <2>5, <2>6, <2>7
  <2>9. g[c] = f[b]
    BY <1>5, <2>1, <2>3 DEF OwnerSizes
  <2>10. \A d \in R : f[d] = g[d]
    BY <1>2, <2>3, <2>6, <2>7 DEF OwnerSizes
  <2>11. sum(f, R) = sum(g, R)
    BY <2>8, <2>10, SumSame, AllocatorAssumption
  <2>12. f \in [Blocks -> Nat] /\ g \in [Blocks -> Nat] /\ IsFiniteSet(Blocks)
    <3>1. f \in SizeFunctions
      BY OwnerSizeType
    <3>2. g \in SizeFunctions
      <4>1. f[b] \in Size64 /\ \A d \in Blocks : block'[d].uSize \in Size64
        <5>1. f[b] \in Size64
          BY <3>1 DEF SizeFunctions
        <5>2. block'[c].uSize = u /\ \A d \in Blocks \ {b, c} : block'[d] = block[d]
          BY <1>1, <1>2 DEF ReAllocate, Place
        <5>3. b # c => block'[b].uSize = 0
          BY <1>1 DEF ReAllocate, NoBlock
        <5> QED BY <1>1, <5>1, <5>2, <5>3, Sizes64 DEF BlockType
      <4> QED BY <2>3, <2>9, <4>1 DEF OwnerSizes, SizeFunctions
    <3> QED BY <3>1, <3>2, Sizes64, AllocatorAssumption DEF SizeFunctions
  <2>13. sum(f, OwnerSized) = f[b] + sum(f, R)
    BY <2>4, <2>7, <2>12, SumRemove
  <2>14. sum(g, OwnerSized') = g[c] + sum(g, OwnerSized' \ {c})
    BY <2>4, <2>7, <2>12, SumRemove
  <2>15. sum(g, OwnerSized') = sum(f, OwnerSized)
    BY <2>8, <2>9, <2>11, <2>13, <2>14
  <2> QED BY <1>1, <1>4, <2>15 DEF SizeInv, SizesBalance
<1>6. CASE t # Owner
  <2>1. \A d \in {b, c} : ~crossed' => ~SizedIn(d) /\ ~SizedIn(d)'
    BY <1>2, <1>4, <1>6 DEF SizedIn
  <2> QED BY <1>1, <1>2, <1>3, <1>6, <2>1, SizesSame
<1> QED BY <1>5, <1>6

LEMMA SizeStep ==
    ASSUME TypeOK, HeapInv, SnapInv, Alone, ReadInv, SizeInv, NEW t \in Threads, Step(t)
    PROVE  SizeInv'
<1>1. CASE UNCHANGED <<block, call, stats, crossed>>
  BY <1>1 DEF SizeInv, OwnerSized, OwnerSizes, SizedIn, SizeLags, Replaces, SizesBalance
<1>2. CASE \/ AllocateFails(t) \/ NullArgument(t) \/ SetErrorMsg(t) \/ GlobalStats(t)
           \/ \E f \in Fields : CopyField(t, f)
           \/ \E b \in Blocks, u \in Sizes : ReAllocateFails(t, b, u)
  BY <1>1, <1>2 DEF AllocateFails, NullArgument, SetErrorMsg, GlobalStats, CopyField,
                    ReAllocateFails, statistics
<1> QED BY <1>2, SizeGoSteps, SizeFreeSteps, SizeCountSteps, SizeBlockSteps,
           SizeReAllocateSteps DEF Step

StatsInv == Alone => ReadInv /\ OwnerInv /\ SizeInv

LEMMA StatsStep == TypeOK /\ HeapInv /\ SnapInv /\ StatsInv /\ [Next]_vars => StatsInv'
<1> SUFFICES ASSUME TypeOK, HeapInv, SnapInv, StatsInv, [Next]_vars, Alone'
             PROVE  ReadInv' /\ OwnerInv' /\ SizeInv'
  BY DEF StatsInv
<1>1. UNCHANGED slot
  BY NextCases DEF Stutter
<1>2. Alone /\ ReadInv /\ OwnerInv /\ SizeInv
  BY <1>1 DEF Alone, Shares, StatsInv
<1>3. CASE Stutter
  BY <1>2, <1>3 DEF Stutter, ReadInv, OwnerInv, OwnerCounted, OwnerIn, Lags, CountsBalance,
                    SizeInv, OwnerSized, OwnerSizes, SizedIn, SizeLags, Replaces, SizesBalance
<1>4. ASSUME NEW t \in Threads, Step(t) PROVE ReadInv' /\ OwnerInv' /\ SizeInv'
  BY <1>2, <1>4, ReadStep, OwnerStep, SizeStep
<1> QED BY <1>3, <1>4, NextCases

\* Between calls of the Owner nothing lags and nothing is replaced.
LEMMA OwnerBetween == StatsInv => StatsBalanced
<1> SUFFICES ASSUME OwnerInv, SizeInv, ~crossed, call[Owner].pMemory = NULL
             PROVE  Balances(stats, InUse("impl", Owner))
  BY DEF StatsBalanced, StatsInv
<1>1. \A b \in Blocks : ~Lags(b) /\ ~SizeLags(b) /\ ~Replaces(b)
  BY AllocatorAssumption DEF Lags, SizeLags, Replaces
<1>2. OwnerCounted = InUse("impl", Owner) /\ OwnerSized = InUse("impl", Owner)
  BY <1>1 DEF OwnerCounted, OwnerIn, OwnerSized, SizedIn, InUse
<1>3. OwnerSizes = uSizes
  BY <1>1 DEF OwnerSizes, uSizes
<1> QED BY <1>2, <1>3 DEF OwnerInv, SizeInv, Balances

\* Between its calls, the counters of the Owner differ by the number and the
\* sizes of the blocks it has in use, modulo 2^64, for any threads, blocks and
\* sizes, until a block passes between it and another thread, when no slot that
\* an earlier holder of the id left points to the block of the Owner's T.
\* (allocator_impl.cpp:33,54,84)
THEOREM StatsBalancedAlways == Spec => []StatsBalanced
<1>1. Init => SnapInv
  BY DEF Init, NoCall, NoCopy, SnapInv, SnapshotExact, OneCopy, Counting, CountSteps, Copying, At
<1>2. Init => StatsInv
  <2>1. ASSUME Init PROVE OwnerCounted = {} /\ OwnerSized = {}
    BY <2>1 DEF Init, NoBlock, OwnerCounted, OwnerIn, OwnerSized, SizedIn
  <2>2. ASSUME Init PROVE OwnerInv
    BY <2>1, <2>2, CountNone, FS_EmptySet DEF Init, OwnerInv
  <2>3. ASSUME Init PROVE SizeInv
    BY <2>1, <2>3, SizesNone DEF Init, SizeInv
  <2>4. ASSUME Init PROVE ReadInv
    BY <2>4 DEF Init, NoCall, ReadInv
  <2> QED BY <2>2, <2>3, <2>4 DEF StatsInv
<1> QED BY <1>1, <1>2, TypeInit, TypeStep, HeapInit, HeapStep, SnapStep, StatsStep,
          OwnerBetween, PTL DEF Spec

=============================================================================
