----------------------- MODULE LldkUnorderedMapProofs -----------------------
(***************************************************************************)
(* An LldkUnorderedMap with any keys, hash, cache size and nodes.  Its own *)
(* calls never make the cache take one entry for another: only a key that  *)
(* somebody else writes to a free block does (OnlyForeignDeceives).  A     *)
(* call that finds the cache sound answers as a plain map (CallsRight), so *)
(* the behaviours in which it stays sound are those of one (Refinement).   *)
(***************************************************************************)
EXTENDS LldkUnorderedMap, FiniteSetTheorems, TLAPS

\* A slot of a key is one of the cache.
LEMMA SlotInCache == ASSUME NEW k \in Keys PROVE Slot(k) \in Slots
BY MapAssumption DEF Slot, Slots

-----------------------------------------------------------------------------
(* Types.                                                                  *)

LEMMA TypeInit == Init => TypeOK
<1>1. 0 \in 0 .. kMissModulus - 1
  BY MapAssumption
<1>2. 0 \in 0 .. Cardinality(Keys)
  BY MapAssumption, FS_CardinalityType
<1>3. DefaultValue \in Values
  BY MapAssumption
<1>4. FALSE \in BOOLEAN
  OBVIOUS
<1> QED BY <1>1, <1>2, <1>3, <1>4, Zenon
        DEF Init, TypeOK, NoEntries, EmptyCache

\* An entry found is a node, and the counter stays below its modulus.
LEMMA LookupType ==
    ASSUME TypeOK, NEW k \in Keys
    PROVE  /\ Found(k) \in Nodes \cup {NULL}
           /\ CountMiss(k) => m_uCachemissCount' \in 0 .. kMissModulus - 1
<1>1. Slot(k) \in Slots
  BY SlotInCache
<1>2. (m_uCachemissCount + 1) % kMissModulus \in 0 .. kMissModulus - 1
  BY MapAssumption DEF TypeOK
<1>3. Found(k) \in Nodes \cup {NULL}
  BY <1>1 DEF TypeOK, Found
<1> QED BY <1>2, <1>3 DEF TypeOK, CountMiss

LEMMA TypeStep == TypeOK /\ [Next]_vars => TypeOK'
<1> SUFFICES ASSUME TypeOK, [Next]_vars
             PROVE  TypeOK'
  OBVIOUS
<1> USE SlotInCache
<1>1. ASSUME NEW k \in Keys, NEW n \in Nodes, NEW v \in Values, Link(k, v, n)
      PROVE  /\ m_mapEntries' \in [Keys -> Nodes \cup {NULL}]
             /\ first' \in [Nodes -> Keys \cup {JUNK}]
             /\ second' \in [Nodes -> Values]
             /\ m_arrEntries' \in [Slots -> Nodes \cup {NULL}]
             /\ recent' \in [Slots -> Keys \cup {NULL}]
  BY <1>1 DEF TypeOK, Link
<1>2. ASSUME NEW k \in Keys, NEW n \in Nodes, NEW v \in Values, InsertNew(k, v, n)
      PROVE  TypeOK'
  BY <1>1, <1>2 DEF InsertNew, TypeOK
<1>3. ASSUME NEW k \in Keys, NEW n \in Nodes, SubscriptNew(k, n)
      PROVE  TypeOK'
  <2>1. Link(k, DefaultValue, n) /\ CountMiss(k) /\ pRet' = n /\ UNCHANGED <<bRet, uRet>>
    BY <1>3 DEF SubscriptNew
  <2> QED BY <1>1, <2>1, MapAssumption, LookupType DEF TypeOK
<1>4. CASE InsertFails
  BY <1>4 DEF InsertFails, memory, TypeOK
<1>5. ASSUME NEW k \in Keys, Erase(k)
      PROVE  TypeOK'
  <2>1. first' \in [Nodes -> Keys \cup {JUNK}]
    BY <1>5 DEF Erase, AfterFree, TypeOK
  <2>2. m_arrEntries' \in [Slots -> Nodes \cup {NULL}]
    BY <1>5 DEF Erase, DropCached, TypeOK
  <2>3. recent' \in [Slots -> Keys \cup {NULL}]
    BY <1>5 DEF Erase, TypeOK
  <2>4. m_mapEntries' \in [Keys -> Nodes \cup {NULL}] /\ pRet' \in Nodes \cup {NULL}
    BY <1>5 DEF Erase, TypeOK
  <2> QED BY <1>5, <2>1, <2>2, <2>3, <2>4 DEF Erase, TypeOK
<1>6. ASSUME NEW k \in Keys, Lookup(k)
      PROVE  /\ m_arrEntries' \in [Slots -> Nodes \cup {NULL}]
             /\ recent' \in [Slots -> Keys \cup {NULL}]
             /\ m_uCachemissCount' \in 0 .. kMissModulus - 1
             /\ Found(k) \in Nodes \cup {NULL}
             /\ UNCHANGED <<m_mapEntries, first, second>>
  BY <1>6, LookupType DEF Lookup, memory, TypeOK
<1>7. ASSUME NEW k \in Keys, Find(k)
      PROVE  TypeOK'
  BY <1>6, <1>7 DEF Find, TypeOK
<1>8. ASSUME NEW k \in Keys, Contains(k)
      PROVE  TypeOK'
  <2>1. bRet' \in BOOLEAN
    BY <1>8, Zenon DEF Contains
  <2> QED BY <1>6, <1>8, <2>1 DEF Contains, TypeOK
<1>9. ASSUME NEW k \in Keys, SubscriptThrows(k)
      PROVE  TypeOK'
  BY <1>6, <1>9 DEF SubscriptThrows, answers, TypeOK
<1>10. CASE Clear
  BY <1>10 DEF Clear, AfterFree, NoEntries, EmptyCache, TypeOK
<1>11. CASE Size
  <2>1. Cardinality(Present) \in 0 .. Cardinality(Keys)
    BY MapAssumption, FS_Subset, FS_CardinalityType DEF Present
  <2> QED BY <1>11, <2>1 DEF Size, memory, TypeOK
<1>12. CASE Empty
  <2>1. bRet' \in BOOLEAN
    BY <1>12, Zenon DEF Empty
  <2> QED BY <1>12, <2>1 DEF Empty, memory, TypeOK
<1>13. ASSUME NEW v \in Values, Assign(v)
       PROVE  TypeOK'
  BY <1>13 DEF Assign, answers, TypeOK
<1>14. ASSUME NEW n \in Nodes, Overwrite(n)
       PROVE  TypeOK'
  BY <1>14 DEF Overwrite, answers, TypeOK
<1>15. CASE UNCHANGED vars
  BY <1>15 DEF vars, memory, answers, TypeOK
<1> QED BY <1>2, <1>3, <1>4, <1>5, <1>7, <1>8, <1>9, <1>10, <1>11, <1>12, <1>13, <1>14, <1>15
        DEF Next, InsertPresent, InsertThrows, SubscriptFound

\* Entries, cache and client pointer are nodes or null, and every answer is
\* in range, whatever free memory reads as.
THEOREM TypeCorrect == Spec => []TypeOK
BY TypeInit, TypeStep, PTL DEF Spec

-----------------------------------------------------------------------------
(* The entries: what holds whatever other owners of free memory write.     *)

\* Two keys do not share an entry.
LEMMA OneKeyPerEntry ==
    ASSUME EntriesHoldKeys, NEW j \in Present, NEW k \in Present,
           m_mapEntries[j] = m_mapEntries[k]
    PROVE  j = k
BY DEF EntriesHoldKeys

LEMMA InitEmpty == Init => Present = {} /\ LiveNodes = {} /\ \A k \in Keys : ~IsCached(k, first)
<1> SUFFICES ASSUME Init
             PROVE  Present = {} /\ LiveNodes = {} /\ \A k \in Keys : ~IsCached(k, first)
  OBVIOUS
<1>1. Present = {}
  BY DEF Init, NoEntries, Present
<1>2. LiveNodes = {}
  BY <1>1 DEF LiveNodes
<1>3. ASSUME NEW k \in Keys PROVE ~IsCached(k, first)
  BY SlotInCache DEF Init, EmptyCache, IsCached
<1> QED BY <1>1, <1>2, <1>3

\* A key that find does not see has no entry.
LEMMA NotFoundAbsent == ASSUME NEW k \in Keys, Found(k) = NULL PROVE k \notin Present
BY DEF Found, IsCached, Present

\* A new entry: its node is free, so no other entry is disturbed.
LEMMA LinkEntries ==
    ASSUME TypeOK, EntriesHoldKeys, NEW k \in Keys, NEW v \in Values, NEW n \in Nodes,
           k \notin Present, Link(k, v, n)
    PROVE  /\ EntriesHoldKeys'
           /\ Present' = Present \cup {k}
           /\ m_mapEntries'[k] = n /\ first'[n] = k /\ second'[n] = v
           /\ LiveNodes' = LiveNodes \cup {n}
           /\ n \notin LiveNodes
<1>1. n \notin LiveNodes /\ n # NULL
  BY MapAssumption DEF Link, FreeNodes
<1>2. \A j \in Keys : m_mapEntries'[j] = IF j = k THEN n ELSE m_mapEntries[j]
  BY DEF Link, TypeOK
<1>3. \A m \in Nodes : first'[m] = IF m = n THEN k ELSE first[m]
  BY DEF Link, TypeOK
<1>4. second'[n] = v
  BY DEF Link, TypeOK
<1>5. Present' = Present \cup {k}
  BY <1>1, <1>2 DEF Present
<1>6. \A j \in Present : m_mapEntries[j] \in Nodes /\ m_mapEntries[j] # n /\ j # k
  BY <1>1 DEF LiveNodes, Present, TypeOK
<1>7. EntriesHoldKeys'
  <2> SUFFICES ASSUME NEW j \in Present'
               PROVE  first'[m_mapEntries'[j]] = j
    BY DEF EntriesHoldKeys
  <2> QED BY <1>2, <1>3, <1>5, <1>6 DEF EntriesHoldKeys, Present
<1>8. LiveNodes' = LiveNodes \cup {n}
  <2>1. \A m : m \in LiveNodes' <=> \E j \in Present' : m = m_mapEntries'[j]
    BY DEF LiveNodes
  <2>2. \A m : m \in LiveNodes <=> \E j \in Present : m = m_mapEntries[j]
    BY DEF LiveNodes
  <2>3. \A j \in Present : m_mapEntries'[j] = m_mapEntries[j]
    BY <1>2, <1>6 DEF Present
  <2> HIDE DEF Link
  <2> QED BY <1>2, <1>5, <2>1, <2>2, <2>3
<1> QED BY <1>1, <1>2, <1>3, <1>4, <1>5, <1>7, <1>8

\* erase: the entries of other keys stay as they are, and the freed memory
\* still holds its key or holds none.
LEMMA EraseEntries ==
    ASSUME TypeOK, EntriesHoldKeys, NEW k \in Keys, Erase(k)
    PROVE  /\ EntriesHoldKeys'
           /\ Present' = Present \ {k}
           /\ \A j \in Keys : m_mapEntries'[j] = IF j = k THEN NULL ELSE m_mapEntries[j]
           /\ \A j \in Present' : first'[m_mapEntries[j]] = first[m_mapEntries[j]]
           /\ \A m \in Nodes : first'[m] \in {first[m], JUNK}
           /\ LiveNodes' = LiveNodes \ {m_mapEntries[k]}
<1> DEFINE n == m_mapEntries[k]
<1>1. \A j \in Keys : m_mapEntries'[j] = IF j = k THEN NULL ELSE m_mapEntries[j]
  BY DEF Erase, TypeOK
<1>2. Present' = Present \ {k}
  BY <1>1 DEF Present
<1>3. \A j \in Present' : m_mapEntries'[j] = m_mapEntries[j] /\ m_mapEntries[j] # n
                        /\ m_mapEntries[j] \in Nodes
  BY <1>1, <1>2, OneKeyPerEntry DEF Present, TypeOK
<1>4. \A m \in Nodes : first'[m] \in {first[m], JUNK} /\ (m # n => first'[m] = first[m])
  BY DEF Erase, AfterFree
<1>5. \A j \in Present' : first'[m_mapEntries[j]] = first[m_mapEntries[j]]
  BY <1>3, <1>4
<1>6. EntriesHoldKeys'
  BY <1>2, <1>3, <1>5 DEF EntriesHoldKeys
<1>7. LiveNodes' = LiveNodes \ {n}
  <2>1. \A m : m \in LiveNodes' <=> \E j \in Present' : m = m_mapEntries'[j]
    BY DEF LiveNodes
  <2>2. \A m : m \in LiveNodes <=> \E j \in Present : m = m_mapEntries[j]
    BY DEF LiveNodes
  <2> QED BY <1>2, <1>3, <2>1, <2>2
<1> QED BY <1>1, <1>2, <1>4, <1>5, <1>6, <1>7

LEMMA LookupEntries ==
    ASSUME NEW k \in Keys, Lookup(k)
    PROVE  /\ UNCHANGED <<m_mapEntries, first, second>>
           /\ UNCHANGED <<Present, LiveNodes, EntriesHoldKeys>>
BY DEF Lookup, memory, Present, LiveNodes, EntriesHoldKeys

LEMMA ClearEntries == ASSUME Clear PROVE EntriesHoldKeys' /\ Present' = {} /\ LiveNodes' = {}
<1>1. Present' = {}
  BY DEF Clear, NoEntries, Present
<1> QED BY <1>1 DEF EntriesHoldKeys, LiveNodes

\* Another owner's write to free memory changes no entry.
LEMMA OverwriteEntries ==
    ASSUME TypeOK, EntriesHoldKeys, NEW n \in Nodes, Overwrite(n)
    PROVE  /\ EntriesHoldKeys' /\ LiveNodes' = LiveNodes /\ Present' = Present
           /\ \A m \in Nodes \ {n} : first'[m] = first[m]
           /\ \A m \in LiveNodes : first'[m] = first[m] /\ second'[m] = second[m]
           /\ n \in FreeNodes'
<1>1. UNCHANGED m_mapEntries /\ n \notin LiveNodes
  BY DEF Overwrite, FreeNodes
<1>2. Present' = Present /\ LiveNodes' = LiveNodes
  BY <1>1 DEF Present, LiveNodes
<1>3. \A m \in Nodes \ {n} : first'[m] = first[m] /\ second'[m] = second[m]
  BY DEF Overwrite, TypeOK
<1>4. LiveNodes \subseteq Nodes
  BY DEF LiveNodes, Present, TypeOK
<1>5. \A m \in LiveNodes : first'[m] = first[m] /\ second'[m] = second[m]
  BY <1>1, <1>3, <1>4
<1>6. EntriesHoldKeys'
  <2>1. \A j \in Present : m_mapEntries[j] \in LiveNodes
    BY DEF LiveNodes
  <2> QED BY <1>1, <1>2, <1>5, <2>1 DEF EntriesHoldKeys
<1>7. n \in FreeNodes'
  BY <1>1, <1>2 DEF FreeNodes
<1> QED BY <1>2, <1>3, <1>5, <1>6, <1>7

\* The steps that leave the entries alone.
LEMMA SameEntries ==
    ASSUME UNCHANGED <<m_mapEntries, first>>
    PROVE  UNCHANGED <<Present, LiveNodes, EntriesHoldKeys>>
BY DEF EntriesHoldKeys, Present, LiveNodes

LEMMA EntriesStep == TypeOK /\ EntriesHoldKeys /\ [Next]_vars => EntriesHoldKeys'
<1> SUFFICES ASSUME TypeOK, EntriesHoldKeys, [Next]_vars
             PROVE  EntriesHoldKeys'
  OBVIOUS
<1>1. ASSUME NEW k \in Keys, NEW n \in Nodes, NEW v \in Values, InsertNew(k, v, n)
      PROVE  EntriesHoldKeys'
  BY <1>1, LinkEntries DEF InsertNew
<1>2. ASSUME NEW k \in Keys, NEW n \in Nodes, SubscriptNew(k, n)
      PROVE  EntriesHoldKeys'
  BY <1>2, NotFoundAbsent, LinkEntries, MapAssumption DEF SubscriptNew
<1>3. CASE InsertFails \/ Size \/ Empty \/ \E v \in Values : Assign(v)
  BY <1>3, SameEntries DEF InsertFails, Size, Empty, Assign, memory
<1>4. ASSUME NEW k \in Keys, Erase(k)
      PROVE  EntriesHoldKeys'
  BY <1>4, EraseEntries
<1>5. ASSUME NEW k \in Keys, Find(k) \/ Contains(k) \/ SubscriptThrows(k)
      PROVE  EntriesHoldKeys'
  BY <1>5, LookupEntries DEF Find, Contains, SubscriptThrows
<1>6. CASE Clear
  BY <1>6, ClearEntries
<1>7. ASSUME NEW n \in Nodes, Overwrite(n)
      PROVE  EntriesHoldKeys'
  BY <1>7, OverwriteEntries
<1>8. CASE UNCHANGED vars
  BY <1>8, SameEntries DEF vars, memory
<1> QED BY <1>1, <1>2, <1>3, <1>4, <1>5, <1>6, <1>7, <1>8
        DEF Next, InsertPresent, InsertThrows, SubscriptFound

LEMMA EntriesAlways == Spec => []EntriesHoldKeys
<1>1. Init => EntriesHoldKeys
  BY InitEmpty DEF EntriesHoldKeys
<1> QED BY <1>1, EntriesStep, TypeCorrect, PTL DEF Spec

-----------------------------------------------------------------------------
(* The cache, and what can deceive it.                                     *)

\* The entry found for a key is its entry, or none when it has none.
LEMMA FoundEntry ==
    ASSUME CacheSound, NEW k \in Keys
    PROVE  Found(k) = m_mapEntries[k]
BY DEF CacheSound, Found

\* A pointer in the cache that dangled to the node of a new entry now reaches
\* a key whose entry it is.
LEMMA LinkSound ==
    ASSUME TypeOK, EntriesHoldKeys, CacheSound,
           NEW k \in Keys, NEW v \in Values, NEW n \in Nodes,
           k \notin Present, Link(k, v, n)
    PROVE  CacheSound'
<1> SUFFICES ASSUME NEW j \in Keys, IsCached(j, first)'
             PROVE  (m_arrEntries[Slot(j)] = m_mapEntries[j])'
  BY DEF CacheSound
<1> DEFINE m == m_arrEntries'[Slot(j)]
<1>1. m # NULL /\ first'[m] = j
  BY DEF IsCached
<1>2. Slot(j) \in Slots /\ Slot(k) \in Slots
  BY SlotInCache
<1>3. m = IF Slot(j) = Slot(k) THEN n ELSE m_arrEntries[Slot(j)]
  BY <1>2 DEF Link, TypeOK
<1>4. m \in Nodes
  BY <1>1, <1>2, <1>3 DEF TypeOK
<1>5. \A i \in Keys : m_mapEntries'[i] = IF i = k THEN n ELSE m_mapEntries[i]
  BY DEF Link, TypeOK
<1>6. \A i \in Nodes : first'[i] = IF i = n THEN k ELSE first[i]
  BY DEF Link, TypeOK
<1>7. CASE m = n
  BY <1>1, <1>5, <1>6, <1>7
<1>8. CASE m # n
  <2>1. m = m_arrEntries[Slot(j)] /\ first[m] = j
    BY <1>1, <1>3, <1>4, <1>6, <1>8
  <2>2. m = m_mapEntries[j]
    BY <1>1, <2>1 DEF CacheSound, IsCached
  <2>3. j # k
    BY <1>1, <2>2 DEF Present
  <2> QED BY <1>5, <2>2, <2>3
<1> QED BY <1>7, <1>8

\* erase: if the freed memory still holds the key, its slot is emptied; else it
\* reads as no key.
LEMMA EraseSound ==
    ASSUME TypeOK, EntriesHoldKeys, CacheSound, NEW k \in Keys, Erase(k)
    PROVE  CacheSound'
<1> SUFFICES ASSUME NEW j \in Keys, IsCached(j, first)'
             PROVE  (m_arrEntries[Slot(j)] = m_mapEntries[j])'
  BY DEF CacheSound
<1> DEFINE m == m_arrEntries'[Slot(j)]
<1>1. m # NULL /\ first'[m] = j
  BY DEF IsCached
<1>2. Slot(j) \in Slots /\ Slot(k) \in Slots
  BY SlotInCache
<1>3. m = m_arrEntries[Slot(j)]
  BY <1>1, <1>2 DEF Erase, DropCached, TypeOK
<1>4. m \in Nodes
  BY <1>1, <1>2, <1>3 DEF TypeOK
<1>5. first[m] = j
  BY <1>1, <1>4, EraseEntries, MapAssumption
<1>6. m = m_mapEntries[j]
  BY <1>1, <1>3, <1>5 DEF CacheSound, IsCached
<1>7. j # k
  <2>1. SUFFICES ASSUME j = k PROVE FALSE
    OBVIOUS
  <2>2. IsCached(k, first')
    BY <1>1, <1>3, <2>1 DEF IsCached
  <2>3. m = NULL
    BY <1>2, <2>1, <2>2 DEF Erase, DropCached, TypeOK
  <2> QED BY <1>1, <2>3
<1> QED BY <1>6, <1>7, EraseEntries

\* A look-up puts the key's own entry in its slot.
LEMMA LookupSound ==
    ASSUME TypeOK, EntriesHoldKeys, CacheSound, NEW k \in Keys, Lookup(k)
    PROVE  CacheSound'
<1> SUFFICES ASSUME NEW j \in Keys, IsCached(j, first)'
             PROVE  (m_arrEntries[Slot(j)] = m_mapEntries[j])'
  BY DEF CacheSound
<1>1. UNCHANGED <<m_mapEntries, first>>
  BY LookupEntries
<1>2. Slot(j) \in Slots /\ Slot(k) \in Slots
  BY SlotInCache
<1>3. Found(k) = m_mapEntries[k]
  BY FoundEntry
<1>4. CASE m_arrEntries'[Slot(j)] = m_arrEntries[Slot(j)]
  BY <1>1, <1>4 DEF IsCached, CacheSound
<1>5. CASE m_arrEntries'[Slot(j)] # m_arrEntries[Slot(j)]
  <2>1. m_arrEntries'[Slot(j)] = m_mapEntries[k] /\ k \in Present
    BY <1>2, <1>3, <1>5 DEF Lookup, TypeOK, Present
  <2>2. j = k
    BY <1>1, <2>1 DEF IsCached, EntriesHoldKeys
  <2> QED BY <1>1, <2>1, <2>2
<1> QED BY <1>4, <1>5

\* A write to a free block that puts no other key there deceives no comparison.
LEMMA OverwriteSound ==
    ASSUME TypeOK, EntriesHoldKeys, CacheSound, NEW n \in Nodes, Overwrite(n),
           first'[n] = first[n] \/ first'[n] \notin Keys
    PROVE  CacheSound'
<1> SUFFICES ASSUME NEW j \in Keys, IsCached(j, first)'
             PROVE  (m_arrEntries[Slot(j)] = m_mapEntries[j])'
  BY DEF CacheSound
<1> DEFINE m == m_arrEntries[Slot(j)]
<1>1. UNCHANGED <<m_mapEntries, m_arrEntries>>
  BY DEF Overwrite
<1>2. m # NULL /\ first'[m] = j /\ m \in Nodes
  BY <1>1, SlotInCache DEF IsCached, TypeOK
<1>3. first[m] = j
  BY <1>2, OverwriteEntries
<1> QED BY <1>1, <1>2, <1>3 DEF CacheSound, IsCached

LEMMA ClearSound == ASSUME Clear PROVE CacheSound'
<1>1. ASSUME NEW k \in Keys PROVE ~IsCached(k, first)'
  BY SlotInCache DEF Clear, EmptyCache, IsCached
<1> QED BY <1>1 DEF CacheSound

LEMMA SameSound ==
    ASSUME CacheSound, UNCHANGED <<m_mapEntries, first, m_arrEntries>>
    PROVE  CacheSound'
BY DEF CacheSound, IsCached

\* A step that leaves the cache unsound is another owner's write of a key.
LEMMA DeceivedByWrite ==
    ASSUME TypeOK, EntriesHoldKeys, [Next]_vars, CacheSound, ~CacheSound'
    PROVE  \E n \in FreeNodes' : first'[n] # first[n] /\ first'[n] \in Keys
<1>1. ASSUME NEW k \in Keys, NEW n \in Nodes, NEW v \in Values, InsertNew(k, v, n)
      PROVE  CacheSound'
  BY <1>1, LinkSound DEF InsertNew
<1>2. ASSUME NEW k \in Keys, NEW n \in Nodes, SubscriptNew(k, n)
      PROVE  CacheSound'
  BY <1>2, NotFoundAbsent, LinkSound, MapAssumption DEF SubscriptNew
<1>3. CASE InsertFails \/ Size \/ Empty \/ \E v \in Values : Assign(v)
  BY <1>3, SameSound DEF InsertFails, Size, Empty, Assign, memory
<1>4. ASSUME NEW k \in Keys, Erase(k)
      PROVE  CacheSound'
  BY <1>4, EraseSound
<1>5. ASSUME NEW k \in Keys, Find(k) \/ Contains(k) \/ SubscriptThrows(k)
      PROVE  CacheSound'
  BY <1>5, LookupSound DEF Find, Contains, SubscriptThrows
<1>6. CASE Clear
  BY <1>6, ClearSound
<1>7. ASSUME NEW n \in Nodes, Overwrite(n)
      PROVE  \E m \in FreeNodes' : first'[m] # first[m] /\ first'[m] \in Keys
  BY <1>7, OverwriteSound, OverwriteEntries
<1>8. CASE UNCHANGED vars
  BY <1>8, SameSound DEF vars, memory
<1> QED BY <1>1, <1>2, <1>3, <1>4, <1>5, <1>6, <1>7, <1>8
        DEF Next, InsertPresent, InsertThrows, SubscriptFound

\* For any keys, hash, cache size and nodes, no order of insert, erase, clear,
\* find and operator[], of their failures and of the reuse of nodes makes a
\* dangling pointer of the cache pass for the entry of a key: it takes a key
\* that another owner writes to the freed block.
THEOREM OnlyForeignDeceivesAlways == Spec => OnlyForeignDeceives
<1>1. TypeOK /\ EntriesHoldKeys /\ [Next]_vars
      => [CacheSound /\ ~CacheSound'
          => \E n \in FreeNodes' : first'[n] # first[n] /\ first'[n] \in Keys]_vars
  BY DeceivedByWrite
<1> QED BY <1>1, TypeCorrect, EntriesAlways, PTL DEF Spec, OnlyForeignDeceives

-----------------------------------------------------------------------------
(* The key last inserted or found in a slot.                               *)

LEMMA RecentInit == Init => RecentKeyHits
BY DEF Init, EmptyCache, RecentKeyHits

\* The slot of a recent key holds its live entry.
LEMMA RecentLive ==
    ASSUME TypeOK, RecentKeyHits, NEW s \in Slots, recent[s] # NULL
    PROVE  /\ recent[s] \in Present /\ Slot(recent[s]) = s
           /\ m_arrEntries[s] = m_mapEntries[recent[s]]
           /\ m_arrEntries[s] \in LiveNodes /\ m_arrEntries[s] # NULL
           /\ first[m_arrEntries[s]] = recent[s]
BY DEF RecentKeyHits, IsCached, TypeOK, Present, LiveNodes

\* The property, slot by slot.
LEMMA RecentSlots ==
    ASSUME \A s \in Slots : recent'[s] # NULL
              => /\ Slot(recent'[s]) = s /\ m_arrEntries'[s] # NULL
                 /\ first'[m_arrEntries'[s]] = recent'[s]
                 /\ m_arrEntries'[s] = m_mapEntries'[recent'[s]]
    PROVE  RecentKeyHits'
BY DEF RecentKeyHits, IsCached

\* A slot that is filled with the entry of its key is a hit for it; the other
\* slots keep their hits while the entries of their keys stay.
LEMMA RecentFilled ==
    ASSUME TypeOK, RecentKeyHits, NEW k \in Keys, NEW n \in Nodes,
           m_arrEntries' = [m_arrEntries EXCEPT ![Slot(k)] = n],
           recent' = [recent EXCEPT ![Slot(k)] = k],
           first'[n] = k, m_mapEntries'[k] = n,
           \A j \in Present \ {k} : /\ m_mapEntries'[j] = m_mapEntries[j]
                                   /\ first'[m_mapEntries[j]] = first[m_mapEntries[j]]
    PROVE  RecentKeyHits'
<1> SUFFICES ASSUME NEW s \in Slots, recent'[s] # NULL
             PROVE  /\ Slot(recent'[s]) = s /\ m_arrEntries'[s] # NULL
                    /\ first'[m_arrEntries'[s]] = recent'[s]
                    /\ m_arrEntries'[s] = m_mapEntries'[recent'[s]]
  BY RecentSlots
<1>1. Slot(k) \in Slots /\ n # NULL
  BY SlotInCache, MapAssumption
<1>2. CASE s = Slot(k)
  BY <1>1, <1>2 DEF TypeOK
<1>3. CASE s # Slot(k)
  <2>1. recent'[s] = recent[s] /\ m_arrEntries'[s] = m_arrEntries[s]
    BY <1>3 DEF TypeOK
  <2>2. recent[s] \in Present \ {k}
    BY <1>3, <2>1, RecentLive
  <2> QED BY <2>1, <2>2, RecentLive
<1> QED BY <1>2, <1>3

\* A step that disturbs neither cache, history nor live entries.
LEMMA RecentSame ==
    ASSUME TypeOK, RecentKeyHits, UNCHANGED <<m_mapEntries, m_arrEntries, recent>>,
           \A m \in LiveNodes : first'[m] = first[m]
    PROVE  RecentKeyHits'
<1> SUFFICES ASSUME NEW s \in Slots, recent'[s] # NULL
             PROVE  /\ Slot(recent'[s]) = s /\ m_arrEntries'[s] # NULL
                    /\ first'[m_arrEntries'[s]] = recent'[s]
                    /\ m_arrEntries'[s] = m_mapEntries'[recent'[s]]
  BY RecentSlots
<1> QED BY RecentLive

LEMMA RecentLink ==
    ASSUME TypeOK, EntriesHoldKeys, RecentKeyHits,
           NEW k \in Keys, NEW v \in Values, NEW n \in Nodes, Link(k, v, n)
    PROVE  RecentKeyHits'
<1>1. n \notin LiveNodes
  BY DEF Link, FreeNodes
<1>2. \A m \in LiveNodes : m \in Nodes
  BY DEF LiveNodes, Present, TypeOK
<1>3. \A m \in LiveNodes : first'[m] = first[m]
  BY <1>1, <1>2 DEF Link, TypeOK
<1>4. first'[n] = k /\ m_mapEntries'[k] = n
  BY DEF Link, TypeOK
<1>5. \A j \in Present \ {k} : m_mapEntries'[j] = m_mapEntries[j] /\ m_mapEntries[j] \in LiveNodes
  BY DEF Link, TypeOK, Present, LiveNodes
<1> QED BY <1>3, <1>4, <1>5, RecentFilled DEF Link

\* A hit of find on a free block that another owner wrote the key to leaves
\* the slot, and so the history, as it is.
LEMMA RecentLookup ==
    ASSUME TypeOK, EntriesHoldKeys, RecentKeyHits, NEW k \in Keys, Lookup(k)
    PROVE  RecentKeyHits'
<1>1. UNCHANGED <<m_mapEntries, first, LiveNodes, Present>>
  BY LookupEntries
<1>2. CASE Found(k) = NULL
  BY <1>1, <1>2, RecentSame DEF Lookup
<1>3. CASE Found(k) # NULL /\ Found(k) = m_mapEntries[k]
  <2>1. Found(k) \in Nodes /\ first[Found(k)] = k
    BY <1>3 DEF EntriesHoldKeys, Present, TypeOK
  <2> HIDE DEF Found
  <2> QED BY <1>1, <1>3, <2>1, RecentFilled DEF Lookup
<1>4. CASE Found(k) # NULL /\ Found(k) # m_mapEntries[k]
  <2>1. Slot(k) \in Slots /\ Found(k) = m_arrEntries[Slot(k)]
    BY <1>4, SlotInCache DEF Found
  <2>2. UNCHANGED <<m_arrEntries, recent>>
    BY <1>4, <2>1 DEF Lookup, TypeOK
  <2> QED BY <1>1, <2>2, RecentSame
<1> QED BY <1>2, <1>3, <1>4

\* erase of another key leaves the recent key's slot and entry alone.
LEMMA RecentErase ==
    ASSUME TypeOK, EntriesHoldKeys, RecentKeyHits, NEW k \in Keys, Erase(k)
    PROVE  RecentKeyHits'
<1> SUFFICES ASSUME NEW s \in Slots, recent'[s] # NULL
             PROVE  /\ Slot(recent'[s]) = s /\ m_arrEntries'[s] # NULL
                    /\ first'[m_arrEntries'[s]] = recent'[s]
                    /\ m_arrEntries'[s] = m_mapEntries'[recent'[s]]
  BY RecentSlots
<1>1. Slot(k) \in Slots
  BY SlotInCache
<1>2. recent'[s] = recent[s] /\ recent[s] # NULL
  BY <1>1 DEF Erase, TypeOK
<1>3. /\ recent[s] \in Present /\ recent[s] \in Keys /\ Slot(recent[s]) = s
      /\ m_arrEntries[s] = m_mapEntries[recent[s]]
      /\ m_arrEntries[s] # NULL
      /\ first[m_arrEntries[s]] = recent[s]
  BY <1>2, RecentLive DEF Present
<1>4. recent[s] # k
  <2>1. CASE s = Slot(k)
    BY <1>1, <1>2, <2>1 DEF Erase, TypeOK
  <2>2. CASE s # Slot(k)
    BY <1>3, <2>2
  <2> QED BY <2>1, <2>2
<1>5. first'[m_arrEntries[s]] = recent[s] /\ m_mapEntries'[recent[s]] = m_mapEntries[recent[s]]
  BY <1>3, <1>4, EraseEntries
<1>6. m_arrEntries'[s] = m_arrEntries[s]
  BY <1>1, <1>4, <1>5 DEF Erase, DropCached, IsCached, TypeOK
<1> QED BY <1>2, <1>3, <1>5, <1>6

LEMMA RecentStep ==
    ASSUME TypeOK, EntriesHoldKeys, RecentKeyHits, [Next]_vars
    PROVE  RecentKeyHits'
<1>1. ASSUME NEW k \in Keys, NEW n \in Nodes, NEW v \in Values,
             InsertNew(k, v, n) \/ SubscriptNew(k, n)
      PROVE  RecentKeyHits'
  BY <1>1, RecentLink, MapAssumption DEF InsertNew, SubscriptNew
<1>2. CASE InsertFails \/ Size \/ Empty \/ (\E v \in Values : Assign(v)) \/ UNCHANGED vars
  <2>1. UNCHANGED <<m_mapEntries, m_arrEntries, recent, first>>
    BY <1>2 DEF InsertFails, Size, Empty, Assign, memory, vars
  <2> QED BY <2>1, RecentSame
<1>3. ASSUME NEW k \in Keys, Erase(k)
      PROVE  RecentKeyHits'
  BY <1>3, RecentErase
<1>4. ASSUME NEW k \in Keys, Find(k) \/ Contains(k) \/ SubscriptThrows(k)
      PROVE  RecentKeyHits'
  BY <1>4, RecentLookup DEF Find, Contains, SubscriptThrows
<1>5. CASE Clear
  BY <1>5 DEF Clear, EmptyCache, RecentKeyHits
<1>6. ASSUME NEW n \in Nodes, Overwrite(n)
      PROVE  RecentKeyHits'
  BY <1>6, OverwriteEntries, RecentSame DEF Overwrite
<1>7. \A k \in Keys, n \in Nodes : SubscriptNew(k, n) => RecentKeyHits'
  BY <1>1, MapAssumption
<1> QED BY <1>1, <1>2, <1>3, <1>4, <1>5, <1>6, <1>7
        DEF Next, InsertPresent, InsertThrows, SubscriptFound

\* The key last inserted or found in a slot stays a hit until it is erased or
\* displaced: no operation on another key evicts it, and no write of another
\* owner of free memory does.
THEOREM RecentAlwaysHits == Spec => []RecentKeyHits
<1>1. TypeOK /\ EntriesHoldKeys /\ RecentKeyHits /\ [Next]_vars => RecentKeyHits'
  BY RecentStep
<1> QED BY <1>1, RecentInit, EntriesAlways, TypeCorrect, PTL DEF Spec

-----------------------------------------------------------------------------
(* While the cache is sound, every step is one of the plain map, or changes *)
(* nothing of it.                                                           *)

LEMMA InitRefines == Init => Abstract!Init
<1>1. Init => Present = {}
  BY DEF Init, NoEntries, Present
<1>2. Init => Contents = [k \in Keys |-> NULL]
  BY <1>1 DEF Contents
<1>3. Init => PointedKey = NULL
  BY <1>1 DEF Init, PointedKey, LiveNodes, Present
<1> QED BY <1>2, <1>3, Zenon DEF Init, Abstract!Init

\* The state that CallsRight starts from.
Sound == EntriesHoldKeys /\ CacheSound /\ PointerLive

\* The keys present are those with a value.
LEMMA SamePresent == ASSUME TypeOK PROVE Abstract!Present = Present
<1>1. \A k \in Keys : Contents[k] # NULL <=> k \in Present
  BY MapAssumption DEF Contents, Present, TypeOK
<1> QED BY <1>1 DEF Abstract!Present, Present

\* The client's pointer is to the value of PointedKey.
LEMMA PointerKey ==
    ASSUME TypeOK, Sound
    PROVE  /\ pRet = NULL => PointedKey = NULL
           /\ pRet # NULL => PointedKey \in Present /\ m_mapEntries[PointedKey] = pRet
           /\ \A k \in Present : pRet = m_mapEntries[k] => PointedKey = k
<1>1. NULL \notin LiveNodes
  BY DEF LiveNodes, Present
<1>2. \A k \in Present : m_mapEntries[k] \in LiveNodes /\ first[m_mapEntries[k]] = k
  BY DEF Sound, EntriesHoldKeys, LiveNodes
<1>3. ASSUME pRet # NULL
      PROVE  PointedKey \in Present /\ m_mapEntries[PointedKey] = pRet
  <2>1. pRet \in LiveNodes
    BY <1>3 DEF Sound, PointerLive
  <2>2. PICK k \in Present : pRet = m_mapEntries[k]
    BY <2>1 DEF LiveNodes
  <2> QED BY <1>2, <2>1, <2>2 DEF PointedKey
<1> QED BY <1>1, <1>2, <1>3 DEF PointedKey

\* A new entry adds its key and value to the contents, and leaves the
\* pointer's key as it is.
LEMMA LinkContents ==
    ASSUME TypeOK, Sound, NEW k \in Keys, NEW v \in Values, NEW n \in Nodes,
           k \notin Present, Link(k, v, n)
    PROVE  /\ Contents' = [Contents EXCEPT ![k] = v]
           /\ pRet' = pRet => PointedKey' = PointedKey
           /\ pRet' = n => PointedKey' = k
<1>1. /\ Present' = Present \cup {k} /\ m_mapEntries'[k] = n
      /\ first'[n] = k /\ second'[n] = v
      /\ LiveNodes' = LiveNodes \cup {n} /\ n \notin LiveNodes
  BY LinkEntries DEF Sound
<1>2. ASSUME NEW j \in Present
      PROVE  /\ m_mapEntries'[j] = m_mapEntries[j] /\ m_mapEntries[j] \in LiveNodes
  BY DEF Link, TypeOK, Present, LiveNodes
<1>3. ASSUME NEW m \in LiveNodes
      PROVE  second'[m] = second[m] /\ first'[m] = first[m]
  <2>1. m \in Nodes /\ m # n
    BY <1>1 DEF LiveNodes, Present, TypeOK
  <2> QED BY <2>1 DEF Link, TypeOK
<1>4. Contents' = [j \in Keys |-> IF j \in Present' THEN second'[m_mapEntries'[j]] ELSE NULL]
  BY DEF Contents
<1>5. Contents' = [Contents EXCEPT ![k] = v]
  <2>1. \A j \in Keys : (IF j \in Present' THEN second'[m_mapEntries'[j]] ELSE NULL)
                       = IF j = k THEN v ELSE Contents[j]
    BY <1>1, <1>2, <1>3 DEF Contents
  <2>2. [Contents EXCEPT ![k] = v] = [j \in Keys |-> IF j = k THEN v ELSE Contents[j]]
    BY DEF Contents
  <2> QED BY <1>4, <2>1, <2>2
<1>6. pRet' = pRet => PointedKey' = PointedKey
  <2>1. pRet \in LiveNodes \cup {NULL} /\ n # NULL
    BY MapAssumption DEF Sound, PointerLive
  <2>2. pRet = n => FALSE
    BY <1>1, <2>1
  <2> QED BY <1>1, <1>3, <2>1, <2>2 DEF PointedKey
<1>7. pRet' = n => PointedKey' = k
  BY <1>1 DEF PointedKey
<1> QED BY <1>5, <1>6, <1>7

\* erase removes the key, and the pointer to its value.
LEMMA EraseRefines ==
    ASSUME TypeOK, Sound, NEW k \in Keys, Erase(k)
    PROVE  Abstract!Erase(k)
<1>1. /\ Present' = Present \ {k}
      /\ \A j \in Present' : m_mapEntries'[j] = m_mapEntries[j]
      /\ \A j \in Present' : first'[m_mapEntries[j]] = first[m_mapEntries[j]]
      /\ LiveNodes' = LiveNodes \ {m_mapEntries[k]}
  BY EraseEntries DEF Sound, Present
<1>2. second' = second /\ UNCHANGED <<bRet, uRet>>
      /\ pRet' = IF pRet = m_mapEntries[k] THEN NULL ELSE pRet
  BY DEF Erase
<1>3. Contents' = [Contents EXCEPT ![k] = NULL]
  <2>1. Contents' = [j \in Keys |-> IF j \in Present' THEN second'[m_mapEntries'[j]] ELSE NULL]
    BY DEF Contents
  <2>2. \A j \in Keys : (IF j \in Present' THEN second'[m_mapEntries'[j]] ELSE NULL)
                       = IF j = k THEN NULL ELSE Contents[j]
    BY <1>1, <1>2 DEF Contents
  <2>3. [Contents EXCEPT ![k] = NULL] = [j \in Keys |-> IF j = k THEN NULL ELSE Contents[j]]
    BY DEF Contents
  <2> QED BY <2>1, <2>2, <2>3
<1>4. PointedKey' = IF PointedKey = k THEN NULL ELSE PointedKey
  <2>1. CASE pRet = NULL
    <3>1. PointedKey = NULL /\ pRet' = NULL /\ NULL \notin LiveNodes
      BY <1>2, <2>1, PointerKey DEF LiveNodes, Present
    <3> QED BY <1>1, <3>1 DEF PointedKey
  <2>2. CASE pRet # NULL
    <3>1. PointedKey \in Present /\ m_mapEntries[PointedKey] = pRet
      BY <2>2, PointerKey
    <3>2. CASE PointedKey = k
      <4>1. pRet' = NULL /\ NULL \notin LiveNodes
        BY <1>2, <3>1, <3>2 DEF LiveNodes, Present
      <4> QED BY <1>1, <3>2, <4>1 DEF PointedKey
    <3>3. CASE PointedKey # k
      <4>1. pRet # m_mapEntries[k]
        BY <2>2, <3>1, <3>3, OneKeyPerEntry DEF Present, Sound
      <4>2. pRet' = pRet /\ PointedKey \in Present' /\ first'[pRet] = first[pRet]
        BY <1>1, <1>2, <3>1, <3>3, <4>1
      <4>3. pRet \in LiveNodes /\ pRet \in LiveNodes'
        BY <1>1, <3>1, <4>1 DEF LiveNodes
      <4> QED BY <3>3, <4>2, <4>3 DEF PointedKey
    <3> QED BY <3>2, <3>3
  <2> QED BY <2>1, <2>2
<1> QED BY <1>2, <1>3, <1>4 DEF Abstract!Erase

\* What the cache answers is what the map holds.
LEMMA LookupRefines ==
    ASSUME TypeOK, Sound, NEW k \in Keys, Lookup(k)
    PROVE  /\ Contents' = Contents
           /\ pRet' = pRet => PointedKey' = PointedKey
           /\ pRet' = Found(k) => PointedKey' = IF k \in Present THEN k ELSE NULL
<1>1. UNCHANGED <<m_mapEntries, first, second>>
  BY LookupEntries
<1>2. Present' = Present /\ LiveNodes' = LiveNodes
  BY LookupEntries
<1>3. Contents' = Contents
  BY <1>1, <1>2 DEF Contents
<1>4. pRet' = pRet => PointedKey' = PointedKey
  BY <1>1, <1>2 DEF PointedKey
<1>5. Found(k) = m_mapEntries[k]
  BY FoundEntry DEF Sound
<1>6. k \in Present => Found(k) \in LiveNodes /\ first[Found(k)] = k
  BY <1>5 DEF Sound, EntriesHoldKeys, LiveNodes
<1>7. k \notin Present => Found(k) = NULL /\ NULL \notin LiveNodes
  BY <1>5 DEF Present, LiveNodes
<1> QED BY <1>1, <1>2, <1>3, <1>4, <1>6, <1>7 DEF PointedKey

LEMMA StepAgrees ==
    ASSUME TypeOK, Sound
    PROVE  CallsAgree
<1>1. ASSUME NEW k \in Keys, NEW n \in Nodes, NEW v \in Values, InsertNew(k, v, n)
      PROVE  Abstract!Insert(k, v)
  <2>1. k \notin Present /\ Link(k, v, n) /\ bRet' = TRUE /\ UNCHANGED <<pRet, uRet>>
    BY <1>1 DEF InsertNew
  <2>2. Contents' = [Contents EXCEPT ![k] = v] /\ PointedKey' = PointedKey
    BY <2>1, LinkContents
  <2> QED
    BY <2>1, <2>2, SamePresent, Zenon DEF Abstract!Insert, Abstract!Put
<1>2. ASSUME NEW k \in Keys, NEW n \in Nodes, SubscriptNew(k, n)
      PROVE  Abstract!Subscript(k)
  <2>1. k \notin Present
    BY <1>2, NotFoundAbsent DEF SubscriptNew
  <2>2. Link(k, DefaultValue, n) /\ pRet' = n /\ UNCHANGED <<bRet, uRet>> /\ DefaultValue \in Values
    BY <1>2, MapAssumption DEF SubscriptNew
  <2>3. Contents' = [Contents EXCEPT ![k] = DefaultValue] /\ PointedKey' = k
    BY <2>1, <2>2, LinkContents
  <2> QED
    BY <2>1, <2>2, <2>3, SamePresent, Zenon DEF Abstract!Subscript, Abstract!Put
<1>3. ASSUME InsertFails
      PROVE  Abstract!InsertFails
  <2>1. UNCHANGED <<m_mapEntries, first, second, pRet, uRet>> /\ bRet' = FALSE
    BY <1>3 DEF InsertFails, memory
  <2>2. UNCHANGED <<Contents, PointedKey>>
    BY <2>1 DEF Contents, PointedKey, Present, LiveNodes
  <2> QED
    BY <2>1, <2>2, Zenon DEF Abstract!InsertFails, Abstract!AnswerB
<1>4. ASSUME NEW k \in Keys, Erase(k)
      PROVE  Abstract!Erase(k)
  BY <1>4, EraseRefines
<1>5. ASSUME NEW k \in Keys, Find(k)
      PROVE  Abstract!Find(k)
  <2>1. Contents' = Contents /\ PointedKey' = IF k \in Present THEN k ELSE NULL
    BY <1>5, LookupRefines DEF Find
  <2> QED
    BY <1>5, <2>1, SamePresent, Zenon DEF Find, Abstract!Find
<1>6. ASSUME NEW k \in Keys, Contains(k)
      PROVE  Abstract!AnswerB(k \in Abstract!Present)
  <2>1. Contents' = Contents /\ PointedKey' = PointedKey
    BY <1>6, LookupRefines DEF Contains
  <2>2. (Found(k) # NULL) = (k \in Present)
    BY FoundEntry DEF Sound, Present
  <2>3. bRet' = (k \in Present) /\ UNCHANGED uRet
    BY <1>6, <2>2, Zenon DEF Contains
  <2> QED
    BY <2>1, <2>3, SamePresent, Zenon DEF Abstract!AnswerB
<1>7. ASSUME NEW k \in Keys, SubscriptThrows(k)
      PROVE  UNCHANGED Abstract!vars
  <2>1. Contents' = Contents /\ PointedKey' = PointedKey
    BY <1>7, LookupRefines DEF SubscriptThrows, answers
  <2> QED BY <1>7, <2>1 DEF SubscriptThrows, answers, Abstract!vars
<1>8. ASSUME Clear
      PROVE  Abstract!Clear
  <2>1. Present' = {} /\ LiveNodes' = {}
    BY <1>8, ClearEntries
  <2>2. Contents' = [k \in Keys |-> NULL] /\ PointedKey' = NULL
    BY <2>1 DEF Contents, PointedKey
  <2> QED
    BY <1>8, <2>2, Zenon DEF Clear, Abstract!Clear
<1>9. ASSUME Size
      PROVE  Abstract!AnswerU(Cardinality(Abstract!Present))
  <2>1. UNCHANGED <<m_mapEntries, first, second, pRet>>
    BY <1>9 DEF Size, memory
  <2>2. UNCHANGED <<Contents, PointedKey>>
    BY <2>1 DEF Contents, PointedKey, Present, LiveNodes
  <2>3. uRet' = Cardinality(Abstract!Present) /\ bRet' = bRet
    BY <1>9, SamePresent DEF Size
  <2> QED
    BY <2>2, <2>3, Zenon DEF Abstract!AnswerU
<1>10. ASSUME Empty
       PROVE  Abstract!AnswerB(Abstract!Present = {})
  <2>1. UNCHANGED <<m_mapEntries, first, second, pRet>>
    BY <1>10 DEF Empty, memory
  <2>2. UNCHANGED <<Contents, PointedKey>>
    BY <2>1 DEF Contents, PointedKey, Present, LiveNodes
  <2>3. bRet' = (Abstract!Present = {}) /\ uRet' = uRet
    BY <1>10, SamePresent, Zenon DEF Empty
  <2> QED
    BY <2>2, <2>3, Zenon DEF Abstract!AnswerB
<1>11. ASSUME NEW v \in Values, Assign(v)
       PROVE  Abstract!Assign(v)
  <2>1. pRet # NULL /\ UNCHANGED <<m_mapEntries, first, pRet, bRet, uRet>>
        /\ second' = [second EXCEPT ![pRet] = v]
    BY <1>11 DEF Assign, answers
  <2>2. PointedKey \in Present /\ m_mapEntries[PointedKey] = pRet /\ PointedKey \in Keys
    BY <2>1, PointerKey DEF Present
  <2>3. UNCHANGED <<PointedKey, Present>> /\ PointedKey # NULL
    BY <2>1, <2>2, MapAssumption DEF PointedKey, Present, LiveNodes
  <2>4. \A j \in Present : second'[m_mapEntries[j]] = IF j = PointedKey THEN v
                                                   ELSE second[m_mapEntries[j]]
    <3>1. \A j \in Present : m_mapEntries[j] \in Nodes
      BY DEF Present, TypeOK
    <3>2. \A j \in Present : m_mapEntries[j] = pRet <=> j = PointedKey
      BY <2>2, OneKeyPerEntry DEF Sound
    <3> QED BY <2>1, <3>1, <3>2 DEF TypeOK
  <2> DEFINE p == PointedKey
  <2>5. Contents' = [Contents EXCEPT ![p] = v]
    <3>1. Contents' = [j \in Keys |-> IF j \in Present' THEN second'[m_mapEntries'[j]] ELSE NULL]
      BY DEF Contents
    <3>2. \A j \in Keys : (IF j \in Present' THEN second'[m_mapEntries'[j]] ELSE NULL)
                         = IF j = p THEN v ELSE Contents[j]
      BY <2>1, <2>2, <2>3, <2>4 DEF Contents
    <3>3. [Contents EXCEPT ![p] = v] = [j \in Keys |-> IF j = p THEN v ELSE Contents[j]]
      BY DEF Contents
    <3> QED BY <3>1, <3>2, <3>3
  <2> QED
    BY <2>1, <2>3, <2>5, Zenon DEF Abstract!Assign, Abstract!Put
<1> QED BY <1>1, <1>2, <1>3, <1>4, <1>5, <1>6, <1>7, <1>8, <1>9, <1>10, <1>11, Zenon
        DEF CallsAgree

LEMMA StepRefines ==
    ASSUME TypeOK, Sound, [Next]_vars
    PROVE  [Abstract!Next]_(Abstract!vars)
<1> USE StepAgrees
<1>1. ASSUME NEW k \in Keys, NEW n \in Nodes, NEW v \in Values, InsertNew(k, v, n)
      PROVE  Abstract!Next
  BY <1>1, Zenon DEF CallsAgree, Abstract!Next
<1>2. ASSUME NEW k \in Keys, NEW n \in Nodes, SubscriptNew(k, n)
      PROVE  Abstract!Next
  BY <1>2, Zenon DEF CallsAgree, Abstract!Next
<1>3. ASSUME NEW k \in Keys, Erase(k) \/ Find(k) \/ Contains(k)
      PROVE  Abstract!Next
  BY <1>3, Zenon DEF CallsAgree, Abstract!Next
<1>4. ASSUME NEW v \in Values, Assign(v)
      PROVE  Abstract!Next
  BY <1>4, Zenon DEF CallsAgree, Abstract!Next
<1>5. ASSUME InsertFails \/ Clear \/ Empty
      PROVE  Abstract!Next
  BY <1>5, Zenon DEF CallsAgree, Abstract!Next
<1>6. ASSUME Size
      PROVE  Abstract!Next
  <2>1. Abstract!Cardinality(Abstract!Present) = Cardinality(Abstract!Present)
    BY Zenon DEF Abstract!Cardinality, Cardinality
  <2> QED BY <1>6, <2>1, Zenon DEF CallsAgree, Abstract!Next
<1>7. ASSUME NEW k \in Keys, SubscriptThrows(k)
      PROVE  UNCHANGED Abstract!vars
  BY <1>7, Zenon DEF CallsAgree
<1>8. ASSUME NEW n \in Nodes, Overwrite(n)
      PROVE  UNCHANGED Abstract!vars
  <2>1. UNCHANGED <<m_mapEntries, pRet, bRet, uRet>>
    BY <1>8 DEF Overwrite, answers
  <2>2. /\ Present' = Present /\ LiveNodes' = LiveNodes
        /\ \A m \in LiveNodes : first'[m] = first[m] /\ second'[m] = second[m]
    BY <1>8, OverwriteEntries DEF Sound
  <2>3. \A j \in Present : m_mapEntries[j] \in LiveNodes
    BY DEF LiveNodes
  <2> QED BY <2>1, <2>2, <2>3 DEF Contents, PointedKey, Abstract!vars
<1>9. ASSUME UNCHANGED vars
      PROVE  UNCHANGED Abstract!vars
  BY <1>9 DEF vars, memory, answers, Contents, PointedKey, Present, LiveNodes, Abstract!vars
<1> QED BY <1>1, <1>2, <1>3, <1>4, <1>5, <1>6, <1>7, <1>8, <1>9
        DEF Next, InsertPresent, InsertThrows, SubscriptFound

\* Whatever collisions, failures and reuse of nodes came before, a call that
\* finds the cache sound, with a pointer the client may use, does what the
\* plain map does.
THEOREM CallsAlwaysRight == Spec => CallsRight
<1>1. TypeOK /\ EntriesHoldKeys /\ [Next]_vars
      => [CacheSound /\ PointerLive
          => (Abstract!Next \/ UNCHANGED Abstract!vars) /\ CallsAgree]_vars
  BY StepAgrees, StepRefines DEF Sound
<1> QED BY <1>1, TypeCorrect, EntriesAlways, PTL DEF Spec, CallsRight

\* The client's pointer stays live while the cache is sound.
LEMMA PointerStep ==
    ASSUME TypeOK, Sound, [Next]_vars
    PROVE  PointerLive'
<1>1. ASSUME NEW k \in Keys, NEW n \in Nodes, NEW v \in Values, InsertNew(k, v, n)
      PROVE  PointerLive'
  BY <1>1, LinkEntries DEF InsertNew, Sound, PointerLive
<1>2. ASSUME NEW k \in Keys, NEW n \in Nodes, SubscriptNew(k, n)
      PROVE  PointerLive'
  BY <1>2, NotFoundAbsent, LinkEntries, MapAssumption DEF SubscriptNew, Sound, PointerLive
<1>3. CASE InsertFails \/ Size \/ Empty \/ \E v \in Values : Assign(v)
  <2>1. UNCHANGED <<m_mapEntries, first, pRet>>
    BY <1>3 DEF InsertFails, Size, Empty, Assign, memory, answers
  <2> QED BY <2>1, SameEntries DEF Sound, PointerLive
<1>4. ASSUME NEW k \in Keys, Erase(k)
      PROVE  PointerLive'
  <2>1. pRet' = IF pRet = m_mapEntries[k] THEN NULL ELSE pRet
    BY <1>4 DEF Erase
  <2> QED BY <1>4, <2>1, EraseEntries DEF Sound, PointerLive
<1>5. ASSUME NEW k \in Keys, Find(k) \/ Contains(k) \/ SubscriptThrows(k)
      PROVE  PointerLive'
  <2>1. Lookup(k) /\ (pRet' = Found(k) \/ pRet' = pRet)
    BY <1>5 DEF Find, Contains, SubscriptThrows, answers
  <2>2. Found(k) # NULL => Found(k) \in LiveNodes
    BY FoundEntry DEF Sound, LiveNodes, Present
  <2>3. LiveNodes' = LiveNodes
    BY <2>1, LookupEntries
  <2> HIDE DEF Found
  <2> QED BY <2>1, <2>2, <2>3 DEF Sound, PointerLive
<1>6. CASE Clear
  BY <1>6 DEF Clear, PointerLive
<1>7. ASSUME NEW n \in Nodes, Overwrite(n)
      PROVE  PointerLive'
  BY <1>7, OverwriteEntries DEF Overwrite, answers, Sound, PointerLive
<1>8. CASE UNCHANGED vars
  BY <1>8, SameEntries DEF vars, memory, answers, Sound, PointerLive
<1> QED BY <1>1, <1>2, <1>3, <1>4, <1>5, <1>6, <1>7, <1>8
        DEF Next, InsertPresent, InsertThrows, SubscriptFound

\* A behaviour in which no other owner's key deceives the cache is one of a
\* plain map: the cache is invisible.
THEOREM Refinement == Spec /\ []CacheSound => IsMap
<1>1. Init => PointerLive
  BY InitEmpty DEF Init, PointerLive
<1>2. TypeOK /\ EntriesHoldKeys /\ CacheSound /\ PointerLive /\ [Next]_vars => PointerLive'
  BY PointerStep DEF Sound
<1>3. TypeOK /\ EntriesHoldKeys /\ CacheSound /\ PointerLive /\ [Next]_vars
      => [Abstract!Next]_(Abstract!vars) /\ [CallsAgree]_vars
  BY StepAgrees, StepRefines DEF Sound
<1> QED BY <1>1, <1>2, <1>3, InitRefines, TypeCorrect, EntriesAlways, PTL
        DEF Spec, IsMap, Abstract!Spec
=============================================================================
