-------------------------- MODULE LldkUnorderedMap --------------------------
(***************************************************************************)
(* One LldkUnorderedMap<Key, Value, HashFunc, CACHE_SIZE> and its client:  *)
(* an std::unordered_map whose entries are nodes of the heap, behind a     *)
(* direct-mapped cache of pointers to entries.  The class has no lock.     *)
(*                                                                         *)
(* A node is an address.  first[n] and second[n] are what its memory       *)
(* holds, also while it is free: freeing leaves the key in place or        *)
(* overwrites it, and so may any later owner of the block.  An overwritten *)
(* key reads as JUNK, which equals no key, or as a key: another map of the *)
(* type keeps its keys at the same place of the blocks it is given.        *)
(***************************************************************************)
EXTENDS Integers, FiniteSets

CONSTANTS Keys, Values,
          DefaultValue,   \* Value()
          Nodes,          \* addresses an entry can have
          CACHE_SIZE,
          hashFunc,       \* the hash of each key
          JUNK, NULL,
          kMissModulus    \* of m_uCachemissCount: 2^64 in the code

ASSUME MapAssumption ==
    /\ IsFiniteSet(Keys)
    /\ DefaultValue \in Values
    /\ CACHE_SIZE \in Nat \ {0} /\ kMissModulus \in Nat \ {0}
    /\ hashFunc \in [Keys -> Nat]
    /\ NULL \notin Keys \cup Values \cup Nodes
    /\ JUNK \notin Keys

VARIABLES
    m_mapEntries,        \* the entry of each key, NULL when absent
    first, second,       \* contents of the nodes
    m_arrEntries,        \* the cache: an entry, or NULL
    m_uCachemissCount,
    pRet,                \* the pointer the client has to a value, or NULL
    bRet, uRet,          \* last answer of a bool / uint32_t method
    recent               \* history: the key whose entry was last put or found
                         \* in each slot, NULL once it is erased

memory  == <<first, second>>
answers == <<pRet, bRet, uRet>>
vars    == <<m_mapEntries, memory, m_arrEntries, m_uCachemissCount, answers, recent>>

Slots == 0 .. CACHE_SIZE - 1

Slot(k) == hashFunc[k] % CACHE_SIZE

NoEntries == [k \in Keys |-> NULL]

\* Mutant: the array is one slot short.
EmptyCache_Short == [s \in 0 .. CACHE_SIZE - 2 |-> NULL]

EmptyCache == [s \in Slots |-> NULL]

Init ==
    /\ m_mapEntries = NoEntries
    /\ first = [n \in Nodes |-> JUNK]
    /\ second = [n \in Nodes |-> DefaultValue]
    /\ m_arrEntries = EmptyCache
    /\ m_uCachemissCount = 0
    /\ pRet = NULL /\ bRet = FALSE /\ uRet = 0
    /\ recent = EmptyCache

Present   == {k \in Keys : m_mapEntries[k] # NULL}
LiveNodes == {m_mapEntries[k] : k \in Present}
FreeNodes == Nodes \ LiveNodes

\* The comparison of erase and find, memory holding the given keys.
IsCached(k, keys) == LET n == m_arrEntries[Slot(k)] IN n # NULL /\ keys[n] = k

-----------------------------------------------------------------------------
(* insert                                                                  *)

\* A new entry of the map at n, and the cache's pointer to it.
Link(k, v, n) ==
    /\ n \in FreeNodes
    /\ m_mapEntries' = [m_mapEntries EXCEPT ![k] = n]
    /\ first' = [first EXCEPT ![n] = k]
    /\ second' = [second EXCEPT ![n] = v]
    /\ m_arrEntries' = [m_arrEntries EXCEPT ![Slot(k)] = n]
    /\ recent' = [recent EXCEPT ![Slot(k)] = k]

InsertNew(k, v, n) ==
    /\ k \notin Present
    /\ Link(k, v, n)
    /\ bRet' = TRUE
    /\ UNCHANGED <<m_uCachemissCount, pRet, uRet>>

InsertFails ==
    /\ bRet' = FALSE
    /\ UNCHANGED <<m_mapEntries, memory, m_arrEntries, m_uCachemissCount, pRet, uRet, recent>>

InsertPresent(k) == k \in Present /\ InsertFails
InsertThrows(k)  == k \notin Present /\ InsertFails

-----------------------------------------------------------------------------
(* erase frees the entry, then compares the key with that in the entry its *)
(* slot points to, which may be the freed one.  clear empties the cache    *)
(* first.  The client drops a pointer whose entry is gone.                 *)

\* What the keys of memory can read as once the blocks S are free.
AfterFree(S) ==
    {[n \in Nodes |-> IF n \in O THEN JUNK ELSE first[n]] : O \in SUBSET (S \cap Nodes)}

\* Mutant: the cache is left alone.
DropCached_Kept(k) == m_arrEntries' = m_arrEntries

\* Mutant: the slot is emptied whatever it points to.
DropCached_Always(k) == m_arrEntries' = [m_arrEntries EXCEPT ![Slot(k)] = NULL]

DropCached(k) ==
    m_arrEntries' = IF IsCached(k, first') THEN [m_arrEntries EXCEPT ![Slot(k)] = NULL]
                    ELSE m_arrEntries

Erase(k) == LET n == m_mapEntries[k] IN
    /\ m_mapEntries' = [m_mapEntries EXCEPT ![k] = NULL]
    /\ first' \in AfterFree({n})
    /\ DropCached(k)
    /\ pRet' = IF pRet = n THEN NULL ELSE pRet
    /\ recent' = [recent EXCEPT ![Slot(k)] = IF @ = k THEN NULL ELSE @]
    /\ UNCHANGED <<second, m_uCachemissCount, bRet, uRet>>

Clear ==
    /\ m_arrEntries' = EmptyCache
    /\ m_mapEntries' = NoEntries
    /\ pRet' = NULL
    /\ recent' = EmptyCache
    /\ first' \in AfterFree(LiveNodes)
    /\ UNCHANGED <<second, m_uCachemissCount, bRet, uRet>>

-----------------------------------------------------------------------------
(* find, contains and operator[]                                           *)

\* Mutant: the entry in the slot is returned without comparing its key.
Found_NoCompare(k) == LET n == m_arrEntries[Slot(k)] IN IF n # NULL THEN n ELSE m_mapEntries[k]

\* The entry find returns, NULL for a null pointer.
Found(k) == IF IsCached(k, first) THEN m_arrEntries[Slot(k)] ELSE m_mapEntries[k]

CountMiss(k) ==
    m_uCachemissCount' = IF IsCached(k, first) THEN m_uCachemissCount
                         ELSE (m_uCachemissCount + 1) % kMissModulus

\* What find does: on a miss the entry found takes the slot.
Lookup(k) ==
    /\ CountMiss(k)
    /\ IF Found(k) = NULL
       THEN UNCHANGED <<m_arrEntries, recent>>
       ELSE /\ m_arrEntries' = [m_arrEntries EXCEPT ![Slot(k)] = Found(k)]
            /\ recent' = IF Found(k) = m_mapEntries[k]
                         THEN [recent EXCEPT ![Slot(k)] = k] ELSE recent
    /\ UNCHANGED <<m_mapEntries, memory>>

Find(k)     == Lookup(k) /\ pRet' = Found(k) /\ UNCHANGED <<bRet, uRet>>
Contains(k) == Lookup(k) /\ bRet' = (Found(k) # NULL) /\ UNCHANGED <<pRet, uRet>>

SubscriptFound(k) == Found(k) # NULL /\ Find(k)

SubscriptNew(k, n) ==
    /\ Found(k) = NULL
    /\ CountMiss(k)
    /\ Link(k, DefaultValue, n)
    /\ pRet' = n
    /\ UNCHANGED <<bRet, uRet>>

\* There is no memory for the entry: the exception leaves operator[].
SubscriptThrows(k) ==
    /\ Found(k) = NULL
    /\ Lookup(k)
    /\ UNCHANGED answers

-----------------------------------------------------------------------------

Size  == uRet' = Cardinality(Present)
         /\ UNCHANGED <<m_mapEntries, memory, m_arrEntries, m_uCachemissCount, pRet, bRet, recent>>
Empty == bRet' = (Present = {})
         /\ UNCHANGED <<m_mapEntries, memory, m_arrEntries, m_uCachemissCount, pRet, uRet, recent>>

\* The client writes through the pointer it was given.
Assign(v) ==
    /\ pRet # NULL
    /\ second' = [second EXCEPT ![pRet] = v]
    /\ UNCHANGED <<m_mapEntries, first, m_arrEntries, m_uCachemissCount, answers, recent>>

\* Another owner of a free block writes there, another map a key and a value.
Overwrite(n) ==
    /\ n \in FreeNodes
    /\ \E c \in Keys \cup {JUNK} : first' = [first EXCEPT ![n] = c]
    /\ \E v \in Values : second' = [second EXCEPT ![n] = v]
    /\ UNCHANGED <<m_mapEntries, m_arrEntries, m_uCachemissCount, answers, recent>>

Next ==
    \/ \E k \in Keys :
        \/ \E n \in Nodes : \/ \E v \in Values : InsertNew(k, v, n)
                           \/ SubscriptNew(k, n)
        \/ InsertPresent(k) \/ InsertThrows(k)
        \/ Erase(k)
        \/ Find(k) \/ Contains(k)
        \/ SubscriptFound(k) \/ SubscriptThrows(k)
    \/ Clear \/ Size \/ Empty
    \/ \E v \in Values : Assign(v)
    \/ \E n \in Nodes : Overwrite(n)

Spec == Init /\ [][Next]_vars

-----------------------------------------------------------------------------

TypeOK ==
    /\ m_mapEntries \in [Keys -> Nodes \cup {NULL}]
    /\ first \in [Nodes -> Keys \cup {JUNK}]
    /\ second \in [Nodes -> Values]
    /\ m_arrEntries \in [Slots -> Nodes \cup {NULL}]
    /\ m_uCachemissCount \in 0 .. kMissModulus - 1
    /\ pRet \in Nodes \cup {NULL}
    /\ bRet \in BOOLEAN
    /\ uRet \in 0 .. Cardinality(Keys)
    /\ recent \in [Slots -> Keys \cup {NULL}]

\* The entry of a key is a node that holds it.
EntriesHoldKeys == \A k \in Present : first[m_mapEntries[k]] = k

\* A comparison with what the cache points to only succeeds for the live entry
\* of the key, although the pointer may dangle: erase leaves it when the key it
\* reads was overwritten, and the block may be given to another entry.
CacheSound ==
    \A k \in Keys : IsCached(k, first) => m_arrEntries[Slot(k)] = m_mapEntries[k]

\* A sound cache only becomes unsound by a key that somebody else writes to a
\* free block: no order of the map's own calls, failures and reuse of nodes
\* makes it take one entry for another.
\* (lldk_unordered_map.h:33,48,57,66,80,111)
OnlyForeignDeceives ==
    [][CacheSound /\ ~CacheSound'
       => \E n \in FreeNodes' : first'[n] # first[n] /\ first'[n] \in Keys]_vars

\* The key last inserted or found in a slot is a hit, on its own entry, until
\* it is erased, or another key of its slot takes its place: operations on
\* other keys do not evict it, nor do other owners of freed blocks.
\* (lldk_unordered_map.h:34,48,57,66)
RecentKeyHits ==
    \A s \in Slots : recent[s] # NULL
        => /\ Slot(recent[s]) = s /\ IsCached(recent[s], first)
           /\ m_arrEntries[s] = m_mapEntries[recent[s]]

\* The value the client's pointer reaches is that of an entry of the map.
PointerLive == pRet # NULL => pRet \in LiveNodes

Contents == [k \in Keys |-> IF k \in Present THEN second[m_mapEntries[k]] ELSE NULL]
PointedKey == IF pRet \in LiveNodes THEN first[pRet] ELSE NULL

Abstract == INSTANCE KeyMap WITH map <- Contents, ref <- PointedKey

\* Each call does what the abstract call with the same arguments does.
CallsAgree ==
    /\ \A k \in Keys, n \in Nodes :
        /\ \A v \in Values : InsertNew(k, v, n) => Abstract!Insert(k, v)
        /\ SubscriptNew(k, n) => Abstract!Subscript(k)
    /\ \A k \in Keys :
        /\ Erase(k) => Abstract!Erase(k)
        /\ Find(k) => Abstract!Find(k)
        /\ Contains(k) => Abstract!AnswerB(k \in Abstract!Present)
        /\ SubscriptThrows(k) => UNCHANGED Abstract!vars
    /\ InsertFails => Abstract!InsertFails
    /\ Clear => Abstract!Clear
    /\ Size  => Abstract!AnswerU(Cardinality(Abstract!Present))
    /\ Empty => Abstract!AnswerB(Abstract!Present = {})
    /\ \A v \in Values : Assign(v) => Abstract!Assign(v)

\* Whatever calls, collisions, reuse of nodes and failures came before, a call
\* that finds the cache sound does what a plain map does: its answer is the
\* map's, and a write through a pointer of find or operator[] changes the value
\* of the key asked for.  (lldk_unordered_map.h:26-116)
CallsRight ==
    [][CacheSound /\ PointerLive
       => (Abstract!Next \/ UNCHANGED Abstract!vars) /\ CallsAgree]_vars

\* The map is a plain map: it holds of the behaviours whose cache stays sound.
IsMap == Abstract!Spec /\ [][CallsAgree]_vars

\* "EXPECT_FALSE(map.contains(1))" and "EXPECT_EQ(map.find(1), nullptr)" after
\* erase(1) (test_lldk_unordered_map.cpp:314,317): a key that is not in the map
\* is not found, whatever other maps do with the memory of its entry.
ErasedNotFound ==
    [][\A k \in Keys \ Present : /\ Find(k) => pRet' = NULL
                                 /\ Contains(k) => bRet' = FALSE]_vars
=============================================================================
