-------------------------- MODULE LldkBitsetObject --------------------------
(***************************************************************************)
(* One LldkBitset<kSize> object: every sequence of calls of its public     *)
(* methods, an index argument being below kSize.  The class has no lock;   *)
(* its only user calls it under the mutex of lldk_thread_local.cpp.        *)
(***************************************************************************)
EXTENDS LldkBitset

VARIABLES m_arrBits,   \* the words
          bRet, uRet   \* last answer of a bool / uint32_t method

vars == <<m_arrBits, bRet, uRet>>

Init == m_arrBits = ZeroBits /\ bRet = FALSE /\ uRet = 0

Store(m)   == m_arrBits' = m /\ UNCHANGED <<bRet, uRet>>
ReturnB(b) == bRet' = b /\ UNCHANGED <<m_arrBits, uRet>>
ReturnU(u) == uRet' = u /\ UNCHANGED <<m_arrBits, bRet>>

Set(i)        == Store(set(m_arrBits, i))
Clear(i)      == Store(clear(m_arrBits, i))
ClearAll      == Store(clearAll)
SetAll        == Store(setAll)
Test(i)       == ReturnB(test(m_arrBits, i))
TestAll       == ReturnB(testAll(m_arrBits))
TestAny       == ReturnB(testAny(m_arrBits))
TestNone      == ReturnB(testNone(m_arrBits))
Count         == ReturnU(count(m_arrBits))
Size          == ReturnU(kSize)
FindFirstSet  == ReturnU(findFirstSet(m_arrBits))
FindFirstNone == ReturnU(findFirstNone(m_arrBits))

Next ==
    \/ \E i \in Index : Set(i) \/ Clear(i) \/ Test(i)
    \/ ClearAll \/ SetAll
    \/ TestAll \/ TestAny \/ TestNone
    \/ Count \/ Size \/ FindFirstSet \/ FindFirstNone

Spec == Init /\ [][Next]_vars

TypeOK == m_arrBits \in BitArray /\ bRet \in BOOLEAN /\ uRet \in 0 .. kSize

Abstract == INSTANCE IndexSet WITH members <- Bits(m_arrBits)

\* Each call does what the set does for the same index and question.
CallsAgree == LET members == Bits(m_arrBits) IN
    /\ \A i \in Index : /\ Set(i)   => Abstract!Become(members \cup {i})
                        /\ Clear(i) => Abstract!Become(members \ {i})
                        /\ Test(i)  => Abstract!AnswerB(i \in members)
    /\ ClearAll => Abstract!Become({})
    /\ SetAll   => Abstract!Become(Index)
    /\ TestAll  => Abstract!AnswerB(members = Index)
    /\ TestAny  => Abstract!AnswerB(members # {})
    /\ TestNone => Abstract!AnswerB(members = {})
    /\ Count    => Abstract!AnswerU(Cardinality(members))
    /\ Size     => Abstract!AnswerU(kSize)
    /\ FindFirstSet  => Abstract!LeastOf(uRet', members)
    /\ FindFirstNone => Abstract!LeastOf(uRet', Index \ members)

\* Whatever the order of calls, the words behave as a set of indices below
\* kSize: no call touches a neighbouring bit across a word boundary, and
\* count, testAll/testAny/testNone and the two searches answer for the set.
\* (lldk_bitset.h:35-126)
IsIndexSet == Abstract!Spec /\ [][CallsAgree]_vars
=============================================================================
