----------------------- MODULE LldkBitsetObjectProofs -----------------------
(***************************************************************************)
(* An LldkBitset of any size and word width implements IndexSet.           *)
(***************************************************************************)
EXTENDS LldkBitsetObject, LldkBitsetProofs

\* A new bitset has well-typed words and answers.
LEMMA TypeInit == Init => TypeOK
<1>1. 0 \in 0 .. kSize
  BY BitsetAssumption
<1> QED BY <1>1, ZeroBitsEmpty, Zenon DEF Init, TypeOK

\* Every method keeps words within the word width and answers within range.
LEMMA TypeStep == TypeOK /\ [Next]_vars => TypeOK'
<1> SUFFICES ASSUME TypeOK, [Next]_vars
             PROVE  TypeOK'
  OBVIOUS
<1>1. kSize \in 0 .. kSize
  BY BitsetAssumption
<1>2. ASSUME NEW i \in Index, Set(i) \/ Clear(i)
      PROVE  TypeOK'
  BY <1>2, SetBits, ClearBits DEF Set, Clear, Store, TypeOK
<1>8. ASSUME NEW i \in Index, Test(i)
      PROVE  TypeOK'
  <2>1. bRet' = test(m_arrBits, i) /\ UNCHANGED <<m_arrBits, uRet>>
    BY <1>8 DEF Test, ReturnB
  <2>2. test(m_arrBits, i) \in BOOLEAN
    BY DEF test
  <2>3. bRet' \in BOOLEAN
    BY <2>1, <2>2, Zenon
  <2> QED BY <2>1, <2>3 DEF TypeOK
<1>3. CASE ClearAll \/ SetAll
  BY <1>3, ZeroBitsEmpty, SetAllFull
  DEF ClearAll, SetAll, Store, TypeOK, clearAll
<1>4. CASE TestAll \/ TestAny \/ TestNone
  BY <1>4 DEF TestAll, TestAny, TestNone, ReturnB, TypeOK,
              testAll, testAny, testNone
<1>5. CASE Count \/ Size
  BY <1>1, <1>5, CountBits DEF Count, Size, ReturnU, TypeOK
<1>6. CASE FindFirstSet \/ FindFirstNone
  <2>1. \A i \in Index : i \in 0 .. kSize
    BY BitsetAssumption DEF Index
  <2>2. Bits(m_arrBits) \subseteq Index
    BY DEF Bits
  <2> QED BY <1>1, <1>6, <2>1, <2>2, ScanLeast, FindFirstNoneLeast
          DEF FindFirstSet, FindFirstNone, ReturnU, TypeOK, findFirstSet
<1>7. CASE UNCHANGED vars
  BY <1>7 DEF vars, TypeOK
<1> QED BY <1>2, <1>3, <1>4, <1>5, <1>6, <1>7, <1>8 DEF Next

\* The words stay words of the right width and every uint32_t answer is at
\* most kSize, whatever the calls.
THEOREM TypeCorrect == Spec => []TypeOK
BY TypeInit, TypeStep, PTL DEF Spec

\* Every method does to the set of its bits what IndexSet allows, or
\* answers for it.
LEMMA StepAgrees ==
    ASSUME TypeOK
    PROVE  CallsAgree
<1> DEFINE S == Bits(m_arrBits)
<1>1. ASSUME NEW i \in Index, Set(i)
      PROVE  Abstract!Become(S \cup {i})
  BY <1>1, SetBits DEF Set, Store, TypeOK, Abstract!Become
<1>2. ASSUME NEW i \in Index, Clear(i)
      PROVE  Abstract!Become(S \ {i})
  BY <1>2, ClearBits DEF Clear, Store, TypeOK, Abstract!Become
<1>3. ASSUME NEW i \in Index, Test(i)
      PROVE  Abstract!AnswerB(i \in S)
  <2>1. test(m_arrBits, i) = (i \in S)
    BY DEF Bits, test
  <2>2. bRet' = test(m_arrBits, i) /\ UNCHANGED <<m_arrBits, uRet>>
    BY <1>3 DEF Test, ReturnB
  <2> QED BY <2>1, <2>2, Zenon DEF Abstract!AnswerB
<1>4. ClearAll => Abstract!Become({})
  BY ZeroBitsEmpty DEF ClearAll, Store, clearAll, Abstract!Become
<1>5. SetAll => Abstract!Become(Index)
  BY SetAllFull DEF SetAll, Store, Abstract!Become
<1>6. ASSUME TestAll
      PROVE  Abstract!AnswerB(S = Index)
  <2>1. testAll(m_arrBits) = (S = Index)
    <3>1. testAll(m_arrBits) <=> S = Index
      BY TestsAnswer DEF TypeOK
    <3>2. testAll(m_arrBits) \in BOOLEAN
      BY DEF testAll
    <3> QED BY <3>1, <3>2
  <2>2. bRet' = testAll(m_arrBits) /\ UNCHANGED <<m_arrBits, uRet>>
    BY <1>6, Zenon DEF TestAll, ReturnB
  <2> QED BY <2>1, <2>2, Zenon DEF Abstract!AnswerB
<1>7. ASSUME TestAny
      PROVE  Abstract!AnswerB(S # {})
  <2>1. testAny(m_arrBits) = (S # {})
    <3>1. testAny(m_arrBits) <=> S # {}
      BY TestsAnswer DEF TypeOK
    <3>2. testAny(m_arrBits) \in BOOLEAN
      BY DEF testAny
    <3> QED BY <3>1, <3>2
  <2>2. bRet' = testAny(m_arrBits) /\ UNCHANGED <<m_arrBits, uRet>>
    BY <1>7, Zenon DEF TestAny, ReturnB
  <2> QED BY <2>1, <2>2, Zenon DEF Abstract!AnswerB
<1>8. ASSUME TestNone
      PROVE  Abstract!AnswerB(S = {})
  <2>1. testNone(m_arrBits) = (S = {})
    <3>1. testNone(m_arrBits) <=> S = {}
      BY TestsAnswer DEF TypeOK
    <3>2. testNone(m_arrBits) \in BOOLEAN
      BY DEF testNone
    <3> QED BY <3>1, <3>2
  <2>2. bRet' = testNone(m_arrBits) /\ UNCHANGED <<m_arrBits, uRet>>
    BY <1>8, Zenon DEF TestNone, ReturnB
  <2> QED BY <2>1, <2>2, Zenon DEF Abstract!AnswerB
<1>9. Count => Abstract!AnswerU(Cardinality(S))
  BY CountBits DEF Count, ReturnU, TypeOK, Abstract!AnswerU
<1>10. Size => Abstract!AnswerU(kSize)
  BY DEF Size, ReturnU, Abstract!AnswerU
<1>11. FindFirstSet => Abstract!LeastOf(uRet', S)
  <2> DEFINE u == findFirstSet(m_arrBits)
  <2>1. Abstract!LeastOf(u, S)
    BY ScanLeast DEF findFirstSet, TypeOK, Abstract!LeastOf
  <2>2. FindFirstSet => uRet' = u
    BY DEF FindFirstSet, ReturnU
  <2> HIDE DEF u
  <2> QED BY <2>1, <2>2
<1>12. FindFirstNone => Abstract!LeastOf(uRet', Index \ S)
  <2> DEFINE u == findFirstNone(m_arrBits)
  <2>1. Abstract!LeastOf(u, Index \ S)
    BY FindFirstNoneLeast DEF TypeOK, Abstract!LeastOf
  <2>2. FindFirstNone => uRet' = u
    BY DEF FindFirstNone, ReturnU
  <2> HIDE DEF u
  <2> QED BY <2>1, <2>2
<1> HIDE DEF S
<1>13. S = Bits(m_arrBits)
  BY DEF S
<1> QED BY <1>1, <1>2, <1>3, <1>4, <1>5, <1>6, <1>7, <1>8, <1>9, <1>10,
           <1>11, <1>12, <1>13, Zenon DEF CallsAgree

\* Hence every step is one of IndexSet.
LEMMA StepRefines ==
    ASSUME TypeOK, TypeOK', [Next]_vars
    PROVE  [Abstract!Next]_(Abstract!vars)
<1>0. Bits(m_arrBits) \subseteq Index /\ Abstract!Index = Index
      /\ kSize \in 0 .. kSize /\ Index \subseteq 0 .. kSize
  BY BitsetAssumption DEF Bits, Index, Abstract!Index
<1>1. ASSUME NEW i \in Index, Set(i)
      PROVE  Abstract!Next
  BY <1>0, <1>1, StepAgrees DEF CallsAgree, Abstract!Next
<1>2. ASSUME NEW i \in Index, Clear(i)
      PROVE  Abstract!Next
  BY <1>0, <1>2, StepAgrees DEF CallsAgree, Abstract!Next
<1>3. ASSUME NEW i \in Index, Test(i)
      PROVE  Abstract!Next
  BY <1>0, <1>3, StepAgrees, Zenon DEF CallsAgree, Abstract!Next
<1>4. CASE ClearAll
  BY <1>4, StepAgrees, Zenon DEF CallsAgree, Abstract!Next
<1>5. CASE SetAll
  BY <1>0, <1>5, StepAgrees, Zenon DEF CallsAgree, Abstract!Next
<1>6. CASE TestAll
  BY <1>0, <1>6, StepAgrees, Zenon DEF CallsAgree, Abstract!Next
<1>7. CASE TestAny
  BY <1>7, StepAgrees, Zenon DEF CallsAgree, Abstract!Next
<1>8. CASE TestNone
  BY <1>8, StepAgrees, Zenon DEF CallsAgree, Abstract!Next
<1>9. CASE Count
  <2>1. Abstract!Cardinality(Bits(m_arrBits)) = Cardinality(Bits(m_arrBits))
    BY Zenon DEF Abstract!Cardinality, Cardinality
  <2> QED BY <1>9, <2>1, StepAgrees, Zenon DEF CallsAgree, Abstract!Next
<1>10. CASE Size
  BY <1>10, StepAgrees, Zenon DEF CallsAgree, Abstract!Next
<1>11. CASE FindFirstSet
  <2> DEFINE u == findFirstSet(m_arrBits)
  <2>1. Abstract!LeastOf(u, Bits(m_arrBits)) /\ u \in 0 .. kSize
    BY <1>0, ScanLeast DEF findFirstSet, TypeOK, Abstract!LeastOf
  <2>2. Abstract!AnswerU(u)
    BY <1>11 DEF FindFirstSet, ReturnU, Abstract!AnswerU
  <2> HIDE DEF u
  <2> QED BY <2>1, <2>2 DEF Abstract!Next
<1>12. CASE FindFirstNone
  <2> DEFINE u == findFirstNone(m_arrBits)
  <2>1. Abstract!LeastOf(u, Index \ Bits(m_arrBits)) /\ u \in 0 .. kSize
    BY <1>0, FindFirstNoneLeast DEF TypeOK, Abstract!LeastOf
  <2>2. Abstract!AnswerU(u)
    BY <1>12 DEF FindFirstNone, ReturnU, Abstract!AnswerU
  <2> HIDE DEF u
  <2> QED BY <1>0, <2>1, <2>2 DEF Abstract!Next
<1>13. CASE UNCHANGED vars
  BY <1>13 DEF vars, Abstract!vars
<1> QED BY <1>1, <1>2, <1>3, <1>4, <1>5, <1>6, <1>7, <1>8, <1>9, <1>10,
           <1>11, <1>12, <1>13 DEF Next

\* For every size and word width a bitset behaves as a set of indices:
\* the words, the word boundaries and the complement are invisible.
THEOREM Refinement == Spec => IsIndexSet
<1>1. Init => Abstract!Init
  BY ZeroBitsEmpty DEF Init, Abstract!Init
<1>2. TypeOK /\ TypeOK' /\ [Next]_vars => [Abstract!Next]_(Abstract!vars)
  BY StepRefines
<1>3. TypeOK => [CallsAgree]_vars
  BY StepAgrees
<1> QED BY <1>1, <1>2, <1>3, TypeCorrect, PTL
        DEF Spec, IsIndexSet, Abstract!Spec
=============================================================================
