-------------------------- MODULE LldkBitsetProofs --------------------------
(***************************************************************************)
(* Lemmas on the operators of LldkBitset, for every kSize and word width:  *)
(* on the set Bits(m) an array stands for, set adds, clear removes, and    *)
(* the searches, counts and tests answer for the set.                      *)
(***************************************************************************)
EXTENDS LldkBitset, FiniteSetTheorems, FunctionTheorems, WellFoundedInduction, TLAPS

\* The array holds exactly kSize bits.
LEMMA WordsCoverSize ==
    /\ kBitCount \in Nat
    /\ kBitCount * kBitsPerElement = kSize
<1>1. kSize = kBitsPerElement * (kSize \div kBitsPerElement)
      /\ kSize \div kBitsPerElement \in Nat
  BY BitsetAssumption, SMTT(30)
<1>2. ASSUME NEW q \in Nat, NEW w \in Nat \ {0}
      PROVE  (w * q + w - 1) \div w = q
  BY SMTT(30)
<1>3. kBitCount = kSize \div kBitsPerElement
  BY <1>1, <1>2, BitsetAssumption DEF kBitCount
<1> QED BY <1>1, <1>3, BitsetAssumption, SMTT(30)

\* An index is one bit of one word.
LEMMA IndexToWord ==
    ASSUME NEW i \in Index
    PROVE  /\ getArrayIndex(i) \in WordIndex
           /\ getBitIndex(i) \in AllOnes
           /\ i = getArrayIndex(i) * kBitsPerElement + getBitIndex(i)
<1> DEFINE w == kBitsPerElement
           q == i \div kBitsPerElement
           r == i % kBitsPerElement
<1>1. i \in Nat /\ w \in Nat \ {0} /\ i < kSize /\ kSize \in Nat
  BY BitsetAssumption DEF Index
<1>2. q \in Nat /\ r \in 0 .. w - 1 /\ i = q * w + r
  BY <1>1, SMTT(30)
<1> HIDE DEF w, q, r
<1>3. q * w < kBitCount * w
  BY <1>1, <1>2, WordsCoverSize, SMTT(30) DEF w
<1>4. q < kBitCount
  BY <1>1, <1>2, <1>3, WordsCoverSize, SMTT(30)
<1> QED BY <1>2, <1>4, WordsCoverSize
        DEF w, q, r, getArrayIndex, getBitIndex, WordIndex, AllOnes

\* A bit of a word is one index, below kSize.
LEMMA WordToIndex ==
    ASSUME NEW q \in WordIndex, NEW r \in AllOnes
    PROVE  /\ q * kBitsPerElement + r \in Index
           /\ getArrayIndex(q * kBitsPerElement + r) = q
           /\ getBitIndex(q * kBitsPerElement + r) = r
<1> DEFINE w == kBitsPerElement
<1>1. /\ w \in Nat \ {0} /\ kSize \in Nat
      /\ q \in Nat /\ q <= kBitCount - 1 /\ r \in 0 .. w - 1
  BY BitsetAssumption, WordsCoverSize DEF WordIndex, AllOnes
<1>2. ASSUME NEW n \in Nat, NEW v \in Nat \ {0}, NEW s \in 0 .. v - 1
      PROVE  (n * v + s) \div v = n /\ (n * v + s) % v = s
  BY SMTT(30)
<1> HIDE DEF w
<1>3. q * w <= (kBitCount - 1) * w
  BY <1>1, WordsCoverSize, SMTT(30)
<1>4. (kBitCount - 1) * w = kSize - w
  BY <1>1, WordsCoverSize, SMTT(30) DEF w
<1>5. q * w + r \in 0 .. kSize - 1
  BY <1>1, <1>3, <1>4, SMTT(30)
<1> QED BY <1>1, <1>2, <1>5 DEF w, getArrayIndex, getBitIndex, Index

\* Two indices that name the same bit of the same word are equal.
LEMMA SameBit ==
    ASSUME NEW i \in Index, NEW j \in Index,
           getArrayIndex(i) = getArrayIndex(j), getBitIndex(i) = getBitIndex(j)
    PROVE  i = j
BY IndexToWord

\* set(i) adds exactly the index i.
LEMMA SetBits ==
    ASSUME NEW m \in BitArray, NEW i \in Index
    PROVE  set(m, i) \in BitArray /\ Bits(set(m, i)) = Bits(m) \cup {i}
<1>1. getArrayIndex(i) \in WordIndex /\ getBitIndex(i) \in AllOnes
  BY IndexToWord
<1>2. set(m, i) \in BitArray
  BY <1>1 DEF set, BitArray
<1>3. ASSUME NEW j \in Index
      PROVE  test(set(m, i), j) <=> test(m, j) \/ j = i
  BY <1>1, SameBit, IndexToWord DEF set, test, BitArray
<1> QED BY <1>2, <1>3 DEF Bits

\* clear(i) removes exactly the index i.
LEMMA ClearBits ==
    ASSUME NEW m \in BitArray, NEW i \in Index
    PROVE  clear(m, i) \in BitArray /\ Bits(clear(m, i)) = Bits(m) \ {i}
<1>1. getArrayIndex(i) \in WordIndex /\ getBitIndex(i) \in AllOnes
  BY IndexToWord
<1>2. clear(m, i) \in BitArray
  BY <1>1 DEF clear, BitArray
<1>3. ASSUME NEW j \in Index
      PROVE  test(clear(m, i), j) <=> test(m, j) /\ j # i
  BY <1>1, SameBit, IndexToWord DEF clear, test, BitArray
<1> QED BY <1>2, <1>3 DEF Bits

\* A new or cleared array stands for the empty set.
LEMMA ZeroBitsEmpty == ZeroBits \in BitArray /\ Bits(ZeroBits) = {}
BY IndexToWord DEF ZeroBits, BitArray, Bits, test

\* setAll makes the array stand for all indices.
LEMMA SetAllFull == setAll \in BitArray /\ Bits(setAll) = Index
BY IndexToWord DEF setAll, BitArray, Bits, test

\* A nonempty set of naturals has a least element.
LEMMA LeastNat ==
    ASSUME NEW S \in SUBSET Nat, S # {}
    PROVE  \E m \in S : \A k \in S : m <= k
<1>1. \E x \in S : \A y \in S : ~ (<<y, x>> \in OpToRel(<, Nat))
  BY WFMin, NatLessThanWellFounded
<1>2. OpToRel(<, Nat) = {ss \in Nat \X Nat : ss[1] < ss[2]}
  BY Zenon DEF OpToRel
<1>3. \A x, y \in Nat : x < y => <<x, y>> \in {ss \in Nat \X Nat : ss[1] < ss[2]}
  OBVIOUS
<1>4. \A x, y \in Nat : x < y => <<x, y>> \in OpToRel(<, Nat)
  BY <1>2, <1>3, Zenon
<1>5. \E x \in S : \A y \in S : ~ (y < x)
  BY <1>1, <1>4, Zenon
<1> QED BY <1>5

\* An array has a bit at q, r exactly when the index is in its set.
LEMMA WordBits ==
    ASSUME NEW m \in BitArray, NEW q \in WordIndex, NEW r \in AllOnes
    PROVE  r \in m[q] <=> q * kBitsPerElement + r \in Bits(m)
BY WordToIndex DEF Bits, test

\* The scan returns the least index of the set, kSize when it is empty.
LEMMA ScanLeast ==
    ASSUME NEW m \in BitArray
    PROVE  /\ Bits(m) = {} => Scan(m) = kSize
           /\ Bits(m) # {} => /\ Scan(m) \in Bits(m)
                              /\ \A j \in Bits(m) : Scan(m) <= j
<1>1. CASE \A i \in WordIndex : m[i] = {}
  <2>1. Scan(m) = kSize
    BY <1>1 DEF Scan
  <2>2. Bits(m) = {}
    BY <1>1, IndexToWord DEF Bits, test
  <2> QED BY <2>1, <2>2
<1>2. CASE ~ \A i \in WordIndex : m[i] = {}
  <2> DEFINE i == CHOOSE k \in WordIndex : IsFirst(k, m)
             b == CHOOSE c \in m[i] : IsLowest(c, m[i])
  <2>1. \E k \in WordIndex : IsFirst(k, m)
    <3>1. {k \in WordIndex : m[k] # {}} \in SUBSET Nat
      BY WordsCoverSize DEF WordIndex
    <3> QED BY <1>2, <3>1, LeastNat DEF IsFirst
  <2>2. i \in WordIndex /\ IsFirst(i, m)
    BY <2>1
  <2> HIDE DEF i
  <2>3. m[i] \in SUBSET AllOnes /\ m[i] # {} /\ AllOnes \subseteq Nat
    BY <2>2, BitsetAssumption DEF IsFirst, BitArray, AllOnes
  <2>4. \E c \in m[i] : IsLowest(c, m[i])
    BY <2>3, LeastNat DEF IsLowest
  <2>5. b \in m[i] /\ IsLowest(b, m[i])
    BY <2>4
  <2>6. Scan(m) = i * kBitsPerElement + b
    BY <1>2 DEF Scan, i
  <2> HIDE DEF b
  <2>7. Scan(m) \in Bits(m)
    BY <2>2, <2>3, <2>5, <2>6, WordBits
  <2>8. ASSUME NEW j \in Bits(m)
        PROVE  Scan(m) <= j
    <3> DEFINE q == getArrayIndex(j)
               r == getBitIndex(j)
    <3>1. j \in Index /\ r \in m[q]
      BY DEF Bits, test
    <3>2. q \in WordIndex /\ r \in AllOnes /\ j = q * kBitsPerElement + r
      BY <3>1, IndexToWord
    <3> HIDE DEF q, r
    <3>3. i <= q /\ (q = i => b <= r)
      BY <2>2, <2>5, <3>1, <3>2 DEF IsFirst, IsLowest
    <3>4. /\ i \in Nat /\ q \in Nat /\ kBitsPerElement \in Nat
          /\ b \in 0 .. kBitsPerElement - 1 /\ r \in 0 .. kBitsPerElement - 1
      BY <2>2, <2>3, <2>5, <3>2, BitsetAssumption, WordsCoverSize
      DEF WordIndex, AllOnes
    <3>5. CASE q = i
      BY <2>6, <3>2, <3>3, <3>4, <3>5, SMTT(30)
    <3>6. CASE i + 1 <= q
      <4>1. (i + 1) * kBitsPerElement <= q * kBitsPerElement
        BY <3>4, <3>6, SMTT(30)
      <4>2. (i + 1) * kBitsPerElement = i * kBitsPerElement + kBitsPerElement
        BY <3>4, SMTT(30)
      <4>3. /\ i * kBitsPerElement \in Nat /\ q * kBitsPerElement \in Nat
            /\ (i + 1) * kBitsPerElement \in Nat
        BY <3>4, SMTT(30)
      <4> QED BY <2>6, <3>2, <3>4, <4>1, <4>2, <4>3
    <3> QED BY <3>3, <3>4, <3>5, <3>6
  <2> QED BY <2>7, <2>8
<1> QED BY <1>1, <1>2

\* ~m stands for the complement, so findFirstNone returns the least index
\* that is not set, and kSize only when every index is set.
LEMMA FindFirstNoneLeast ==
    ASSUME NEW m \in BitArray
    PROVE  LET u == findFirstNone(m)
           IN  /\ Bits(m) = Index => u = kSize
               /\ Bits(m) # Index => /\ u \in Index \ Bits(m)
                                     /\ \A j \in Index \ Bits(m) : u <= j
<1> DEFINE c == [i \in WordIndex |-> AllOnes \ m[i]]
<1>1. c \in BitArray
  BY DEF BitArray
<1>2. Bits(c) = Index \ Bits(m)
  BY IndexToWord DEF Bits, test
<1>3. findFirstNone(m) = Scan(c)
  BY DEF findFirstNone
<1>4. Bits(m) \subseteq Index
  BY DEF Bits
<1> HIDE DEF c
<1> QED BY <1>1, <1>2, <1>3, <1>4, ScanLeast

\* testAll, testAny and testNone answer for the set.
LEMMA TestsAnswer ==
    ASSUME NEW m \in BitArray
    PROVE  /\ testAll(m) <=> Bits(m) = Index
           /\ testAny(m) <=> Bits(m) # {}
           /\ testNone(m) <=> Bits(m) = {}
<1>1. testAll(m) => Bits(m) = Index
  BY IndexToWord DEF testAll, Bits, test
<1>2. Bits(m) = Index => testAll(m)
  <2> SUFFICES ASSUME Bits(m) = Index, NEW q \in WordIndex
               PROVE  m[q] = AllOnes
    BY DEF testAll
  <2>1. \A r \in AllOnes : r \in m[q]
    BY WordBits, WordToIndex
  <2> QED BY <2>1 DEF BitArray
<1>3. testAny(m) => Bits(m) # {}
  BY WordBits DEF testAny, BitArray
<1>4. Bits(m) # {} => testAny(m)
  BY IndexToWord DEF testAny, Bits, test
<1> QED BY <1>1, <1>2, <1>3, <1>4 DEF testNone

\* count is the cardinality of the set.
LEMMA CountBits ==
    ASSUME NEW m \in BitArray
    PROVE  count(m) = Cardinality(Bits(m)) /\ count(m) \in 0 .. kSize
<1> DEFINE P == {p \in WordIndex \X AllOnes : p[2] \in m[p[1]]}
           f == [i \in Bits(m) |-> <<getArrayIndex(i), getBitIndex(i)>>]
<1>1. f \in [Bits(m) -> P]
  BY IndexToWord DEF Bits, test
<1>2. \A i, j \in Bits(m) : f[i] = f[j] => i = j
  BY SameBit DEF Bits
<1>3. ASSUME NEW p \in P
      PROVE  \E i \in Bits(m) : f[i] = p
  <2>1. p[1] \in WordIndex /\ p[2] \in AllOnes /\ p = <<p[1], p[2]>>
    OBVIOUS
  <2>2. p[1] * kBitsPerElement + p[2] \in Bits(m)
    BY <2>1, WordBits
  <2> QED BY <2>1, <2>2, WordToIndex
<1>4. f \in Bijection(Bits(m), P)
  BY <1>1, <1>2, <1>3, Fun_IsBij
<1>5. IsFiniteSet(Bits(m)) /\ Cardinality(Bits(m)) <= kSize
  <2>1. IsFiniteSet(Index) /\ Cardinality(Index) = kSize
    BY FS_Interval, BitsetAssumption DEF Index
  <2> QED BY <2>1, FS_Subset DEF Bits
<1>6. Cardinality(P) = Cardinality(Bits(m)) /\ Cardinality(Bits(m)) \in Nat
  BY <1>4, <1>5, FS_Bijection, FS_CardinalityType DEF ExistsBijection
<1> QED BY <1>5, <1>6, BitsetAssumption DEF count
=============================================================================
