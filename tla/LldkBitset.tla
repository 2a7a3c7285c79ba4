----------------------------- MODULE LldkBitset -----------------------------
(***************************************************************************)
(* LldkBitset<kSize> of src/src/utilities/lldk_bitset.h: kSize bits kept   *)
(* in an array m_arrBits of machine words.  The methods are operators on   *)
(* the array.  A word is the set of the positions of its 1 bits, so a bit  *)
(* operation on a word is a set operation and __builtin_ctzll is Min.      *)
(***************************************************************************)
EXTENDS Integers, FiniteSets

CONSTANTS kSize,            \* template parameter: the number of bits
          kBitsPerElement   \* bits of ArrayType (64 in the code)

\* The static_assert of the class (line 19), and a word has at least one bit.
ASSUME BitsetAssumption ==
    /\ kSize \in Nat \ {0}
    /\ kBitsPerElement \in Nat \ {0}
    /\ kSize % kBitsPerElement = 0

kBitCount == (kSize + kBitsPerElement - 1) \div kBitsPerElement

Index     == 0 .. kSize - 1
WordIndex == 0 .. kBitCount - 1
AllOnes   == 0 .. kBitsPerElement - 1      \* (ArrayType)-1
BitArray  == [WordIndex -> SUBSET AllOnes]

\* Mutant: the mask of the bit position is missing.
getBitIndex_Unmasked(uIndex) == uIndex

getArrayIndex(uIndex) == uIndex \div kBitsPerElement
getBitIndex(uIndex)   == uIndex % kBitsPerElement

ZeroBits == [i \in WordIndex |-> {}]

\* Mutants: "=" for "|=" and "&=" without "~" of the bit.
set_Overwrite(m, uIndex) == [m EXCEPT ![getArrayIndex(uIndex)] = {getBitIndex(uIndex)}]
clear_Word(m, uIndex)    == [m EXCEPT ![getArrayIndex(uIndex)] = {}]

test(m, uIndex)  == getBitIndex(uIndex) \in m[getArrayIndex(uIndex)]
set(m, uIndex)   == [m EXCEPT ![getArrayIndex(uIndex)] = @ \cup {getBitIndex(uIndex)}]
clear(m, uIndex) == [m EXCEPT ![getArrayIndex(uIndex)] = @ \ {getBitIndex(uIndex)}]

testAll(m)  == \A i \in WordIndex : m[i] = AllOnes
testAny(m)  == \E i \in WordIndex : m[i] # {}
testNone(m) == ~testAny(m)
clearAll    == ZeroBits
setAll      == [i \in WordIndex |-> AllOnes]
\* The 1 bits of all words together: the sum of the words' popcounts.
count(m)    == Cardinality({p \in WordIndex \X AllOnes : p[2] \in m[p[1]]})

\* The lowest member of the first word that has one, kSize when none has:
\* the scan of findFirstSet (W == m) and of findFirstNone (W == ~m).
IsFirst(i, W)  == W[i] # {} /\ \A j \in WordIndex : W[j] # {} => i <= j
\* Mutant: __builtin_clzll for __builtin_ctzll.
IsLowest_Highest(b, w) == b \in w /\ \A c \in w : c <= b
IsLowest(b, w) == b \in w /\ \A c \in w : b <= c
Scan(W) ==
    IF \A i \in WordIndex : W[i] = {}
    THEN kSize
    ELSE LET i == CHOOSE k \in WordIndex : IsFirst(k, W)
         IN  i * kBitsPerElement + (CHOOSE b \in W[i] : IsLowest(b, W[i]))

findFirstSet(m)  == Scan(m)
findFirstNone(m) == Scan([i \in WordIndex |-> AllOnes \ m[i]])

\* The set of indices an array stands for.
Bits(m) == {i \in Index : test(m, i)}
=============================================================================
