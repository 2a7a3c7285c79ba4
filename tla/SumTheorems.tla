---------------------------- MODULE SumTheorems ----------------------------
(***************************************************************************)
(* SumFunctionOnSet of the community modules, for a function of naturals   *)
(* and finite sets of its arguments: an element can be taken out of a sum, *)
(* and a sum depends on the function at the elements only.                 *)
(*                                                                         *)
(* The induction theorems of the library take an operator, so inductions   *)
(* here take a smallest counterexample instead, which WFMin gives.         *)
(***************************************************************************)
EXTENDS Integers, FiniteSetsExt, FiniteSetTheorems, WellFoundedInduction, TLAPS

\* A nonempty set of subsets of a finite set has a smallest one.
LEMMA SmallestSubset ==
    ASSUME NEW B, IsFiniteSet(B), NEW Q \in SUBSET SUBSET B, Q # {}
    PROVE  \E S \in Q : \A T \in Q : T \subseteq S => T = S
<1>1. Q \subseteq FiniteSubsetsOf(B)
  BY FS_FiniteSubsetsOfFinite
<1>2. PICK S \in Q : \A T \in Q : ~(<<T, S>> \in StrictSubsetOrdering(B))
  BY <1>1, FS_StrictSubsetOrderingWellFounded, WFMin
<1> QED BY <1>2 DEF StrictSubsetOrdering

\* The element a sum adds first, the sum of a set given those of smaller ones,
\* and the function that SumFunctionOnSet defines.
First(s)       == CHOOSE x \in s : TRUE
Sums(f, g, s)  == IF s = {} THEN 0 ELSE f[First(s)] + g[s \ {First(s)}]
Iter(f, S)     == CHOOSE g : g = [s \in SUBSET S |-> Sums(f, g, s)]
Solves(f, g, S) == g = [s \in SUBSET S |-> Sums(f, g, s)]

LEMMA SumIter == ASSUME NEW f, NEW S PROVE SumFunctionOnSet(f, S) = Iter(f, S)[S]
BY Zenon DEF SumFunctionOnSet, FoldFunctionOnSet, MapThenFoldSet, Iter, Sums, First

LEMMA FirstIn == ASSUME NEW s, s # {} PROVE First(s) \in s /\ s \ {First(s)} \subseteq s
BY DEF First

\* Two functions that satisfy the equation agree.
LEMMA SolutionsAgree ==
    ASSUME NEW f, NEW B, IsFiniteSet(B), NEW C, NEW g, NEW h,
           Solves(f, g, B), Solves(f, h, C), NEW s \in SUBSET B, s \in SUBSET C
    PROVE  g[s] = h[s]
<1> DEFINE Q == {u \in SUBSET B : u \in SUBSET C /\ g[u] # h[u]}
<1> SUFFICES ASSUME s \in Q PROVE FALSE
  OBVIOUS
<1>0. Q \in SUBSET SUBSET B /\ Q # {}
  OBVIOUS
<1> HIDE DEF Q
<1>1. PICK u \in Q : \A v \in Q : v \subseteq u => v = u
  BY <1>0, SmallestSubset
<1> USE DEF Q
<1>2. g[u] = Sums(f, g, u) /\ h[u] = Sums(f, h, u)
  BY <1>1 DEF Solves
<1>3. u # {}
  BY <1>1, <1>2 DEF Sums
<1>4. First(u) \in u
  BY <1>3, FirstIn
<1>5. u \ {First(u)} \notin Q
  BY <1>1, <1>4
<1>6. g[u \ {First(u)}] = h[u \ {First(u)}]
  BY <1>1, <1>5
<1> QED BY <1>1, <1>2, <1>3, <1>6 DEF Sums

LEMMA IterSolves ==
    ASSUME NEW f, NEW B, IsFiniteSet(B), NEW S \in SUBSET B
    PROVE  Solves(f, Iter(f, S), S)
<1> DEFINE Q == {T \in SUBSET B : ~Solves(f, Iter(f, T), T)}
<1> SUFFICES ASSUME S \in Q PROVE FALSE
  OBVIOUS
<1>0. Q \in SUBSET SUBSET B /\ Q # {}
  OBVIOUS
<1> HIDE DEF Q
<1>1. PICK T \in Q : \A U \in Q : U \subseteq T => U = T
  BY <1>0, SmallestSubset
<1> USE DEF Q
<1>2. \A U \in SUBSET T : U # T => Solves(f, Iter(f, U), U)
  BY <1>1
<1> DEFINE value(U) == Iter(f, U)[U]
           g == [s \in SUBSET T |-> IF s = {} THEN 0
                                    ELSE f[First(s)] + value(s \ {First(s)})]
<1>3. \A U \in SUBSET T : U # T =>
        value(U) = IF U = {} THEN 0 ELSE f[First(U)] + value(U \ {First(U)})
  <2> SUFFICES ASSUME NEW U \in SUBSET T, U # T
               PROVE  value(U) = IF U = {} THEN 0 ELSE f[First(U)] + value(U \ {First(U)})
    OBVIOUS
  <2>1. Solves(f, Iter(f, U), U)
    BY <1>2
  <2>2. value(U) = Sums(f, Iter(f, U), U)
    BY <2>1 DEF Solves
  <2>3. CASE U = {}
    BY <2>2, <2>3 DEF Sums
  <2>4. CASE U # {}
    <3> DEFINE V == U \ {First(U)}
    <3>1. V \in SUBSET U /\ V # T /\ V \in SUBSET T /\ IsFiniteSet(U)
      <4>1. First(U) \in U
        BY <2>4, FirstIn
      <4>2. IsFiniteSet(U)
        BY FS_Subset
      <4> QED BY <4>1, <4>2
    <3>2. Solves(f, Iter(f, V), V)
      BY <1>2, <3>1
    <3>3. Iter(f, U)[V] = Iter(f, V)[V]
      BY <2>1, <3>1, <3>2, SolutionsAgree
    <3> QED BY <2>2, <2>4, <3>3 DEF Sums
  <2> QED BY <2>3, <2>4
<1>4. Solves(f, g, T)
  <2> SUFFICES ASSUME NEW s \in SUBSET T PROVE g[s] = Sums(f, g, s)
    BY DEF Solves
  <2>1. CASE s = {}
    BY <2>1 DEF Sums
  <2>2. CASE s # {}
    <3>1. First(s) \in s
      BY <2>2, FirstIn
    <3>2. s \ {First(s)} \in SUBSET T /\ s \ {First(s)} # T
      BY <3>1
    <3>3. g[s \ {First(s)}] = value(s \ {First(s)})
      BY <1>3, <3>2
    <3> QED BY <2>2, <3>3 DEF Sums
  <2> QED BY <2>1, <2>2
<1> HIDE DEF g
<1>5. Solves(f, Iter(f, T), T)
  BY <1>4 DEF Solves, Iter
<1> QED BY <1>1, <1>5

\* The sum of nothing, and of the element added first with the rest.
LEMMA SumEquation ==
    ASSUME NEW f, NEW S, IsFiniteSet(S)
    PROVE  SumFunctionOnSet(f, S) =
             IF S = {} THEN 0 ELSE f[First(S)] + SumFunctionOnSet(f, S \ {First(S)})
<1>0. Solves(f, Iter(f, S), S) /\ SumFunctionOnSet(f, S) = Iter(f, S)[S] /\ S \in SUBSET S
  BY IterSolves, SumIter
<1>1. Solves(f, Iter(f, S), S) /\ SumFunctionOnSet(f, S) = Sums(f, Iter(f, S), S)
  BY <1>0 DEF Solves
<1>2. CASE S = {}
  BY <1>1, <1>2 DEF Sums
<1>3. CASE S # {}
  <2> DEFINE R == S \ {First(S)}
  <2>1. R \in SUBSET S /\ R \in SUBSET R
    OBVIOUS
  <2>2. Solves(f, Iter(f, R), R)
    BY <2>1, IterSolves
  <2>3. Iter(f, S)[R] = Iter(f, R)[R]
    BY <1>1, <2>1, <2>2, SolutionsAgree
  <2>4. SumFunctionOnSet(f, R) = Iter(f, R)[R]
    BY SumIter
  <2> QED BY <1>1, <1>3, <2>3, <2>4 DEF Sums
<1> QED BY <1>2, <1>3

LEMMA SumType ==
    ASSUME NEW B, IsFiniteSet(B), NEW f \in [B -> Nat], NEW S \in SUBSET B
    PROVE  SumFunctionOnSet(f, S) \in Nat
<1> DEFINE Q == {T \in SUBSET B : SumFunctionOnSet(f, T) \notin Nat}
<1> SUFFICES ASSUME S \in Q PROVE FALSE
  OBVIOUS
<1>0. Q \in SUBSET SUBSET B /\ Q # {}
  OBVIOUS
<1> HIDE DEF Q
<1>1. PICK T \in Q : \A U \in Q : U \subseteq T => U = T
  BY <1>0, SmallestSubset
<1> USE DEF Q
<1>2. IsFiniteSet(T)
  BY <1>1, FS_Subset
<1>3. T # {}
  BY <1>1, <1>2, SumEquation
<1>4. First(T) \in T
  BY <1>3, FirstIn
<1>5. SumFunctionOnSet(f, T \ {First(T)}) \in Nat
  BY <1>1, <1>4
<1>6. f[First(T)] \in Nat
  BY <1>1, <1>4
<1>7. SumFunctionOnSet(f, T) = f[First(T)] + SumFunctionOnSet(f, T \ {First(T)})
  BY <1>2, <1>3, SumEquation
<1> QED BY <1>1, <1>5, <1>6, <1>7

\* Any element can be taken out of a sum.
LEMMA SumRemove ==
    ASSUME NEW B, IsFiniteSet(B), NEW f \in [B -> Nat], NEW S \in SUBSET B, NEW b \in S
    PROVE  SumFunctionOnSet(f, S) = f[b] + SumFunctionOnSet(f, S \ {b})
<1> DEFINE sum(T) == SumFunctionOnSet(f, T)
           Q == {T \in SUBSET B : \E x \in T : sum(T) # f[x] + sum(T \ {x})}
<1> HIDE DEF sum
<1> SUFFICES ASSUME S \in Q PROVE FALSE
  BY DEF sum
<1>0. Q \in SUBSET SUBSET B /\ Q # {}
  OBVIOUS
<1> HIDE DEF Q
<1>1. PICK T \in Q : \A U \in Q : U \subseteq T => U = T
  BY <1>0, SmallestSubset
<1> USE DEF Q
<1>2. PICK x \in T : sum(T) # f[x] + sum(T \ {x})
  BY <1>1
<1> DEFINE c == First(T)
<1>3. c \in T /\ sum(T) = f[c] + sum(T \ {c})
  <2>1. IsFiniteSet(T)
    BY <1>1, FS_Subset
  <2> QED BY <1>2, <2>1, FirstIn, SumEquation DEF sum
<1> HIDE DEF c
<1>4. x # c
  BY <1>2, <1>3
<1>5. sum(T \ {c}) = f[x] + sum((T \ {c}) \ {x})
  <2>1. T \ {c} \in SUBSET B /\ T \ {c} # T /\ x \in T \ {c}
    BY <1>1, <1>2, <1>3, <1>4
  <2>2. T \ {c} \notin Q
    BY <1>1, <2>1
  <2> QED BY <2>1, <2>2
<1>6. sum(T \ {x}) = f[c] + sum((T \ {x}) \ {c})
  BY <1>1, <1>2, <1>3, <1>4
<1>7. (T \ {c}) \ {x} = (T \ {x}) \ {c}
  OBVIOUS
<1>8. f[x] \in Nat /\ f[c] \in Nat /\ sum((T \ {x}) \ {c}) \in Nat
  <2>1. (T \ {x}) \ {c} \in SUBSET B
    BY <1>1
  <2> QED BY <1>1, <1>2, <1>3, <2>1, SumType DEF sum
<1> QED BY <1>2, <1>3, <1>5, <1>6, <1>7, <1>8

\* A sum depends on the function at the elements only.
LEMMA SumSame ==
    ASSUME NEW B, IsFiniteSet(B), NEW f, NEW g, NEW S \in SUBSET B, \A b \in S : f[b] = g[b]
    PROVE  SumFunctionOnSet(f, S) = SumFunctionOnSet(g, S)
<1> DEFINE Q == {T \in SUBSET B : /\ \A b \in T : f[b] = g[b]
                                  /\ SumFunctionOnSet(f, T) # SumFunctionOnSet(g, T)}
<1> SUFFICES ASSUME S \in Q PROVE FALSE
  OBVIOUS
<1>0. Q \in SUBSET SUBSET B /\ Q # {}
  OBVIOUS
<1> HIDE DEF Q
<1>1. PICK T \in Q : \A U \in Q : U \subseteq T => U = T
  BY <1>0, SmallestSubset
<1> USE DEF Q
<1>2. IsFiniteSet(T)
  BY <1>1, FS_Subset
<1>3. T # {}
  BY <1>1, <1>2, SumEquation
<1>4. First(T) \in T
  BY <1>3, FirstIn
<1>5. SumFunctionOnSet(f, T \ {First(T)}) = SumFunctionOnSet(g, T \ {First(T)})
  BY <1>1, <1>4
<1> QED BY <1>1, <1>2, <1>3, <1>4, <1>5, SumEquation
=============================================================================
