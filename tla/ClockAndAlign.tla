--------------------------- MODULE ClockAndAlign ---------------------------
(***************************************************************************)
(* Pure pieces of arithmetic.  On uint64_t: the monotonic clock in four    *)
(* units (time.h), from the struct timespec that clock_gettime fills, and  *)
(* the rounding macro LLDK_ALIGN_BASE (common.h), whose mask ~(base - 1)   *)
(* clears the remainder by the base, a power of two.  kModulus is 2^64.    *)
(* And the conditionals of common.h that name the C++ standard.            *)
(***************************************************************************)
EXTENDS Integers, TLAPS

CONSTANT kModulus

kThousand == 1000
kNsPerSec == kThousand * kThousand * kThousand
TimeSpecs == [tv_sec : Nat, tv_nsec : 0 .. kNsPerSec - 1]

lldkGetClockMonotonicNs(ts)  == (ts.tv_sec * kNsPerSec + ts.tv_nsec) % kModulus
lldkGetClockMonotonicUs(ts)  == lldkGetClockMonotonicNs(ts) \div kThousand
lldkGetClockMonotonicMs(ts)  == lldkGetClockMonotonicNs(ts) \div (kThousand * kThousand)
lldkGetClockMonotonicSec(ts) == ts.tv_sec

\* The bases of LLDK_ALIGN8 to LLDK_ALIGN128.
AlignBases == {8, 16, 32, 64, 128}

LLDK_ALIGN_BASE(n, base) ==
    LET sum == (n + base - 1) % kModulus IN sum - (sum % base)

\* The #if and #elif branches: the least __cplusplus of each, and the macro it
\* defines.  The preprocessor takes the first whose condition holds.
CppBranches ==
    << <<201103, "LLDK_CPP11">>, <<201402, "LLDK_CPP14">>, <<201703, "LLDK_CPP17">>,
       <<202002, "LLDK_CPP20">>, <<202303, "LLDK_CPP23">> >>

Holds(i, cplusplus) == cplusplus >= CppBranches[i][1]

\* Whether branch i is the one taken.
Taken(i, cplusplus) == Holds(i, cplusplus) /\ \A j \in 1 .. i - 1 : ~Holds(j, cplusplus)

\* The times whose nanoseconds fit 64 bits: some 584 years of uptime.
Fits(ts) == ts.tv_sec * kNsPerSec + ts.tv_nsec < kModulus

\* a is no later than b.
NotAfter(a, b) ==
    a.tv_sec < b.tv_sec \/ (a.tv_sec = b.tv_sec /\ a.tv_nsec <= b.tv_nsec)

-----------------------------------------------------------------------------
(* Division.                                                               *)

LEMMA Product ==
    ASSUME NEW x \in Nat, NEW y \in Nat
    PROVE  x * y \in Nat
OBVIOUS

LEMMA NextMultiple ==
    ASSUME NEW d \in Nat, NEW p \in Int, NEW q \in Int, p < q
    PROVE  d * p + d <= d * q
<1> DEFINE k == q - p - 1
<1>1. k \in Nat /\ q = p + 1 + k
  OBVIOUS
<1> HIDE DEF k
<1>2. d * k \in Nat
  BY <1>1, Product
<1>3. d * q = d * p + d + d * k
  BY <1>1
<1> QED BY <1>2, <1>3

LEMMA DivUnique ==
    ASSUME NEW d \in Nat \ {0}, NEW q \in Int, NEW r \in 0 .. d - 1
    PROVE  (d * q + r) \div d = q
<1> DEFINE n == d * q + r
           p == n \div d
<1>1. n \in Int /\ p \in Int /\ d * p <= n /\ n < d * p + d
  OBVIOUS
<1>2. d * q <= n /\ n < d * q + d
  OBVIOUS
<1> HIDE DEF n, p
<1>3. p < q => FALSE
  <2>1. p < q => d * p + d <= d * q
    BY <1>1, NextMultiple
  <2> QED BY <1>1, <1>2, <2>1
<1>4. q < p => FALSE
  <2>1. q < p => d * q + d <= d * p
    BY <1>1, NextMultiple
  <2> QED BY <1>1, <1>2, <2>1
<1>5. p = q
  BY <1>1, <1>3, <1>4
<1> QED BY <1>5 DEF p, n

LEMMA DivDiv ==
    ASSUME NEW n \in Nat, NEW a \in Nat \ {0}, NEW b \in Nat \ {0}
    PROVE  (n \div a) \div b = n \div (a * b)
<1> DEFINE q == n \div a
           p == q \div b
           r == (n - a * q) + a * (q - b * p)
<1>1. q \in Int /\ 0 <= n - a * q /\ n - a * q <= a - 1
  OBVIOUS
<1>2. p \in Int /\ 0 <= q - b * p /\ q - b * p <= b - 1
  BY <1>1
<1> HIDE DEF q, p
<1>3. a * (q - b * p) >= 0 /\ a * (q - b * p) <= a * (b - 1)
  BY <1>1, <1>2
<1>4. a * b \in Nat \ {0} /\ a * (b - 1) = a * b - a
  OBVIOUS
<1>5. r \in Int /\ 0 <= r /\ r <= a * b - 1
  BY <1>1, <1>2, <1>3, <1>4
<1>6. n = (a * b) * p + r
  BY <1>1, <1>2
<1> HIDE DEF r
<1>7. n \div (a * b) = p
  <2> DEFINE d == a * b
  <2>1. d \in Nat \ {0} /\ r \in 0 .. d - 1 /\ n = d * p + r
    BY <1>4, <1>5, <1>6
  <2> HIDE DEF d
  <2>2. n \div d = p
    BY <1>2, <2>1, DivUnique
  <2> QED BY <2>2 DEF d
<1> QED BY <1>7 DEF p, q

LEMMA DivMonotonic ==
    ASSUME NEW d \in Nat \ {0}, NEW m \in Nat, NEW n \in Nat, m <= n
    PROVE  m \div d <= n \div d
<1> DEFINE p == m \div d
           q == n \div d
<1>1. p \in Int /\ q \in Int /\ d * p <= m /\ n < d * q + d
  OBVIOUS
<1> HIDE DEF p, q
<1>2. q < p => d * q + d <= d * p
  BY <1>1, NextMultiple
<1>3. p <= q
  BY <1>1, <1>2
<1> QED BY <1>3 DEF p, q

LEMMA Remainder ==
    ASSUME NEW d \in Nat \ {0}, NEW n \in Nat, n < d
    PROVE  n % d = n
OBVIOUS

\* The nanoseconds of a time, before the modulus.
Ns(ts) == ts.tv_sec * kNsPerSec + ts.tv_nsec

LEMMA Thousand ==
    /\ kThousand \in Nat \ {0} /\ kThousand * kThousand \in Nat \ {0}
    /\ kNsPerSec \in Nat \ {0}
BY DEF kThousand, kNsPerSec

LEMMA NsFits ==
    ASSUME kModulus \in Nat \ {0}, NEW ts \in TimeSpecs, Fits(ts)
    PROVE  /\ kNsPerSec \in Nat \ {0} /\ kNsPerSec = (kThousand * kThousand) * kThousand
           /\ ts.tv_sec \in Nat /\ ts.tv_nsec \in 0 .. kNsPerSec - 1
           /\ Ns(ts) \in Nat /\ lldkGetClockMonotonicNs(ts) = Ns(ts)
<1>1. kNsPerSec \in Nat \ {0} /\ kNsPerSec = (kThousand * kThousand) * kThousand
  BY Thousand DEF kNsPerSec
<1>2. ts.tv_sec \in Nat /\ ts.tv_nsec \in 0 .. kNsPerSec - 1
  BY DEF TimeSpecs
<1> HIDE DEF kNsPerSec
<1>3. ts.tv_sec * kNsPerSec \in Nat
  BY <1>1, <1>2, Product
<1>4. Ns(ts) \in Nat /\ Ns(ts) < kModulus
  BY <1>2, <1>3 DEF Ns, Fits
<1>5. lldkGetClockMonotonicNs(ts) = Ns(ts) % kModulus
  BY DEF Ns, lldkGetClockMonotonicNs
<1>6. lldkGetClockMonotonicNs(ts) = Ns(ts)
  BY <1>4, <1>5, Remainder
<1> QED BY <1>1, <1>2, <1>4, <1>6

-----------------------------------------------------------------------------

\* While the nanoseconds fit, the four units agree: each is the time in the
\* next finer one, rounded down.  (time.h:117-146)
THEOREM UnitsAgree ==
    ASSUME kModulus \in Nat \ {0}, NEW ts \in TimeSpecs, Fits(ts)
    PROVE  /\ lldkGetClockMonotonicSec(ts) = lldkGetClockMonotonicNs(ts) \div kNsPerSec
           /\ lldkGetClockMonotonicSec(ts) = lldkGetClockMonotonicMs(ts) \div kThousand
           /\ lldkGetClockMonotonicMs(ts) = lldkGetClockMonotonicUs(ts) \div kThousand
<1> DEFINE n == Ns(ts)
<1>1. n \in Nat /\ lldkGetClockMonotonicNs(ts) = n
  BY NsFits
<1>2. n \div kNsPerSec = ts.tv_sec
  <2>1. n = kNsPerSec * ts.tv_sec + ts.tv_nsec
    BY NsFits DEF Ns
  <2>2. ts.tv_sec \in Int /\ ts.tv_nsec \in 0 .. kNsPerSec - 1 /\ kNsPerSec \in Nat \ {0}
    BY NsFits
  <2> HIDE DEF n
  <2>3. (kNsPerSec * ts.tv_sec + ts.tv_nsec) \div kNsPerSec = ts.tv_sec
    BY <2>2, DivUnique
  <2> QED BY <2>1, <2>3
<1> HIDE DEF n
<1>3. (n \div (kThousand * kThousand)) \div kThousand = n \div kNsPerSec
  <2>1. kThousand * kThousand \in Nat \ {0} /\ kThousand \in Nat \ {0}
    BY Thousand
  <2>2. kNsPerSec = (kThousand * kThousand) * kThousand
    BY NsFits
  <2>3. (n \div (kThousand * kThousand)) \div kThousand = n \div ((kThousand * kThousand) * kThousand)
    BY <1>1, <2>1, DivDiv
  <2> QED BY <2>2, <2>3
<1>4. (n \div kThousand) \div kThousand = n \div (kThousand * kThousand)
  BY <1>1, Thousand, DivDiv
<1> QED BY <1>1, <1>2, <1>3, <1>4
        DEF lldkGetClockMonotonicUs, lldkGetClockMonotonicMs, lldkGetClockMonotonicSec

\* A later reading is not smaller, in any unit, while the nanoseconds fit.
\* (time.h:117-146)
THEOREM ClockMonotonic ==
    ASSUME kModulus \in Nat \ {0}, NEW a \in TimeSpecs, NEW b \in TimeSpecs,
           Fits(a), Fits(b), NotAfter(a, b)
    PROVE  /\ lldkGetClockMonotonicNs(a) <= lldkGetClockMonotonicNs(b)
           /\ lldkGetClockMonotonicUs(a) <= lldkGetClockMonotonicUs(b)
           /\ lldkGetClockMonotonicMs(a) <= lldkGetClockMonotonicMs(b)
           /\ lldkGetClockMonotonicSec(a) <= lldkGetClockMonotonicSec(b)
<1> DEFINE m == Ns(a)
           n == Ns(b)
<1>1. /\ m \in Nat /\ lldkGetClockMonotonicNs(a) = m
      /\ n \in Nat /\ lldkGetClockMonotonicNs(b) = n
  BY NsFits
<1>2. a.tv_sec <= b.tv_sec
  BY NsFits DEF NotAfter
<1>3. m <= n
  <2>1. CASE a.tv_sec = b.tv_sec
    BY <2>1, NsFits DEF NotAfter, Ns
  <2>2. CASE a.tv_sec + 1 <= b.tv_sec
    <3>1. a.tv_sec * kNsPerSec + kNsPerSec <= b.tv_sec * kNsPerSec
      BY <2>2, NsFits
    <3> QED BY <3>1, NsFits DEF Ns
  <2> QED BY <1>2, <2>1, <2>2, NsFits
<1> HIDE DEF m, n
<1>4. m \div kThousand <= n \div kThousand /\ m \div (kThousand * kThousand) <= n \div (kThousand * kThousand)
  BY <1>1, <1>3, Thousand, DivMonotonic
<1> QED BY <1>1, <1>2, <1>3, <1>4
        DEF lldkGetClockMonotonicUs, lldkGetClockMonotonicMs, lldkGetClockMonotonicSec

\* LLDK_ALIGN8 to LLDK_ALIGN128 give the least multiple of their base that is
\* not below n, for every n not so near 2^64 that adding base - 1 wraps.
\* (common.h:69-74)
THEOREM AlignRoundsUp ==
    ASSUME kModulus \in Nat \ {0}, NEW n \in Nat, NEW base \in AlignBases,
           n + base - 1 < kModulus
    PROVE  LET a == LLDK_ALIGN_BASE(n, base)
           IN  a % base = 0 /\ n <= a /\ a < n + base
<1> DEFINE sum == n + base - 1
           r == sum % base
<1>0. base \in Nat \ {0}
  BY DEF AlignBases
<1>1. sum \in Nat /\ sum % kModulus = sum
  BY <1>0
<1>2. r \in 0 .. base - 1 /\ LLDK_ALIGN_BASE(n, base) = sum - r
  BY <1>0, <1>1 DEF LLDK_ALIGN_BASE
<1>3. (sum - r) % base = 0
  <2>1. sum = base * (sum \div base) + r
    BY <1>0, <1>1
  <2> DEFINE q == sum \div base
  <2>2. q \in Int /\ sum - r = base * q
    BY <1>0, <1>1, <1>2, <2>1
  <2> HIDE DEF q, sum, r
  <2>3. (base * q) % base = 0
    BY <1>0, <2>2
  <2> QED BY <2>2, <2>3
<1> QED BY <1>0, <1>1, <1>2, <1>3

-----------------------------------------------------------------------------

\* The branches are tried from the oldest standard to the newest, and each
\* condition implies those before it: whatever standard is compiled for, the
\* first branch is taken if any is, so LLDK_CPP14 to LLDK_CPP23 are never
\* defined.  (common.h:26-36)
THEOREM OnlyCpp11 ==
    ASSUME NEW cplusplus \in Nat, NEW i \in 1 .. 5, Taken(i, cplusplus)
    PROVE  CppBranches[i][2] = "LLDK_CPP11"
<1>1. CppBranches[1][1] = 201103 /\ CppBranches[1][2] = "LLDK_CPP11"
  BY DEF CppBranches
<1>2. CppBranches[i][1] \in Nat /\ CppBranches[i][1] >= 201103
  BY DEF CppBranches
<1>3. Holds(1, cplusplus)
  BY <1>1, <1>2 DEF Taken, Holds
<1>4. i = 1
  BY <1>3 DEF Taken
<1> QED BY <1>1, <1>4
=============================================================================
