------------------------- MODULE ProbeScheduleProofs -------------------------
(***************************************************************************)
(* Proofs about ProbeSchedule, for every list of weights, word and step    *)
(* that meets the assumptions.                                             *)
(***************************************************************************)
EXTENDS ProbeSchedule, WellFoundedInduction, TLAPS

\* A non-empty set of naturals has a least element.
LEMMA LeastNatural ==
  ASSUME NEW T \in SUBSET Nat, T # {}
  PROVE  \E n \in T : \A m \in T : n <= m
<1> DEFINE R == OpToRel(<, Nat)
<1>1. IsWellFoundedOn(R, Nat)
  BY NatLessThanWellFounded
<1>2. \A x, y \in Nat : x < y => <<x, y>> \in R
  BY DEF OpToRel
<1> HIDE DEF R
<1>3. \E x \in T : \A y \in T : ~(<<y, x>> \in R)
  BY <1>1, WFMin
<1>4. PICK x \in T : \A y \in T : ~(<<y, x>> \in R)
  BY <1>3
<1>5. \A y \in T : ~(y < x)
  BY <1>2, <1>4
<1> QED
  BY <1>5

\* Induction up to a bound, over a set.
LEMMA UpwardInduction ==
  ASSUME NEW n \in Nat, NEW T, 0 \in T,
         \A j \in 1 .. n : j - 1 \in T => j \in T
  PROVE  0 .. n \subseteq T
<1> DEFINE Left == (0 .. n) \ T
<1>1. SUFFICES ASSUME Left # {} PROVE FALSE
  OBVIOUS
<1>2. PICK m \in Left : \A k \in Left : m <= k
  <2>1. Left \in SUBSET Nat
    OBVIOUS
  <2> HIDE DEF Left
  <2> QED
    BY <1>1, <2>1, LeastNatural
<1>3. m \in 1 .. n /\ m \notin T
  BY <1>2
<1>4. m - 1 \in 0 .. n /\ m - 1 < m
  BY <1>3
<1>5. m - 1 \in T
  BY <1>2, <1>4
<1> QED
  BY <1>3, <1>5

\* What one more turn of the definition of UpTo makes of f.
Summed(f, m) ==
  [j \in 0 .. m |-> IF j = 0 THEN 0 ELSE f[j - 1] + Weights[j]]

\* The running total is what its definition says, for every list of weights.
LEMMA UpToSums ==
  /\ UpTo[0] = 0
  /\ \A j \in 1 .. Len(Weights) : UpTo[j] = UpTo[j - 1] + Weights[j]
<1> DEFINE T == {m \in 0 .. Len(Weights) : \E f : f = Summed(f, m)}
<1>a. Len(Weights) \in Nat
  BY ProbeAssumption
<1>1. 0 \in T
  <2> DEFINE f == [j \in 0 .. 0 |-> 0]
  <2>1. f = Summed(f, 0)
    BY DEF Summed
  <2> HIDE DEF f
  <2> QED
    BY <2>1, <1>a
<1>2. ASSUME NEW m \in 1 .. Len(Weights), m - 1 \in T
      PROVE  m \in T
  <2>1. PICK f : f = Summed(f, m - 1)
    BY <1>2
  <2> DEFINE g == [j \in 0 .. m |->
                    IF j = m THEN f[m - 1] + Weights[m] ELSE f[j]]
  <2>2. \A j \in 0 .. m - 1 :
          f[j] = (IF j = 0 THEN 0 ELSE f[j - 1] + Weights[j])
    BY <2>1 DEF Summed
  <2>3. ASSUME NEW j \in 0 .. m
        PROVE  g[j] = (IF j = 0 THEN 0 ELSE g[j - 1] + Weights[j])
    <3>1. CASE j = m
      BY <3>1, <1>a
    <3>2. CASE j # m
      <4>1. j \in 0 .. m - 1 /\ g[j] = f[j]
        BY <3>2, <1>a
      <4>2. j # 0 => g[j - 1] = f[j - 1]
        BY <4>1, <1>a
      <4> QED
        BY <2>2, <4>1, <4>2
    <3> QED
      BY <3>1, <3>2
  <2>4. g = Summed(g, m)
    <3>1. g = [j \in 0 .. m |-> g[j]]
      OBVIOUS
    <3> HIDE DEF g
    <3> QED
      BY <2>3, <3>1 DEF Summed
  <2> HIDE DEF g
  <2> QED
    BY <2>4, <1>a
<1>3. \E f : f = [j \in 0 .. Len(Weights) |->
                    IF j = 0 THEN 0 ELSE f[j - 1] + Weights[j]]
  <2>1. \A j \in 1 .. Len(Weights) : j - 1 \in T => j \in T
    BY <1>2
  <2>2. 0 .. Len(Weights) \subseteq T
    <3> HIDE DEF T
    <3> QED
      BY <1>1, <2>1, <1>a, UpwardInduction
  <2> QED
    BY <2>2, <1>a DEF Summed
<1>4. UpTo = [j \in 0 .. Len(Weights) |->
                IF j = 0 THEN 0 ELSE UpTo[j - 1] + Weights[j]]
  BY <1>3 DEF UpTo
<1>5. ASSUME NEW j \in 0 .. Len(Weights)
      PROVE  UpTo[j] = (IF j = 0 THEN 0 ELSE UpTo[j - 1] + Weights[j])
  BY <1>4
<1> QED
  BY <1>5, <1>a

LEMMA UpToNat ==
  \A j \in 0 .. Len(Weights) : UpTo[j] \in Nat
<1> DEFINE T == {j \in 0 .. Len(Weights) : UpTo[j] \in Nat}
<1>a. Len(Weights) \in Nat /\ \A j \in 1 .. Len(Weights) : Weights[j] \in Nat
  BY ProbeAssumption
<1>1. 0 \in T
  BY UpToSums, <1>a
<1>2. \A j \in 1 .. Len(Weights) : j - 1 \in T => j \in T
  BY UpToSums, <1>a
<1>3. 0 .. Len(Weights) \subseteq T
  <2> HIDE DEF T
  <2> QED
    BY <1>1, <1>2, <1>a, UpwardInduction
<1> QED
  BY <1>3

\* Later slices are further on.
LEMMA UpToMonotone ==
  \A i, j \in 0 .. Len(Weights) : i <= j => UpTo[i] <= UpTo[j]
<1> DEFINE T == {j \in 0 .. Len(Weights) :
                   \A i \in 0 .. Len(Weights) : i <= j => UpTo[i] <= UpTo[j]}
<1>a. Len(Weights) \in Nat /\ \A j \in 1 .. Len(Weights) : Weights[j] \in Nat
  BY ProbeAssumption
<1>1. 0 \in T
  <2>1. ASSUME NEW i \in 0 .. Len(Weights), i <= 0
        PROVE  UpTo[i] <= UpTo[0]
    <3>1. i = 0
      BY <2>1
    <3> QED
      BY <3>1, UpToNat, <1>a
  <2> QED
    BY <2>1, <1>a
<1>2. ASSUME NEW j \in 1 .. Len(Weights), j - 1 \in T
      PROVE  j \in T
  <2>1. UpTo[j - 1] <= UpTo[j] /\ UpTo[j] \in Nat /\ UpTo[j - 1] \in Nat
    BY UpToSums, UpToNat, <1>a
  <2>2. ASSUME NEW i \in 0 .. Len(Weights), i <= j
        PROVE  UpTo[i] <= UpTo[j]
    <3>1. UpTo[i] \in Nat
      BY UpToNat
    <3>2. CASE i = j
      BY <3>2, <2>1
    <3>3. CASE i # j
      <4>1. i <= j - 1
        BY <3>3, <2>2
      <4>2. UpTo[i] <= UpTo[j - 1]
        BY <1>2, <4>1
      <4> QED
        BY <4>2, <2>1, <3>1
    <3> QED
      BY <3>2, <3>3
  <2> QED
    BY <2>2, <1>a
<1>3. 0 .. Len(Weights) \subseteq T
  <2>1. \A j \in 1 .. Len(Weights) : j - 1 \in T => j \in T
    BY <1>2
  <2> HIDE DEF T
  <2> QED
    BY <1>1, <2>1, <1>a, UpwardInduction
<1> QED
  BY <1>3

\* The alias has weight, and the watched candidate's slice is Floor wide.
LEMMA SliceOfProbed ==
  /\ Total \in Nat \ {0} /\ Floor \in Nat \ {0}
  /\ UpTo[Probed - 1] \in Nat
  /\ UpTo[Probed] = UpTo[Probed - 1] + Floor
  /\ UpTo[Probed - 1] + Floor <= Total
<1>1. /\ Len(Weights) \in Nat /\ Probed \in 1 .. Len(Weights)
      /\ Weights[Probed] = Floor /\ Floor \in Nat \ {0}
  BY ProbeAssumption
<1>2. /\ UpTo[Probed] = UpTo[Probed - 1] + Floor
      /\ UpTo[Probed - 1] \in Nat
  BY <1>1, UpToSums, UpToNat
<1>3. UpTo[Probed] <= Total /\ Total \in Nat
  BY <1>1, UpToMonotone, UpToNat DEF Total
<1> QED
  BY <1>1, <1>2, <1>3

\* The high half of a sample times the total is below the total.
LEMMA PosInTotal ==
  ASSUME NEW sp \in 0 .. WordSize - 1
  PROVE  Pos(sp, Total) \in Nat /\ Pos(sp, Total) < Total
<1> DEFINE T == Total
           q == (sp * T) \div WordSize
<1>1. WordSize \in Nat \ {0} /\ sp \in Nat /\ sp < WordSize /\ T \in Nat \ {0}
  BY WeylAssumption, SliceOfProbed
<1> HIDE DEF T
<1>2. sp * T \in Nat
  BY <1>1
<1>3. q \in Nat /\ q * WordSize <= sp * T
  BY <1>1, <1>2
<1>4. q < T
  <2>1. sp * T < WordSize * T
    BY <1>1
  <2>2. SUFFICES ASSUME q >= T PROVE FALSE
    BY <1>1, <1>3
  <2>3. q * WordSize >= T * WordSize
    BY <2>2, <1>1, <1>3
  <2> QED
    BY <2>1, <2>3, <1>1, <1>2, <1>3
<1> QED
  BY <1>3, <1>4 DEF Pos, T

\* A sample is in one slice, and in no other.
LEMMA OneHolds ==
  ASSUME NEW sp \in 0 .. WordSize - 1
  PROVE  \E j \in 1 .. Len(Weights) :
           Holds(j, sp) /\ \A i \in 1 .. Len(Weights) : Holds(i, sp) => i = j
<1> DEFINE pos == Pos(sp, Total)
           Over == {j \in 0 .. Len(Weights) : pos < UpTo[j]}
<1>1. pos \in Nat /\ pos < Total /\ Len(Weights) \in Nat
  BY PosInTotal, ProbeAssumption
<1>2. \A j \in 1 .. Len(Weights) :
        Holds(j, sp) <=> UpTo[j - 1] <= pos /\ pos < UpTo[j]
  BY DEF Holds
<1> HIDE DEF pos
<1>3. Over # {}
  BY <1>1 DEF Total
<1>4. PICK j \in Over : \A i \in Over : j <= i
  <2>1. Over \in SUBSET Nat
    OBVIOUS
  <2> HIDE DEF Over
  <2> QED
    BY <2>1, <1>3, LeastNatural
<1>5. j \in 1 .. Len(Weights)
  BY <1>1, <1>4, UpToSums
<1>6. UpTo[j - 1] <= pos
  <2>1. j - 1 \in 0 .. Len(Weights) /\ j - 1 < j /\ UpTo[j - 1] \in Nat
    BY <1>5, UpToNat
  <2>2. j - 1 \notin Over
    BY <2>1, <1>4
  <2> QED
    BY <2>1, <2>2, <1>1
<1>7. ASSUME NEW i \in 1 .. Len(Weights), Holds(i, sp)
      PROVE  i = j
  <2>1. UpTo[i - 1] <= pos /\ pos < UpTo[i]
    BY <1>2, <1>7
  <2>2. j <= i
    BY <2>1, <1>4
  <2>3. SUFFICES ASSUME j < i PROVE FALSE
    BY <2>2, <1>5
  <2>4. UpTo[j] <= UpTo[i - 1] /\ UpTo[j] \in Nat /\ UpTo[i - 1] \in Nat
    BY <2>3, <1>5, UpToMonotone, UpToNat
  <2> QED
    BY <2>1, <2>4, <1>1, <1>4
<1> QED
  BY <1>2, <1>4, <1>5, <1>6, <1>7

LEMMA SpreadIsSample ==
  ASSUME NEW t \in Nat
  PROVE  Spread(t) \in 0 .. WordSize - 1
<1> DEFINE a == t * WeylStep
<1>1. a \in Nat /\ WordSize \in Nat \ {0}
  BY WeylAssumption
<1> HIDE DEF a
<1>2. (a % WordSize) \in 0 .. WordSize - 1
  BY <1>1
<1> QED
  BY <1>2 DEF Spread, a

\* The walk picks the watched candidate when the sample is in its slice.
LEMMA PickIsHolder ==
  ASSUME NEW t \in Nat
  PROVE  Pick(t) = Probed <=> Holds(Probed, Spread(t))
<1>1. PICK j \in 1 .. Len(Weights) :
        /\ Holds(j, Spread(t))
        /\ \A i \in 1 .. Len(Weights) : Holds(i, Spread(t)) => i = j
  BY OneHolds, SpreadIsSample
<1>2. Pick(t) = j
  BY <1>1 DEF Pick
<1>3. Probed \in 1 .. Len(Weights)
  BY ProbeAssumption
<1> QED
  BY <1>1, <1>2, <1>3

-----------------------------------------------------------------------------
(***************************************************************************)
(* The circle of samples.                                                  *)
(***************************************************************************)

\* A whole turn changes nothing.
LEMMA WholeTurns ==
  ASSUME NEW a \in Nat, NEW z \in Nat
  PROVE  (WordSize * z + a) % WordSize = a % WordSize
<1> DEFINE q == a \div WordSize
           r == a % WordSize
<1>1. WordSize \in Nat \ {0}
  BY WeylAssumption
<1>2. q \in Nat /\ r \in 0 .. WordSize - 1 /\ a = (WordSize * q) + r
  BY <1>1
<1> HIDE DEF q, r
<1>3. WordSize * z + a = (WordSize * (z + q)) + r
  BY <1>1, <1>2
<1>4. \A b \in Nat, k \in Nat : b = (WordSize * k) + r => (b % WordSize) = r
  BY <1>1, <1>2
<1>5. WordSize * z + a \in Nat /\ z + q \in Nat
  BY <1>1, <1>2
<1> QED
  BY <1>3, <1>4, <1>5 DEF r

\* A number is some whole turns and the rest.
LEMMA Turns ==
  ASSUME NEW a \in Nat
  PROVE  \E z \in Nat : a = WordSize * z + (a % WordSize)
<1>1. WordSize \in Nat \ {0}
  BY WeylAssumption
<1>2. a \div WordSize \in Nat /\ a = (WordSize * (a \div WordSize)) + (a % WordSize)
  BY <1>1
<1> QED
  BY <1>2

\* The sample of a later tick is the sample moved on.
LEMMA SpreadMoves ==
  ASSUME NEW t \in Nat, NEW k \in Nat, NEW s \in Nat
  PROVE  Spread(t + k * s) = (Spread(t) + Moved(k, s)) % WordSize
<1> DEFINE a == t * WeylStep
           b == k * s * WeylStep
           x == a % WordSize
           d == b % WordSize
<1>1. WordSize \in Nat \ {0} /\ WeylStep \in Nat /\ a \in Nat /\ b \in Nat
  BY WeylAssumption
<1>2. (t + k * s) * WeylStep = a + b
  <2> DEFINE ks == k * s
  <2>1. ks \in Nat
    OBVIOUS
  <2> HIDE DEF ks
  <2>2. (t + ks) * WeylStep = t * WeylStep + ks * WeylStep
    BY <2>1, <1>1
  <2> QED
    BY <2>2 DEF ks
<1> HIDE DEF a, b
<1>3. x \in Nat /\ d \in Nat
  BY <1>1
<1>4. PICK y \in Nat : a = WordSize * y + x
  BY <1>1, Turns
<1>5. PICK z \in Nat : b = WordSize * z + d
  BY <1>1, Turns
<1> HIDE DEF x, d
<1>6. a + b = WordSize * (y + z) + (x + d)
  BY <1>1, <1>3, <1>4, <1>5
<1>7. (a + b) % WordSize = (x + d) % WordSize
  BY <1>3, <1>6, WholeTurns
<1> QED
  BY <1>2, <1>7 DEF Spread, Moved, a, b, x, d

\* The wrap of the counter does not disturb the samples.
LEMMA SpreadWraps ==
  ASSUME NEW t \in Nat, NEW m \in Nat
  PROVE  Spread(NextTick(t) + m) = Spread(t + 1 + m)
<1> DEFINE c == (t + 1) % WordSize
<1>1. WordSize \in Nat \ {0} /\ WeylStep \in Nat /\ c \in Nat
  BY WeylAssumption
<1>2. PICK z \in Nat : t + 1 = WordSize * z + c
  BY Turns
<1> HIDE DEF c
<1> DEFINE a == (c + m) * WeylStep
           b == z * WeylStep
<1>3. a \in Nat /\ b \in Nat
  BY <1>1
<1>4. (t + 1 + m) * WeylStep = WordSize * b + a
  <2>1. t + 1 + m = WordSize * z + (c + m)
    BY <1>1, <1>2
  <2>2. (WordSize * z + (c + m)) * WeylStep = WordSize * (z * WeylStep) + (c + m) * WeylStep
    <3> DEFINE n == c + m
    <3>1. n \in Nat
      BY <1>1
    <3> HIDE DEF n
    <3>2. (WordSize * z + n) * WeylStep = (WordSize * z) * WeylStep + n * WeylStep
      <4> DEFINE u == WordSize * z
      <4>1. u \in Nat
        BY <1>1
      <4> HIDE DEF u
      <4>2. (u + n) * WeylStep = u * WeylStep + n * WeylStep
        BY <4>1, <3>1, <1>1
      <4> QED
        BY <4>2 DEF u
    <3>3. (WordSize * z) * WeylStep = WordSize * (z * WeylStep)
      BY <1>1
    <3> QED
      BY <3>2, <3>3 DEF n
  <2> QED
    BY <2>1, <2>2
<1> HIDE DEF a, b
<1>5. (WordSize * b + a) % WordSize = a % WordSize
  BY <1>3, WholeTurns
<1> QED
  BY <1>4, <1>5 DEF Spread, NextTick, a, c

\* The slice of the watched candidate, scaled up to where products compare.
Low  == UpTo[Probed - 1] * WordSize
High == (UpTo[Probed - 1] + Floor) * WordSize
InSlice(x) == Low <= x * Total /\ x * Total < High

LEMMA HoldsInSlice ==
  ASSUME NEW x \in 0 .. WordSize - 1
  PROVE  Holds(Probed, x) <=> InSlice(x)
<1> DEFINE lo == UpTo[Probed - 1]
           hi == UpTo[Probed - 1] + Floor
           b  == x * Total
           q  == b \div WordSize
<1>1. /\ lo \in Nat /\ hi \in Nat /\ b \in Nat /\ WordSize \in Nat \ {0}
      /\ UpTo[Probed] = hi
  BY SliceOfProbed, WeylAssumption
<1> HIDE DEF lo, hi, b
<1>2. q \in Nat /\ q * WordSize <= b /\ b < (q + 1) * WordSize
  BY <1>1
<1>3. \A n \in Nat : n <= q <=> n * WordSize <= b
  <2>1. ASSUME NEW n \in Nat, n <= q PROVE n * WordSize <= b
    <3>1. n * WordSize <= q * WordSize
      BY <1>1, <1>2, <2>1
    <3> QED
      BY <3>1, <1>1, <1>2
  <2>2. ASSUME NEW n \in Nat, ~(n <= q) PROVE ~(n * WordSize <= b)
    <3>1. q + 1 <= n
      BY <1>2, <2>2
    <3>2. (q + 1) * WordSize <= n * WordSize
      BY <1>1, <1>2, <3>1
    <3> QED
      BY <3>2, <1>1, <1>2
  <2> QED
    BY <2>1, <2>2
<1>4. Holds(Probed, x) <=> lo <= q /\ q < hi
  BY <1>1 DEF Holds, Pos, lo, b
<1>5. q < hi <=> b < hi * WordSize
  <2>1. hi <= q <=> hi * WordSize <= b
    BY <1>1, <1>3
  <2> QED
    BY <2>1, <1>1, <1>2
<1>6. lo <= q <=> lo * WordSize <= b
  BY <1>1, <1>3
<1> QED
  BY <1>4, <1>5, <1>6 DEF InSlice, Low, High, lo, hi, b

\* The ends of the slice, as the lemmas below need them.
LEMMA SliceEnds ==
  /\ Low \in Nat /\ High \in Nat
  /\ High = Low + Floor * WordSize
  /\ High <= WordSize * Total
<1> DEFINE lo == UpTo[Probed - 1]
           T  == Total
<1>1. /\ lo \in Nat /\ Floor \in Nat /\ lo + Floor <= T /\ T \in Nat
      /\ WordSize \in Nat
  BY SliceOfProbed, WeylAssumption
<1>2. Low = lo * WordSize /\ High = (lo + Floor) * WordSize
  BY DEF Low, High
<1> HIDE DEF lo, T
<1>3. (lo + Floor) * WordSize = lo * WordSize + Floor * WordSize
  BY <1>1
<1>4. (lo + Floor) * WordSize <= T * WordSize
  BY <1>1
<1> QED
  BY <1>1, <1>2, <1>3, <1>4 DEF T

\* Width is the width of the slice, rounded down.
LEMMA WidthRounds ==
  \A n \in Nat : n <= Width <=> n * Total <= Floor * WordSize
<1> DEFINE T == Total
           b == Floor * WordSize
           q == b \div T
<1>1. T \in Nat \ {0} /\ b \in Nat
  BY SliceOfProbed, WeylAssumption
<1> HIDE DEF T, b
<1>2. q \in Nat /\ q * T <= b /\ b < (q + 1) * T
  BY <1>1
<1>3. ASSUME NEW n \in Nat, n <= q PROVE n * T <= b
  <2>1. n * T <= q * T
    BY <1>1, <1>2, <1>3
  <2> QED
    BY <2>1, <1>1, <1>2
<1>4. ASSUME NEW n \in Nat, ~(n <= q) PROVE ~(n * T <= b)
  <2>1. q + 1 <= n
    BY <1>2, <1>4
  <2>2. (q + 1) * T <= n * T
    BY <1>1, <1>2, <2>1
  <2> QED
    BY <2>2, <1>1, <1>2
<1> QED
  BY <1>3, <1>4 DEF Width, T, b

\* The slice is not empty: from its first sample on, Width samples are in it.
LEMMA SliceSamples ==
  \E first \in Nat : \A j \in Nat :
    j < Width => first + j \in 0 .. WordSize - 1 /\ Holds(Probed, first + j)
<1> DEFINE T == Total
           F == Floor * WordSize
           In == {y \in Nat : Low <= y * T}
<1>1. WordSize \in Nat \ {0} /\ T \in Nat \ {0} /\ F \in Nat
  BY WeylAssumption, SliceOfProbed
<1>2. /\ Low \in Nat /\ High \in Nat /\ High = Low + F
      /\ High <= WordSize * T
  BY SliceEnds
<1>3. Low \in In
  <2> HIDE DEF T
  <2>1. Low * 1 <= Low * T
    BY <1>1, <1>2
  <2> QED
    BY <2>1, <1>2
<1>4. PICK first \in In : \A y \in In : first <= y
  <2>1. In \in SUBSET Nat
    OBVIOUS
  <2> HIDE DEF In
  <2> QED
    BY <2>1, <1>3, LeastNatural
<1>5. Width \in Nat /\ Width * T <= F
  <2>1. Width \in Nat
    BY <1>1 DEF Width
  <2> QED
    BY <2>1, WidthRounds
<1>6. ASSUME NEW j \in Nat, j < Width
      PROVE  first + j \in 0 .. WordSize - 1 /\ Holds(Probed, first + j)
  <2> HIDE DEF T, F
  <2>1. first \in Nat /\ Low <= first * T /\ first * T \in Nat /\ j * T \in Nat
    BY <1>1, <1>4
  <2>2. (first + j) * T = first * T + j * T
    BY <1>1, <2>1
  <2>3. (j + 1) * T <= Width * T /\ (j + 1) * T = j * T + T
    BY <1>1, <1>5, <1>6
  <2>4. first * T < Low + T
    <3>1. CASE first = 0
      BY <3>1, <1>1, <1>2
    <3>2. CASE first # 0
      <4>1. first - 1 \in Nat /\ first - 1 \notin In
        BY <3>2, <2>1, <1>4
      <4>2. (first - 1) * T < Low
        BY <4>1, <1>1, <1>2
      <4>3. (first - 1) * T = first * T - T
        BY <2>1, <1>1
      <4> QED
        BY <4>2, <4>3, <2>1, <1>1, <1>2
    <3> QED
      BY <3>1, <3>2
  <2>5. (first + j) * T < High
    BY <2>1, <2>2, <2>3, <2>4, <1>1, <1>2, <1>5
  <2>6. first + j < WordSize
    <3>1. SUFFICES ASSUME WordSize <= first + j PROVE FALSE
      BY <1>1, <2>1
    <3>2. WordSize * T <= (first + j) * T
      BY <3>1, <1>1, <2>1
    <3>3. (first + j) * T \in Nat /\ WordSize * T \in Nat
      BY <1>1, <2>1
    <3> QED
      BY <3>2, <3>3, <2>5, <1>2
  <2>7. Low <= (first + j) * T
    BY <2>1, <2>2, <1>2
  <2>8. first + j \in 0 .. WordSize - 1
    BY <2>1, <2>6, <1>1
  <2> QED
    BY <2>5, <2>7, <2>8, HoldsInSlice DEF InSlice, T
<1> QED
  BY <1>6, <1>4

\* A move wider than the slice, both ahead and back, leaves it.
LEMMA WideMoveLeaves ==
  ASSUME NEW x \in 0 .. WordSize - 1, Holds(Probed, x),
         NEW d \in 0 .. WordSize - 1, Width < d, Width < WordSize - d
  PROVE  ~Holds(Probed, (x + d) % WordSize)
<1> DEFINE back == WordSize - d
           T == Total
           X == x * T
           D == d * T
           B == back * T
           F == Floor * WordSize
<1>1. /\ WordSize \in Nat \ {0} /\ T \in Nat \ {0} /\ F \in Nat
      /\ back \in 1 .. WordSize
  BY WeylAssumption, SliceOfProbed
<1>2. /\ Low \in Nat /\ High \in Nat /\ High = Low + F
  BY SliceEnds
<1>3. Low <= X /\ X < High
  BY HoldsInSlice DEF InSlice
<1>4. \A y \in 0 .. WordSize - 1 : Holds(Probed, y) => Low <= y * T /\ y * T < High
  BY HoldsInSlice DEF InSlice
<1>5. D > F /\ B > F
  <2>1. Width \in Int
    BY <1>1 DEF Width
  <2>2. ~(d <= Width) /\ ~(back <= Width)
    BY <2>1, <1>1
  <2>3. ~(d * T <= F) /\ ~(back * T <= F)
    BY <2>2, <1>1, WidthRounds
  <2>4. d * T \in Nat /\ back * T \in Nat
    BY <1>1
  <2> QED
    BY <2>3, <2>4, <1>1
<1>6. X \in Nat /\ D \in Nat /\ B \in Nat
  BY <1>1
<1>7. d = WordSize - back
  BY <1>1
<1>m. \A y \in 0 .. WordSize - 1 : (y % WordSize) = y
  BY <1>1
<1> HIDE DEF T, back, F
<1>8. (x + d) * T = X + D /\ (back <= x => (x - back) * T = X - B)
  BY <1>1
<1> HIDE DEF X, D, B
<1>9. CASE x + d < WordSize
  <2>1. x + d \in 0 .. WordSize - 1
    BY <1>9, <1>1
  <2>2. ((x + d) % WordSize) = x + d
    BY <2>1, <1>m
  <2>3. ~((x + d) * T < High)
    BY <1>8, <1>2, <1>3, <1>5, <1>6, <1>1
  <2> QED
    BY <2>1, <2>2, <2>3, <1>4
<1>10. CASE ~(x + d < WordSize)
  <2>1. back <= x /\ x - back \in 0 .. WordSize - 1
    BY <1>10, <1>1, <1>7
  <2>2. (x + d) % WordSize = x - back
    <3>1. x + d = WordSize * 1 + (x - back)
      BY <1>1, <1>7, <2>1
    <3>2. (WordSize * 1 + (x - back)) % WordSize = (x - back) % WordSize
      BY <2>1, WholeTurns
    <3> QED
      BY <3>1, <3>2, <2>1, <1>m
  <2>3. ~(Low <= (x - back) * T)
    BY <2>1, <1>8, <1>2, <1>3, <1>5, <1>6, <1>1
  <2> QED
    BY <2>1, <2>2, <2>3, <1>4
<1> QED
  BY <1>9, <1>10

-----------------------------------------------------------------------------
(***************************************************************************)
(* The schedule.                                                           *)
(***************************************************************************)

\* The most ticks since the last pick when m of the slice's went to the other
\* mode: before, between and behind those, MaxWait each.
Longest(m) == MaxWait * (m + 1) + m

\* A tick of the candidate's slice is ahead within what is left of that.
Due ==
  \E k \in 0 .. MaxWait :
    k + since <= Longest(missed) /\ Holds(Probed, Spread(counter + k))

\* The next tick is since + 1 ticks after the last pick, whole turns of the
\* counter aside.
Since ==
  probed => \E c \in 0 .. WordSize - 1, z \in Nat :
    /\ Holds(Probed, Spread(c))
    /\ WordSize * z + counter = c + (since + 1)

\* The inductive invariant.
IInv == TypeOK /\ wait + missed <= since /\ Due /\ Since

LEMMA MaxWaitNat ==
  MaxWait \in Nat /\ MaxWait * Floor <= Slack * Total
<1> DEFINE T == Total
           b == Slack * T
<1>1. b \in Nat /\ Floor \in Nat \ {0}
  BY ProbeAssumption, SliceOfProbed
<1> HIDE DEF b
<1>2. b \div Floor \in Nat /\ (b \div Floor) * Floor <= b
  BY <1>1
<1> QED
  BY <1>2 DEF MaxWait, b

LEMMA MovedIsSample ==
  ASSUME NEW k \in Nat, NEW s \in Nat
  PROVE  Moved(k, s) \in 0 .. WordSize - 1
<1> DEFINE a == k * s * WeylStep
<1>1. a \in Nat /\ WordSize \in Nat \ {0}
  BY WeylAssumption
<1> HIDE DEF a
<1>2. (a % WordSize) \in 0 .. WordSize - 1
  BY <1>1
<1> QED
  BY <1>2 DEF Moved, a

\* Moving the rest of a number on.
LEMMA RestMoves ==
  ASSUME NEW a \in Nat, NEW b \in Nat
  PROVE  ((a % WordSize) + b) % WordSize = (a + b) % WordSize
<1> DEFINE r == a % WordSize
<1>1. WordSize \in Nat \ {0} /\ r \in Nat
  BY WeylAssumption
<1>2. PICK z \in Nat : a = WordSize * z + r
  BY Turns
<1> HIDE DEF r
<1>3. a + b = WordSize * z + (r + b)
  BY <1>1, <1>2
<1>4. r + b \in Nat
  BY <1>1
<1>5. (WordSize * z + (r + b)) % WordSize = (r + b) % WordSize
  BY <1>4, WholeTurns
<1> QED
  BY <1>3, <1>5 DEF r

\* From whatever tick on, the slice is reached within the bound.  Of the first
\* p + q samples take the one with the shortest way ahead to the slice: p
\* requests later or q earlier there is another of them, a short move further
\* on.  It is not closer, so the move led into the slice.
LEMMA SliceReached ==
  ASSUME NEW t \in Nat, NEW s \in Nat, Returns(s)
  PROVE  \E k \in 0 .. MaxWait : Holds(Probed, Spread(t + k * s))
<1>1. WordSize \in Nat \ {0} /\ MaxWait \in Nat /\ Width \in Int
  <2>1. Floor * WordSize \in Nat /\ Total \in Nat \ {0}
    BY WeylAssumption, SliceOfProbed
  <2> QED
    BY <2>1, WeylAssumption, MaxWaitNat DEF Width
<1>2. PICK p, q \in 1 .. MaxWait :
        /\ p + q <= MaxWait + 1
        /\ Moved(p, s) \in 1 .. Width
        /\ WordSize - Moved(q, s) <= Width
  BY DEF Returns
<1> DEFINE d == Moved(p, s)
           e == WordSize - Moved(q, s)
           X(k) == Spread(t + k * s)
<1>3. /\ d \in 1 .. Width /\ d < WordSize /\ e \in 1 .. Width
      /\ Moved(q, s) = WordSize - e /\ Moved(q, s) \in Nat /\ e \in Nat
  <2>1. p \in Nat /\ q \in Nat
    BY <1>1
  <2>2. Moved(p, s) \in 0 .. WordSize - 1 /\ Moved(q, s) \in 0 .. WordSize - 1
    BY <2>1, MovedIsSample
  <2> QED
    BY <1>1, <1>2, <2>2
<1>4. PICK first \in Nat : \A j \in Nat :
        j < Width => first + j \in 0 .. WordSize - 1 /\ Holds(Probed, first + j)
  BY SliceSamples
<1>5. first \in 0 .. WordSize - 1
  <2>1. 0 \in Nat /\ 0 < Width /\ first + 0 = first
    BY <1>1, <1>3
  <2> QED
    BY <1>4, <2>1
<1>6. \A k \in Nat : X(k) \in 0 .. WordSize - 1
  <2>1. \A k \in Nat : t + k * s \in Nat
    OBVIOUS
  <2> QED
    BY <2>1, SpreadIsSample
<1>7. \A k \in Nat : X(k + p) = (X(k) + d) % WordSize
  <2> SUFFICES ASSUME NEW k \in Nat PROVE X(k + p) = (X(k) + d) % WordSize
    OBVIOUS
  <2>1. t + (k + p) * s = (t + k * s) + p * s /\ t + k * s \in Nat /\ p \in Nat
    BY <1>1
  <2>2. Spread((t + k * s) + p * s) = (Spread(t + k * s) + Moved(p, s)) % WordSize
    BY <2>1, SpreadMoves
  <2> QED
    BY <2>1, <2>2
<1>8. \A k \in Nat : k >= q => k - q \in Nat /\ X(k - q) = (X(k) + e) % WordSize
  <2> SUFFICES ASSUME NEW k \in Nat, k >= q
               PROVE  k - q \in Nat /\ X(k - q) = (X(k) + e) % WordSize
    OBVIOUS
  <2> DEFINE y == X(k - q)
  <2>1. /\ k - q \in Nat /\ q \in Nat
        /\ t + k * s = (t + (k - q) * s) + q * s /\ t + (k - q) * s \in Nat
    <3>1. k - q \in Nat /\ q \in Nat
      BY <1>1
    <3> DEFINE m == k - q
    <3>2. k = m + q /\ m \in Nat
      BY <3>1
    <3> HIDE DEF m
    <3>3. t + k * s = (t + m * s) + q * s /\ t + m * s \in Nat
      BY <3>1, <3>2
    <3> QED
      BY <3>1, <3>3 DEF m
  <2>2. X(k) = (y + Moved(q, s)) % WordSize
    BY <2>1, SpreadMoves
  <2>3. y \in 0 .. WordSize - 1
    BY <2>1, <1>6
  <2> HIDE DEF y
  <2>4. y + Moved(q, s) \in Nat /\ e \in Nat
    BY <1>3, <2>3
  <2>5. (X(k) + e) % WordSize = ((y + Moved(q, s)) + e) % WordSize
    BY <2>2, <2>4, RestMoves
  <2>6. (y + Moved(q, s)) + e = WordSize * 1 + y
    BY <1>1, <1>3, <2>3
  <2>7. (WordSize * 1 + y) % WordSize = y % WordSize
    BY <2>3, WholeTurns
  <2>8. (y % WordSize) = y
    BY <2>3, <1>1
  <2> QED
    BY <2>1, <2>5, <2>6, <2>7, <2>8 DEF y
<1> HIDE DEF d, e, X
<1> DEFINE Ways == {g \in 0 .. WordSize - 1 :
                      \E k \in 0 .. p + q - 1 : (X(k) + g) % WordSize = first}
<1>9. \A y \in 0 .. WordSize - 1 : (y % WordSize) = y
  BY <1>1
<1>10. Ways # {}
  <2>1. X(0) \in 0 .. WordSize - 1 /\ 0 \in 0 .. p + q - 1
    BY <1>6
  <2>2. CASE X(0) <= first
    <3>1. first - X(0) \in 0 .. WordSize - 1 /\ X(0) + (first - X(0)) = first
      BY <2>1, <2>2, <1>1, <1>5
    <3> QED
      BY <3>1, <2>1, <1>5, <1>9
  <2>3. CASE first < X(0)
    <3> DEFINE g == (WordSize + first) - X(0)
    <3>1. g \in 0 .. WordSize - 1 /\ X(0) + g = WordSize * 1 + first
      BY <2>1, <2>3, <1>1, <1>5
    <3>2. (WordSize * 1 + first) % WordSize = first % WordSize
      BY <1>5, WholeTurns
    <3>3. (X(0) + g) % WordSize = first
      BY <3>1, <3>2, <1>5, <1>9
    <3> QED
      BY <3>1, <3>3, <2>1
  <2> QED
    BY <2>1, <2>2, <2>3, <1>1, <1>5
<1>11. PICK g \in Ways : \A h \in Ways : g <= h
  <2>1. Ways \in SUBSET Nat
    BY <1>1
  <2> HIDE DEF Ways
  <2> QED
    BY <2>1, <1>10, LeastNatural
<1>12. PICK k \in 0 .. p + q - 1 : (X(k) + g) % WordSize = first
  BY <1>11
<1>13. \A n \in 0 .. p + q - 1 : n \in 0 .. MaxWait /\ n \in Nat
  BY <1>1, <1>2
<1>14. CASE g = 0
  <2>1. X(k) \in 0 .. WordSize - 1
    BY <1>6, <1>13
  <2>2. X(k) = first
    BY <1>12, <1>14, <2>1, <1>9
  <2>3. Holds(Probed, first + 0) /\ first + 0 = first
    BY <1>1, <1>3, <1>4
  <2> QED
    BY <1>13, <2>2, <2>3 DEF X
<1>15. CASE g # 0
  <2>1. PICK n \in 0 .. p + q - 1, h \in 1 .. Width :
          h \in Nat /\ X(n) = (X(k) + h) % WordSize
    <3>1. CASE k < q
      <4>1. k + p \in 0 .. p + q - 1 /\ k \in Nat
        BY <3>1, <1>1
      <4>2. X(k + p) = (X(k) + d) % WordSize /\ d \in Nat
        BY <4>1, <1>3, <1>7
      <4> QED
        BY <4>1, <4>2, <1>3
    <3>2. CASE ~(k < q)
      <4>1. k - q \in 0 .. p + q - 1 /\ k \in Nat /\ k >= q
        BY <3>2, <1>1
      <4>2. X(k - q) = (X(k) + e) % WordSize /\ e \in Nat
        BY <4>1, <1>3, <1>8
      <4> QED
        BY <4>1, <4>2, <1>3
    <3> QED
      BY <3>1, <3>2
  <2>2. /\ X(k) \in Nat /\ X(k) + h \in Nat /\ g \in Nat /\ g < WordSize
        /\ X(n) \in 0 .. WordSize - 1
    BY <1>1, <1>6, <1>11, <1>13, <2>1
  <2>3. CASE h <= g
    <3>1. g - h \in 0 .. WordSize - 1 /\ g - h < g /\ g - h \in Nat
      BY <2>1, <2>2, <2>3, <1>1
    <3>2. (X(n) + (g - h)) % WordSize = ((X(k) + h) + (g - h)) % WordSize
      BY <2>1, <2>2, <3>1, RestMoves
    <3>3. (X(k) + h) + (g - h) = X(k) + g
      BY <2>2
    <3>4. g - h \in Ways
      BY <1>12, <2>1, <3>1, <3>2, <3>3
    <3> QED
      BY <1>11, <3>1, <3>4, <2>2
  <2>4. CASE g < h
    <3> DEFINE j == h - g
    <3>1. j \in Nat /\ j < Width
      BY <2>1, <2>2, <2>4, <1>1, <1>15
    <3>2. X(k) + h = (X(k) + g) + j /\ X(k) + g \in Nat
      BY <2>2
    <3> HIDE DEF j
    <3>3. ((X(k) + g) + j) % WordSize = (first + j) % WordSize
      BY <1>12, <3>1, <3>2, RestMoves
    <3>4. first + j \in 0 .. WordSize - 1 /\ Holds(Probed, first + j)
      BY <1>4, <3>1
    <3>5. X(n) = first + j
      BY <2>1, <3>2, <3>3, <3>4, <1>9
    <3> QED
      BY <1>13, <3>4, <3>5 DEF X
  <2> QED
    BY <2>1, <2>2, <2>3, <2>4
<1> QED
  BY <1>14, <1>15

\* A pick soon after another is not of the same slice.
LEMMA NotSoon ==
  ASSUME NEW t \in Nat, Holds(Probed, Spread(t)), NEW s \in Nat, Leaves(s),
         NEW k \in Nat \ {0}, Holds(Probed, Spread(t + k * s))
  PROVE  k * Slack * Floor >= Total
<1> DEFINE T == Total
           g == Slack * Floor
<1>1. s \in Nat /\ T \in Nat \ {0} /\ g \in Nat \ {0}
  BY ProbeAssumption, SliceOfProbed
<1>2. k * Slack * Floor = k * g
  BY ProbeAssumption
<1> HIDE DEF g
<1>3. SUFFICES ASSUME k * g < T PROVE FALSE
  BY <1>1, <1>2
<1>4. k \in 1 .. T
  <2>1. k <= k * g
    BY <1>1
  <2> QED
    BY <1>1, <1>3, <2>1
<1>5. Width < Moved(k, s) /\ Width < WordSize - Moved(k, s)
  BY <1>2, <1>3, <1>4 DEF Leaves
<1>6. Moved(k, s) \in 0 .. WordSize - 1 /\ Spread(t) \in 0 .. WordSize - 1
  BY <1>1, MovedIsSample, SpreadIsSample
<1>7. ~Holds(Probed, (Spread(t) + Moved(k, s)) % WordSize)
  BY <1>5, <1>6, WideMoveLeaves
<1> QED
  BY <1>1, <1>7, SpreadMoves

\* What the invariant gives the steps.
LEMMA IInvTypes ==
  ASSUME IInv
  PROVE  /\ WordSize \in Nat \ {0} /\ counter \in Nat /\ counter < WordSize
         /\ since \in Nat /\ wait \in Nat /\ missed \in Nat /\ MaxMissed \in Nat
         /\ MaxWait \in Nat
  BY ProbeAssumption, WeylAssumption, MaxWaitNat DEF IInv, TypeOK

\* One tick more of the slice that is missed makes room for another wait.
LEMMA LongestGrows ==
  /\ Longest(0) = MaxWait
  /\ \A m \in Nat : /\ Longest(m) \in Nat
                     /\ Longest(m + 1) = Longest(m) + MaxWait + 1
<1>1. MaxWait \in Nat
  BY MaxWaitNat
<1>2. MaxWait * (0 + 1) + 0 = MaxWait
  BY <1>1
<1>3. ASSUME NEW m \in Nat
      PROVE  /\ MaxWait * (m + 1) + m \in Nat
             /\ MaxWait * ((m + 1) + 1) + (m + 1) = (MaxWait * (m + 1) + m) + MaxWait + 1
  <2>1. MaxWait * (m + 1) \in Nat /\ MaxWait * ((m + 1) + 1) = MaxWait * (m + 1) + MaxWait
    BY <1>1
  <2> QED
    BY <1>1, <2>1
<1> QED
  BY <1>2, <1>3 DEF Longest

\* The slice is ahead of whatever tick comes next.
LEMMA SliceAhead ==
  ASSUME NEW t \in Nat
  PROVE  \E k \in 0 .. MaxWait : Holds(Probed, Spread(t + k))
<1>1. PICK k \in 0 .. MaxWait : Holds(Probed, Spread(t + k * 1))
  BY SliceReached, ReturnAssumption
<1>2. k \in Nat /\ t + k * 1 = t + k
  BY MaxWaitNat
<1> QED
  BY <1>1, <1>2

LEMMA InitIInv == Init => IInv
<1> SUFFICES ASSUME Init PROVE IInv
  OBVIOUS
<1>1. WordSize \in Nat \ {0} /\ MaxMissed \in Nat /\ MaxWait \in Nat
  BY ProbeAssumption, WeylAssumption, MaxWaitNat
<1>2. TypeOK /\ wait + missed <= since
  <2>1. probed \in BOOLEAN
    BY DEF Init
  <2>2. counter \in 0 .. WordSize - 1 /\ missed \in 0 .. MaxMissed
    BY <1>1 DEF Init
  <2> QED
    BY <2>1, <2>2 DEF Init, TypeOK
<1>3. Due
  <2>1. PICK k \in 0 .. MaxWait : Holds(Probed, Spread(0 + k))
    BY SliceAhead
  <2>2. k + since <= Longest(missed)
    BY <1>1, LongestGrows DEF Init
  <2> QED
    BY <2>1, <2>2 DEF Init, Due
<1>4. Since
  BY DEF Init, Since
<1> QED
  BY <1>2, <1>3, <1>4 DEF IInv

LEMMA NextTickCases ==
  ASSUME NEW t \in 0 .. WordSize - 1
  PROVE  /\ NextTick(t) \in 0 .. WordSize - 1
         /\ \E y \in 0 .. 1 : WordSize * y + NextTick(t) = t + 1
<1>1. WordSize \in Nat \ {0}
  BY WeylAssumption
<1>2. CASE t + 1 < WordSize
  BY <1>1, <1>2 DEF NextTick
<1>3. CASE t + 1 = WordSize
  <2>1. (WordSize * 1 + 0) % WordSize = 0 % WordSize
    BY WholeTurns
  <2>2. NextTick(t) = 0
    BY <2>1, <1>1, <1>3 DEF NextTick
  <2> QED
    BY <2>2, <1>1, <1>3
<1> QED
  BY <1>1, <1>2, <1>3

\* Whole turns of the counter do not change the sample.
LEMMA SpreadTurns ==
  ASSUME NEW t \in Nat, NEW z \in Nat
  PROVE  Spread(WordSize * z + t) = Spread(t)
<1> DEFINE a == t * WeylStep
           b == z * WeylStep
           u == WordSize * z
<1>1. a \in Nat /\ b \in Nat /\ u \in Nat /\ WeylStep \in Nat /\ WordSize \in Nat
  BY WeylAssumption
<1>2. u * WeylStep = WordSize * b
  BY <1>1
<1>3. (u + t) * WeylStep = u * WeylStep + t * WeylStep
  <2> HIDE DEF u
  <2> QED
    BY <1>1
<1> HIDE DEF a, b
<1>4. (WordSize * b + a) % WordSize = a % WordSize
  BY <1>1, WholeTurns
<1> QED
  BY <1>2, <1>3, <1>4 DEF Spread, a

\* The slice is still as near after a tick that is not of it.
LEMMA PassedBy ==
  ASSUME IInv, ~Holds(Probed, Spread(counter)), counter' = NextTick(counter),
         since' = since + 1, missed' = missed
  PROVE  Due'
<1>t. counter \in Nat /\ since \in Nat /\ missed \in Nat /\ MaxWait \in Nat
  BY IInvTypes
<1>1. PICK k \in 0 .. MaxWait :
        k + since <= Longest(missed) /\ Holds(Probed, Spread(counter + k))
  BY DEF IInv, Due
<1>2. k # 0
  <2>1. SUFFICES ASSUME k = 0 PROVE FALSE
    OBVIOUS
  <2>2. counter + k = counter
    BY <2>1, <1>t
  <2> QED
    BY <2>2, <1>1
<1>3. k - 1 \in Nat /\ k - 1 \in 0 .. MaxWait /\ counter + 1 + (k - 1) = counter + k
  BY <1>2, <1>t
<1>4. Spread(counter' + (k - 1)) = Spread(counter + k)
  BY <1>3, <1>t, SpreadWraps
<1>5. (k - 1) + since' <= Longest(missed')
  BY <1>1, <1>3, <1>t, LongestGrows
<1> QED
  BY <1>1, <1>3, <1>4, <1>5 DEF Due

\* The last pick is one tick longer ago.
LEMMA LongerAgo ==
  ASSUME IInv, counter' = NextTick(counter), since' = since + 1, probed' = probed
  PROVE  Since'
<1>t. WordSize \in Nat \ {0} /\ counter \in 0 .. WordSize - 1 /\ since \in Nat
  BY IInvTypes
<1>1. SUFFICES ASSUME probed
      PROVE  \E c \in 0 .. WordSize - 1, z \in Nat :
               /\ Holds(Probed, Spread(c))
               /\ WordSize * z + counter' = c + (since' + 1)
  BY DEF Since
<1>2. PICK c \in 0 .. WordSize - 1, z \in Nat :
        Holds(Probed, Spread(c)) /\ WordSize * z + counter = c + (since + 1)
  BY <1>1 DEF IInv, Since
<1>3. PICK y \in 0 .. 1 : WordSize * y + NextTick(counter) = counter + 1
  BY <1>t, NextTickCases
<1>4. WordSize * (z + y) = WordSize * z + WordSize * y /\ z + y \in Nat
  BY <1>t
<1>5. /\ WordSize * z \in Nat /\ WordSize * y \in Nat /\ NextTick(counter) \in Nat
      /\ c \in Nat
  BY <1>t, NextTickCases
<1>6. WordSize * (z + y) + counter' = c + (since' + 1)
  BY <1>2, <1>3, <1>4, <1>5, <1>t
<1> QED
  BY <1>2, <1>4, <1>6

LEMMA OtherModeIInv ==
  ASSUME IInv, OtherMode
  PROVE  IInv'
<1>t. /\ counter \in 0 .. WordSize - 1 /\ counter \in Nat /\ since \in Nat
      /\ wait \in Nat /\ missed \in Nat /\ MaxWait \in Nat /\ MaxMissed \in Nat
      /\ missed <= MaxMissed /\ wait + missed <= since
  BY IInvTypes DEF IInv, TypeOK
<1>s. /\ counter' = NextTick(counter) /\ since' = since + 1
      /\ probed' = probed /\ wait' = wait
  BY DEF OtherMode
<1>c. \/ /\ Holds(Probed, Spread(counter)) /\ missed < MaxMissed
         /\ missed' = missed + 1
      \/ ~Holds(Probed, Spread(counter)) /\ missed' = missed
  BY <1>t, PickIsHolder DEF OtherMode
<1>1. TypeOK' /\ wait' + missed' <= since'
  <2>1. counter' \in 0 .. WordSize - 1
    BY <1>s, <1>t, NextTickCases
  <2>2. missed' \in 0 .. MaxMissed /\ wait' + missed' <= since'
    BY <1>s, <1>c, <1>t
  <2>3. probed' \in BOOLEAN /\ since' \in Nat /\ wait' \in Nat
    <3>1. probed \in BOOLEAN
      BY ZenonT(30) DEF IInv, TypeOK
    <3>2. since' \in Nat /\ wait' \in Nat
      BY <1>s, <1>t
    <3> QED
      BY <3>1, <3>2, <1>s, Zenon
  <2> QED
    BY <2>1, <2>2, <2>3 DEF TypeOK
<1>2. Due'
  <2>1. CASE missed' = missed /\ ~Holds(Probed, Spread(counter))
    BY <2>1, <1>s, PassedBy
  <2>2. CASE missed' = missed + 1
    <3>1. PICK k \in 0 .. MaxWait : k + since <= Longest(missed)
      BY DEF IInv, Due
    <3>2. PICK j \in 0 .. MaxWait : Holds(Probed, Spread(NextTick(counter) + j))
      <4>1. NextTick(counter) \in Nat
        BY <1>t, NextTickCases
      <4> QED
        BY <4>1, SliceAhead
    <3>3. j + since' <= Longest(missed')
      BY <2>2, <3>1, <1>s, <1>t, LongestGrows
    <3> QED
      BY <3>2, <3>3, <1>s DEF Due
  <2> QED
    BY <2>1, <2>2, <1>c
<1>3. Since'
  BY <1>s, LongerAgo
<1> QED
  BY <1>1, <1>2, <1>3 DEF IInv

LEMMA SelectIInv ==
  ASSUME IInv, Select
  PROVE  IInv'
<1>t. /\ WordSize \in Nat \ {0}
      /\ counter \in 0 .. WordSize - 1 /\ counter \in Nat /\ since \in Nat
      /\ wait \in Nat /\ missed \in Nat /\ MaxWait \in Nat /\ MaxMissed \in Nat
      /\ missed <= MaxMissed /\ wait + missed <= since
  BY IInvTypes DEF IInv, TypeOK
<1>s. counter' = NextTick(counter) /\ NextTick(counter) \in 0 .. WordSize - 1
  BY <1>t, NextTickCases DEF Select
<1>c. \/ /\ Holds(Probed, Spread(counter)) /\ probed' = TRUE
         /\ since' = 0 /\ wait' = 0 /\ missed' = 0
      \/ /\ ~Holds(Probed, Spread(counter)) /\ probed' = probed
         /\ since' = since + 1 /\ wait' = wait + 1 /\ missed' = missed
  BY <1>t, PickIsHolder DEF Select
<1>1. TypeOK' /\ wait' + missed' <= since'
  <2>1. since' \in Nat /\ wait' \in Nat /\ missed' \in 0 .. MaxMissed
        /\ wait' + missed' <= since'
    BY <1>c, <1>t
  <2>2. probed' \in BOOLEAN
    BY <1>c, ZenonT(30) DEF IInv, TypeOK
  <2> QED
    BY <1>s, <2>1, <2>2 DEF TypeOK
<1>2. CASE since' = 0 /\ missed' = 0 /\ Holds(Probed, Spread(counter))
  <2>1. Due'
    <3>1. PICK k \in 0 .. MaxWait : Holds(Probed, Spread(NextTick(counter) + k))
      <4>1. NextTick(counter) \in Nat
        BY <1>s
      <4> QED
        BY <4>1, SliceAhead
    <3>2. k + since' <= Longest(missed')
      BY <1>2, <1>t, LongestGrows
    <3> QED
      BY <3>1, <3>2, <1>s DEF Due
  <2>2. Since'
    <3>1. PICK y \in 0 .. 1 : WordSize * y + NextTick(counter) = counter + 1
      BY <1>t, NextTickCases
    <3>2. WordSize * y + counter' = counter + (since' + 1) /\ y \in Nat
      BY <3>1, <1>2, <1>s, <1>t
    <3> QED
      BY <3>2, <1>2, <1>t DEF Since
  <2> QED
    BY <1>1, <2>1, <2>2 DEF IInv
<1>3. CASE /\ ~Holds(Probed, Spread(counter)) /\ probed' = probed
           /\ since' = since + 1 /\ missed' = missed
  BY <1>1, <1>3, <1>s, PassedBy, LongerAgo DEF IInv
<1> QED
  BY <1>2, <1>3, <1>c

LEMMA NextIInv == IInv /\ [Next]_vars => IInv'
<1> SUFFICES ASSUME IInv, [Next]_vars PROVE IInv'
  OBVIOUS
<1>1. CASE OtherMode
  BY <1>1, OtherModeIInv
<1>2. CASE Select
  BY <1>2, SelectIInv
<1>3. CASE UNCHANGED vars
  BY <1>3 DEF vars, IInv, TypeOK, Due, Since
<1> QED
  BY <1>1, <1>2, <1>3 DEF Next

LEMMA SpecIInv == Spec => []IInv
  BY InitIInv, NextIInv, PTL DEF Spec

\* The counter stays in its word, whatever the two modes do (router.rs
\* next_tick).
THEOREM ScheduleTypes == Spec => []TypeOK
<1>1. IInv => TypeOK
  BY DEF IInv
<1> QED
  BY <1>1, SpecIInv, PTL

\* Under no interleaving of the two modes is the floor candidate passed over
\* for longer than Slack times the inverse of its share, once over for each
\* tick of its slice that the other mode took (router.rs select_candidate).
THEOREM ProbesComeInTime == Spec => []ProbedInProportion
<1>1. IInv => ProbedInProportion
  <2>1. SUFFICES ASSUME IInv PROVE ProbedInProportion
    OBVIOUS
  <2>t. /\ wait \in Nat /\ since \in Nat /\ missed \in Nat /\ MaxWait \in Nat
        /\ wait + missed <= since
    BY <2>1, IInvTypes DEF IInv
  <2> DEFINE w == MaxWait * (missed + 1)
             b == Slack * Total
  <2>2. wait <= w /\ w \in Nat
    <3>1. since <= w + missed /\ w \in Nat
      <4>1. PICK k \in 0 .. MaxWait : k + since <= MaxWait * (missed + 1) + missed
        BY <2>1 DEF IInv, Due, Longest
      <4>2. w \in Nat
        BY <2>t
      <4> HIDE DEF w
      <4>3. k + since <= w + missed
        BY <4>1 DEF w
      <4> QED
        BY <4>2, <4>3, <2>t
    <3> HIDE DEF w
    <3> QED
      BY <3>1, <2>t
  <2>3. /\ MaxWait * Floor <= b /\ Floor \in Nat /\ b \in Nat
        /\ Slack \in Nat /\ Total \in Nat
    BY MaxWaitNat, SliceOfProbed, ProbeAssumption
  <2>4. wait * Floor <= w * Floor
    <3> HIDE DEF w
    <3> QED
      BY <2>2, <2>3, <2>t
  <2>5. w * Floor = (missed + 1) * (MaxWait * Floor)
    BY <2>3, <2>t
  <2>6. (missed + 1) * (MaxWait * Floor) <= (missed + 1) * b
    <3> DEFINE x == MaxWait * Floor
    <3>1. x \in Nat
      BY <2>3, <2>t
    <3>2. x <= b
      BY <2>3
    <3> HIDE DEF x, b
    <3>3. (missed + 1) * x <= (missed + 1) * b
      BY <3>1, <3>2, <2>3, <2>t
    <3> QED
      BY <3>3 DEF x
  <2>7. (missed + 1) * Slack * Total = (missed + 1) * b
    BY <2>3, <2>t
  <2>8. wait * Floor <= (missed + 1) * b
    <3>1. /\ wait * Floor \in Nat /\ w * Floor \in Nat
          /\ (missed + 1) * (MaxWait * Floor) \in Nat /\ (missed + 1) * b \in Nat
      BY <2>2, <2>3, <2>t
    <3> HIDE DEF w, b
    <3> QED
      BY <2>4, <2>5, <2>6, <3>1
  <2> QED
    BY <2>7, <2>8 DEF ProbedInProportion
<1> QED
  BY <1>1, SpecIInv, PTL

\* Between two picks of it by one mode the alias gets a fair number of
\* requests, whatever the other mode does: the two ticks are in one slice, and
\* few moves do not lead back into it (router.rs select_candidate).
THEOREM ProbesStayApart == Spec => ProbesSpread
<1> DEFINE A == probed /\ since' = 0 => (since + 1) * Slack * Floor >= Total
<1>1. IInv /\ [Next]_vars => [A]_vars
  <2>1. SUFFICES ASSUME IInv, Next, probed, since' = 0
        PROVE  (since + 1) * Slack * Floor >= Total
    OBVIOUS
  <2>t. WordSize \in Nat \ {0} /\ counter \in Nat /\ since \in Nat
    BY <2>1, IInvTypes
  <2>2. since' # since + 1
    BY <2>1, <2>t
  <2>3. Holds(Probed, Spread(counter))
    <3>1. Pick(counter) = Probed
      BY <2>1, <2>2 DEF Next, OtherMode, Select
    <3> QED
      BY <3>1, <2>t, PickIsHolder
  <2>4. PICK c \in 0 .. WordSize - 1, z \in Nat :
          Holds(Probed, Spread(c)) /\ WordSize * z + counter = c + (since + 1)
    BY <2>1 DEF IInv, Since
  <2>5. Spread(c + (since + 1)) = Spread(counter)
    BY <2>4, <2>t, SpreadTurns
  <2>6. since + 1 \in Nat \ {0} /\ c \in Nat /\ c + (since + 1) * 1 = c + (since + 1)
    BY <2>t
  <2> QED
    BY <2>3, <2>4, <2>5, <2>6, LeaveAssumption, NotSoon
<1> QED
  BY <1>1, SpecIInv, PTL DEF Spec, ProbesSpread

-----------------------------------------------------------------------------
(***************************************************************************)
(* The numbers of src/router.rs meet the assumptions on the step, for all  *)
(* aliases of up to twenty candidates at the full weight.  The tables list *)
(* the requests after which the sequence comes closest to where it was:    *)
(* Fibonacci numbers at stride 1, as the step is close to WordSize / phi.  *)
(***************************************************************************)

\* A 64-bit counter, WEYL_STEP, and WEIGHT_RESOLUTION * PROBE_FLOOR.
CodeNumbers ==
  /\ WordSize = 18446744073709551616
  /\ WeylStep = 11400714819323198485
  /\ Floor = 10

\* p requests move ahead and q move back, by no more than the slice, and
\* together they are few.
Meets(p, q, s) ==
  /\ {p, q, s} \subseteq Nat \ {0}
  /\ Moved(p, s) > 0
  /\ Moved(p, s) * Total <= Floor * WordSize
  /\ (WordSize - Moved(q, s)) * Total <= Floor * WordSize
  /\ Floor * (p + q - 1) <= Slack * Total

LEMMA MeetsReturns ==
  ASSUME NEW p, NEW q, NEW s, Meets(p, q, s)
  PROVE  Returns(s)
<1> DEFINE T == Total
           F == Floor * WordSize
           d == Moved(p, s)
           e == WordSize - Moved(q, s)
           b == Slack * T
           n == p + q - 1
<1>1. p \in Nat \ {0} /\ q \in Nat \ {0} /\ s \in Nat
  BY DEF Meets
<1>2. /\ T \in Nat \ {0} /\ Floor \in Nat \ {0} /\ Slack \in Nat
      /\ WordSize \in Nat
  BY SliceOfProbed, ProbeAssumption, WeylAssumption
<1>3. Moved(p, s) \in 0 .. WordSize - 1 /\ Moved(q, s) \in 0 .. WordSize - 1
  BY <1>1, MovedIsSample
<1>4. d \in Nat \ {0} /\ e \in Nat /\ d * T <= F /\ e * T <= F
  BY <1>2, <1>3 DEF Meets
<1>5. Width \in Int /\ d <= Width /\ e <= Width
  BY <1>2, <1>4, WidthRounds DEF Width
<1>6. b \in Nat /\ n \in Nat /\ Floor * n <= b
  BY <1>1, <1>2 DEF Meets
<1>7. p + q = n + 1
  BY <1>1
<1> HIDE DEF b, n
<1>8. n <= (b \div Floor) /\ (b \div Floor) \in Nat
  BY <1>2, <1>6
<1>9. n <= MaxWait /\ MaxWait \in Nat
  BY <1>8 DEF MaxWait, b
<1>10. p + q <= MaxWait + 1 /\ p \in 1 .. MaxWait /\ q \in 1 .. MaxWait
  BY <1>1, <1>6, <1>7, <1>9
<1>11. d \in 1 .. Width
  BY <1>4, <1>5
<1> QED
  BY <1>5, <1>10, <1>11 DEF Returns

LEMMA ReturnsAt1 ==
  ASSUME CodeNumbers, 10 <= Total, Total <= 20000, Slack >= 3
  PROVE  Returns(1)
<1>t. Total \in Nat
  BY SliceOfProbed
<1>s. Slack * Total \in Nat /\ 3 * Total <= Slack * Total
  BY <1>t, ProbeAssumption
<1>1. Total \in 10 .. 26 => Meets(2, 1, 1)
  BY SMT, <1>s, <1>t DEF CodeNumbers, Meets, Moved
<1>2. Total \in 27 .. 68 => Meets(5, 3, 1)
  BY SMT, <1>s, <1>t DEF CodeNumbers, Meets, Moved
<1>3. Total \in 69 .. 179 => Meets(13, 8, 1)
  BY SMT, <1>s, <1>t DEF CodeNumbers, Meets, Moved
<1>4. Total \in 180 .. 469 => Meets(34, 21, 1)
  BY SMT, <1>s, <1>t DEF CodeNumbers, Meets, Moved
<1>5. Total \in 470 .. 760 => Meets(34, 55, 1)
  BY SMT, <1>s, <1>t DEF CodeNumbers, Meets, Moved
<1>6. Total \in 761 .. 1229 => Meets(89, 55, 1)
  BY SMT, <1>s, <1>t DEF CodeNumbers, Meets, Moved
<1>7. Total \in 1230 .. 1990 => Meets(89, 144, 1)
  BY SMT, <1>s, <1>t DEF CodeNumbers, Meets, Moved
<1>8. Total \in 1991 .. 3219 => Meets(233, 144, 1)
  BY SMT, <1>s, <1>t DEF CodeNumbers, Meets, Moved
<1>9. Total \in 3220 .. 5210 => Meets(233, 377, 1)
  BY SMT, <1>s, <1>t DEF CodeNumbers, Meets, Moved
<1>10. Total \in 5211 .. 8429 => Meets(610, 377, 1)
  BY SMT, <1>s, <1>t DEF CodeNumbers, Meets, Moved
<1>11. Total \in 8430 .. 13640 => Meets(610, 987, 1)
  BY SMT, <1>s, <1>t DEF CodeNumbers, Meets, Moved
<1>12. Total \in 13641 .. 20000 => Meets(1597, 987, 1)
  BY SMT, <1>s, <1>t DEF CodeNumbers, Meets, Moved
<1>m. \A p, q : Meets(p, q, 1) => Returns(1)
  BY MeetsReturns
<1> QED
  BY <1>t, <1>1, <1>2, <1>3, <1>4, <1>5, <1>6, <1>7, <1>8, <1>9, <1>10,
     <1>11, <1>12, <1>m

LEMMA ReturnsAt2 ==
  ASSUME CodeNumbers, 10 <= Total, Total <= 20000, Slack >= 3
  PROVE  Returns(2)
<1>t. Total \in Nat
  BY SliceOfProbed
<1>s. Slack * Total \in Nat /\ 3 * Total <= Slack * Total
  BY <1>t, ProbeAssumption
<1>1. Total \in 10 .. 34 => Meets(1, 3, 2)
  BY SMT, <1>s, <1>t DEF CodeNumbers, Meets, Moved
<1>2. Total \in 35 .. 55 => Meets(5, 4, 2)
  BY SMT, <1>s, <1>t DEF CodeNumbers, Meets, Moved
<1>3. Total \in 56 .. 145 => Meets(13, 4, 2)
  BY SMT, <1>s, <1>t DEF CodeNumbers, Meets, Moved
<1>4. Total \in 146 .. 234 => Meets(17, 21, 2)
  BY SMT, <1>s, <1>t DEF CodeNumbers, Meets, Moved
<1>5. Total \in 235 .. 339 => Meets(17, 38, 2)
  BY SMT, <1>s, <1>t DEF CodeNumbers, Meets, Moved
<1>6. Total \in 340 .. 760 => Meets(17, 72, 2)
  BY SMT, <1>s, <1>t DEF CodeNumbers, Meets, Moved
<1>7. Total \in 761 .. 995 => Meets(89, 72, 2)
  BY SMT, <1>s, <1>t DEF CodeNumbers, Meets, Moved
<1>8. Total \in 996 .. 1440 => Meets(161, 72, 2)
  BY SMT, <1>s, <1>t DEF CodeNumbers, Meets, Moved
<1>9. Total \in 1441 .. 3219 => Meets(305, 72, 2)
  BY SMT, <1>s, <1>t DEF CodeNumbers, Meets, Moved
<1>10. Total \in 3220 .. 4214 => Meets(305, 377, 2)
  BY SMT, <1>s, <1>t DEF CodeNumbers, Meets, Moved
<1>11. Total \in 4215 .. 6099 => Meets(305, 682, 2)
  BY SMT, <1>s, <1>t DEF CodeNumbers, Meets, Moved
<1>12. Total \in 6100 .. 13640 => Meets(305, 1292, 2)
  BY SMT, <1>s, <1>t DEF CodeNumbers, Meets, Moved
<1>13. Total \in 13641 .. 17855 => Meets(1597, 1292, 2)
  BY SMT, <1>s, <1>t DEF CodeNumbers, Meets, Moved
<1>14. Total \in 17856 .. 20000 => Meets(2889, 1292, 2)
  BY SMT, <1>s, <1>t DEF CodeNumbers, Meets, Moved
<1>m. \A p, q : Meets(p, q, 2) => Returns(2)
  BY MeetsReturns
<1> QED
  BY <1>t, <1>1, <1>2, <1>3, <1>4, <1>5, <1>6, <1>7, <1>8, <1>9, <1>10,
     <1>11, <1>12, <1>13, <1>14, <1>m

LEMMA ReturnsAt3 ==
  ASSUME CodeNumbers, 10 <= Total, Total <= 20000, Slack >= 3
  PROVE  Returns(3)
<1>t. Total \in Nat
  BY SliceOfProbed
<1>s. Slack * Total \in Nat /\ 3 * Total <= Slack * Total
  BY <1>t, ProbeAssumption
<1>1. Total \in 10 .. 17 => Meets(3, 1, 3)
  BY SMT, <1>s, <1>t DEF CodeNumbers, Meets, Moved
<1>2. Total \in 18 .. 36 => Meets(5, 1, 3)
  BY SMT, <1>s, <1>t DEF CodeNumbers, Meets, Moved
<1>3. Total \in 37 .. 68 => Meets(6, 1, 3)
  BY SMT, <1>s, <1>t DEF CodeNumbers, Meets, Moved
<1>4. Total \in 69 .. 96 => Meets(13, 7, 3)
  BY SMT, <1>s, <1>t DEF CodeNumbers, Meets, Moved
<1>5. Total \in 97 .. 121 => Meets(20, 7, 3)
  BY SMT, <1>s, <1>t DEF CodeNumbers, Meets, Moved
<1>6. Total \in 122 .. 164 => Meets(27, 7, 3)
  BY SMT, <1>s, <1>t DEF CodeNumbers, Meets, Moved
<1>7. Total \in 165 .. 469 => Meets(41, 7, 3)
  BY SMT, <1>s, <1>t DEF CodeNumbers, Meets, Moved
<1>8. Total \in 470 .. 663 => Meets(89, 48, 3)
  BY SMT, <1>s, <1>t DEF CodeNumbers, Meets, Moved
<1>9. Total \in 664 .. 835 => Meets(137, 48, 3)
  BY SMT, <1>s, <1>t DEF CodeNumbers, Meets, Moved
<1>10. Total \in 836 .. 1128 => Meets(185, 48, 3)
  BY SMT, <1>s, <1>t DEF CodeNumbers, Meets, Moved
<1>11. Total \in 1129 .. 3219 => Meets(281, 48, 3)
  BY SMT, <1>s, <1>t DEF CodeNumbers, Meets, Moved
<1>12. Total \in 3220 .. 4546 => Meets(610, 329, 3)
  BY SMT, <1>s, <1>t DEF CodeNumbers, Meets, Moved
<1>13. Total \in 4547 .. 5726 => Meets(939, 329, 3)
  BY SMT, <1>s, <1>t DEF CodeNumbers, Meets, Moved
<1>14. Total \in 5727 .. 7732 => Meets(1268, 329, 3)
  BY SMT, <1>s, <1>t DEF CodeNumbers, Meets, Moved
<1>15. Total \in 7733 .. 20000 => Meets(1926, 329, 3)
  BY SMT, <1>s, <1>t DEF CodeNumbers, Meets, Moved
<1>m. \A p, q : Meets(p, q, 3) => Returns(3)
  BY MeetsReturns
<1> QED
  BY <1>t, <1>1, <1>2, <1>3, <1>4, <1>5, <1>6, <1>7, <1>8, <1>9, <1>10,
     <1>11, <1>12, <1>13, <1>14, <1>15, <1>m

LEMMA ReturnsAt4 ==
  ASSUME CodeNumbers, 10 <= Total, Total <= 20000, Slack >= 4
  PROVE  Returns(4)
<1>t. Total \in Nat
  BY SliceOfProbed
<1>s. Slack * Total \in Nat /\ 4 * Total <= Slack * Total
  BY <1>t, ProbeAssumption
<1>1. Total \in 10 .. 24 => Meets(3, 2, 4)
  BY SMT, <1>s, <1>t DEF CodeNumbers, Meets, Moved
<1>2. Total \in 25 .. 40 => Meets(9, 2, 4)
  BY SMT, <1>s, <1>t DEF CodeNumbers, Meets, Moved
<1>3. Total \in 41 .. 121 => Meets(15, 2, 4)
  BY SMT, <1>s, <1>t DEF CodeNumbers, Meets, Moved
<1>4. Total \in 122 .. 339 => Meets(17, 19, 4)
  BY SMT, <1>s, <1>t DEF CodeNumbers, Meets, Moved
<1>5. Total \in 340 .. 497 => Meets(89, 36, 4)
  BY SMT, <1>s, <1>t DEF CodeNumbers, Meets, Moved
<1>6. Total \in 498 .. 720 => Meets(161, 36, 4)
  BY SMT, <1>s, <1>t DEF CodeNumbers, Meets, Moved
<1>7. Total \in 721 .. 1302 => Meets(233, 36, 4)
  BY SMT, <1>s, <1>t DEF CodeNumbers, Meets, Moved
<1>8. Total \in 1303 .. 3219 => Meets(305, 36, 4)
  BY SMT, <1>s, <1>t DEF CodeNumbers, Meets, Moved
<1>9. Total \in 3220 .. 6820 => Meets(305, 646, 4)
  BY SMT, <1>s, <1>t DEF CodeNumbers, Meets, Moved
<1>10. Total \in 6821 .. 8927 => Meets(1597, 646, 4)
  BY SMT, <1>s, <1>t DEF CodeNumbers, Meets, Moved
<1>11. Total \in 8928 .. 12920 => Meets(2889, 646, 4)
  BY SMT, <1>s, <1>t DEF CodeNumbers, Meets, Moved
<1>12. Total \in 12921 .. 20000 => Meets(4181, 646, 4)
  BY SMT, <1>s, <1>t DEF CodeNumbers, Meets, Moved
<1>m. \A p, q : Meets(p, q, 4) => Returns(4)
  BY MeetsReturns
<1> QED
  BY <1>t, <1>1, <1>2, <1>3, <1>4, <1>5, <1>6, <1>7, <1>8, <1>9, <1>10,
     <1>11, <1>12, <1>m

\* k requests move by at least g from every turn of the word, ahead or back,
\* and that is more than the slice.
Clears(k, s, g) ==
  /\ {k, s, g} \subseteq Nat
  /\ \A m \in Int : \/ k * s * WeylStep - m * WordSize >= g
                    \/ k * s * WeylStep - m * WordSize <= -g
  /\ Floor * WordSize < g * Total

LEMMA ClearsLeaves ==
  ASSUME NEW k, NEW s, NEW g, Clears(k, s, g)
  PROVE  Width < Moved(k, s) /\ Width < WordSize - Moved(k, s)
<1> DEFINE T == Total
           F == Floor * WordSize
           a == k * s * WeylStep
           d == Moved(k, s)
           e == WordSize - Moved(k, s)
<1>1. k \in Nat /\ s \in Nat /\ g \in Nat
  BY DEF Clears
<1>2. T \in Nat \ {0} /\ F \in Nat /\ Width \in Int
  <2>1. T \in Nat \ {0} /\ Floor \in Nat /\ WordSize \in Nat
    BY SliceOfProbed, WeylAssumption
  <2> QED
    BY <2>1 DEF Width
<1>3. a \in Nat /\ WordSize \in Nat \ {0} /\ d \in 0 .. WordSize - 1
  BY <1>1, MovedIsSample, WeylAssumption
<1>4. d \in Nat /\ e \in Nat /\ d + e = WordSize
  BY <1>3
<1>5. PICK m \in Nat : a = WordSize * m + d
  BY <1>3, Turns DEF Moved
<1>6. \A z \in Int : a - z * WordSize >= g \/ a - z * WordSize <= -g
  BY DEF Clears
<1> HIDE DEF a, d, e
<1>7. d >= g \/ d <= -g
  <2>1. a - m * WordSize = d /\ m \in Int
    BY <1>3, <1>4, <1>5
  <2> QED
    BY <1>6, <2>1
<1>8. -e >= g \/ -e <= -g
  <2>1. a - (m + 1) * WordSize = -e /\ m + 1 \in Int
    BY <1>3, <1>4, <1>5
  <2> QED
    BY <1>6, <2>1
<1>9. g <= d /\ g <= e
  BY <1>1, <1>3, <1>4, <1>7, <1>8
<1>10. F < g * T
  BY DEF Clears
<1> HIDE DEF T, F
<1>11. g * T <= d * T /\ g * T <= e * T
  BY <1>1, <1>2, <1>4, <1>9
<1>12. g * T \in Nat /\ d * T \in Nat /\ e * T \in Nat
  BY <1>1, <1>2, <1>4
<1>13. ~(d * T <= F) /\ ~(e * T <= F)
  BY <1>2, <1>10, <1>11, <1>12
<1>14. ~(d <= Width) /\ ~(e <= Width)
  BY <1>4, <1>13, WidthRounds DEF T, F
<1> QED
  BY <1>2, <1>4, <1>14 DEF d, e

LEMMA LeavesAt1 ==
  ASSUME CodeNumbers, Total <= 20000, Slack >= 3
  PROVE  Leaves(1)
<1>t. Total \in Nat /\ Slack \in Nat
  BY SliceOfProbed, ProbeAssumption
<1>k. SUFFICES ASSUME NEW k \in 1 .. Total, k * Slack * Floor < Total
               PROVE  Width < Moved(k, 1) /\ Width < WordSize - Moved(k, 1)
  BY DEF Leaves
<1>f. k \in Nat /\ 1 <= k /\ k <= 666 /\ 30 * k < Total
  <2>1. k \in Nat /\ 1 <= k
    BY <1>t
  <2>2. k * 3 <= k * Slack /\ k * Slack \in Nat
    BY SMT, <1>t, <2>1
  <2>3. k * Slack * Floor = (k * Slack) * 10
    BY SMT, <2>2 DEF CodeNumbers
  <2> QED
    BY SMT, <1>k, <1>t, <2>1, <2>2, <2>3
<1>1. k \in 1 .. 1 => Clears(k, 1, 7000000000000000000)
  BY SMT, <1>f, <1>t DEF CodeNumbers, Clears
<1>2. k \in 2 .. 2 => Clears(k, 1, 4000000000000000000)
  BY SMT, <1>f, <1>t DEF CodeNumbers, Clears
<1>3. k \in 3 .. 3 => Clears(k, 1, 2600000000000000000)
  BY SMT, <1>f, <1>t DEF CodeNumbers, Clears
<1>4. k \in 4 .. 5 => Clears(k, 1, 1600000000000000000)
  BY SMT, <1>f, <1>t DEF CodeNumbers, Clears
<1>5. k \in 6 .. 9 => Clears(k, 1, 1020000000000000000)
  BY SMT, <1>f, <1>t DEF CodeNumbers, Clears
<1>6. k \in 10 .. 15 => Clears(k, 1, 630000000000000000)
  BY SMT, <1>f, <1>t DEF CodeNumbers, Clears
<1>7. k \in 16 .. 25 => Clears(k, 1, 390000000000000000)
  BY SMT, <1>f, <1>t DEF CodeNumbers, Clears
<1>8. k \in 26 .. 40 => Clears(k, 1, 240000000000000000)
  BY SMT, <1>f, <1>t DEF CodeNumbers, Clears
<1>9. k \in 41 .. 66 => Clears(k, 1, 149900000000000000)
  BY SMT, <1>f, <1>t DEF CodeNumbers, Clears
<1>10. k \in 67 .. 107 => Clears(k, 1, 92000000000000000)
  BY SMT, <1>f, <1>t DEF CodeNumbers, Clears
<1>11. k \in 108 .. 173 => Clears(k, 1, 57000000000000000)
  BY SMT, <1>f, <1>t DEF CodeNumbers, Clears
<1>12. k \in 174 .. 280 => Clears(k, 1, 35400000000000000)
  BY SMT, <1>f, <1>t DEF CodeNumbers, Clears
<1>13. k \in 281 .. 454 => Clears(k, 1, 21880000000000000)
  BY SMT, <1>f, <1>t DEF CodeNumbers, Clears
<1>14. k \in 455 .. 666 => Clears(k, 1, 13520000000000000)
  BY SMT, <1>f, <1>t DEF CodeNumbers, Clears
<1>c. \A g : Clears(k, 1, g) =>
        Width < Moved(k, 1) /\ Width < WordSize - Moved(k, 1)
  BY ClearsLeaves
<1> QED
  BY SMT, <1>f, <1>1, <1>2, <1>3, <1>4, <1>5, <1>6, <1>7, <1>8, <1>9,
     <1>10, <1>11, <1>12, <1>13, <1>14, <1>c

LEMMA LeavesAt2 ==
  ASSUME CodeNumbers, Total <= 20000, Slack >= 5
  PROVE  Leaves(2)
<1>t. Total \in Nat /\ Slack \in Nat
  BY SliceOfProbed, ProbeAssumption
<1>k. SUFFICES ASSUME NEW k \in 1 .. Total, k * Slack * Floor < Total
               PROVE  Width < Moved(k, 2) /\ Width < WordSize - Moved(k, 2)
  BY DEF Leaves
<1>f. k \in Nat /\ 1 <= k /\ k <= 399 /\ 50 * k < Total
  <2>1. k \in Nat /\ 1 <= k
    BY <1>t
  <2>2. k * 5 <= k * Slack /\ k * Slack \in Nat
    BY SMT, <1>t, <2>1
  <2>3. k * Slack * Floor = (k * Slack) * 10
    BY SMT, <2>2 DEF CodeNumbers
  <2> QED
    BY SMT, <1>k, <1>t, <2>1, <2>2, <2>3
<1>1. k \in 1 .. 3 => Clears(k, 2, 4000000000000000000)
  BY SMT, <1>f, <1>t DEF CodeNumbers, Clears
<1>2. k \in 4 .. 15 => Clears(k, 2, 1000000000000000000)
  BY SMT, <1>f, <1>t DEF CodeNumbers, Clears
<1>3. k \in 16 .. 64 => Clears(k, 2, 240000000000000000)
  BY SMT, <1>f, <1>t DEF CodeNumbers, Clears
<1>4. k \in 65 .. 272 => Clears(k, 2, 57000000000000000)
  BY SMT, <1>f, <1>t DEF CodeNumbers, Clears
<1>5. k \in 273 .. 399 => Clears(k, 2, 13520000000000000)
  BY SMT, <1>f, <1>t DEF CodeNumbers, Clears
<1>c. \A g : Clears(k, 2, g) =>
        Width < Moved(k, 2) /\ Width < WordSize - Moved(k, 2)
  BY ClearsLeaves
<1> QED
  BY SMT, <1>f, <1>1, <1>2, <1>3, <1>4, <1>5, <1>c

LEMMA LeavesAt3 ==
  ASSUME CodeNumbers, Total <= 20000, Slack >= 7
  PROVE  Leaves(3)
<1>t. Total \in Nat /\ Slack \in Nat
  BY SliceOfProbed, ProbeAssumption
<1>k. SUFFICES ASSUME NEW k \in 1 .. Total, k * Slack * Floor < Total
               PROVE  Width < Moved(k, 3) /\ Width < WordSize - Moved(k, 3)
  BY DEF Leaves
<1>f. k \in Nat /\ 1 <= k /\ k <= 285 /\ 70 * k < Total
  <2>1. k \in Nat /\ 1 <= k
    BY <1>t
  <2>2. k * 7 <= k * Slack /\ k * Slack \in Nat
    BY SMT, <1>t, <2>1
  <2>3. k * Slack * Floor = (k * Slack) * 10
    BY SMT, <2>2 DEF CodeNumbers
  <2> QED
    BY SMT, <1>k, <1>t, <2>1, <2>2, <2>3
<1>1. k \in 1 .. 1 => Clears(k, 3, 2600000000000000000)
  BY SMT, <1>f, <1>t DEF CodeNumbers, Clears
<1>2. k \in 2 .. 6 => Clears(k, 3, 2000000000000000000)
  BY SMT, <1>f, <1>t DEF CodeNumbers, Clears
<1>3. k \in 7 .. 7 => Clears(k, 3, 390000000000000000)
  BY SMT, <1>f, <1>t DEF CodeNumbers, Clears
<1>4. k \in 8 .. 45 => Clears(k, 3, 330000000000000000)
  BY SMT, <1>f, <1>t DEF CodeNumbers, Clears
<1>5. k \in 46 .. 53 => Clears(k, 3, 57280000000000000)
  BY SMT, <1>f, <1>t DEF CodeNumbers, Clears
<1>6. k \in 54 .. 285 => Clears(k, 3, 48900000000000000)
  BY SMT, <1>f, <1>t DEF CodeNumbers, Clears
<1>c. \A g : Clears(k, 3, g) =>
        Width < Moved(k, 3) /\ Width < WordSize - Moved(k, 3)
  BY ClearsLeaves
<1> QED
  BY SMT, <1>f, <1>1, <1>2, <1>3, <1>4, <1>5, <1>6, <1>c

LEMMA LeavesAt4 ==
  ASSUME CodeNumbers, Total <= 20000, Slack >= 9
  PROVE  Leaves(4)
<1>t. Total \in Nat /\ Slack \in Nat
  BY SliceOfProbed, ProbeAssumption
<1>k. SUFFICES ASSUME NEW k \in 1 .. Total, k * Slack * Floor < Total
               PROVE  Width < Moved(k, 4) /\ Width < WordSize - Moved(k, 4)
  BY DEF Leaves
<1>f. k \in Nat /\ 1 <= k /\ k <= 222 /\ 90 * k < Total
  <2>1. k \in Nat /\ 1 <= k
    BY <1>t
  <2>2. k * 9 <= k * Slack /\ k * Slack \in Nat
    BY SMT, <1>t, <2>1
  <2>3. k * Slack * Floor = (k * Slack) * 10
    BY SMT, <2>2 DEF CodeNumbers
  <2> QED
    BY SMT, <1>k, <1>t, <2>1, <2>2, <2>3
<1>1. k \in 1 .. 1 => Clears(k, 4, 8000000000000000000)
  BY SMT, <1>f, <1>t DEF CodeNumbers, Clears
<1>2. k \in 2 .. 4 => Clears(k, 4, 1020000000000000000)
  BY SMT, <1>f, <1>t DEF CodeNumbers, Clears
<1>3. k \in 5 .. 35 => Clears(k, 4, 480000000000000000)
  BY SMT, <1>f, <1>t DEF CodeNumbers, Clears
<1>4. k \in 36 .. 222 => Clears(k, 4, 57000000000000000)
  BY SMT, <1>f, <1>t DEF CodeNumbers, Clears
<1>c. \A g : Clears(k, 4, g) =>
        Width < Moved(k, 4) /\ Width < WordSize - Moved(k, 4)
  BY ClearsLeaves
<1> QED
  BY SMT, <1>f, <1>1, <1>2, <1>3, <1>4, <1>c

\* With router.rs' own counter and step the moves Returns asks for exist: for
\* a step of one tick, which is the assumption on Slack made above, and for
\* two, three and four.
THEOREM CodeStepReturns ==
  ASSUME CodeNumbers, Total <= 20000, NEW s \in 1 .. 4,
         Slack >= 3, s = 4 => Slack >= 4
  PROVE  Returns(s)
<1>1. 10 <= Total
  <2>1. /\ Total \in Nat /\ Floor \in Nat /\ UpTo[Probed - 1] \in Nat
        /\ UpTo[Probed - 1] + Floor <= Total
    BY SliceOfProbed
  <2>2. Floor <= Total
    BY <2>1
  <2>3. Floor = 10
    BY SMT DEF CodeNumbers
  <2> QED
    BY <2>1, <2>2, <2>3
<1>2. s = 1 \/ s = 2 \/ s = 3 \/ s = 4
  OBVIOUS
<1> QED
  BY <1>1, <1>2, ReturnsAt1, ReturnsAt2, ReturnsAt3, ReturnsAt4

\* With the same numbers fewer requests than a third, a fifth, a seventh or a
\* ninth of the inverse of the share, for one, two, three and four ticks in
\* turn, do not lead back into the slice.
THEOREM CodeStepLeaves ==
  ASSUME CodeNumbers, Total <= 20000, NEW s \in 1 .. 4, Slack >= 2 * s + 1
  PROVE  Leaves(s)
<1>1. Slack \in Nat
  BY ProbeAssumption
<1>2. s = 1 \/ s = 2 \/ s = 3 \/ s = 4
  OBVIOUS
<1>3. /\ s = 1 => Slack >= 3
      /\ s = 2 => Slack >= 5
      /\ s = 3 => Slack >= 7
      /\ s = 4 => Slack >= 9
  BY <1>1
<1> QED
  BY <1>2, <1>3, LeavesAt1, LeavesAt2, LeavesAt3, LeavesAt4

\* In proportion to its share, the candidate is picked from tick t on by every
\* s-th request.
PickedAhead(t, s) ==
  \E k \in Nat : k * Floor <= Slack * Total /\ Pick(t + k * s) = Probed

\* A subsample whose step returns gets there.
LEMMA ReturningReach ==
  ASSUME NEW t \in Nat, NEW s \in Nat, Returns(s)
  PROVE  PickedAhead(t, s)
<1>1. PICK k \in 0 .. MaxWait : Holds(Probed, Spread(t + k * s))
  BY SliceReached
<1>2. k \in Nat /\ t + k * s \in Nat
  BY MaxWaitNat
<1>3. Pick(t + k * s) = Probed
  BY <1>1, <1>2, PickIsHolder
<1>4. k * Floor <= Slack * Total
  <2>1. /\ MaxWait \in Nat /\ Floor \in Nat /\ Slack * Total \in Nat
        /\ MaxWait * Floor <= Slack * Total
    BY MaxWaitNat, SliceOfProbed, ProbeAssumption
  <2>2. k * Floor <= MaxWait * Floor
    BY <1>1, <1>2, <2>1
  <2>3. k * Floor \in Nat /\ MaxWait * Floor \in Nat
    BY <1>2, <2>1
  <2> QED
    BY <2>1, <2>2, <2>3
<1> QED
  BY <1>2, <1>3, <1>4 DEF PickedAhead

\* Where the modes take regular turns, and every s-th tick is of one mode, that
\* mode waits for the floor candidate no longer than three times the inverse of
\* its share (four times for s = 4), at any point of router.rs' sequence and
\* whatever the other mode took: on such a subsample the comment at the sample
\* is right.
THEOREM RegularTurnsReach ==
  ASSUME CodeNumbers, Total <= 20000, NEW s \in 1 .. 4,
         Slack >= 3, s = 4 => Slack >= 4, NEW t \in Nat
  PROVE  PickedAhead(t, s)
<1>1. Returns(s) /\ s \in Nat /\ t \in Nat
  BY CodeStepReturns
<1> QED
  BY <1>1, ReturningReach, SMT

\* And two picks of it by that mode are no closer than the inverse of its share
\* by 2s + 1.
THEOREM RegularTurnsApart ==
  ASSUME CodeNumbers, Total <= 20000, NEW s \in 1 .. 4, Slack >= 2 * s + 1,
         NEW t \in Nat, NEW k \in Nat \ {0},
         Pick(t) = Probed, Pick(t + k * s) = Probed
  PROVE  k * Slack * Floor >= Total
<1>1. Leaves(s)
  BY CodeStepLeaves
<1>2. t + k * s \in Nat
  OBVIOUS
<1>3. Holds(Probed, Spread(t)) /\ Holds(Probed, Spread(t + k * s))
  BY <1>2, PickIsHolder
<1> QED
  BY <1>1, <1>3, NotSoon

=============================================================================
