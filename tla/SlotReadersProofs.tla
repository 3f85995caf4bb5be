------------------------- MODULE SlotReadersProofs -------------------------
(***************************************************************************)
(* The readers of a slot that moves under them, /status and the check of a *)
(* session-affinity pin, for every alpha, threshold, number of requests    *)
(* and set of modes; first, what every alpha guarantees of the averages.   *)
(***************************************************************************)
EXTENDS SlotReaders, FiniteSetTheorems, WellFoundedInduction, TLAPS

-----------------------------------------------------------------------------
(* What every alpha in [0, 1] guarantees of the averages. *)

\* Division with remainder.
LEMMA DivBounds ==
  ASSUME NEW n \in Nat, NEW d \in Nat \ {0}
  PROVE  n \div d \in Nat /\ (n \div d) * d <= n /\ n < (n \div d) * d + d
OBVIOUS

\* Rounding to the nearest stays within half a divisor.
LEMMA RoundDivNear ==
  ASSUME NEW a \in Nat, NEW b \in Nat \ {0}
  PROVE  /\ RoundDiv(a, b) \in Nat
         /\ RoundDiv(a, b) * (2 * b) <= 2 * a + b
         /\ 2 * a + b < RoundDiv(a, b) * (2 * b) + 2 * b
<1>1. 2 * a + b \in Nat /\ 2 * b \in Nat \ {0}
  OBVIOUS
<1> QED
  BY <1>1, DivBounds DEF RoundDiv

\* A quotient rounded from a value between two multiples lies between them.
LEMMA RoundDivBetween ==
  ASSUME NEW a \in Nat, NEW b \in Nat \ {0}, NEW lo \in Nat, NEW hi \in Nat,
         b * lo <= a, a <= b * hi
  PROVE  RoundDiv(a, b) \in lo .. hi
<1> DEFINE q == RoundDiv(a, b)
<1>1. q \in Nat /\ q * (2 * b) <= 2 * a + b /\ 2 * a + b < q * (2 * b) + 2 * b
  BY RoundDivNear
<1> HIDE DEF q
<1>2. q >= lo
  <2>1. SUFFICES ASSUME q + 1 <= lo PROVE FALSE
    BY <1>1
  <2>2. (2 * b) * (q + 1) <= (2 * b) * lo
    BY <2>1, <1>1
  <2>3. (2 * b) * (q + 1) = q * (2 * b) + 2 * b /\ (2 * b) * lo = 2 * (b * lo)
    BY <1>1
  <2>4. b * lo \in Nat /\ q * (2 * b) \in Nat
    BY <1>1
  <2> QED
    BY <2>2, <2>3, <2>4, <1>1
<1>3. q <= hi
  <2>1. SUFFICES ASSUME q >= hi + 1 PROVE FALSE
    BY <1>1
  <2>2. (2 * b) * (hi + 1) <= (2 * b) * q
    BY <2>1, <1>1
  <2>3. (2 * b) * (hi + 1) = 2 * (b * hi) + 2 * b /\ (2 * b) * q = q * (2 * b)
    BY <1>1
  <2>4. b * hi \in Nat /\ q * (2 * b) \in Nat
    BY <1>1
  <2> QED
    BY <2>2, <2>3, <2>4, <1>1
<1> QED
  BY <1>1, <1>2, <1>3 DEF q

\* update_ewma and record_outcome never leave the interval between the old
\* average and the sample, for every alpha, rounding included.
THEOREM BlendBetween ==
  ASSUME NEW old \in Nat, NEW sample \in Nat
  PROVE  /\ old <= sample => Blend(old, sample) \in old .. sample
         /\ sample <= old => Blend(old, sample) \in sample .. old
<1> DEFINE A == AlphaNum
           B == AlphaDen - AlphaNum
           n == A * sample + B * old
<1>1. A \in Nat /\ B \in Nat /\ AlphaDen = A + B /\ AlphaDen \in Nat \ {0}
  BY EwmaAssumption
<1> HIDE DEF A, B
<1>2. /\ A * sample \in Nat /\ B * old \in Nat /\ A * old \in Nat /\ B * sample \in Nat
      /\ AlphaDen * old = A * old + B * old
      /\ AlphaDen * sample = A * sample + B * sample
  BY <1>1
<1>3. n \in Nat
  BY <1>2
<1>4. ASSUME old <= sample PROVE Blend(old, sample) \in old .. sample
  <2>1. A * old <= A * sample /\ B * old <= B * sample
    BY <1>1, <1>4
  <2>2. AlphaDen * old <= n /\ n <= AlphaDen * sample
    BY <1>2, <2>1
  <2> QED
    BY <1>1, <1>3, <2>2, RoundDivBetween DEF Blend, A, B
<1>5. ASSUME sample <= old PROVE Blend(old, sample) \in sample .. old
  <2>1. A * sample <= A * old /\ B * sample <= B * old
    BY <1>1, <1>5
  <2>2. AlphaDen * sample <= n /\ n <= AlphaDen * old
    BY <1>2, <2>1
  <2> QED
    BY <1>1, <1>3, <2>2, RoundDivBetween DEF Blend, A, B
<1> QED
  BY <1>4, <1>5

\* Hence a latency that has a sample keeps one, between what it was and the
\* new sample, and a rate stays a rate: what SelectCandidate assumes of a
\* tracker that moves under it.
THEOREM AveragesStayInRange ==
  ASSUME NEW old \in Nat, NEW ms \in Nat, NEW r \in 0 .. RateMax, NEW ok \in BOOLEAN
  PROVE  /\ NextLatency(old, ms) \in Nat
         /\ NextLatency(old, ms) # NoSample
         /\ NextRate(r, ok) \in 0 .. RateMax
         /\ ok => NextRate(r, ok) >= r
         /\ ~ok => NextRate(r, ok) <= r
<1>1. old # NoSample /\ RateMax \in Nat
  BY EwmaAssumption
<1>2. Blend(old, ms) \in Nat
  <2>1. Blend(old, ms) \in old .. ms \/ Blend(old, ms) \in ms .. old
    BY BlendBetween
  <2> QED
    BY <2>1
<1>3. NextLatency(old, ms) \in Nat /\ NextLatency(old, ms) # NoSample
  BY <1>1, <1>2, EwmaAssumption DEF NextLatency
<1>4. ASSUME ok PROVE NextRate(r, ok) \in r .. RateMax
  <2>1. Blend(r, RateMax) \in r .. RateMax
    BY <1>1, BlendBetween
  <2> QED
    BY <1>4, <2>1 DEF NextRate
<1>5. ASSUME ~ok PROVE NextRate(r, ok) \in 0 .. r
  <2>1. Blend(r, 0) \in 0 .. r
    BY <1>1, BlendBetween
  <2> QED
    BY <1>5, <2>1 DEF NextRate
<1> QED
  BY <1>1, <1>3, <1>4, <1>5

\* A non-empty set of naturals has a least element.
LEMMA LeastNatural ==
  ASSUME NEW T \in SUBSET Nat, T # {}
  PROVE  \E n \in T : \A m \in T : n <= m
<1> DEFINE R == OpToRel(<, Nat)
<1>1. IsWellFoundedOn(R, Nat)
  BY NatLessThanWellFounded
<1>2. \A x, y \in Nat : x < y => <<x, y>> \in R
  BY DEF OpToRel
<1> HIDE DEF R
<1>3. PICK x \in T : \A y \in T : ~(<<y, x>> \in R)
  BY <1>1, WFMin
<1>4. \A y \in T : ~(y < x)
  BY <1>2, <1>3
<1> QED
  BY <1>4

\* With alpha above zero a sample brings an average closer, unless it is as
\* close as rounding lets it come; and there it stays.
LEMMA SampleBringsCloser ==
  ASSUME AlphaNum > 0, NEW old \in Nat, NEW sample \in Nat
  PROVE  /\ Blend(old, sample) \in Nat
         /\ Settled(old, sample) => Settled(Blend(old, sample), sample)
         /\ ~Settled(old, sample) =>
              Dist(Blend(old, sample), sample) < Dist(old, sample)
<1> DEFINE A == AlphaNum
           B == AlphaDen - AlphaNum
           n == A * sample + B * old
           q == Blend(old, sample)
           d == Dist(old, sample)
<1>1. /\ A \in Nat \ {0} /\ B \in Nat /\ AlphaDen = A + B /\ AlphaDen \in Nat \ {0}
      /\ d \in Nat
  BY EwmaAssumption DEF Dist
<1>2. /\ old <= sample => q \in old .. sample
      /\ sample <= old => q \in sample .. old
  BY BlendBetween
<1>3. q \in Nat /\ Dist(q, sample) \in Nat /\ Dist(q, sample) <= d
  BY <1>2 DEF Dist
<1>4. Settled(old, sample) => Settled(q, sample)
  <2>1. 2 * A * Dist(q, sample) <= 2 * A * d
    <3> DEFINE e == Dist(q, sample)
               a == 2 * A
    <3>1. e \in Nat /\ e <= d /\ a \in Nat
      BY <1>1, <1>3
    <3> HIDE DEF e, a, d
    <3>2. a * e <= a * d
      BY <1>1, <3>1
    <3> QED
      BY <3>2 DEF e, a
  <2>2. 2 * A * Dist(q, sample) \in Nat /\ 2 * A * d \in Nat
    BY <1>1, <1>3
  <2> QED
    BY <2>1, <2>2, <1>1 DEF Settled
<1>5. ASSUME ~Settled(old, sample) PROVE Dist(q, sample) < d
  <2>1. 2 * A * d > AlphaDen /\ A * d \in Nat /\ 2 * A * d = 2 * (A * d)
    BY <1>1, <1>5 DEF Settled
  <2> HIDE DEF A, B
  <2>2. n \in Nat
    BY <1>1
  <2>3. q = RoundDiv(n, AlphaDen)
    BY DEF Blend, A, B
  <2>4. /\ q * (2 * AlphaDen) <= 2 * n + AlphaDen
        /\ 2 * n + AlphaDen < q * (2 * AlphaDen) + 2 * AlphaDen
    BY <1>1, <2>2, <2>3, RoundDivNear
  <2>5. AlphaDen * old = A * old + B * old /\ AlphaDen * old \in Nat
    BY <1>1
  <2>6. CASE old <= sample
    <3>1. d = sample - old /\ Dist(q, sample) = sample - q
      BY <1>2, <2>6, <1>3 DEF Dist
    <3>2. A * sample = A * old + A * d
      BY <1>1, <3>1
    <3>3. n = AlphaDen * old + A * d
      BY <3>2, <2>5, <1>1
    <3> HIDE DEF q, n, d
    <3>4. q > old
      <4>1. SUFFICES ASSUME q <= old PROVE FALSE
        BY <1>3
      <4>2. AlphaDen * q <= AlphaDen * old
        BY <4>1, <1>1, <1>3
      <4>3. q * (2 * AlphaDen) = 2 * (AlphaDen * q) /\ AlphaDen * q \in Nat
        BY <1>1, <1>3
      <4> QED
        BY <4>2, <4>3, <2>1, <2>4, <2>5, <3>3, <1>1
    <3> QED
      BY <3>1, <3>4, <1>3, <1>1
  <2>7. CASE sample <= old
    <3>1. d = old - sample /\ Dist(q, sample) = q - sample
      BY <1>2, <2>7, <1>3 DEF Dist
    <3>2. A * old = A * sample + A * d
      BY <1>1, <3>1
    <3>3. AlphaDen * old = n + A * d
      BY <3>2, <2>5, <1>1
    <3> HIDE DEF q, n, d
    <3>4. q < old
      <4>1. SUFFICES ASSUME old <= q PROVE FALSE
        BY <1>3
      <4>2. AlphaDen * old <= AlphaDen * q
        BY <4>1, <1>1, <1>3
      <4>3. q * (2 * AlphaDen) = 2 * (AlphaDen * q) /\ AlphaDen * q \in Nat
        BY <1>1, <1>3
      <4> QED
        BY <4>2, <4>3, <2>1, <2>2, <2>4, <2>5, <3>3, <1>1
    <3> QED
      BY <3>1, <3>4, <1>3, <1>1
  <2> QED
    BY <2>6, <2>7
<1> QED
  BY <1>3, <1>4, <1>5

\* From its s-th value on, f is an average fed one sample again and again.
Fed(f, s, sample) ==
  /\ f[s] \in Nat
  /\ \A k \in Nat : k >= s => f[k + 1] = Blend(f[k], sample)

\* It settles after no more samples than it was away, and stays settled.
LEMMA FedSettles ==
  ASSUME AlphaNum > 0, NEW sample \in Nat, NEW f, NEW s \in Nat, Fed(f, s, sample)
  PROVE  \A k \in Nat : k >= s + Dist(f[s], sample) =>
                          f[k] \in Nat /\ Settled(f[k], sample)
<1> DEFINE d == Dist(f[s], sample)
           Good(j) == /\ f[s + j] \in Nat
                      /\ \/ Settled(f[s + j], sample)
                         \/ Dist(f[s + j], sample) + j <= d
           Bad == {j \in Nat : ~Good(j)}
<1>1. d \in Nat /\ s + 0 = s /\ f[s] \in Nat
  BY DEF Fed, Dist
<1>2. Good(0)
  BY <1>1
<1>3. ASSUME NEW j \in Nat, Good(j) PROVE Good(j + 1)
  <2> DEFINE g == f[s + j]
             h == f[s + (j + 1)]
  <2>1. g \in Nat /\ (Settled(g, sample) \/ Dist(g, sample) + j <= d)
    BY <1>3
  <2>2. h = Blend(g, sample)
    <3>1. s + j \in Nat /\ s + j >= s /\ (s + j) + 1 = s + (j + 1)
      OBVIOUS
    <3> QED
      BY <3>1 DEF Fed
  <2> SUFFICES h \in Nat /\ (Settled(h, sample) \/ Dist(h, sample) + (j + 1) <= d)
    OBVIOUS
  <2> HIDE DEF d, g, h
  <2>3. /\ h \in Nat
        /\ Settled(g, sample) => Settled(h, sample)
        /\ ~Settled(g, sample) => Dist(h, sample) < Dist(g, sample)
    BY <2>1, <2>2, SampleBringsCloser
  <2>4. Dist(h, sample) \in Nat /\ Dist(g, sample) \in Nat
    BY <2>1, <2>3 DEF Dist
  <2> QED
    BY <2>1, <2>3, <2>4, <1>1
<1>4. Bad = {}
  <2>1. SUFFICES ASSUME Bad # {} PROVE FALSE
    OBVIOUS
  <2>2. PICK m \in Bad : \A j \in Bad : m <= j
    <3>1. Bad \in SUBSET Nat
      OBVIOUS
    <3> HIDE DEF Bad
    <3> QED
      BY <2>1, <3>1, LeastNatural
  <2> HIDE DEF Good
  <2>3. m \in Nat /\ ~Good(m)
    BY <2>2
  <2>4. m # 0
    BY <2>3, <1>2
  <2>5. m - 1 \in Nat /\ m - 1 < m /\ (m - 1) + 1 = m
    BY <2>3, <2>4
  <2>6. m - 1 \notin Bad
    BY <2>2, <2>5
  <2>7. Good(m - 1)
    BY <2>5, <2>6
  <2> QED
    BY <1>3, <2>3, <2>5, <2>7
<1>5. ASSUME NEW k \in Nat, k >= s + d
      PROVE  f[k] \in Nat /\ Settled(f[k], sample)
  <2> DEFINE j == k - s
  <2>1. j \in Nat /\ s + j = k /\ j >= d
    BY <1>1, <1>5
  <2>2. f[k] \in Nat /\ (Settled(f[k], sample) \/ Dist(f[k], sample) + j <= d)
    <3>1. Good(j)
      BY <1>4, <2>1
    <3> HIDE DEF j, d
    <3> QED
      BY <3>1, <2>1
  <2>3. Dist(f[k], sample) \in Nat
    BY <2>2 DEF Dist
  <2>4. ASSUME Dist(f[k], sample) = 0 PROVE Settled(f[k], sample)
    <3>1. 2 * AlphaNum * 0 = 0 /\ 0 <= AlphaDen
      BY EwmaAssumption
    <3> QED
      BY <2>4, <3>1 DEF Settled
  <2> HIDE DEF j, d
  <2> QED
    BY <2>1, <2>2, <2>3, <2>4, <1>1
<1> QED
  BY <1>5

\* After trouble, an average that is fed the truth again comes back to it:
\* a latency after no more samples than it is milliseconds away (a cold one
\* at once), a rate after no more successes than it has steps.  There is no
\* value of the averages from which a candidate does not recover, for any
\* alpha above zero; RoutingLoop's Recovers rests on it.
THEOREM AveragesRecover ==
  ASSUME AlphaNum > 0, NEW ms \in Nat, NEW lat, NEW rates,
         lat[0] \in Nat \cup {NoSample}, rates[0] \in 0 .. RateMax,
         \A k \in Nat : /\ lat[k + 1] = NextLatency(lat[k], ms)
                        /\ rates[k + 1] = NextRate(rates[k], TRUE)
  PROVE  /\ \A k \in Nat : k >= RateMax => Settled(rates[k], RateMax)
         /\ lat[0] # NoSample =>
              \A k \in Nat : k >= Dist(lat[0], ms) =>
                lat[k] # NoSample /\ Settled(lat[k], ms)
         /\ lat[0] = NoSample =>
              \A k \in Nat : k >= 1 => lat[k] # NoSample /\ Settled(lat[k], ms)
<1>1. RateMax \in Nat \ {0} /\ NoSample \notin Nat
  BY EwmaAssumption
<1>2. \A k \in Nat : k >= RateMax => Settled(rates[k], RateMax)
  <2>1. Fed(rates, 0, RateMax)
    BY <1>1 DEF Fed, NextRate
  <2>2. Dist(rates[0], RateMax) \in 0 .. RateMax
    BY <1>1 DEF Dist
  <2>3. \A k \in Nat : k >= 0 + Dist(rates[0], RateMax) => Settled(rates[k], RateMax)
    BY <1>1, <2>1, FedSettles
  <2> HIDE DEF Settled
  <2> QED
    BY <1>1, <2>2, <2>3
\* A slot that has a sample is never cold again.
<1>3. ASSUME NEW s \in Nat, lat[s] \in Nat
      PROVE  Fed(lat, s, ms)
  <2> DEFINE Cooled == {j \in Nat : j >= s /\ lat[j] \notin Nat}
  <2>1. Cooled = {}
    <3>1. SUFFICES ASSUME Cooled # {} PROVE FALSE
      OBVIOUS
    <3>2. PICK m \in Cooled : \A j \in Cooled : m <= j
      <4>1. Cooled \in SUBSET Nat
        OBVIOUS
      <4> HIDE DEF Cooled
      <4> QED
        BY <3>1, <4>1, LeastNatural
    <3>3. m \in Nat /\ m >= s /\ lat[m] \notin Nat /\ m # s
      BY <3>2, <1>3
    <3>4. m - 1 \in Nat /\ m - 1 >= s /\ m - 1 < m /\ (m - 1) + 1 = m
      BY <3>3
    <3>5. lat[m - 1] \in Nat
      BY <3>2, <3>4
    <3>6. lat[m] = NextLatency(lat[m - 1], ms)
      BY <3>4
    <3>7. NextLatency(lat[m - 1], ms) = Blend(lat[m - 1], ms)
      BY <1>1, <3>5 DEF NextLatency
    <3> QED
      BY <3>3, <3>5, <3>6, <3>7, SampleBringsCloser
  <2>2. \A k \in Nat : k >= s => lat[k] \in Nat
    BY <2>1
  <2>3. ASSUME NEW k \in Nat, k >= s PROVE lat[k + 1] = Blend(lat[k], ms)
    <3>1. lat[k] # NoSample
      BY <2>2, <2>3, <1>1
    <3> QED
      BY <3>1 DEF NextLatency
  <2> QED
    BY <2>3, <1>3 DEF Fed
<1>4. ASSUME lat[0] # NoSample, NEW k \in Nat, k >= Dist(lat[0], ms)
      PROVE  lat[k] # NoSample /\ Settled(lat[k], ms)
  <2>1. lat[0] \in Nat
    BY <1>4
  <2>2. \A j \in Nat : j >= 0 + Dist(lat[0], ms) => lat[j] \in Nat /\ Settled(lat[j], ms)
    BY <2>1, <1>3, FedSettles
  <2>3. Dist(lat[0], ms) \in Nat
    BY <2>1 DEF Dist
  <2> QED
    BY <2>2, <2>3, <1>4, <1>1
<1>5. ASSUME lat[0] = NoSample, NEW k \in Nat, k >= 1
      PROVE  lat[k] # NoSample /\ Settled(lat[k], ms)
  <2>1. lat[1] = ms
    <3>1. lat[0 + 1] = NextLatency(lat[0], ms)
      OBVIOUS
    <3> QED
      BY <3>1, <1>5 DEF NextLatency
  <2>2. Dist(lat[1], ms) = 0
    BY <2>1 DEF Dist
  <2>3. \A j \in Nat : j >= 1 + Dist(lat[1], ms) => lat[j] \in Nat /\ Settled(lat[j], ms)
    BY <2>1, <1>3, FedSettles
  <2> QED
    BY <2>2, <2>3, <1>5, <1>1
<1> QED
  BY <1>2, <1>4, <1>5

\* A candidate that only fails is noticed: from any rate, after no more errors
\* than the rate has steps, it is over the threshold and stays over it.  A
\* threshold of one is never breached; and on a grid of rates too coarse for
\* alpha, rounding would stop the rate short of the threshold.
THEOREM ErrorsAreNoticed ==
  ASSUME AlphaNum > 0, AlphaDen < 2 * AlphaNum * (RateMax - Threshold),
         NEW rates, rates[0] \in 0 .. RateMax,
         \A k \in Nat : rates[k + 1] = NextRate(rates[k], FALSE)
  PROVE  \A k \in Nat : k >= RateMax => Degraded(rates[k])
<1>1. /\ RateMax \in Nat \ {0} /\ Threshold \in 0 .. RateMax
      /\ AlphaNum \in Nat \ {0} /\ AlphaDen \in Nat
  BY EwmaAssumption
<1>2. Fed(rates, 0, 0)
  BY <1>1 DEF Fed, NextRate
<1>3. Dist(rates[0], 0) \in 0 .. RateMax
  BY <1>1 DEF Dist
<1>4. ASSUME NEW k \in Nat, k >= RateMax PROVE Degraded(rates[k])
  <2> DEFINE r == rates[k]
             gap == RateMax - Threshold
  <2>1. r \in Nat /\ Settled(r, 0)
    <3>1. k >= 0 + Dist(rates[0], 0)
      BY <1>1, <1>3, <1>4
    <3> QED
      BY <3>1, <1>2, FedSettles
  <2>2. 2 * AlphaNum * r <= AlphaDen
    BY <2>1 DEF Settled, Dist
  <2>3. gap \in Nat /\ AlphaDen < 2 * AlphaNum * gap
    BY <1>1
  <2>4. r < gap => Degraded(r)
    BY <1>1, <2>1 DEF Degraded
  <2> HIDE DEF r, gap
  <2>5. SUFFICES ASSUME gap <= r PROVE FALSE
    BY <2>1, <2>3, <2>4 DEF r
  <2>6. AlphaNum * gap <= AlphaNum * r
    BY <1>1, <2>1, <2>3, <2>5
  <2>7. /\ 2 * AlphaNum * gap = 2 * (AlphaNum * gap) /\ AlphaNum * gap \in Nat
        /\ 2 * AlphaNum * r = 2 * (AlphaNum * r) /\ AlphaNum * r \in Nat
    BY <1>1, <2>1, <2>3
  <2> QED
    BY <2>2, <2>3, <2>6, <2>7, <1>1
<1> QED
  BY <1>4

-----------------------------------------------------------------------------
(* A report against the slot. *)

\* What a report in progress knows of the slot: the rate has been on the side
\* of the threshold it is on; a slot that was warm from the start still has a
\* latency to be found; what was loaded was true when it was loaded.
Witnessed ==
  /\ report.pc # "idle" => Degraded(rate) \in moments
  /\ report.pc = "latency" /\ report.late =>
       report.shown # {} \/ report.unread \cap warm # {}
  /\ report.pc \in {"rate", "sent"} =>
       /\ (report.label = "cold") <=> (report.shown = {})
       /\ report.label \in {"cold", "warm", "degraded"}
       /\ report.late => report.label # "cold"
       /\ report.label = "degraded" => TRUE \in moments
       /\ report.label = "warm" => FALSE \in moments
  /\ report.pc = "sent" => report.over \in moments

IInv == TypeOK /\ Witnessed

Reports == [pc : {"idle", "latency", "rate", "sent"}, late : BOOLEAN,
            unread : SUBSET Modes, shown : SUBSET Modes,
            label : {"none", "cold", "warm", "degraded"}, over : BOOLEAN]

\* The bound of the history variable is a number.
LEMMA WastedBound == MaxWasted \in Nat /\ RateMax \in Nat \ {0}
<1>1. Cardinality(Requests) \in Nat
  BY ReadersAssumption, FS_CardinalityType
<1> QED
  BY <1>1, ReadersAssumption, EwmaAssumption DEF MaxWasted

\* It holds in the fresh slot, before any report.
LEMMA ReadersInit == Init => IInv
<1> SUFFICES ASSUME Init
             PROVE  IInv
  OBVIOUS
<1>1. report \in Reports /\ report.pc = "idle"
  BY DEF Init, Idle, Reports
<1>2. flight \in [Requests -> Flights]
  BY DEF Init, Flights
<1>3. rate \in 0 .. RateMax /\ wasted \in 0 .. MaxWasted
  BY WastedBound DEF Init
<1>4. TypeOK
  BY <1>1, <1>2, <1>3 DEF Init, TypeOK, Reports
<1> QED
  BY <1>1, <1>4 DEF IInv, Witnessed

\* A request is sent.
LEMMA SendStep ==
  ASSUME IInv, NEW r \in Requests, NEW how \in {"pinned", "routed"}, SendTo(r, how)
  PROVE  IInv'
<1>1. PICK ok \in BOOLEAN : flight' = [flight EXCEPT ![r] = [how |-> how, ok |-> ok]]
  BY DEF SendTo
<1>2. [how |-> how, ok |-> ok] \in Flights
  BY DEF Flights
<1>3. flight' \in [Requests -> Flights]
  BY <1>1, <1>2 DEF IInv, TypeOK
<1>4. UNCHANGED <<rate, warm, wasted, report, moments>>
  BY DEF SendTo
<1> QED
  BY <1>3, <1>4 DEF IInv, TypeOK, Witnessed

\* A latency is recorded: a warm slot stays warm.
LEMMA LatencyStep ==
  ASSUME IInv, NEW r \in Requests, RecordLatency(r)
  PROVE  IInv'
<1>1. PICK m \in Modes : warm' = warm \cup {m}
  BY DEF RecordLatency
<1>2. flight' = [flight EXCEPT ![r].how = "timed"] /\ UNCHANGED <<rate, wasted, report, moments>>
  BY DEF RecordLatency
<1>3. flight[r] \in Flights /\ flight[r] # None /\ flight[r].ok
  BY DEF IInv, TypeOK, RecordLatency, None
<1>4. [flight[r] EXCEPT !.how = "timed"] \in Flights
  BY <1>3 DEF Flights
<1>5. flight' \in [Requests -> Flights]
  BY <1>2, <1>4 DEF IInv, TypeOK
<1>6. warm \subseteq warm' /\ warm' \subseteq Modes
  BY <1>1 DEF IInv, TypeOK
<1>7. TypeOK'
  BY <1>2, <1>5, <1>6 DEF IInv, TypeOK
<1>8. Witnessed'
  BY <1>2, <1>6 DEF IInv, Witnessed
<1> QED
  BY <1>7, <1>8 DEF IInv

\* An outcome is folded in: a report in progress has seen both sides it was on.
LEMMA OutcomeStep ==
  ASSUME IInv, NEW r \in Requests, NEW ok \in BOOLEAN, FoldIn(ok),
         flight' = [flight EXCEPT ![r] = None], wasted' \in 0 .. MaxWasted
  PROVE  IInv'
<1>1. rate' = NextRate(rate, ok) /\ UNCHANGED <<warm, report>>
      /\ moments' = IF report.pc = "idle" THEN {} ELSE moments \cup {Degraded(rate')}
  BY DEF FoldIn
<1>2. rate' \in 0 .. RateMax
  BY <1>1, AveragesStayInRange DEF IInv, TypeOK
<1>3. flight' \in [Requests -> Flights]
  BY DEF IInv, TypeOK, Flights
<1>4. Degraded(rate') \in BOOLEAN
  BY DEF Degraded
<1>5. moments' \subseteq BOOLEAN
  BY <1>1, <1>4 DEF IInv, TypeOK
<1>6. TypeOK'
  BY <1>1, <1>2, <1>3, <1>5 DEF IInv, TypeOK
<1>7. report.pc # "idle" => moments \subseteq moments' /\ Degraded(rate') \in moments'
  BY <1>1
<1>8. Degraded(rate)' = Degraded(rate')
  BY DEF Degraded
<1>9. Witnessed'
  BY <1>1, <1>7, <1>8 DEF IInv, Witnessed
<1> QED
  BY <1>6, <1>9 DEF IInv

\* A report begins, with all modes to load.
LEMMA StartStep ==
  ASSUME IInv, StartReport
  PROVE  IInv'
<1>1. /\ report' = [Idle EXCEPT !.pc = "latency", !.late = warm # {}, !.unread = Modes]
      /\ moments' = {Degraded(rate)}
      /\ UNCHANGED <<rate, warm, flight, wasted>>
  BY DEF StartReport, pins
<1>2. /\ report' \in Reports
      /\ report'.pc = "latency" /\ report'.unread = Modes /\ (report'.late => warm # {})
  BY <1>1 DEF Idle, Reports
<1>3. Degraded(rate) \in BOOLEAN /\ Degraded(rate)' = Degraded(rate)
  BY <1>1 DEF Degraded
<1>4. TypeOK'
  BY <1>1, <1>2, <1>3 DEF IInv, TypeOK, Reports
<1>5. Witnessed'
  BY <1>1, <1>2, <1>3 DEF IInv, TypeOK, Witnessed
<1> QED
  BY <1>4, <1>5 DEF IInv

\* One mode's latency is loaded.
LEMMA LoadStep ==
  ASSUME IInv, LoadLatency
  PROVE  IInv'
<1>1. report.pc = "latency" /\ report \in Reports /\ UNCHANGED <<rate, warm, flight, wasted, moments>>
  BY DEF LoadLatency, pins, IInv, TypeOK, Reports
<1>2. PICK m \in report.unread :
        report' = [report EXCEPT !.unread = @ \ {m}, !.shown = @ \cup ({m} \cap warm)]
  BY DEF LoadLatency
<1>3. m \in Modes
  BY <1>1, <1>2 DEF Reports
<1>4. /\ report' \in Reports /\ report'.pc = "latency" /\ report'.late = report.late
      /\ report'.unread = report.unread \ {m}
      /\ report'.shown = report.shown \cup ({m} \cap warm)
  BY <1>1, <1>2, <1>3 DEF Reports
<1>5. TypeOK'
  BY <1>1, <1>4 DEF IInv, TypeOK, Reports
<1>6. Witnessed'
  BY <1>1, <1>4 DEF IInv, Witnessed, Degraded
<1> QED
  BY <1>5, <1>6 DEF IInv

\* The label is chosen once every mode is loaded.
LEMMA LabelStep ==
  ASSUME IInv, Label
  PROVE  IInv'
<1> DEFINE word == IF ~AnyWarm(report.shown) THEN "cold"
                   ELSE IF Degraded(rate) THEN "degraded" ELSE "warm"
<1>1. /\ report.pc = "latency" /\ report.unread = {} /\ report \in Reports
      /\ UNCHANGED <<rate, warm, flight, wasted, moments>>
      /\ report' = [report EXCEPT !.pc = "rate", !.label = word]
  BY DEF Label, pins, IInv, TypeOK, Reports
<1>2. /\ report' \in Reports /\ report'.pc = "rate" /\ report'.label = word
      /\ report'.late = report.late /\ report'.shown = report.shown
  BY <1>1 DEF Reports
<1>3. TypeOK'
  BY <1>1, <1>2 DEF IInv, TypeOK, Reports
<1>4. Degraded(rate) \in moments /\ Degraded(rate)' = Degraded(rate) /\ Degraded(rate) \in BOOLEAN
  BY <1>1 DEF IInv, Witnessed, Degraded
<1>5. report.late => report.shown # {}
  BY <1>1 DEF IInv, Witnessed
<1>6. /\ word \in {"cold", "warm", "degraded"}
      /\ (word = "cold") <=> (report.shown = {})
      /\ word = "degraded" => Degraded(rate)
      /\ word = "warm" => ~Degraded(rate)
  BY DEF AnyWarm
<1> HIDE DEF word
<1>7. (word = "degraded" => TRUE \in moments) /\ (word = "warm" => FALSE \in moments)
  <2>1. ASSUME Degraded(rate) PROVE TRUE \in moments
    <3>1. Degraded(rate) = TRUE
      BY <1>4, <2>1
    <3> QED
      BY <1>4, <3>1
  <2>2. ASSUME ~Degraded(rate) PROVE FALSE \in moments
    <3>1. Degraded(rate) = FALSE
      BY <1>4, <2>2
    <3> QED
      BY <1>4, <3>1
  <2> QED
    BY <1>6, <2>1, <2>2
<1>8. Witnessed'
  BY <1>1, <1>2, <1>4, <1>5, <1>6, <1>7 DEF Witnessed
<1> QED
  BY <1>3, <1>8 DEF IInv

\* The error rate is loaded.
LEMMA ErrorRateStep ==
  ASSUME IInv, LoadErrorRate
  PROVE  IInv'
<1>1. /\ report.pc = "rate" /\ report \in Reports
      /\ UNCHANGED <<rate, warm, flight, wasted, moments>>
      /\ report' = [report EXCEPT !.pc = "sent", !.over = Degraded(rate)]
  BY DEF LoadErrorRate, pins, IInv, TypeOK, Reports
<1>2. Degraded(rate) \in moments /\ Degraded(rate)' = Degraded(rate) /\ Degraded(rate) \in BOOLEAN
  BY <1>1 DEF IInv, Witnessed, Degraded
<1>3. /\ report' \in Reports /\ report'.pc = "sent" /\ report'.over = Degraded(rate)
      /\ report'.label = report.label
      /\ report'.late = report.late /\ report'.shown = report.shown
  BY <1>1, <1>2 DEF Reports
<1>4. TypeOK'
  BY <1>1, <1>3 DEF IInv, TypeOK, Reports
<1>5. /\ (report.label = "cold") <=> (report.shown = {})
      /\ report.label \in {"cold", "warm", "degraded"}
      /\ report.late => report.label # "cold"
      /\ report.label = "degraded" => TRUE \in moments
      /\ report.label = "warm" => FALSE \in moments
  BY <1>1 DEF IInv, Witnessed
<1>6. report'.over \in moments' /\ moments' = moments /\ Degraded(rate)' \in moments'
  BY <1>1, <1>2, <1>3
<1>7. Witnessed'
  BY <1>3, <1>5, <1>6 DEF Witnessed
<1> QED
  BY <1>4, <1>7 DEF IInv

\* Every step keeps the invariant.
LEMMA ReadersNext ==
  ASSUME IInv, [Next]_vars
  PROVE  IInv'
<1>1. ASSUME NEW r \in Requests, FollowPin(r) \/ RouteHere(r)
      PROVE  IInv'
  BY <1>1, SendStep DEF FollowPin, RouteHere
<1>2. ASSUME NEW r \in Requests, RecordLatency(r)
      PROVE  IInv'
  BY <1>2, LatencyStep
<1>3. ASSUME NEW r \in Requests, RecordSuccess(r)
      PROVE  IInv'
  <2>1. wasted' \in 0 .. MaxWasted
    BY <1>3, WastedBound DEF RecordSuccess
  <2> QED
    BY <1>3, <2>1, OutcomeStep DEF RecordSuccess
<1>4. ASSUME NEW r \in Requests, RecordError(r)
      PROVE  IInv'
  <2>1. wasted \in 0 .. MaxWasted
    BY DEF IInv, TypeOK
  <2>2. wasted' \in 0 .. MaxWasted
    BY <1>4, <2>1, WastedBound DEF RecordError
  <2> QED
    BY <1>4, <2>2, OutcomeStep DEF RecordError
<1>5. CASE StartReport
  BY <1>5, StartStep
<1>6. CASE LoadLatency
  BY <1>6, LoadStep
<1>7. CASE Label
  BY <1>7, LabelStep
<1>8. CASE LoadErrorRate
  BY <1>8, ErrorRateStep
<1>9. CASE EndReport
  <2>1. report' = Idle /\ moments' = {} /\ UNCHANGED <<rate, warm, flight, wasted>>
    BY <1>9 DEF EndReport, pins
  <2>2. report' \in Reports /\ report'.pc = "idle"
    BY <2>1 DEF Idle, Reports
  <2>3. TypeOK'
    BY <2>1, <2>2 DEF IInv, TypeOK, Reports
  <2> QED
    BY <2>2, <2>3 DEF IInv, Witnessed
<1>10. CASE UNCHANGED vars
  BY <1>10 DEF vars, pins, IInv, TypeOK, Witnessed, Degraded
<1> QED
  BY <1>1, <1>2, <1>3, <1>4, <1>5, <1>6, <1>7, <1>8, <1>9, <1>10 DEF Next

\* Hence it always holds.
LEMMA ReadersInvariant == Spec => []IInv
<1>1. Init => IInv
  BY ReadersInit
<1>2. IInv /\ [Next]_vars => IInv'
  BY ReadersNext
<1> QED
  BY <1>1, <1>2, PTL DEF Spec

\* The slot, the pinned requests and the report keep their types; the rate
\* stays a rate under every alpha.
THEOREM ReadersTypeCorrect == Spec => []TypeOK
<1>1. IInv => TypeOK
  BY DEF IInv
<1> QED
  BY <1>1, ReadersInvariant, PTL

\* /status, whose loads are no snapshot, never contradicts the slot: for every
\* number of modes, requests and orders in which their answers come.
THEOREM ReadersStatusTellsSlot == Spec => []StatusTellsSlot
<1>1. ASSUME IInv
      PROVE  StatusTellsSlot
  <2>1. SUFFICES ASSUME report.pc = "sent"
                 PROVE  /\ (report.label = "cold") <=> (report.shown = {})
                        /\ report.late => report.label # "cold"
                        /\ report.label = "degraded" => TRUE \in moments
                        /\ report.label = "warm" => FALSE \in moments
                        /\ report.label # "cold" /\ (report.label = "degraded") # report.over
                             => moments = BOOLEAN
    BY DEF StatusTellsSlot
  <2>2. /\ (report.label = "cold") <=> (report.shown = {})
        /\ report.label \in {"cold", "warm", "degraded"}
        /\ report.late => report.label # "cold"
        /\ report.label = "degraded" => TRUE \in moments
        /\ report.label = "warm" => FALSE \in moments
        /\ report.over \in moments
        /\ moments \subseteq BOOLEAN /\ report.over \in BOOLEAN
    BY <1>1, <2>1 DEF IInv, TypeOK, Witnessed
  <2>3. ASSUME report.label # "cold", (report.label = "degraded") # report.over
        PROVE  moments = BOOLEAN
    <3>1. CASE report.label = "degraded"
      <4>1. report.over = FALSE
        BY <2>2, <2>3, <3>1
      <4>2. TRUE \in moments /\ FALSE \in moments
        BY <2>2, <3>1, <4>1
      <4> QED
        BY <2>2, <4>2
    <3>2. CASE report.label = "warm"
      <4>1. report.over = TRUE
        BY <2>2, <2>3, <3>2
      <4>2. TRUE \in moments /\ FALSE \in moments
        BY <2>2, <3>2, <4>1
      <4> QED
        BY <2>2, <4>2
    <3> QED
      BY <2>2, <2>3, <3>1, <3>2
  <2> QED
    BY <2>2, <2>3
<1> QED
  BY <1>1, ReadersInvariant, PTL

-----------------------------------------------------------------------------
(* A pin against the answers still in flight. *)

\* Rounding keeps the order, hence so does one more error.
LEMMA NextRateMonotone ==
  ASSUME NEW a \in Nat, NEW b \in Nat, a <= b
  PROVE  NextRate(a, FALSE) <= NextRate(b, FALSE)
<1> DEFINE B == AlphaDen - AlphaNum
           d == 2 * AlphaDen
           p == 2 * (AlphaNum * 0 + B * a) + AlphaDen
           q == 2 * (AlphaNum * 0 + B * b) + AlphaDen
<1>1. B \in Nat /\ AlphaDen \in Nat \ {0} /\ AlphaNum \in Nat
  BY EwmaAssumption
<1> HIDE DEF B
<1>2. B * a <= B * b /\ B * a \in Nat /\ B * b \in Nat /\ AlphaNum * 0 = 0
  BY <1>1
<1>3. p \in Nat /\ q \in Nat /\ p <= q /\ d \in Nat \ {0}
  BY <1>1, <1>2
<1>4. NextRate(a, FALSE) = p \div d /\ NextRate(b, FALSE) = q \div d
  BY DEF NextRate, Blend, RoundDiv, B
<1> HIDE DEF p, q, d
<1>5. p \div d <= q \div d
  <2>1. /\ p \div d \in Nat /\ (p \div d) * d <= p
        /\ q \div d \in Nat /\ q < (q \div d) * d + d
    BY <1>3, DivBounds
  <2>2. SUFFICES ASSUME q \div d + 1 <= p \div d PROVE FALSE
    BY <2>1
  <2>3. (q \div d + 1) * d <= (p \div d) * d
    BY <1>3, <2>1, <2>2
  <2>4. (q \div d + 1) * d = (q \div d) * d + d
    BY <1>3, <2>1
  <2> QED
    BY <1>3, <2>1, <2>3, <2>4
<1> QED
  BY <1>4, <1>5

\* A lower rate is no less degraded.
LEMMA DegradedDownwards ==
  ASSUME NEW a \in Nat, NEW b \in Nat, a <= b, Degraded(b)
  PROVE  Degraded(a)
<1>1. RateMax \in Nat /\ Threshold \in Nat
  BY EwmaAssumption
<1>2. RateMax - b > Threshold
  BY DEF Degraded
<1>3. RateMax - a > Threshold
  BY <1>1, <1>2
<1> QED
  BY <1>3 DEF Degraded

\* The pinned requests in flight that will come back as errors.
Failing == {r \in Requests : flight[r].how = "pinned" /\ ~flight[r].ok}

\* Every error a pin led to has cost the rate one rung of the ladder; once
\* they are as many as tolerated no pin is honoured any more, and only those
\* already in flight can still be wasted.
OnLadder(f) ==
  /\ wasted \in 1 .. Tolerated => rate <= f[wasted]
  /\ wasted >= Tolerated =>
       /\ Degraded(rate)
       /\ wasted + Cardinality(Failing) <= Tolerated + Cardinality(Requests) - 1

LEMMA FailingFinite ==
  /\ IsFiniteSet(Failing) /\ Cardinality(Failing) \in Nat
  /\ Cardinality(Requests) \in Nat
<1>1. Failing \subseteq Requests
  BY DEF Failing
<1>2. IsFiniteSet(Failing)
  BY <1>1, FS_Subset, ReadersAssumption
<1> QED
  BY <1>2, FS_CardinalityType, ReadersAssumption

\* A step after which no more are failing, at the same rate and waste.
LEMMA KeepsOnLadder ==
  ASSUME NEW f, IInv, OnLadder(f), UNCHANGED <<rate, wasted>>,
         Degraded(rate) => Failing' \subseteq Failing
  PROVE  OnLadder(f)'
<1>1. Degraded(rate)' = Degraded(rate)
  BY DEF Degraded
<1>2. Degraded(rate) => Cardinality(Failing') <= Cardinality(Failing)
  BY FailingFinite, FS_Subset
<1>3. Cardinality(Failing') \in Nat /\ wasted \in Nat
  <2>1. Failing' \subseteq Requests
    BY DEF Failing
  <2>2. Cardinality(Failing') \in Nat
    BY <2>1, FS_Subset, FS_CardinalityType, ReadersAssumption
  <2> QED
    BY <2>2, WastedBound DEF IInv, TypeOK
<1>4. CASE wasted >= Tolerated
  <2>1. Degraded(rate) /\ wasted + Cardinality(Failing) <= Tolerated + Cardinality(Requests) - 1
    BY <1>4 DEF OnLadder
  <2>2. wasted + Cardinality(Failing') <= Tolerated + Cardinality(Requests) - 1
    BY <2>1, <1>2, <1>3, FailingFinite, ReadersAssumption
  <2> QED
    BY <2>1, <2>2, <1>1 DEF OnLadder
<1>5. CASE ~(wasted >= Tolerated)
  BY <1>5 DEF OnLadder
<1> QED
  BY <1>4, <1>5

\* An error: the rate sinks, and r is not in flight any more.
LEMMA ErrorOnLadder ==
  ASSUME NEW f \in [1 .. Tolerated -> 0 .. RateMax], IsLadder(f), Degraded(f[Tolerated]),
         IInv, OnLadder(f), NEW r \in Requests, RecordError(r)
  PROVE  OnLadder(f)'
<1> DEFINE N == Cardinality(Requests)
           k == Cardinality(Failing)
           k1 == Cardinality(Failing')
<1>1. rate \in 0 .. RateMax /\ flight \in [Requests -> Flights] /\ wasted \in 0 .. MaxWasted
  BY DEF IInv, TypeOK
<1>2. rate' = NextRate(rate, FALSE)
  BY DEF RecordError, FoldIn
<1>c. rate' \in 0 .. RateMax /\ rate' <= rate
  BY <1>1, <1>2, AveragesStayInRange
<1>d. rate \in 0 .. RateMax
  BY <1>1
<1>3. RateMax \in Nat /\ Threshold \in Nat /\ Tolerated \in Nat \ {0} /\ wasted \in Nat
  BY <1>1, EwmaAssumption, WastedBound, ReadersAssumption
<1>a. rate \in Nat /\ rate' \in Nat /\ rate <= RateMax /\ rate' <= rate
  BY <1>c, <1>d, <1>3
<1>b. \A i \in 1 .. Tolerated : f[i] \in Nat
  BY <1>3
<1>4. Degraded(rate) => Degraded(rate')
  BY <1>a, DegradedDownwards
<1>5. Degraded(rate') = Degraded(rate)'
  BY DEF Degraded
<1>6. Failing' = Failing \ {r}
  BY <1>1 DEF Failing, RecordError, None
<1>7. k \in Nat /\ k1 \in Nat /\ N \in Nat /\ k1 <= k /\ k1 <= N - 1
  <2>1. Failing' \subseteq Failing /\ Failing' \subseteq Requests \ {r}
    BY <1>6 DEF Failing
  <2>2. IsFiniteSet(Requests \ {r}) /\ Cardinality(Requests \ {r}) = N - 1
    BY ReadersAssumption, FS_RemoveElement
  <2>3. k1 <= k
    BY <2>1, FS_Subset, FailingFinite
  <2>4. k1 <= N - 1
    BY <2>1, <2>2, FS_Subset
  <2>5. IsFiniteSet(Failing')
    BY <2>1, FS_Subset, FailingFinite
  <2> QED
    BY <2>3, <2>4, <2>5, FailingFinite, FS_CardinalityType
<1>8. CASE flight[r].how = "pinned" /\ wasted < MaxWasted
  <2>1. wasted' = wasted + 1
    BY <1>8 DEF RecordError
  <2>2. k1 = k - 1
    <3>1. r \in Failing
      BY <1>8 DEF Failing, RecordError
    <3> QED
      BY <1>6, <3>1, FailingFinite, FS_RemoveElement
  <2>3. ASSUME wasted' \in 1 .. Tolerated PROVE rate' <= f[wasted']
    <3>1. CASE wasted = 0
      <4>1. NextRate(rate, FALSE) <= NextRate(RateMax, FALSE)
        BY <1>a, <1>3, NextRateMonotone
      <4>2. f[1] = NextRate(RateMax, FALSE) /\ wasted' = 1
        BY <2>1, <3>1 DEF IsLadder
      <4> QED
        BY <1>2, <4>1, <4>2
    <3>2. CASE wasted # 0
      <4>1. wasted \in 1 .. Tolerated - 1 /\ wasted \in 1 .. Tolerated
        BY <1>3, <2>1, <2>3, <3>2
      <4>2. rate <= f[wasted] /\ f[wasted] \in Nat
        BY <4>1, <1>b DEF OnLadder
      <4>3. f[wasted + 1] = NextRate(f[wasted], FALSE)
        BY <4>1 DEF IsLadder
      <4>4. NextRate(rate, FALSE) <= NextRate(f[wasted], FALSE)
        BY <1>a, <4>2, NextRateMonotone
      <4> QED
        BY <1>2, <2>1, <4>3, <4>4
    <3> QED
      BY <3>1, <3>2
  <2>4. ASSUME wasted' >= Tolerated
        PROVE  Degraded(rate') /\ wasted' + k1 <= Tolerated + N - 1
    <3>1. CASE wasted >= Tolerated
      <4>1. Degraded(rate) /\ wasted + k <= Tolerated + N - 1
        BY <3>1 DEF OnLadder
      <4> QED
        BY <4>1, <1>3, <1>4, <1>7, <2>1, <2>2
    <3>2. CASE ~(wasted >= Tolerated)
      <4>1. wasted' = Tolerated
        BY <1>3, <2>1, <2>4, <3>2
      <4>2. rate' <= f[Tolerated] /\ f[Tolerated] \in Nat
        BY <4>1, <2>3, <1>3, <1>b
      <4>3. Degraded(rate')
        BY <4>2, <1>a, DegradedDownwards
      <4> QED
        BY <4>1, <4>3, <1>3, <1>7
    <3> QED
      BY <3>1, <3>2
  <2> QED
    BY <2>3, <2>4, <1>5 DEF OnLadder
<1>9. CASE ~(flight[r].how = "pinned" /\ wasted < MaxWasted)
  <2>1. wasted' = wasted
    BY <1>9 DEF RecordError
  <2>2. ASSUME wasted' \in 1 .. Tolerated PROVE rate' <= f[wasted']
    <3>1. rate <= f[wasted] /\ f[wasted] \in Nat
      BY <2>1, <2>2, <1>b DEF OnLadder
    <3> QED
      BY <3>1, <2>1, <1>a
  <2>3. ASSUME wasted' >= Tolerated
        PROVE  Degraded(rate') /\ wasted' + k1 <= Tolerated + N - 1
    <3>1. Degraded(rate) /\ wasted + k <= Tolerated + N - 1
      BY <2>1, <2>3 DEF OnLadder
    <3> QED
      BY <3>1, <1>3, <1>4, <1>7, <2>1
  <2> QED
    BY <2>2, <2>3, <1>5 DEF OnLadder
<1> QED
  BY <1>8, <1>9

LEMMA NextOnLadder ==
  ASSUME NEW f \in [1 .. Tolerated -> 0 .. RateMax], IsLadder(f), Degraded(f[Tolerated]),
         IInv, OnLadder(f), [Next]_vars
  PROVE  OnLadder(f)'
<1>0. flight \in [Requests -> Flights]
  BY DEF IInv, TypeOK
<1>1. ASSUME NEW r \in Requests, FollowPin(r) \/ RouteHere(r) PROVE OnLadder(f)'
  <2>1. UNCHANGED <<rate, wasted>> /\ flight[r] = None
    BY <1>1 DEF FollowPin, RouteHere, SendTo
  <2>2. \A s \in Requests \ {r} : flight'[s] = flight[s]
    BY <1>0, <1>1 DEF FollowPin, RouteHere, SendTo
  <2>3. Degraded(rate) => flight'[r].how # "pinned"
    BY <1>0, <1>1 DEF FollowPin, Honoured, RouteHere, SendTo
  <2>4. Degraded(rate) => Failing' \subseteq Failing
    BY <2>2, <2>3 DEF Failing
  <2> QED
    BY <2>1, <2>4, KeepsOnLadder
<1>2. ASSUME NEW r \in Requests, RecordLatency(r) PROVE OnLadder(f)'
  <2>1. UNCHANGED <<rate, wasted>> /\ Failing' \subseteq Failing
    BY <1>0, <1>2 DEF RecordLatency, Failing
  <2> QED
    BY <2>1, KeepsOnLadder
<1>3. ASSUME NEW r \in Requests, RecordSuccess(r) PROVE OnLadder(f)'
  BY <1>3, ReadersAssumption DEF RecordSuccess, OnLadder
<1>4. ASSUME NEW r \in Requests, RecordError(r) PROVE OnLadder(f)'
  BY <1>4, ErrorOnLadder
<1>5. CASE UNCHANGED <<rate, flight, wasted>>
  <2>1. Failing' = Failing
    BY <1>5 DEF Failing
  <2> QED
    BY <1>5, <2>1, KeepsOnLadder
<1>6. CASE StartReport \/ LoadLatency \/ Label \/ LoadErrorRate \/ EndReport \/ UNCHANGED vars
  BY <1>5, <1>6 DEF StartReport, LoadLatency, Label, LoadErrorRate, EndReport, pins, vars
<1> QED
  BY <1>1, <1>2, <1>3, <1>4, <1>6 DEF Next

\* README "Session affinity": a pin costs the tolerated errors and what was in
\* flight when the last of them came back, and no more before the candidate
\* succeeded again, for every alpha and threshold that number is right for,
\* and every number of requests.
THEOREM ReadersPinBreaksInTime == Spec => []PinBreaksInTime
<1>1. PICK f \in [1 .. Tolerated -> 0 .. RateMax] : IsLadder(f) /\ Degraded(f[Tolerated])
  BY TolerationAssumption
<1>2. Init => OnLadder(f)
  BY ReadersAssumption DEF Init, OnLadder
<1>3. IInv /\ OnLadder(f) /\ [Next]_vars => OnLadder(f)'
  BY <1>1, NextOnLadder
<1>4. IInv /\ OnLadder(f) => PinBreaksInTime
  <2> SUFFICES ASSUME IInv, OnLadder(f) PROVE PinBreaksInTime
    OBVIOUS
  <2>1. wasted \in Nat /\ Tolerated \in Nat
    BY WastedBound, ReadersAssumption DEF IInv, TypeOK
  <2>2. CASE wasted >= Tolerated
    <3>1. wasted + Cardinality(Failing) <= Tolerated + Cardinality(Requests) - 1
      BY <2>2 DEF OnLadder
    <3> QED
      BY <2>1, <3>1, FailingFinite DEF PinBreaksInTime
  <2>3. CASE ~(wasted >= Tolerated)
    BY <2>1, <2>3, FailingFinite DEF PinBreaksInTime
  <2> QED
    BY <2>2, <2>3
<1> QED
  BY <1>2, <1>3, <1>4, ReadersInvariant, PTL DEF Spec
=============================================================================
