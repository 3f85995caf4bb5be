----------------------- MODULE SelectCandidateProofs ------------------------
(***************************************************************************)
(* Proofs about SelectCandidate, for every number of candidates, every     *)
(* weight function within the assumed bounds and every word size.          *)
(***************************************************************************)
EXTENDS SelectCandidate, TLAPS

\* The high half of a sample times a total is below the total.
LEMMA PosBelowTotal ==
  ASSUME NEW sp \in 0 .. WordSize - 1, NEW tot \in Nat
  PROVE  Pos(sp, tot) \in Nat /\ (tot > 0 => Pos(sp, tot) < tot)
<1> DEFINE q == (sp * tot) \div WordSize
<1>1. WordSize \in Nat \ {0} /\ sp \in Nat /\ sp < WordSize
  BY WeylAssumption
<1>2. sp * tot \in Nat
  BY <1>1
<1>3. q \in Nat /\ q * WordSize <= sp * tot
  BY <1>1, <1>2
<1>5. ASSUME tot > 0 PROVE q < tot
  <2>3. sp * tot < WordSize * tot
    BY <1>1, <1>5
  <2>1. SUFFICES ASSUME q >= tot PROVE FALSE
    BY <1>3
  <2>2. q * WordSize >= tot * WordSize
    BY <2>1, <1>1, <1>3
  <2> QED
    BY <2>2, <2>3, <1>1, <1>2, <1>3
<1> QED
  BY <1>3, <1>5 DEF Pos

\* A rate between the floor and one, and a latency of at least one, make a
\* ratio that Share is assumed about.
LEMMA RatioInRange ==
  ASSUME NEW lat \in 1 .. MaxLatency + 1, NEW r \in 1 .. RateScale
  PROVE  lat * r \in Ratios
<1>1. lat \in Nat /\ r \in Nat /\ lat >= 1 /\ r >= 1
  BY WeightAssumption
<1>2. lat * r >= 1
  BY <1>1
<1>3. lat * r <= (MaxLatency + 1) * r
  BY <1>1, WeightAssumption
<1>4. (MaxLatency + 1) * r <= (MaxLatency + 1) * RateScale
  BY <1>1, WeightAssumption
<1>5. lat * r \in Int /\ (MaxLatency + 1) * r \in Int /\ (MaxLatency + 1) * RateScale \in Int
  BY <1>1, WeightAssumption
<1> QED
  BY <1>2, <1>3, <1>4, <1>5 DEF Ratios

\* Every weight lies between the probe floor and the full resolution.
LEMMA FlooredBounds ==
  ASSUME NEW w \in 0 .. Resolution
  PROVE  Floored(w) \in Floor .. Resolution
BY WeightAssumption DEF Floored, AtLeast

LEMMA ColdWeightBounds ==
  ASSUME NEW allCold \in BOOLEAN, NEW r \in Rates
  PROVE  ColdWeight(allCold, r) \in Floor .. Resolution
<1>1. AtLeast(MinRate, r) \in 1 .. RateScale /\ RateScale \in 1 .. RateScale
  BY WeightAssumption DEF AtLeast, Rates
<1>2. 1 \in 1 .. MaxLatency + 1
  BY WeightAssumption
<1>3. AtLeast(MinRate, r) \in Ratios /\ RateScale \in Ratios
  <2>1. 1 * AtLeast(MinRate, r) \in Ratios /\ 1 * RateScale \in Ratios
    BY <1>1, <1>2, RatioInRange
  <2> QED
    BY <2>1, <1>1, WeightAssumption
<1>4. AtLeast(MinRate, r) <= RateScale
  BY <1>1
<1>5. \A d \in {1, ColdDivisor} :
        Share(AtLeast(MinRate, r), RateScale, d) \in 0 .. Resolution
  BY <1>3, <1>4, ShareAssumption
<1> QED
  BY <1>5, FlooredBounds DEF ColdWeight

LEMMA WarmWeightBounds ==
  ASSUME NEW e \in Effective \ {NoData}, NEW b \in Effective \ {NoData}, NoWorse(b, e)
  PROVE  /\ WarmWeight(e, b) \in Floor .. Resolution
         /\ NoWorse(e, b) => WarmWeight(e, b) = Resolution
<1>1. /\ e.lat \in 1 .. MaxLatency + 1 /\ e.rate \in 1 .. RateScale
      /\ b.lat \in 1 .. MaxLatency + 1 /\ b.rate \in 1 .. RateScale
  BY DEF Effective
<1>2. b.lat * e.rate \in Ratios /\ e.lat * b.rate \in Ratios
  BY <1>1, RatioInRange
<1>3. b.lat * e.rate <= e.lat * b.rate
  BY DEF NoWorse
<1>4. Share(b.lat * e.rate, e.lat * b.rate, 1) \in 0 .. Resolution
  BY <1>2, <1>3, ShareAssumption
<1>5. ASSUME NoWorse(e, b) PROVE WarmWeight(e, b) = Resolution
  <2>1. b.lat * e.rate = e.lat * b.rate
    BY <1>2, <1>3, <1>5 DEF NoWorse, Ratios
  <2>2. Share(b.lat * e.rate, e.lat * b.rate, 1) = Resolution
    BY <2>1, <1>2, ShareAssumption
  <2> QED
    BY <2>2, WeightAssumption DEF WarmWeight, Floored, AtLeast
<1> QED
  BY <1>4, <1>5, FlooredBounds DEF WarmWeight

-----------------------------------------------------------------------------
(* The inductive invariant *)

\* Once is_cold said no, the slot stays warm, so the second load is a latency.
Loading(s) ==
  /\ pc[s] = "loadEwma" => ewma[StatsOf[i[s]]][mode[s]] # Cold
  /\ pc[s] = "loadRate" => seen[s] # Cold

\* How many candidates have been weighed.
Weighed(s) ==
  IF pc[s] \in {"isCold", "loadEwma", "loadRate"} THEN 0
  ELSE IF pc[s] = "weigh" THEN i[s] - 1 ELSE N

\* `total` is the last of the prefix sums of the weights so far.
Weighing(s) ==
  /\ upto[s][0] = 0
  /\ total[s] = upto[s][Weighed(s)]
  /\ \A j \in 1 .. N :
       j <= Weighed(s) => /\ upto[s][j] = upto[s][j - 1] + weight[s][j]
                          /\ weight[s][j] \in Floor .. Resolution
                          /\ IsBest(s, j) => weight[s][j] = Resolution

\* The walk's accumulator is the prefix sum before the current candidate, and
\* the sample is not in any slice passed.
Walking(s) ==
  /\ pc[s] # "walk" /\ pc[s] # "done" => acc[s] = 0
  /\ pc[s] = "tick" => i[s] = 1
  /\ pc[s] = "walk" => /\ acc[s] = upto[s][i[s] - 1]
                       /\ acc[s] <= pos[s]
                       /\ pos[s] < total[s]
  /\ pc[s] = "done" => /\ chosen[s] \in 1 .. N
                       /\ upto[s][chosen[s] - 1] <= pos[s]
                       /\ pos[s] < upto[s][chosen[s]]

SelectorInv(s) == Loading(s) /\ Weighing(s) /\ Walking(s)

IInv == TypeOK /\ \A s \in Selectors : SelectorInv(s)

LEMMA InitIInv == Init => IInv
<1> SUFFICES ASSUME Init PROVE IInv
  OBVIOUS
<1>1. TypeOK
  BY SelectAssumption, WeylAssumption, WeightAssumption DEF Init, TypeOK, Effective, Rates
<1>2. ASSUME NEW s \in Selectors PROVE SelectorInv(s)
  <2>1. Loading(s) /\ Walking(s)
    BY <1>2 DEF Init, Loading, Walking
  <2>2. Weighing(s)
    BY <1>2, SelectAssumption, WeylAssumption, WeightAssumption DEF Init, Weighing, Weighed
  <2> QED
    BY <2>1, <2>2 DEF SelectorInv
<1> QED
  BY <1>1, <1>2 DEF IInv

\* A step that leaves a selector's locals alone, and no slot it may be looking
\* at cold, preserves its invariant.
LEMMA Untouched ==
  ASSUME NEW s \in Selectors, SelectorInv(s),
         pc'[s] = pc[s], mode'[s] = mode[s], i'[s] = i[s], seen'[s] = seen[s],
         eff'[s] = eff[s], weight'[s] = weight[s], total'[s] = total[s],
         upto'[s] = upto[s], pos'[s] = pos[s], acc'[s] = acc[s],
         chosen'[s] = chosen[s],
         ewma[StatsOf[i[s]]][mode[s]] # Cold => ewma'[StatsOf[i[s]]][mode[s]] # Cold
  PROVE  SelectorInv(s)'
<1>1. Loading(s)'
  BY DEF SelectorInv, Loading
<1>2. Weighing(s)'
  BY DEF SelectorInv, Weighing, Weighed, IsBest, Warm
<1>3. Walking(s)'
  BY DEF SelectorInv, Walking
<1> QED
  BY <1>1, <1>2, <1>3 DEF SelectorInv

-----------------------------------------------------------------------------
(* Feedback *)

LEMMA BetweenBounds ==
  ASSUME NEW hi \in Nat, NEW a \in 0 .. hi, NEW b \in 0 .. hi
  PROVE  Between(a, b) \subseteq 0 .. hi
BY DEF Between

LEMMA UpdateEwmaKeeps ==
  ASSUME IInv, NEW x \in Stats, NEW m \in Modes, UpdateEwma(x, m)
  PROVE  IInv'
<1>1. PICK v \in Latencies : ewma' = [ewma EXCEPT ![x][m] = v]
  <2>1. PICK ms \in Latencies :
          \E v \in (IF ewma[x][m] = Cold THEN {ms} ELSE Between(ewma[x][m], ms)) :
            ewma' = [ewma EXCEPT ![x][m] = v]
    BY DEF UpdateEwma
  <2>2. CASE ewma[x][m] = Cold
    BY <2>1, <2>2
  <2>3. CASE ewma[x][m] # Cold
    <3>1. ewma[x][m] \in Latencies
      BY <2>3 DEF IInv, TypeOK
    <3>2. Between(ewma[x][m], ms) \subseteq Latencies
      BY <3>1, SelectAssumption, WeylAssumption, WeightAssumption, BetweenBounds DEF Latencies
    <3> QED
      BY <2>1, <2>3, <3>2
  <2> QED
    BY <2>2, <2>3
<1>2. TypeOK'
  BY <1>1 DEF UpdateEwma, IInv, TypeOK, shared, locals
<1>3. ASSUME NEW s \in Selectors PROVE SelectorInv(s)'
  <2>1. ewma[StatsOf[i[s]]][mode[s]] # Cold => ewma'[StatsOf[i[s]]][mode[s]] # Cold
    BY <1>1, SelectAssumption, WeylAssumption, WeightAssumption DEF IInv, TypeOK
  <2> QED
    BY <2>1, Untouched DEF UpdateEwma, IInv, locals
<1> QED
  BY <1>2, <1>3 DEF IInv

LEMMA RecordOutcomeKeeps ==
  ASSUME IInv, NEW x \in Stats, RecordOutcome(x)
  PROVE  IInv'
<1>1. PICK v \in Rates : rate' = [rate EXCEPT ![x] = v]
  <2>1. PICK sample \in {0, RateScale} :
          \E v \in Between(rate[x], sample) : rate' = [rate EXCEPT ![x] = v]
    BY DEF RecordOutcome
  <2>2. rate[x] \in 0 .. RateScale /\ sample \in 0 .. RateScale
    BY SelectAssumption, WeylAssumption, WeightAssumption DEF IInv, TypeOK, Rates
  <2>3. Between(rate[x], sample) \subseteq Rates
    BY <2>2, SelectAssumption, WeylAssumption, WeightAssumption, BetweenBounds DEF Rates
  <2> QED
    BY <2>1, <2>3
<1>2. TypeOK'
  BY <1>1 DEF RecordOutcome, IInv, TypeOK, locals
<1>3. ASSUME NEW s \in Selectors PROVE SelectorInv(s)'
  BY <1>3, Untouched DEF RecordOutcome, IInv, locals
<1> QED
  BY <1>2, <1>3 DEF IInv

-----------------------------------------------------------------------------
(* The selector's own steps *)

\* What a step of s leaves of the other selectors' invariants.
OthersUntouched(s) ==
  /\ ewma' = ewma
  /\ \A t \in Selectors \ {s} :
       /\ pc'[t] = pc[t] /\ mode'[t] = mode[t] /\ i'[t] = i[t] /\ seen'[t] = seen[t]
       /\ eff'[t] = eff[t] /\ weight'[t] = weight[t] /\ total'[t] = total[t]
       /\ upto'[t] = upto[t] /\ pos'[t] = pos[t] /\ acc'[t] = acc[t]
       /\ chosen'[t] = chosen[t]

LEMMA OthersKeep ==
  ASSUME IInv, NEW s \in Selectors, OthersUntouched(s), TypeOK', SelectorInv(s)'
  PROVE  IInv'
<1>1. ASSUME NEW t \in Selectors \ {s} PROVE SelectorInv(t)'
  BY <1>1, Untouched DEF OthersUntouched, IInv
<1> QED
  BY <1>1 DEF IInv

PCs == {"isCold", "loadEwma", "loadRate", "weigh", "tick", "walk", "done"}

\* A loop's step stays within the candidates.
LEMMA ProceedType ==
  ASSUME TypeOK, NEW s \in Selectors, NEW here \in PCs, NEW next \in PCs,
         Proceed(s, here, next)
  PROVE  /\ pc' \in [Selectors -> PCs] /\ i' \in [Selectors -> 1 .. N]
         /\ i[s] < N => pc'[s] = here /\ i'[s] = i[s] + 1
         /\ ~(i[s] < N) => i[s] = N /\ pc'[s] = next /\ i'[s] = 1
<1>1. i \in [Selectors -> 1 .. N] /\ pc \in [Selectors -> PCs]
  BY DEF TypeOK, PCs
<1>2. CASE i[s] < N
  BY <1>1, <1>2, SelectAssumption, WeylAssumption, WeightAssumption DEF Proceed
<1>3. CASE ~(i[s] < N)
  BY <1>1, <1>3, SelectAssumption, WeylAssumption, WeightAssumption DEF Proceed
<1> QED
  BY <1>2, <1>3

LEMMA IsColdKeeps ==
  ASSUME IInv, NEW s \in Selectors, IsCold(s)
  PROVE  IInv'
<1> USE SelectAssumption, WeylAssumption, WeightAssumption DEF IInv
<1>1. TypeOK'
  <2>1. pc' \in [Selectors -> PCs] /\ i' \in [Selectors -> 1 .. N]
    <3>1. CASE Proceed(s, "isCold", "weigh")
      BY <3>1, ProceedType DEF PCs
    <3>2. CASE pc' = [pc EXCEPT ![s] = "loadEwma"] /\ UNCHANGED i
      BY <3>2 DEF TypeOK, PCs
    <3> QED
      BY <3>1, <3>2 DEF IsCold
  <2> QED
    BY <2>1 DEF IsCold, TypeOK, PCs, shared
<1>2. OthersUntouched(s)
  BY DEF IsCold, Proceed, TypeOK, shared, OthersUntouched
<1>3. Loading(s)'
  BY DEF IsCold, Proceed, TypeOK, shared, Loading
<1>4. Weighing(s)'
  <2>1. Weighed(s) = 0 /\ Weighed(s)' = 0
    BY DEF IsCold, Proceed, TypeOK, Weighed
  <2> QED
    BY <2>1 DEF IsCold, SelectorInv, Weighing
<1>5. Walking(s)'
  BY DEF IsCold, Proceed, TypeOK, SelectorInv, Walking
<1> QED
  BY <1>1, <1>2, <1>3, <1>4, <1>5, OthersKeep DEF SelectorInv

LEMMA LoadEwmaKeeps ==
  ASSUME IInv, NEW s \in Selectors, LoadEwma(s)
  PROVE  IInv'
<1> USE SelectAssumption, WeylAssumption, WeightAssumption DEF IInv
<1>1. TypeOK'
  <2>1. ewma[StatsOf[i[s]]][mode[s]] \in Latencies \cup {Cold}
    BY DEF TypeOK
  <2>2. seen' \in [Selectors -> Latencies \cup {Cold}] /\ pc' \in [Selectors -> PCs]
    BY <2>1 DEF LoadEwma, TypeOK, PCs
  <2> QED
    BY <2>2 DEF LoadEwma, TypeOK, PCs, shared
<1>2. OthersUntouched(s)
  BY DEF LoadEwma, TypeOK, shared, OthersUntouched
<1>3. Loading(s)'
  BY DEF LoadEwma, TypeOK, shared, SelectorInv, Loading
<1>4. Weighing(s)'
  <2>1. Weighed(s) = 0 /\ Weighed(s)' = 0
    BY DEF LoadEwma, TypeOK, Weighed
  <2> QED
    BY <2>1 DEF LoadEwma, SelectorInv, Weighing
<1>5. Walking(s)'
  BY DEF LoadEwma, TypeOK, SelectorInv, Walking
<1> QED
  BY <1>1, <1>2, <1>3, <1>4, <1>5, OthersKeep DEF SelectorInv

LEMMA LoadRateKeeps ==
  ASSUME IInv, NEW s \in Selectors, LoadRate(s)
  PROVE  IInv'
<1> USE SelectAssumption, WeylAssumption, WeightAssumption DEF IInv
<1>0. [lat |-> AtLeast(1, seen[s]), rate |-> AtLeast(MinRate, rate[StatsOf[i[s]]])]
        \in Effective
  <2>1. seen[s] \in Latencies
    BY DEF LoadRate, EffectiveOf, TypeOK, SelectorInv, Loading
  <2>2. AtLeast(1, seen[s]) \in 1 .. MaxLatency + 1
    BY <2>1 DEF AtLeast, Latencies
  <2>3. rate[StatsOf[i[s]]] \in Rates
    BY DEF TypeOK
  <2>4. AtLeast(MinRate, rate[StatsOf[i[s]]]) \in 1 .. RateScale
    BY <2>3 DEF AtLeast, Rates
  <2> QED
    BY <2>2, <2>4 DEF Effective
<1>1. TypeOK'
  <2>1. pc' \in [Selectors -> PCs] /\ i' \in [Selectors -> 1 .. N]
    BY ProceedType DEF LoadRate, PCs
  <2> QED
    BY <1>0, <2>1 DEF LoadRate, EffectiveOf, TypeOK, PCs, shared
<1>2. OthersUntouched(s)
  BY DEF LoadRate, EffectiveOf, Proceed, TypeOK, shared, OthersUntouched
<1>3. Loading(s)'
  BY DEF LoadRate, EffectiveOf, Proceed, TypeOK, Loading
<1>4. Weighing(s)'
  <2>1. Weighed(s) = 0 /\ Weighed(s)' = 0
    BY DEF LoadRate, EffectiveOf, Proceed, TypeOK, Weighed
  <2> QED
    BY <2>1 DEF LoadRate, EffectiveOf, SelectorInv, Weighing
<1>5. Walking(s)'
  BY DEF LoadRate, EffectiveOf, Proceed, TypeOK, SelectorInv, Walking
<1> QED
  BY <1>1, <1>2, <1>3, <1>4, <1>5, OthersKeep DEF SelectorInv

\* Either kind of weight is within bounds, and the best one's is full.
LEMMA WeighWeight ==
  ASSUME IInv, NEW s \in Selectors, Weigh(s)
  PROVE  \E w \in Floor .. Resolution :
           AddWeight(s, w) /\ (IsBest(s, i[s]) => w = Resolution)
<1> DEFINE e == eff[s][i[s]]
<1>1. i[s] \in 1 .. N /\ e \in Effective
  BY DEF IInv, TypeOK
<1>2. CASE e = NoData /\ AddWeight(s, ColdWeight(Warm(s) = {}, rate[StatsOf[i[s]]]))
  <2>1. rate[StatsOf[i[s]]] \in Rates
    BY <1>1, SelectAssumption, WeylAssumption, WeightAssumption DEF IInv, TypeOK
  <2>2. ColdWeight(Warm(s) = {}, rate[StatsOf[i[s]]]) \in Floor .. Resolution
    BY <2>1, ColdWeightBounds
  <2>3. ~IsBest(s, i[s])
    BY <1>2 DEF IsBest, Warm
  <2> QED
    BY <1>2, <2>2, <2>3
<1>3. CASE e # NoData /\ \E b \in 1 .. N : IsBest(s, b) /\ AddWeight(s, WarmWeight(e, eff[s][b]))
  <2>1. PICK b \in 1 .. N : IsBest(s, b) /\ AddWeight(s, WarmWeight(e, eff[s][b]))
    BY <1>3
  <2>2. b \in Warm(s) /\ i[s] \in Warm(s)
    BY <2>1, <1>1, <1>3 DEF IsBest, Warm
  <2>3. e \in Effective \ {NoData} /\ eff[s][b] \in Effective \ {NoData}
    BY <2>2, <1>1, <1>3 DEF Warm, IInv, TypeOK
  <2>4. NoWorse(eff[s][b], e)
    BY <2>1, <2>2 DEF IsBest
  <2>5. IsBest(s, i[s]) => NoWorse(e, eff[s][b])
    BY <2>2 DEF IsBest
  <2>6. /\ WarmWeight(e, eff[s][b]) \in Floor .. Resolution
        /\ IsBest(s, i[s]) => WarmWeight(e, eff[s][b]) = Resolution
    BY <2>3, <2>4, <2>5, WarmWeightBounds
  <2> QED
    BY <2>1, <2>6
<1> QED
  BY <1>2, <1>3 DEF Weigh

LEMMA WeighKeeps ==
  ASSUME IInv, NEW s \in Selectors, Weigh(s)
  PROVE  IInv'
<1> USE SelectAssumption, WeylAssumption, WeightAssumption DEF IInv
<1>0. PICK w \in Floor .. Resolution :
        AddWeight(s, w) /\ (IsBest(s, i[s]) => w = Resolution)
  BY WeighWeight
<1>a. w \in Nat /\ i[s] \in 1 .. N /\ pc[s] = "weigh" /\ Weighed(s) = i[s] - 1
  BY DEF TypeOK, Weigh, Weighed
<1>b. /\ Proceed(s, "weigh", "tick")
      /\ UNCHANGED <<shared, mode, seen, eff, spread, pos, acc, chosen>>
  BY DEF Weigh
<1>1. TypeOK'
  <2>1. pc' \in [Selectors -> PCs] /\ i' \in [Selectors -> 1 .. N]
    BY <1>b, ProceedType DEF PCs
  <2>2. /\ weight' \in [Selectors -> [1 .. N -> Nat]]
        /\ total' \in [Selectors -> Nat]
        /\ upto' \in [Selectors -> [0 .. N -> Nat]]
    <3>1. total[s] \in Nat
      BY Zenon DEF TypeOK
    <3>2. total[s] + w \in Nat
      BY <1>a, <3>1
    <3> QED
      BY <1>0, <1>a, <3>1, <3>2 DEF AddWeight, TypeOK
  <2> QED
    BY <1>b, <2>1, <2>2 DEF TypeOK, PCs, shared
<1>2. OthersUntouched(s)
  BY <1>0, <1>b DEF AddWeight, Proceed, TypeOK, shared, OthersUntouched
<1>3. Loading(s)'
  BY <1>a, <1>b DEF Proceed, TypeOK, Loading
<1>4. Weighing(s)'
  <2>1. Weighed(s)' = i[s]
    <3>1. \/ pc'[s] = "weigh" /\ i'[s] = i[s] + 1
          \/ pc'[s] = "tick" /\ i[s] = N
      BY <1>b, ProceedType DEF PCs
    <3> QED
      BY <1>a, <3>1 DEF Weighed
  <2>2. /\ weight'[s] = [weight[s] EXCEPT ![i[s]] = w]
        /\ total'[s] = total[s] + w
        /\ upto'[s] = [upto[s] EXCEPT ![i[s]] = total[s] + w]
        /\ eff'[s] = eff[s]
    BY <1>0, <1>b DEF AddWeight, TypeOK
  <2>3. upto[s] \in [0 .. N -> Nat] /\ weight[s] \in [1 .. N -> Nat]
    BY DEF TypeOK
  <2>4. total[s] = upto[s][i[s] - 1] /\ upto[s][0] = 0
    BY <1>a DEF SelectorInv, Weighing
  <2>5. upto'[s][0] = 0 /\ total'[s] = upto'[s][i[s]]
    BY <2>2, <2>3, <2>4, <1>a
  <2>6. \A j \in 1 .. N : IsBest(s, j)' = IsBest(s, j)
    BY <2>2 DEF IsBest, Warm
  <2>7. ASSUME NEW j \in 1 .. N, j <= i[s]
        PROVE  /\ upto'[s][j] = upto'[s][j - 1] + weight'[s][j]
               /\ weight'[s][j] \in Floor .. Resolution
               /\ IsBest(s, j)' => weight'[s][j] = Resolution
    <3>1. CASE j = i[s]
      <4>1. weight'[s][j] = w /\ upto'[s][j] = total[s] + w
        BY <3>1, <2>2, <2>3, <1>a
      <4>2. upto'[s][j - 1] = total[s]
        BY <3>1, <2>2, <2>3, <2>4, <1>a
      <4>3. IsBest(s, j)' => w = Resolution
        BY <3>1, <2>6, <1>0
      <4> QED
        BY <4>1, <4>2, <4>3
    <3>2. CASE j # i[s]
      <4>1. j <= Weighed(s) /\ j - 1 # i[s]
        BY <3>2, <2>7, <1>a
      <4>2. /\ upto[s][j] = upto[s][j - 1] + weight[s][j]
            /\ weight[s][j] \in Floor .. Resolution
            /\ IsBest(s, j) => weight[s][j] = Resolution
        BY <4>1 DEF SelectorInv, Weighing
      <4>3. /\ upto'[s][j] = upto[s][j] /\ upto'[s][j - 1] = upto[s][j - 1]
            /\ weight'[s][j] = weight[s][j]
        BY <4>1, <3>2, <2>2, <2>3
      <4> QED
        BY <4>2, <4>3, <2>6
    <3> QED
      BY <3>1, <3>2
  <2> QED
    BY <2>1, <2>5, <2>7 DEF Weighing
<1>5. Walking(s)'
  BY <1>a, <1>b DEF Proceed, TypeOK, SelectorInv, Walking
<1> QED
  BY <1>1, <1>2, <1>3, <1>4, <1>5, OthersKeep DEF SelectorInv

LEMMA TakeTickKeeps ==
  ASSUME IInv, NEW s \in Selectors, TakeTick(s)
  PROVE  IInv'
<1> USE SelectAssumption, WeylAssumption, WeightAssumption DEF IInv
<1> DEFINE sp == Spread(counter)
<1>a. /\ pc[s] = "tick" /\ i[s] = 1 /\ acc[s] = 0 /\ Weighed(s) = N
      /\ N \in Nat /\ N >= 1
  BY DEF TakeTick, SelectorInv, Walking, Weighed
<1>b. sp \in 0 .. WordSize - 1
  <2>1. counter * WeylStep \in Nat
    BY DEF TypeOK
  <2> QED
    BY <2>1 DEF Spread
<1>c. total[s] \in Nat
  BY DEF TypeOK
<1>d. Pos(sp, total[s]) \in Nat /\ (total[s] > 0 => Pos(sp, total[s]) < total[s])
  BY <1>b, <1>c, PosBelowTotal
<1>e. total[s] > 0
  <2>1. /\ total[s] = upto[s][N]
        /\ upto[s][N] = upto[s][N - 1] + weight[s][N]
        /\ weight[s][N] \in Floor .. Resolution
    BY <1>a DEF SelectorInv, Weighing
  <2>2. upto[s][N - 1] \in Nat
    BY <1>a DEF TypeOK
  <2> QED
    BY <2>1, <2>2
<1>f. NextTick(counter) \in 0 .. WordSize - 1
  BY DEF TypeOK, NextTick
<1>1. TypeOK'
  BY <1>b, <1>d, <1>f DEF TakeTick, TypeOK
<1>2. OthersUntouched(s)
  BY DEF TakeTick, TypeOK, OthersUntouched
<1>g. pc'[s] = "walk" /\ pos'[s] = Pos(sp, total[s])
  BY DEF TakeTick, TypeOK
<1>3. Loading(s)'
  BY <1>g DEF Loading
<1>4. Weighing(s)'
  <2>1. Weighed(s)' = N
    BY <1>g DEF Weighed
  <2> QED
    BY <2>1, <1>a DEF TakeTick, SelectorInv, Weighing, IsBest, Warm
<1>5. Walking(s)'
  <2>1. upto[s][0] = 0
    BY DEF SelectorInv, Weighing
  <2> QED
    BY <2>1, <1>a, <1>d, <1>e, <1>g DEF TakeTick, Walking
<1> QED
  BY <1>1, <1>2, <1>3, <1>4, <1>5, OthersKeep DEF SelectorInv

LEMMA WalkKeeps ==
  ASSUME IInv, NEW s \in Selectors, Walk(s)
  PROVE  IInv'
<1> USE SelectAssumption, WeylAssumption, WeightAssumption DEF IInv
<1> DEFINE a == acc[s] + weight[s][i[s]]
<1>a. /\ pc[s] = "walk" /\ i[s] \in 1 .. N /\ Weighed(s) = N
      /\ acc[s] = upto[s][i[s] - 1] /\ acc[s] <= pos[s] /\ pos[s] < total[s]
  BY DEF Walk, TypeOK, SelectorInv, Walking, Weighed
<1>b. a = upto[s][i[s]] /\ total[s] = upto[s][N]
  BY <1>a DEF SelectorInv, Weighing
<1>c. a \in Nat /\ pos[s] \in Nat
  <2>1. /\ acc[s] \in Nat /\ pos[s] \in Nat
        /\ weight[s] \in [1 .. N -> Nat]
    BY DEF TypeOK
  <2> QED
    BY <2>1, <1>a
<1>d. UNCHANGED <<shared, mode, seen, eff, weight, total, upto, spread, pos>> /\ acc'[s] = a
  BY DEF Walk, TypeOK
<1>e. \/ /\ pos[s] < a \/ i[s] = N
         /\ chosen' = [chosen EXCEPT ![s] = i[s]]
         /\ pc' = [pc EXCEPT ![s] = "done"]
         /\ i' = i
      \/ /\ ~(pos[s] < a) /\ i[s] # N
         /\ i' = [i EXCEPT ![s] = @ + 1]
         /\ pc' = pc /\ chosen' = chosen
  BY DEF Walk
<1>1. TypeOK'
  <2>1. /\ pc' \in [Selectors -> PCs] /\ i' \in [Selectors -> 1 .. N]
        /\ chosen' \in [Selectors -> 0 .. N]
    <3>1. i[s] # N => i[s] + 1 \in 1 .. N
      BY <1>a
    <3>2. /\ pc \in [Selectors -> PCs] /\ i \in [Selectors -> 1 .. N]
          /\ chosen \in [Selectors -> 0 .. N]
      BY DEF TypeOK, PCs
    <3>6. i[s] \in 0 .. N
      BY <1>a
    <3>3. pc' \in [Selectors -> PCs]
      BY <1>e, <3>2 DEF PCs
    <3>4. i' \in [Selectors -> 1 .. N]
      BY <1>e, <3>1, <3>2
    <3>5. chosen' \in [Selectors -> 0 .. N]
      BY <1>e, <3>2, <3>6
    <3> QED
      BY <3>3, <3>4, <3>5
  <2>2. acc' \in [Selectors -> Nat]
    BY <1>c DEF Walk, TypeOK
  <2> QED
    BY <1>d, <2>1, <2>2 DEF TypeOK, PCs, shared
<1>2. OthersUntouched(s)
  BY <1>d, <1>e DEF Walk, TypeOK, shared, OthersUntouched
<1>3. Loading(s)'
  BY <1>a, <1>e DEF Loading, TypeOK
<1>4. Weighing(s)'
  <2>1. Weighed(s)' = N
    BY <1>a, <1>e DEF Weighed, TypeOK
  <2> QED
    BY <2>1, <1>a, <1>d DEF SelectorInv, Weighing, IsBest, Warm
<1>5. Walking(s)'
  <2>1. CASE pos[s] < a \/ i[s] = N
    <3>1. pc'[s] = "done" /\ chosen'[s] = i[s]
      BY <2>1, <1>e DEF TypeOK
    <3>2. pos[s] < upto[s][i[s]]
      BY <2>1, <1>a, <1>b
    <3> QED
      BY <3>1, <3>2, <1>a, <1>d DEF Walking
  <2>2. CASE ~(pos[s] < a) /\ i[s] # N
    <3>1. pc'[s] = "walk" /\ i'[s] = i[s] + 1
      BY <2>2, <1>a, <1>e DEF TypeOK
    <3>2. a <= pos[s] /\ i'[s] - 1 = i[s]
      BY <2>2, <3>1, <1>a, <1>c
    <3> QED
      BY <3>1, <3>2, <1>a, <1>b, <1>d DEF Walking
  <2> QED
    BY <2>1, <2>2
<1> QED
  BY <1>1, <1>2, <1>3, <1>4, <1>5, OthersKeep DEF SelectorInv

-----------------------------------------------------------------------------
(* The theorems *)

LEMMA NextIInv == IInv /\ [Next]_vars => IInv'
<1> SUFFICES ASSUME IInv, [Next]_vars PROVE IInv'
  OBVIOUS
<1>1. ASSUME NEW x \in Stats, NEW m \in Modes, UpdateEwma(x, m) PROVE IInv'
  BY <1>1, UpdateEwmaKeeps
<1>2. ASSUME NEW x \in Stats, RecordOutcome(x) PROVE IInv'
  BY <1>2, RecordOutcomeKeeps
<1>3. ASSUME NEW s \in Selectors,
             IsCold(s) \/ LoadEwma(s) \/ LoadRate(s) \/ Weigh(s) \/ TakeTick(s) \/ Walk(s)
      PROVE  IInv'
  BY <1>3, IsColdKeeps, LoadEwmaKeeps, LoadRateKeeps, WeighKeeps, TakeTickKeeps, WalkKeeps
<1>4. CASE UNCHANGED vars
  <2>1. TypeOK'
    BY <1>4 DEF IInv, TypeOK, vars, shared, locals
  <2>2. ASSUME NEW s \in Selectors PROVE SelectorInv(s)'
    BY <1>4, <2>2, Untouched DEF IInv, vars, shared, locals
  <2> QED
    BY <2>1, <2>2 DEF IInv
<1> QED
  BY <1>1, <1>2, <1>3, <1>4 DEF Next

LEMMA SpecIInv == Spec => []IInv
BY InitIInv, NextIInv, PTL DEF Spec

\* Every variable keeps its type: weights and sums stay natural numbers, and
\* loop indices stay within the candidates (router.rs select_candidate).
THEOREM SelectTypeCorrect == Spec => []TypeOK
<1>1. IInv => TypeOK
  BY DEF IInv
<1> QED
  BY <1>1, SpecIInv, PTL

\* The u64::MAX sentinel never enters the arithmetic, for all interleavings of
\* the two loads with the tracker's updates (router.rs, first pass).
THEOREM SelectLoadsRealLatency == Spec => []LoadedLatencyIsReal
<1>1. IInv => LoadedLatencyIsReal
  BY DEF IInv, SelectorInv, Loading, LoadedLatencyIsReal
<1> QED
  BY <1>1, SpecIInv, PTL

\* The fallback behind the walk never decides: "pos < total guarantees a hit"
\* (router.rs select_candidate).
THEOREM SelectPicksItsSlice == Spec => []WalkPicksItsSlice
<1>1. IInv => WalkPicksItsSlice
  BY DEF IInv, SelectorInv, Walking, WalkPicksItsSlice
<1> QED
  BY <1>1, SpecIInv, PTL

\* No torn read of the tracker starves a candidate or lets one outweigh the
\* best of the first pass (router.rs, WEIGHT_RESOLUTION and PROBE_FLOOR).
THEOREM SelectWeightsWithinBounds == Spec => []WeightsWithinBounds
<1>1. IInv => WeightsWithinBounds
  <2> SUFFICES ASSUME IInv, NEW s \in Selectors, pc[s] \in {"tick", "walk", "done"},
                      NEW j \in 1 .. N
               PROVE  /\ weight[s][j] \in Floor .. Resolution
                      /\ IsBest(s, j) => weight[s][j] = Resolution
    BY DEF WeightsWithinBounds
  <2>1. Weighed(s) = N /\ j <= N
    BY SelectAssumption, WeylAssumption, WeightAssumption DEF Weighed
  <2> QED
    BY <2>1 DEF IInv, SelectorInv, Weighing
<1> QED
  BY <1>1, SpecIInv, PTL

-----------------------------------------------------------------------------
(* A selection that no feedback interrupts is one step, whatever other     *)
(* selections do meanwhile: what RoutingLoop takes it for.                 *)

\* What the tracker says of a candidate, read at one instant.
Measured(s, j) ==
  IF ewma[StatsOf[j]][mode[s]] = Cold THEN NoData
  ELSE EffectiveOf(ewma[StatsOf[j]][mode[s]], rate[StatsOf[j]])

BestNow(s, b) ==
  /\ Measured(s, b) # NoData
  /\ \A j \in 1 .. N : Measured(s, j) # NoData => NoWorse(Measured(s, b), Measured(s, j))

\* w is the weight that goes with it.
WeightNow(s, j, w) ==
  \/ /\ Measured(s, j) = NoData
     /\ w = ColdWeight(\A h \in 1 .. N : Measured(s, h) = NoData, rate[StatsOf[j]])
  \/ /\ Measured(s, j) # NoData
     /\ \E b \in 1 .. N : BestNow(s, b) /\ w = WarmWeight(Measured(s, j), Measured(s, b))

\* c is what one look at the tracker makes of the sample.
ChosenAtOnce(s, c) ==
  \E w \in [1 .. N -> Nat], u \in [0 .. N -> Nat] :
    /\ \A j \in 1 .. N : WeightNow(s, j, w[j])
    /\ u[0] = 0 /\ \A j \in 1 .. N : u[j] = u[j - 1] + w[j]
    /\ u[c - 1] <= Pos(spread[s], u[N]) /\ Pos(spread[s], u[N]) < u[c]

\* The selection is about to load its first atomic.
Fresh(s) == pc[s] = "isCold" /\ i[s] = 1 /\ \A j \in 1 .. N : eff[s][j] = NoData

FirstPass == {"isCold", "loadEwma", "loadRate"}

\* What it has so far is what it would read now.
UpToDate(s) ==
  /\ \A j \in 1 .. N :
       eff[s][j] = IF pc[s] \in FirstPass /\ j >= i[s] THEN NoData ELSE Measured(s, j)
  /\ pc[s] \in {"loadEwma", "loadRate"} => ewma[StatsOf[i[s]]][mode[s]] # Cold
  /\ pc[s] = "loadRate" => seen[s] = ewma[StatsOf[i[s]]][mode[s]]
  /\ \A j \in 1 .. N : j <= Weighed(s) => WeightNow(s, j, weight[s][j])
  /\ pc[s] \in {"walk", "done"} => pos[s] = Pos(spread[s], total[s])

LEMMA MeasuredKept ==
  ASSUME NEW s \in Selectors, ewma' = ewma, rate' = rate, mode'[s] = mode[s]
  PROVE  /\ \A j \in 1 .. N : Measured(s, j)' = Measured(s, j)
         /\ \A j \in 1 .. N, w \in Nat : WeightNow(s, j, w) => WeightNow(s, j, w)'
<1>1. \A j : Measured(s, j)' = Measured(s, j)
  BY DEF Measured
<1>2. \A b \in 1 .. N : BestNow(s, b)' <=> BestNow(s, b)
  BY <1>1 DEF BestNow
<1> QED
  BY <1>1, <1>2 DEF WeightNow

\* A step that leaves a selector's locals and the tracker alone.
LEMMA LeftUpToDate ==
  ASSUME IInv, NEW s \in Selectors, UpToDate(s), ewma' = ewma, rate' = rate,
         pc'[s] = pc[s], mode'[s] = mode[s], i'[s] = i[s], seen'[s] = seen[s],
         eff'[s] = eff[s], weight'[s] = weight[s], total'[s] = total[s],
         spread'[s] = spread[s], pos'[s] = pos[s]
  PROVE  UpToDate(s)'
<1>1. \A j \in 1 .. N : Measured(s, j)' = Measured(s, j)
  BY MeasuredKept
<1>2. \A j \in 1 .. N : weight[s][j] \in Nat
  BY DEF IInv, TypeOK
<1>3. \A j \in 1 .. N : j <= Weighed(s)' => WeightNow(s, j, weight[s][j])'
  <2>1. Weighed(s)' = Weighed(s)
    BY DEF Weighed
  <2>2. \A j \in 1 .. N : j <= Weighed(s) => WeightNow(s, j, weight[s][j])
    BY DEF UpToDate
  <2> QED
    BY <1>2, <2>1, <2>2, MeasuredKept
<1>5. \A j \in 1 .. N :
        eff'[s][j] = IF pc'[s] \in FirstPass /\ j >= i'[s] THEN NoData ELSE Measured(s, j)'
  BY <1>1 DEF UpToDate
<1>6. /\ pc'[s] \in {"loadEwma", "loadRate"} => ewma'[StatsOf[i'[s]]][mode'[s]] # Cold
      /\ pc'[s] = "loadRate" => seen'[s] = ewma'[StatsOf[i'[s]]][mode'[s]]
      /\ pc'[s] \in {"walk", "done"} => pos'[s] = Pos(spread'[s], total'[s])
  BY DEF UpToDate
<1> QED
  BY <1>3, <1>5, <1>6 DEF UpToDate

LEMMA FirstPassUpToDate ==
  ASSUME IInv, NEW s \in Selectors, UpToDate(s), ewma' = ewma, rate' = rate,
         IsCold(s) \/ LoadEwma(s) \/ LoadRate(s)
  PROVE  UpToDate(s)'
<1> DEFINE here == Measured(s, i[s])
<1>1. /\ N \in Nat \ {0} /\ i[s] \in 1 .. N /\ mode'[s] = mode[s]
      /\ i \in [Selectors -> 1 .. N] /\ pc \in [Selectors -> PCs]
      /\ eff[s] \in [1 .. N -> Effective]
  BY SelectAssumption DEF IInv, TypeOK, PCs, IsCold, LoadEwma, LoadRate
<1>2. \A j \in 1 .. N : Measured(s, j)' = Measured(s, j)
  BY <1>1, MeasuredKept
<1>3. \A j \in 1 .. N :
        eff[s][j] = IF j >= i[s] THEN NoData ELSE Measured(s, j)
  BY DEF UpToDate, FirstPass, IsCold, LoadEwma, LoadRate
<1>4. ASSUME Proceed(s, "isCold", "weigh"),
             \A j \in 1 .. N :
               eff'[s][j] = IF j > i[s] THEN NoData ELSE Measured(s, j)
      PROVE  UpToDate(s)'
  <2>1. \/ i[s] < N /\ pc'[s] = "isCold" /\ i'[s] = i[s] + 1
        \/ i[s] = N /\ pc'[s] = "weigh" /\ i'[s] = 1
    BY <1>4, ProceedType DEF IInv, PCs
  <2>2. Weighed(s)' = 0
    BY <2>1 DEF Weighed
  <2>3. \A j \in 1 .. N :
          eff'[s][j] = IF pc'[s] \in FirstPass /\ j >= i'[s] THEN NoData ELSE Measured(s, j)'
    BY <1>1, <1>2, <1>4, <2>1 DEF FirstPass
  <2> QED
    BY <2>1, <2>2, <2>3 DEF UpToDate
<1>5. CASE IsCold(s) /\ ewma[StatsOf[i[s]]][mode[s]] = Cold
  <2>1. Proceed(s, "isCold", "weigh") /\ eff' = eff
    BY <1>5 DEF IsCold
  <2>2. here = NoData
    BY <1>5 DEF Measured
  <2>3. ASSUME NEW j \in 1 .. N
        PROVE  eff'[s][j] = IF j > i[s] THEN NoData ELSE Measured(s, j)
    <3>1. CASE j = i[s]
      BY <3>1, <2>1, <2>2, <1>1, <1>3
    <3>2. CASE j # i[s]
      BY <3>2, <2>1, <1>1, <1>3
    <3> QED
      BY <3>1, <3>2
  <2> QED
    BY <1>4, <2>1, <2>3
<1>6. CASE \/ IsCold(s) /\ ewma[StatsOf[i[s]]][mode[s]] # Cold
           \/ LoadEwma(s)
  <2>1. /\ pc'[s] \in {"loadEwma", "loadRate"} /\ i' = i /\ eff' = eff
        /\ ewma[StatsOf[i[s]]][mode[s]] # Cold
        /\ pc'[s] = "loadRate" => seen'[s] = ewma[StatsOf[i[s]]][mode[s]]
    <3>1. CASE IsCold(s) /\ ewma[StatsOf[i[s]]][mode[s]] # Cold
      BY <3>1, <1>1 DEF IsCold
    <3>2. CASE LoadEwma(s)
      <4>1. seen \in [Selectors -> Latencies \cup {Cold}]
        BY DEF IInv, TypeOK
      <4> QED
        BY <3>2, <1>1, <4>1 DEF LoadEwma, UpToDate
    <3> QED
      BY <1>6, <3>1, <3>2
  <2>2. Weighed(s)' = 0
    BY <2>1 DEF Weighed
  <2>3. \A j \in 1 .. N :
          eff'[s][j] = IF pc'[s] \in FirstPass /\ j >= i'[s] THEN NoData ELSE Measured(s, j)'
    BY <1>2, <1>3, <2>1 DEF FirstPass
  <2>4. /\ ewma'[StatsOf[i'[s]]][mode'[s]] # Cold
        /\ pc'[s] = "loadRate" => seen'[s] = ewma'[StatsOf[i'[s]]][mode'[s]]
        /\ pc'[s] \notin {"walk", "done"}
    BY <1>1, <2>1
  <2>5. \A j \in 1 .. N : ~(j <= Weighed(s)')
    BY <2>2
  <2> QED
    BY <2>3, <2>4, <2>5 DEF UpToDate
<1>7. CASE LoadRate(s)
  <2>1. /\ Proceed(s, "isCold", "weigh")
        /\ eff'[s] = [eff[s] EXCEPT ![i[s]] = EffectiveOf(seen[s], rate[StatsOf[i[s]]])]
    BY <1>7 DEF LoadRate, IInv, TypeOK
  <2>2. EffectiveOf(seen[s], rate[StatsOf[i[s]]]) = here
    BY <1>7 DEF UpToDate, LoadRate, Measured
  <2>3. ASSUME NEW j \in 1 .. N
        PROVE  eff'[s][j] = IF j > i[s] THEN NoData ELSE Measured(s, j)
    <3>1. CASE j = i[s]
      BY <3>1, <2>1, <2>2, <1>1
    <3>2. CASE j # i[s]
      BY <3>2, <2>1, <1>1, <1>3
    <3> QED
      BY <3>1, <3>2
  <2> QED
    BY <1>4, <2>1, <2>3
<1> QED
  BY <1>5, <1>6, <1>7

LEMMA WeighUpToDate ==
  ASSUME IInv, NEW s \in Selectors, UpToDate(s), ewma' = ewma, rate' = rate, Weigh(s)
  PROVE  UpToDate(s)'
<1>1. /\ N \in Nat \ {0} /\ i[s] \in 1 .. N /\ mode'[s] = mode[s] /\ eff' = eff
      /\ pc[s] = "weigh" /\ Weighed(s) = i[s] - 1
      /\ weight[s] \in [1 .. N -> Nat]
  BY SelectAssumption DEF IInv, TypeOK, Weigh, Weighed
<1>2. \A j \in 1 .. N : eff[s][j] = Measured(s, j)
  BY <1>1 DEF UpToDate, FirstPass
<1>3. \A b \in 1 .. N : IsBest(s, b) <=> BestNow(s, b)
  BY <1>2 DEF IsBest, Warm, BestNow
<1>4. PICK w : AddWeight(s, w) /\ WeightNow(s, i[s], w)
  <2>1. CASE eff[s][i[s]] = NoData
    <3>1. AddWeight(s, ColdWeight(Warm(s) = {}, rate[StatsOf[i[s]]]))
      BY <2>1 DEF Weigh
    <3>2. (Warm(s) = {}) <=> \A h \in 1 .. N : Measured(s, h) = NoData
      BY <1>2 DEF Warm
    <3>3. ColdWeight(Warm(s) = {}, rate[StatsOf[i[s]]])
            = ColdWeight(\A h \in 1 .. N : Measured(s, h) = NoData, rate[StatsOf[i[s]]])
      BY <3>2 DEF ColdWeight
    <3> QED
      BY <2>1, <3>1, <3>3, <1>1, <1>2 DEF WeightNow
  <2>2. CASE eff[s][i[s]] # NoData
    <3>1. PICK b \in 1 .. N :
            IsBest(s, b) /\ AddWeight(s, WarmWeight(eff[s][i[s]], eff[s][b]))
      BY <2>2 DEF Weigh
    <3> QED
      BY <2>2, <3>1, <1>1, <1>2, <1>3 DEF WeightNow
  <2> QED
    BY <2>1, <2>2
<1>5. weight'[s] = [weight[s] EXCEPT ![i[s]] = w]
  BY <1>4 DEF AddWeight, IInv, TypeOK
<1>6. \/ i[s] < N /\ pc'[s] = "weigh" /\ i'[s] = i[s] + 1
      \/ i[s] = N /\ pc'[s] = "tick"
  BY ProceedType DEF Weigh, IInv, PCs
<1>7. Weighed(s)' = i[s]
  BY <1>1, <1>6 DEF Weighed
<1>8. ASSUME NEW j \in 1 .. N, j <= i[s] PROVE WeightNow(s, j, weight[s][j])'
  <2>0. weight'[s][j] \in Nat
    <3>1. weight' \in [Selectors -> [1 .. N -> Nat]]
      BY WeighKeeps, Zenon DEF IInv, TypeOK
    <3>2. weight'[s] \in [1 .. N -> Nat]
      BY <3>1
    <3> QED
      BY <3>2
  <2>1. PICK v \in Nat : v = weight'[s][j]
    BY <2>0
  <2>2. WeightNow(s, j, v)
    <3>1. CASE j = i[s]
      BY <3>1, <2>1, <1>1, <1>4, <1>5
    <3>2. CASE j # i[s]
      <4>1. j <= Weighed(s) /\ weight'[s][j] = weight[s][j]
        BY <3>2, <1>1, <1>5, <1>8
      <4> QED
        BY <4>1, <2>1 DEF UpToDate
    <3> QED
      BY <3>1, <3>2
  <2>3. WeightNow(s, j, v)'
    BY <2>2, <1>1, MeasuredKept
  <2> QED
    BY <2>1, <2>3
<1>9. \A j \in 1 .. N : eff'[s][j] = Measured(s, j)'
  BY <1>1, <1>2, MeasuredKept
<1> QED
  BY <1>6, <1>7, <1>8, <1>9 DEF UpToDate, FirstPass

LEMMA SampleUpToDate ==
  ASSUME IInv, NEW s \in Selectors, UpToDate(s), ewma' = ewma, rate' = rate,
         TakeTick(s) \/ Walk(s)
  PROVE  UpToDate(s)'
<1>1. /\ mode'[s] = mode[s] /\ eff' = eff /\ weight' = weight /\ total' = total
      /\ pc[s] \in {"tick", "walk"} /\ pc'[s] \in {"walk", "done"}
      /\ Weighed(s) = N /\ Weighed(s)' = N
      /\ N \in Nat
  BY SelectAssumption DEF IInv, TypeOK, TakeTick, Walk, Weighed
<1>2. pos'[s] = Pos(spread'[s], total'[s])
  <2>1. CASE TakeTick(s)
    <3>1. pos'[s] = Pos(Spread(counter), total[s]) /\ spread'[s] = Spread(counter)
      BY <2>1 DEF IInv, TypeOK, TakeTick
    <3> QED
      BY <3>1, <1>1
  <2>2. CASE Walk(s)
    BY <2>2, <1>1 DEF Walk, UpToDate
  <2> QED
    BY <2>1, <2>2
<1>3. \A j \in 1 .. N : eff'[s][j] = Measured(s, j)'
  BY <1>1, MeasuredKept DEF UpToDate, FirstPass
<1>4. ASSUME NEW j \in 1 .. N PROVE WeightNow(s, j, weight[s][j])'
  <2>1. PICK v \in Nat : v = weight[s][j]
    BY DEF IInv, TypeOK
  <2>2. WeightNow(s, j, v)
    BY <1>1, <2>1 DEF UpToDate
  <2>3. WeightNow(s, j, v)'
    BY <2>2, <1>1, MeasuredKept
  <2> QED
    BY <2>1, <2>3, <1>1
<1> QED
  BY <1>1, <1>2, <1>3, <1>4 DEF UpToDate, FirstPass

LEMMA QuietStep ==
  ASSUME IInv, NEW s \in Selectors, UpToDate(s), [Next]_vars, ewma' = ewma, rate' = rate
  PROVE  UpToDate(s)'
<1>1. CASE \/ IsCold(s) \/ LoadEwma(s) \/ LoadRate(s)
           \/ Weigh(s) \/ TakeTick(s) \/ Walk(s)
  BY <1>1, FirstPassUpToDate, WeighUpToDate, SampleUpToDate
<1>2. ASSUME NEW r \in Selectors \ {s},
             \/ IsCold(r) \/ LoadEwma(r) \/ LoadRate(r)
             \/ Weigh(r) \/ TakeTick(r) \/ Walk(r)
      PROVE  UpToDate(s)'
  <2>1. /\ pc \in [Selectors -> PCs] /\ i \in [Selectors -> 1 .. N]
        /\ DOMAIN seen = Selectors /\ DOMAIN eff = Selectors
        /\ DOMAIN weight = Selectors /\ DOMAIN total = Selectors
        /\ DOMAIN pos = Selectors /\ DOMAIN spread = Selectors
    BY DEF IInv, TypeOK, PCs
  <2>2. /\ pc'[s] = pc[s] /\ mode'[s] = mode[s] /\ i'[s] = i[s]
        /\ seen'[s] = seen[s] /\ eff'[s] = eff[s]
        /\ weight'[s] = weight[s] /\ total'[s] = total[s]
        /\ spread'[s] = spread[s] /\ pos'[s] = pos[s]
    BY <1>2, <2>1 DEF IsCold, LoadEwma, LoadRate, Weigh, AddWeight, TakeTick, Walk, Proceed
  <2> QED
    BY <2>2, LeftUpToDate
<1>3. CASE UNCHANGED locals
  BY <1>3, LeftUpToDate DEF locals
<1>4. ASSUME NEW x \in Stats, NEW m \in Modes, UpdateEwma(x, m) PROVE UNCHANGED locals
  BY <1>4 DEF UpdateEwma
<1>5. ASSUME NEW x \in Stats, RecordOutcome(x) PROVE UNCHANGED locals
  BY <1>5 DEF RecordOutcome
<1>6. UNCHANGED vars => UNCHANGED locals
  BY DEF vars
<1> QED
  BY <1>1, <1>2, <1>3, <1>4, <1>5, <1>6 DEF Next

\* As long as the tracker stands still, a selection that walks its loads, its
\* two passes and its tick one by one chooses what a single look at the tracker
\* and a single tick would choose, from every state in which it may start and
\* whatever other selections of the alias do in between.
THEOREM QuietSelectionIsAtomic ==
  ASSUME NEW s \in Selectors
  PROVE  Spec => [](Fresh(s) /\ [][UNCHANGED <<ewma, rate>>]_vars
                      => [](pc[s] = "done" => ChosenAtOnce(s, chosen[s])))
<1>1. IInv /\ Fresh(s) => UpToDate(s)
  <2>1. SUFFICES ASSUME IInv, Fresh(s) PROVE UpToDate(s)
    OBVIOUS
  <2>2. Weighed(s) = 0 /\ N \in Nat
    BY <2>1, SelectAssumption DEF Fresh, Weighed
  <2> QED
    BY <2>1, <2>2 DEF Fresh, UpToDate, FirstPass
<1>2. IInv /\ UpToDate(s) /\ [Next]_vars /\ [UNCHANGED <<ewma, rate>>]_vars => UpToDate(s)'
  <2>1. SUFFICES ASSUME IInv, UpToDate(s), [Next]_vars, [UNCHANGED <<ewma, rate>>]_vars
                 PROVE  UpToDate(s)'
    OBVIOUS
  <2>2. ewma' = ewma /\ rate' = rate
    BY <2>1 DEF vars, shared
  <2> QED
    BY <2>1, <2>2, QuietStep
<1>3. IInv /\ UpToDate(s) => (pc[s] = "done" => ChosenAtOnce(s, chosen[s]))
  <2>1. SUFFICES ASSUME IInv, UpToDate(s), pc[s] = "done"
                 PROVE  ChosenAtOnce(s, chosen[s])
    OBVIOUS
  <2>2. /\ N \in Nat /\ Weighed(s) = N
        /\ weight[s] \in [1 .. N -> Nat] /\ upto[s] \in [0 .. N -> Nat]
    BY <2>1, SelectAssumption DEF Weighed, IInv, TypeOK
  <2>3. /\ upto[s][0] = 0 /\ total[s] = upto[s][N]
        /\ \A j \in 1 .. N : upto[s][j] = upto[s][j - 1] + weight[s][j]
    BY <2>1, <2>2 DEF IInv, SelectorInv, Weighing
  <2>4. upto[s][chosen[s] - 1] <= pos[s] /\ pos[s] < upto[s][chosen[s]]
    BY <2>1 DEF IInv, SelectorInv, Walking
  <2>5. \A j \in 1 .. N : WeightNow(s, j, weight[s][j])
    <3>1. \A j \in 1 .. N : j <= Weighed(s)
      BY <2>2
    <3> QED
      BY <2>1, <3>1 DEF UpToDate
  <2>6. pos[s] = Pos(spread[s], upto[s][N])
    BY <2>1, <2>3 DEF UpToDate
  <2> QED
    BY <2>2, <2>3, <2>4, <2>5, <2>6 DEF ChosenAtOnce
<1> QED
  BY <1>1, <1>2, <1>3, SpecIInv, PTL DEF Spec
=============================================================================
