-------------------------- MODULE CandidateWeights --------------------------
(***************************************************************************)
(* The arithmetic of src/router.rs `select_candidate`: effective latencies *)
(* and the weights made from them.                                         *)
(*                                                                         *)
(* Rates are integers out of RateScale and latencies whole milliseconds,   *)
(* so an effective latency is the fraction lat/rate.  f64 `powf` and       *)
(* rounding are the constant Share, of which only the bounds assumed below *)
(* are used.                                                               *)
(***************************************************************************)
EXTENDS Integers

CONSTANTS
  Cold,               \* the u64::MAX sentinel
  MaxLatency,         \* bound on an observed latency
  RateScale,          \* 1.0 as an integer
  MinRate,            \* MIN_SUCCESS_RATE
  Resolution,         \* WEIGHT_RESOLUTION
  Floor,              \* WEIGHT_RESOLUTION * PROBE_FLOOR
  ColdDivisor,        \* 1 / COLD_PROBE_WEIGHT
  Share(_, _, _)      \* round(Resolution * (num/den)^k / divisor)

Latencies == 0 .. MaxLatency
Rates == 0 .. RateScale
Ratios == 1 .. (MaxLatency + 1) * RateScale   \* lat * rate, both at least 1

ASSUME WeightAssumption ==
  /\ MaxLatency \in Nat
  /\ Cold \notin Latencies
  /\ RateScale \in Nat \ {0}
  /\ MinRate \in 1 .. RateScale
  /\ Resolution \in Nat \ {0}
  /\ Floor \in 1 .. Resolution
  /\ ColdDivisor \in Nat \ {0}

\* A ratio of at most one gets at most the resolution, the ratio one gets it
\* all.  (f64: x / x is 1.0 and 1.0.powf(k) is 1.0.)
ASSUME ShareAssumption ==
  /\ \A num, den \in Ratios, d \in {1, ColdDivisor} :
       num <= den => Share(num, den, d) \in 0 .. Resolution
  /\ \A num \in Ratios : Share(num, num, 1) = Resolution

AtLeast(lo, v) == IF v < lo THEN lo ELSE v

\* An effective latency; NoData is None in `effective`.
NoData == [lat |-> 0, rate |-> 0]
Effective == {NoData} \cup [lat : 1 .. MaxLatency + 1, rate : 1 .. RateScale]

EffectiveOf(ms, r) == [lat |-> AtLeast(1, ms), rate |-> AtLeast(MinRate, r)]

\* e is at least as good as f: e.lat / e.rate <= f.lat / f.rate.
NoWorse(e, f) == e.lat * f.rate <= f.lat * e.rate

\* A slip: the probe floor is left out.
Unfloored(w) == w

Floored(w) == AtLeast(Floor, w)

\* (best / latency)^k for a warm candidate, given the best one.
WarmWeight(e, b) == Floored(Share(b.lat * e.rate, e.lat * b.rate, 1))

\* A cold one gets a fixed share, the full one if everybody is cold, scaled
\* by its success rate as it is now.
ColdWeight(allCold, r) ==
  Floored(Share(AtLeast(MinRate, r), RateScale, IF allCold THEN 1 ELSE ColdDivisor))
=============================================================================
