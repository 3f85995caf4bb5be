-------------------------------- MODULE Ewma --------------------------------
(***************************************************************************)
(* The two moving averages of src/tracker.rs on a grid: alpha is           *)
(* AlphaNum / AlphaDen, a latency is whole milliseconds as in the code,    *)
(* and the success rate, an f64 there, is rounded to RateScale steps here. *)
(***************************************************************************)
EXTENDS Integers

CONSTANTS
  AlphaNum, AlphaDen, \* ewma_alpha, in [0, 1] by Config::validate
  RateMax,            \* 1.0 as an integer
  Threshold,          \* error_threshold, on the same scale
  NoSample            \* the u64::MAX sentinel

ASSUME EwmaAssumption ==
  /\ AlphaDen \in Nat \ {0} /\ AlphaNum \in 0 .. AlphaDen
  /\ RateMax \in Nat \ {0} /\ Threshold \in 0 .. RateMax
  /\ NoSample \notin Nat

\* f64::round of a / b: half away from zero.
RoundDiv(a, b) == (2 * a + b) \div (2 * b)

\* alpha * sample + (1 - alpha) * old
Blend(old, sample) == RoundDiv(AlphaNum * sample + (AlphaDen - AlphaNum) * old, AlphaDen)

\* update_ewma: the first sample is taken as it is.
NextLatency(old, ms) == IF old = NoSample THEN ms ELSE Blend(old, ms)

\* A slip: the sample of a success is a percentage.
PercentRate(old, ok) == Blend(old, IF ok THEN 100 * RateMax ELSE 0)

\* record_outcome
NextRate(old, ok) == Blend(old, IF ok THEN RateMax ELSE 0)

\* is_degraded
Degraded(rate) == RateMax - rate > Threshold

-----------------------------------------------------------------------------
Dist(a, b) == IF a <= b THEN b - a ELSE a - b

\* Where rounding stops an average that is fed one value for ever: within
\* 1 / (2 * alpha) of it.
Settled(avg, sample) == 2 * AlphaNum * Dist(avg, sample) <= AlphaDen
=============================================================================
