----------------------------- MODULE WeylSample -----------------------------
(***************************************************************************)
(* The sample of src/router.rs `select_candidate`: the alias' wrapping     *)
(* counter, the golden-ratio Weyl sequence over it, and its scaling to a   *)
(* position among the weights.  WordSize is 2^64 in the code.              *)
(***************************************************************************)
EXTENDS Integers

CONSTANTS WordSize, WeylStep

ASSUME WeylAssumption == WordSize \in Nat \ {0} /\ WeylStep \in Nat

\* A slip: the counter is loaded and stored back without the increment.
StaleTick(t) == t

\* A slip: the counter does not wrap.
UnwrappedTick(t) == t + 1

\* fetch_add wraps at the word size.
NextTick(t) == (t + 1) % WordSize

\* `next_tick(alias).wrapping_mul(WEYL_STEP)`
Spread(t) == (t * WeylStep) % WordSize

\* A slip: positions are counted from one.
PosFromOne(sp, tot) == (sp * tot) \div WordSize + 1

\* A slip: the sample is reduced to the total, where it should be scaled.
ReducedPos(sp, tot) == sp % tot

\* `((spread as u128 * total as u128) >> 64)`
Pos(sp, tot) == (sp * tot) \div WordSize
=============================================================================
