-------------------------- MODULE MCSelectCandidate -------------------------
(***************************************************************************)
(* Small instances of SelectCandidate with Share computed exactly: k = 3,  *)
(* rounding half up as f64::round does on positive numbers.                *)
(***************************************************************************)
EXTENDS SelectCandidate, TLC

MCSharedStatsOf == (1 :> "x") @@ (2 :> "y") @@ (3 :> "x")

MCShare(num, den, d) == (2 * Resolution * num ^ 3 + d * den ^ 3) \div (2 * d * den ^ 3)
=============================================================================
