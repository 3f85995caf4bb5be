--------------------------- MODULE MCRoutingLoop ----------------------------
(***************************************************************************)
(* Two candidates at the default smoothing; the second one has trouble.    *)
(* Share is exact for k = 3.  The word is at least as large as any total,  *)
(* so that every weight unit has its tick.                                 *)
(***************************************************************************)
EXTENDS RoutingLoop

MCTrueLat == <<2, 3>>

MCShare(num, den, d) == (2 * Resolution * num ^ 3 + d * den ^ 3) \div (2 * d * den ^ 3)
=============================================================================
