--------------------------- MODULE MCProbeSchedule ---------------------------
(***************************************************************************)
(* The code's resolution and floor; an alias of two candidates and one of  *)
(* five, all but one at the full weight.  The steps are odd and close to   *)
(* WordSize / phi, as WEYL_STEP is.                                        *)
(***************************************************************************)
EXTENDS ProbeSchedule

MCTwo == <<1000, 10>>
MCFive == <<1000, 1000, 1000, 1000, 10>>
=============================================================================
