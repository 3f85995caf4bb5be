---------------------------- MODULE MCSlotReaders ----------------------------
(***************************************************************************)
(* The default smoothing (3/10) and threshold (one half), rates in steps   *)
(* of 1/100, three requests in flight.                                     *)
(***************************************************************************)
EXTENDS SlotReaders, TLC

Symmetry == Permutations(Requests)
=============================================================================
