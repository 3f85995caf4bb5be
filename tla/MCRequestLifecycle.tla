------------------------- MODULE MCRequestLifecycle -------------------------
(***************************************************************************)
(* A small instance of RequestLifecycle: an alias with an API-key candidate *)
(* and a GCP candidate, an alias configured without candidates, and a      *)
(* budget of three two-byte permits.                                       *)
(***************************************************************************)
EXTENDS RequestLifecycle, TLC

CONSTANTS chat, empty, keyed, gcp

MCCandidatesOf == (chat :> {keyed, gcp}) @@ (empty :> {})
=============================================================================
