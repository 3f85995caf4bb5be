--------------------------- MODULE MCResponseRelay ---------------------------
(* A small instance of ResponseRelay. *)
EXTENDS ResponseRelay
=============================================================================
