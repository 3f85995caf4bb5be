----------------------------- MODULE MCListeners -----------------------------
(* A small instance of Listeners. *)
EXTENDS Listeners
=============================================================================
