------------------------------ MODULE MCGcpAuth ------------------------------
(* A small instance of GcpAuth. *)
EXTENDS GcpAuth
=============================================================================
