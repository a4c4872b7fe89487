------------------------------- MODULE MCProc -------------------------------
(* Proc on small process tables.                                           *)
EXTENDS Proc
=============================================================================
