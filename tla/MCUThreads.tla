----------------------------- MODULE MCUThreads -----------------------------
(***************************************************************************)
(* A TLC instance of UThreads.                                             *)
(***************************************************************************)
EXTENDS UThreads
=============================================================================
