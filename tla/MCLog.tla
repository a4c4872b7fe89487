------------------------------- MODULE MCLog -------------------------------
(***************************************************************************)
(* TLC instances of Log.                                                   *)
(***************************************************************************)
EXTENDS Log, TLC

ProcSymmetry == Permutations(Procs)
BlockSymmetry == Permutations(Blocks)
ProcBlockSymmetry == ProcSymmetry \cup BlockSymmetry
=============================================================================
