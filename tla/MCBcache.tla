------------------------------ MODULE MCBcache ------------------------------
(* A small instance of Bcache for TLC.                                     *)
EXTENDS Bcache

(* What follows once bget has been asked for a renamed block is left out:  *)
(* the properties that could still hold say nothing about it.              *)
NotRenamed == "renamed" \notin mishaps
=============================================================================
