------------------------------- MODULE MCSlab -------------------------------
(* Small instances of Slab for TLC.  Pages are interchangeable model values. *)
EXTENDS Slab, TLC

PageSymmetry == Permutations(Pages)
=============================================================================
