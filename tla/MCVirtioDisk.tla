---------------------------- MODULE MCVirtioDisk ----------------------------
(* The driver with the eight descriptors of the code.                      *)
EXTENDS VirtioDisk

CONSTANTS p1, p2, p3
=============================================================================
