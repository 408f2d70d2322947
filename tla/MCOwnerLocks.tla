---------------------------- MODULE MCOwnerLocks ----------------------------
(* Instances of OwnerLocks for TLC.                                         *)
EXTENDS OwnerLocks

CONSTANTS p1, p2, p3
=============================================================================
