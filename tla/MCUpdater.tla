----------------------------- MODULE MCUpdater -----------------------------
(* Small instances of Updater; versions are interchangeable, which runs      *)
(* without a temporal property may use.                                      *)
EXTENDS Updater, TLC

Symmetry == Permutations(Versions)
=============================================================================
