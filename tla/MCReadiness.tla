---------------------------- MODULE MCReadiness -----------------------------
(* Small instances of Readiness for TLC.                                     *)
EXTENDS Readiness, TLC

Symmetry == Permutations(Probe)
=============================================================================
