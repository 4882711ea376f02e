----------------------------- MODULE MCTargets -----------------------------
(* Targets for TLC: modules with a panel are interchangeable, and pictures.  *)
EXTENDS Targets, TLC

Symmetry == Permutations(Modules) \cup Permutations(Pictures)
=============================================================================
