----------------------------- MODULE MCJobQueue -----------------------------
(* Instances of JobQueue for TLC: runners and processes are interchangeable. *)
EXTENDS JobQueue, TLC

Symmetry == Permutations(Slots) \cup Permutations(Procs)
=============================================================================
