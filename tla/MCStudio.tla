------------------------------ MODULE MCStudio ------------------------------
(* Studio for TLC: what a and b stand for is interchangeable, and what x and *)
(* y do.                                                                     *)
EXTENDS Studio, MCCables

Symmetry == Permutations(Asks) \cup Permutations(Contents)
=============================================================================
