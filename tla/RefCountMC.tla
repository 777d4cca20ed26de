----------------------------- MODULE RefCountMC -----------------------------
(* Small instances of the reference counting. *)
EXTENDS RefCountProperties, TLC

Symmetry == Permutations(Thread) \cup Permutations(Object)
=============================================================================
