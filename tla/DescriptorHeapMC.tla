--------------------------- MODULE DescriptorHeapMC ---------------------------
(***************************************************************************)
(* Two tables and a binding set on a heap that starts with three           *)
(* descriptors, which is no power of two.                                  *)
(***************************************************************************)
EXTENDS DescriptorHeap, TLC

\* What nobody has written is never looked at.
View ==
    <<size, allocated, searchStart, number, owner, written,
      [o \in Owner |-> [s \in written[o] |->
          <<cpu[owner[o].first + s], gpu[owner[o].first + s]>>]]>>

Symmetry == Permutations(Table)
=============================================================================
