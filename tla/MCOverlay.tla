------------------------------ MODULE MCOverlay ------------------------------
(* Inodes and documents are interchangeable, and every property treats them *)
(* alike.                                                                   *)
EXTENDS Overlay, TLC

Symmetry == Permutations(Inodes) \cup Permutations(Docs)
==============================================================================
