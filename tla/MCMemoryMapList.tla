--------------------------- MODULE MCMemoryMapList ---------------------------
(* A small instance of MemoryMapList for TLC.                              *)
EXTENDS MemoryMapList, TLC

Symmetry == Permutations(Node) \cup Permutations(Type) \cup Permutations(Name)
=============================================================================
