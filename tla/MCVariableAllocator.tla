------------------------ MODULE MCVariableAllocator ------------------------
(* The variable allocator for TLC.                                         *)
EXTENDS VariableAllocator, TLC

Symmetry == Permutations(Procs)
=============================================================================
