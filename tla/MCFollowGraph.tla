---------------------------- MODULE MCFollowGraph ----------------------------
(* FollowGraph with a few users and processes.                             *)
EXTENDS FollowGraph, TLC

\* Users differ in nothing, and neither do processes.
Symmetry == Permutations(Users) \cup Permutations(Procs)
=============================================================================
