------------------------------ MODULE MCInteract ------------------------------
(* Interact with two users and processes.                                  *)
EXTENDS Interact, TLC

\* Processes differ in nothing.
Symmetry == Permutations(Procs)
=============================================================================
