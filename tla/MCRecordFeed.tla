---------------------------- MODULE MCRecordFeed ----------------------------
(* RecordFeed with a few users and processes.                              *)
EXTENDS RecordFeed, TLC

Symmetry == Permutations(Users) \cup Permutations(Procs)
=============================================================================
