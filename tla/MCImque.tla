------------------------------ MODULE MCImque ------------------------------
(* The message queue for TLC, with the theorems about it.                  *)
EXTENDS ImqueProofs, TLC
=============================================================================
