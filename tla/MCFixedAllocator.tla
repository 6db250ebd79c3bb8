-------------------------- MODULE MCFixedAllocator --------------------------
(* The block cache for TLC.                                                *)
EXTENDS FixedAllocator, TLC
=============================================================================
