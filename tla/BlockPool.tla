----------------------------- MODULE BlockPool -----------------------------
(***************************************************************************)
(* What the allocators of common/msgque promise the queue: blocks handed   *)
(* out under descriptors that are never used again, each with a count of   *)
(* references.  A block has one live descriptor at a time, and belongs to  *)
(* its holders until the last of them has released it.                     *)
(***************************************************************************)
EXTENDS Naturals

CONSTANTS Blocks,       \* the blocks of memory
          Versions      \* how many descriptors a block may have

VARIABLES issued,       \* the descriptors handed out so far
          count         \* the references a descriptor has

poolVars == <<issued, count>>

PoolMd == [blk : Blocks, ver : 0 .. Versions - 1]

PoolInit == issued = {} /\ count = [m \in PoolMd |-> 0]

\* A fresh descriptor of a block nobody has; allocate may also fail.
PoolAllocate == \E m \in PoolMd \ issued :
                  /\ \A n \in issued : n.blk = m.blk => count[n] = 0
                  /\ issued' = issued \cup {m}
                  /\ count' = [count EXCEPT ![m] = 1]

\* dup succeeds on a descriptor somebody still holds, and on no other.
PoolDup == \E m \in issued : /\ count[m] > 0
                             /\ count' = [count EXCEPT ![m] = @ + 1]
                             /\ UNCHANGED issued

PoolRelease == \E m \in issued : /\ count[m] > 0
                                 /\ count' = [count EXCEPT ![m] = @ - 1]
                                 /\ UNCHANGED issued

PoolNext == PoolAllocate \/ PoolDup \/ PoolRelease

PoolSpec == PoolInit /\ [][PoolNext]_poolVars
=============================================================================
