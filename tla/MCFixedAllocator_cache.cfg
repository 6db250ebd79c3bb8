\* One size class and a size beyond it, two processes, two blocks, four calls
\* of allocate, one kill; no symmetry, for liveness. When the calls are used up
\* nothing is left to do: no deadlock check.
CONSTANTS
  Procs = {p1, p2}
  Blocks = {b1, b2}
  Versions = 12
  WordSize = 8
  SuperBlockCount = 1
  Sizes = {1, 2}
  MaxAlloc = 4
  MaxRefs = 2
  MaxCrash = 1
  END = END
  JUNK = JUNK
SPECIFICATION FairSpec
INVARIANTS
  TypeOK
  OnePlace
  CacheOK
  CountersAtRest
PROPERTIES
  ImplementsPool
  CallsEnd
CHECK_DEADLOCK FALSE
