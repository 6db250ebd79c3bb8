\* One process, one size class, and a request beyond BLOCK_SIZE_LAST.
CONSTANTS
  Procs = {p1}
  Blocks = {b1, b2}
  Versions = 6
  WordSize = 8
  SuperBlockCount = 1
  Sizes = {1, 2}
  MaxAlloc = 2
  MaxRefs = 1
  MaxCrash = 0
  END = END
  JUNK = JUNK
SPECIFICATION Spec
INVARIANT LargeAreDelegated
