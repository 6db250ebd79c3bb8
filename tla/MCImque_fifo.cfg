\* Two processes, three blocks, two enqueues, one kill; no symmetry, for liveness.
CONSTANTS
  Procs = {p1, p2}
  Blocks = {b1, b2, b3}
  Versions = 4
  MaxEnq = 2
  MaxCrash = 1
  END = END
  JUNK = JUNK
SPECIFICATION FairSpec
INVARIANTS
  TypeOK
  RefsCounted
  HeldAreCurrent
  ChainOK
  LeakBounded
PROPERTIES
  ImplementsFifo
  CallsEnd
