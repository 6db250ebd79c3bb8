\* Three allocations of either size, a dup and a kill; no symmetry, for liveness.
\* When the calls are used up nothing is left to do: no deadlock check.
CONSTANTS
  Procs = {p1, p2}
  NodeCount = 5
  Versions = 14
  RetryLimit = 1
  LightRetryLimit = 1
  Needs = {1, 2}
  MaxAlloc = 3
  MaxDups = 1
  MaxCrash = 1
  StaleDups = FALSE
SPECIFICATION FairSpec
INVARIANTS
  Partition
  ReferencesCounted
  
PROPERTY CallsEnd
CHECK_DEADLOCK FALSE
