\* Two processes, three chunks to lend and one that stays, five allocations: two
\* released neighbours are joined by both processes at once. When the calls are
\* used up nothing is left to do: no deadlock check.
CONSTANTS
  Procs = {p1, p2}
  NodeCount = 5
  Versions = 20
  RetryLimit = 1
  LightRetryLimit = 1
  Needs = {1}
  MaxAlloc = 5
  MaxDups = 0
  MaxCrash = 0
  StaleDups = FALSE
SPECIFICATION Spec
SYMMETRY Symmetry
INVARIANTS
  TypeOK
  Partition
  Sorted
  AssertionsHold
PROPERTY NoWordReturns
CHECK_DEADLOCK FALSE
