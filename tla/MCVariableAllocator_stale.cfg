\* Two processes: one releases a block, the other tries to dup it meanwhile.
CONSTANTS
  Procs = {p1, p2}
  NodeCount = 5
  Versions = 20
  RetryLimit = 2
  LightRetryLimit = 1
  Needs = {1}
  MaxAlloc = 2
  MaxDups = 1
  MaxCrash = 0
  StaleDups = TRUE
SPECIFICATION Spec
SYMMETRY Symmetry
INVARIANT RefsAreLive
CHECK_DEADLOCK FALSE
