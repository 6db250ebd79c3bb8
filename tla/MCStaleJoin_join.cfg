\* Two processes, five chunks, sixteen calls. No version exceeds 10: none wraps.
CONSTANTS
  runner = p1
  sleeper = p2
  Procs = {p1, p2}
  NodeCount = 6
  Versions = 24
  RetryLimit = 1
  LightRetryLimit = 1
  Needs = {1, 2}
  MaxAlloc = 10
  MaxDups = 0
  MaxCrash = 0
  StaleDups = FALSE
SPECIFICATION ScheduledSpec
INVARIANT Partition
CHECK_DEADLOCK FALSE
