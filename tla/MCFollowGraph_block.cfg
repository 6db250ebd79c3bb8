\* A follow and a block at the same time; nothing fails.
CONSTANTS
  Users = {u1, u2}
  NoOne = NoOne
  Procs = {p1, p2}
  MaxRequests = 2
  MaxFail = 0
SPECIFICATION Spec
INVARIANT BlockedDoNotFollow
CHECK_DEADLOCK FALSE
