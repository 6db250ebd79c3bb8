\* Two users, two processes, four requests, a failure; a page holds one id. When
\* the requests are used up nothing is left to do: no deadlock check.
CONSTANTS
  Users = {u1, u2}
  NoOne = NoOne
  Procs = {p1, p2}
  PageCount = 1
  Pages = {1}
  MaxRecords = 1
  MaxRequests = 4
  MaxFail = 1
SPECIFICATION Spec
SYMMETRY Symmetry
INVARIANTS
  TypeOK
  FeedComplete
  PushedOnce
  CountBounded
CHECK_DEADLOCK FALSE
