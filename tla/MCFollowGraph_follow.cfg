\* Three users, two processes, three requests; one command fails or one kill.
CONSTANTS
  Users = {u1, u2, u3}
  NoOne = NoOne
  Procs = {p1, p2}
  MaxRequests = 3
  MaxFail = 1
SPECIFICATION Spec
SYMMETRY Symmetry
INVARIANTS
  TypeOK
  EdgesSettle
  CountsSettle
  LoggedFirst
CHECK_DEADLOCK FALSE
