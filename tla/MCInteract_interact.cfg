\* Two users, two processes, three requests; one command fails or one kill.
CONSTANTS
  Users = {owner, guest}
  Owner = owner
  NoOne = NoOne
  Procs = {p1, p2}
  PageCount = 1
  MaxInteracts = 2
  MaxRequests = 3
  MaxFail = 1
SPECIFICATION Spec
SYMMETRY Symmetry
INVARIANTS
  TypeOK
  ListedHaveDetails
  SentAndGone
  CountsAgree
PROPERTY TrimmedWereRead
CHECK_DEADLOCK FALSE
