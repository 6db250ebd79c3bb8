\* Two phones, two processes, four requests; one command fails or one kill.
CONSTANTS
  Phones = {f1, f2}
  NoPhone = NoPhone
  Passwords = {w1, w2}
  RandomPassword = RandomPassword
  Tokens = {t1, t2}
  Procs = {p1, p2}
  MaxUsers = 2
  MaxRequests = 4
  MaxFail = 1
SPECIFICATION Spec
SYMMETRY Symmetry
INVARIANTS
  TypeOK
  MappedHaveAccounts
  OnePhoneOneUser
  TokenWithPassword
  AnswersHold
CHECK_DEADLOCK FALSE
