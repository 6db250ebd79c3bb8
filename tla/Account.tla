------------------------------- MODULE Account -------------------------------
(***************************************************************************)
(* The accounts of cgi/lib/Login.cc: a phone is enrolled, its user proves  *)
(* a code, logs in and out and changes the password.  A request is a       *)
(* process (cgi/account_cgi.cc) that reads the whole account by one Redis  *)
(* command and writes it back by a later one, with no lock: each command   *)
(* is a step.  One may fail, and a process be killed between two.          *)
(*                                                                         *)
(* What a process computes from the account it read it computes at once    *)
(* here: copy is what it is about to write.  asked, repeated, due, stale,  *)
(* lost, met and broken are history, for the properties at the end: asked  *)
(* are the tokens and passwords that were stored for a user, repeated the  *)
(* tokens and passwords of enrolls that were answered and stored nothing.  *)
(***************************************************************************)
EXTENDS Naturals, FiniteSets

CONSTANTS Phones, NoPhone,
          Passwords,    \* those that clients ask for
          RandomPassword, \* the one of an account nobody has verified
          Tokens,       \* what CreateToken may return
          Procs,
          MaxUsers,     \* how many users are created
          MaxRequests,  \* how many requests are made
          MaxFail       \* how many commands fail and processes are killed

ASSUME AccountAssumption == /\ NoPhone \notin Phones
                            /\ RandomPassword \notin Passwords
                            /\ MaxUsers \in Nat
                            /\ MaxRequests \in Nat
                            /\ MaxFail \in Nat

VARIABLES sequence,   \* the number of the last user
          phoneUser,  \* the user of a phone, 0 when it has none
          account,    \* the account of a user
          pc, req,    \* the next command of a process, and its request
          user,       \* the user it is about
          copy,       \* the account it has read, with its changes
          requests, failed,
          asked, repeated, due, stale, lost, met, broken

store   == <<sequence, phoneUser, account>>
process == <<pc, req, user, copy>>
history == <<asked, repeated, due, stale, lost, met, broken>>
vars == <<store, process, requests, failed, history>>

Users == 1 .. MaxUsers
Codes == {"6666", "9898"}

AllPasswords == Passwords \cup {RandomPassword}

Accounts == [phone : Phones, status : {"ENROLL", "LOGIN", "LOGOUT"},
             password : AllPasswords, token : Tokens, code : Codes,
             tmp_password : AllPasswords, tmp_token : Tokens]
NoAccount == [phone |-> NoPhone]

\* Users that need no token: in VerifyCode, and in CheckLogin.
IsVerified == {1}
IsLoggedIn == {1, 4}

Requests == [op : {"enroll", "login", "reset"}, phone : Phones, password : Passwords]
       \cup [op : {"logout"}, user : Users, token : Tokens]
       \cup [op : {"modify"}, user : Users, o_pass : Passwords, n_pass : Passwords]
       \cup [op : {"code"}, user : Users]
       \cup [op : {"verify"}, user : Users, token : Tokens, code : Codes]
NoRequest == [op |-> "none"]

TypeOK == /\ sequence \in 0 .. MaxUsers
          /\ phoneUser \in [Phones -> 0 .. sequence]
          /\ account \in [Users -> Accounts \cup {NoAccount}]
          /\ \A u \in Users : account[u] # NoAccount => u <= sequence
          /\ pc \in [Procs -> {"idle", "phone", "incr", "map", "check", "get", "set"}]
          /\ req \in [Procs -> Requests \cup {NoRequest}]
          /\ user \in [Procs -> 0 .. MaxUsers]
          /\ copy \in [Procs -> Accounts \cup {NoAccount}]
          /\ requests \in 0 .. MaxRequests
          /\ failed \in 0 .. MaxFail
          /\ asked \subseteq Users \X Tokens \X Passwords
          /\ repeated \subseteq Users \X Tokens \X Passwords
          /\ due \in [Users -> [passwords : SUBSET AllPasswords,
                                status : {"ENROLL", "LOGIN", "LOGOUT"}]]
          /\ stale \in [Procs -> BOOLEAN]
          /\ lost \subseteq Users
          /\ met \subseteq Phones /\ broken \subseteq Phones

Init == /\ sequence = 0
        /\ phoneUser = [f \in Phones |-> 0]
        /\ account = [u \in Users |-> NoAccount]
        /\ pc = [p \in Procs |-> "idle"]
        /\ req = [p \in Procs |-> NoRequest]
        /\ user = [p \in Procs |-> 0]
        /\ copy = [p \in Procs |-> NoAccount]
        /\ requests = 0 /\ failed = 0
        /\ asked = {} /\ repeated = {}
        /\ due = [u \in Users |-> [passwords |-> {}, status |-> "ENROLL"]]
        /\ stale = [p \in Procs |-> FALSE]
        /\ lost = {} /\ met = {} /\ broken = {}
-----------------------------------------------------------------------------
(* What a request does to the account it has read.                         *)

\* The account a new user gets; t1 and t2 are the tokens made for it.
NewAccount(r, t1, t2) ==
  [phone |-> r.phone, status |-> "ENROLL", password |-> RandomPassword,
   token |-> t1, code |-> "6666", tmp_password |-> r.password, tmp_token |-> t2]

\* The request is turned down, or there is nothing to write.
Refuses(r, u, a) ==
  \/ r.op = "enroll" /\ a.status # "ENROLL"
  \/ r.op = "login" /\ a.password # r.password
  \/ r.op = "modify" /\ a.password # r.o_pass
  \/ r.op = "verify" /\ (a.code # r.code \/ (a.tmp_token # r.token /\ u \notin IsVerified))

\* An enroll of a phone that was enrolled and not verified yet: it is answered
\* with the token that waits there, and the password it asks for is dropped.
Repeats(r, a) == r.op = "enroll" /\ a.status = "ENROLL"

LoggedIn(a) == [a EXCEPT !.status = "LOGIN"]
LoggedOut(a, t) == [a EXCEPT !.token = t, !.status = "LOGOUT"]
Modified(r, a) == [a EXCEPT !.password = r.n_pass]
CodeSent(a) == [a EXCEPT !.code = "9898"]

\* Slip: a reset takes the new password at once.
ResetAtOnce(r, a, t) == [a EXCEPT !.tmp_token = t, !.password = r.password]

Reset(r, a, t) == [a EXCEPT !.tmp_token = t, !.tmp_password = r.password]

\* Slip: the password that waits for the code is left behind.
VerifiedKeepsPassword(a) == [a EXCEPT !.status = "LOGIN", !.token = a.tmp_token]

Verified(a) == [a EXCEPT !.status = "LOGIN", !.token = a.tmp_token,
                         !.password = a.tmp_password]

\* The account that is written back; t is the token made for it, if any.
Changed(r, a, t) ==
  CASE r.op = "login"  -> LoggedIn(a)
    [] r.op = "logout" -> LoggedOut(a, t)
    [] r.op = "modify" -> Modified(r, a)
    [] r.op = "reset"  -> Reset(r, a, t)
    [] r.op = "code"   -> CodeSent(a)
    [] r.op = "verify" -> Verified(a)
-----------------------------------------------------------------------------
(* A request.                                                              *)

ByPhone(r) == r.op \in {"enroll", "login", "reset"}

\* Logout checks the login first, but for the users who are always in.
FirstCommand(r) == IF ByPhone(r) THEN "phone"
                   ELSE IF r.op = "logout" /\ r.user \notin IsLoggedIn THEN "check"
                   ELSE "get"

Enrolls(p, f) == req[p].op = "enroll" /\ req[p].phone = f

Begin(p, r) ==
  /\ pc[p] = "idle"
  /\ requests < MaxRequests
  /\ requests' = requests + 1
  /\ req' = [req EXCEPT ![p] = r]
  /\ pc' = [pc EXCEPT ![p] = FirstCommand(r)]
  /\ user' = [user EXCEPT ![p] = IF ByPhone(r) THEN 0 ELSE r.user]
  /\ met' = IF r.op = "enroll" /\ \E q \in Procs : Enrolls(q, r.phone)
              THEN met \cup {r.phone} ELSE met
  /\ UNCHANGED <<store, copy, failed, asked, repeated, due, stale, lost, broken>>

\* The process answers and ends.
End(p) == /\ pc' = [pc EXCEPT ![p] = "idle"]
          /\ req' = [req EXCEPT ![p] = NoRequest]
          /\ user' = [user EXCEPT ![p] = 0]
          /\ copy' = [copy EXCEPT ![p] = NoAccount]

Goes(p, c) == pc' = [pc EXCEPT ![p] = c] /\ UNCHANGED <<req, copy>>

\* Slip: a phone that has a user is given another.
NeedsUserAnew(r, u) == r.op = "enroll"

NeedsUser(r, u) == u = 0 /\ r.op = "enroll"

GetPhone(p) ==
  /\ pc[p] = "phone"
  /\ LET u == phoneUser[req[p].phone]
     IN  \/ NeedsUser(req[p], u) /\ Goes(p, "incr") /\ UNCHANGED user
         \/ /\ ~ NeedsUser(req[p], u) /\ u # 0
            /\ user' = [user EXCEPT ![p] = u]
            /\ Goes(p, "get")
         \/ ~ NeedsUser(req[p], u) /\ u = 0 /\ End(p)
  /\ UNCHANGED <<store, requests, failed, history>>

\* Slip: the number is not stored.
NextSequenceLost == sequence

NextSequence == sequence + 1

IncrSequence(p) ==
  /\ pc[p] = "incr"
  /\ sequence < MaxUsers
  /\ sequence' = NextSequence
  /\ user' = [user EXCEPT ![p] = sequence + 1]
  /\ Goes(p, "map")
  /\ UNCHANGED <<phoneUser, account, requests, failed, history>>

\* Slip: the phone is mapped to the last user there is.
UserToMapLast(p) == sequence

UserToMap(p) == user[p]

MapPhone(p) ==
  /\ pc[p] = "map"
  /\ phoneUser' = [phoneUser EXCEPT ![req[p].phone] = UserToMap(p)]
  /\ pc' = [pc EXCEPT ![p] = "set"]
  /\ \E t1, t2 \in Tokens : copy' = [copy EXCEPT ![p] = NewAccount(req[p], t1, t2)]
  /\ UNCHANGED <<sequence, account, req, user, requests, failed, history>>

CheckLogin(p) ==
  /\ pc[p] = "check"
  /\ LET a == account[user[p]]
     IN  IF a # NoAccount /\ a.token = req[p].token /\ a.status = "LOGIN"
           THEN Goes(p, "get") /\ UNCHANGED user
           ELSE End(p)
  /\ UNCHANGED <<store, requests, failed, history>>

GetAccount(p) ==
  /\ pc[p] = "get"
  /\ LET a == account[user[p]]
         r == req[p]
     IN  \/ /\ a # NoAccount => Refuses(r, user[p], a)
            /\ End(p) /\ UNCHANGED <<stale, repeated>>
         \/ /\ a # NoAccount /\ Repeats(r, a)
            /\ End(p) /\ UNCHANGED stale
            /\ repeated' = repeated \cup {<<user[p], a.tmp_token, r.password>>}
         \/ /\ a # NoAccount /\ ~ Refuses(r, user[p], a) /\ ~ Repeats(r, a)
            /\ pc' = [pc EXCEPT ![p] = "set"]
            /\ \E t \in Tokens : copy' = [copy EXCEPT ![p] = Changed(r, a, t)]
            /\ stale' = [stale EXCEPT ![p] = FALSE]
            /\ UNCHANGED <<req, user, repeated>>
  /\ UNCHANGED <<store, requests, failed, asked, due, lost, met, broken>>
-----------------------------------------------------------------------------
(* The account is written.                                                 *)

Writes(p, u) == pc[p] = "set" /\ user[p] = u

\* The passwords that were stored with a token of the user.
PasswordsAsked(u, t) == {w \in Passwords : <<u, t, w>> \in asked \/
                                           (u \in IsVerified /\ \E s \in Tokens : <<u, s, w>> \in asked)}

\* What the request promises of the account, whatever was read.
Promise(r, u) ==
  CASE r.op = "enroll" -> [passwords |-> {RandomPassword}, status |-> "ENROLL"]
    [] r.op = "login"  -> [due[u] EXCEPT !.status = "LOGIN"]
    [] r.op = "logout" -> [due[u] EXCEPT !.status = "LOGOUT"]
    [] r.op = "modify" -> [due[u] EXCEPT !.passwords = {r.n_pass}]
    [] r.op = "verify" -> [passwords |-> PasswordsAsked(u, r.token), status |-> "LOGIN"]
    [] OTHER           -> due[u]

SetAccount(p) ==
  LET u == user[p]
      r == req[p]
  IN  /\ pc[p] = "set"
      /\ account' = [account EXCEPT ![u] = copy[p]]
      /\ End(p)
      /\ due' = [due EXCEPT ![u] = Promise(r, u)]
      /\ asked' = IF r.op \in {"enroll", "reset"}
                    THEN asked \cup {<<u, copy[p].tmp_token, r.password>>} ELSE asked
      /\ stale' = [q \in Procs |-> IF q = p THEN FALSE ELSE stale[q] \/ Writes(q, u)]
      /\ lost' = IF stale[p] THEN lost \cup {u}
                 ELSE IF r.op = "verify" THEN lost \ {u} ELSE lost
      /\ UNCHANGED <<sequence, phoneUser, requests, failed, repeated, met, broken>>

\* A command fails before it takes effect, or the process is killed there.
Fail(p) ==
  /\ pc[p] # "idle"
  /\ failed < MaxFail
  /\ failed' = failed + 1
  /\ End(p)
  /\ broken' = IF pc[p] = "set" /\ req[p].op = "enroll"
                 THEN broken \cup {req[p].phone} ELSE broken
  /\ stale' = [stale EXCEPT ![p] = FALSE]
  /\ UNCHANGED <<store, requests, asked, repeated, due, lost, met>>

Step(p) == \/ GetPhone(p) \/ IncrSequence(p) \/ MapPhone(p)
           \/ CheckLogin(p) \/ GetAccount(p) \/ SetAccount(p)

Next == \E p \in Procs : Step(p) \/ Fail(p) \/ \E r \in Requests : Begin(p, r)

Spec == Init /\ [][Next]_vars
-----------------------------------------------------------------------------
(* Properties.                                                             *)

\* Every phone that has a user has the user's account, unless the enroll is
\* about to store it or was cut off there (Login.cc:46-61): and it is the
\* account of this phone.
MappedHaveAccounts ==
  \A f \in Phones :
    phoneUser[f] # 0 =>
      LET u == phoneUser[f]
      IN  \/ account[u].phone = f
          \/ account[u] = NoAccount /\ \E p \in Procs : Writes(p, u) /\ Enrolls(p, f)
          \/ account[u] = NoAccount /\ f \in broken

\* One phone never has two accounts, unless two enrolls of it ran at a time
\* (Login.cc:23-46): the account a client holds is the one logins reach.
OnePhoneOneUser ==
  \A u \in Users : account[u] # NoAccount =>
    \/ phoneUser[account[u].phone] = u
    \/ account[u].phone \in met

\* Whatever is read and written back over what, the token and the password
\* that wait for a code were stored together, by one enroll or one reset; and
\* the token that a repeated enroll is answered with is one of these, so that
\* it can be verified.  Whoever verifies with a token gets the password stored
\* with it.  A client that was answered by a repeated enroll does not get its
\* own, of which nothing is kept (Login.cc:30-44, 58, 68, 192, 263).
TokenWithPassword ==
  /\ \A u \in Users : account[u] # NoAccount =>
       <<u, account[u].tmp_token, account[u].tmp_password>> \in asked
  /\ \A x \in repeated : \E w \in Passwords : <<x[1], x[2], w>> \in asked

\* A user is logged in or out as the last request said, with the password
\* that was last stored for it, unless a request wrote the account back from
\* a copy that was out of date; a verified code makes up for that.  It need
\* not be the last that was asked for: a repeated enroll asks in vain
\* (Login.cc:87-104, 123-132, 142-159, 180-194, 240-266).
AnswersHold ==
  \A u \in Users : (account[u] # NoAccount /\ u \notin lost) =>
    /\ account[u].password \in due[u].passwords
    /\ account[u].status = due[u].status
=============================================================================
