---------------------------- MODULE AccountProofs ----------------------------
(***************************************************************************)
(* What holds of the accounts for every number of phones, users, processes *)
(* and failures: proofs about Account.                                     *)
(***************************************************************************)
EXTENDS Account, TLAPS

(***************************************************************************)
(* The inductive invariant.  A process is creating a user from the moment  *)
(* it has a number for it; it updates an account that it has read.         *)
(***************************************************************************)
Enrolling(p) == req[p].op = "enroll"
Creates(p) == pc[p] = "map" \/ (pc[p] = "set" /\ Enrolling(p))
Updates(p) == pc[p] = "set" /\ ~ Enrolling(p)

LocalOK(p) ==
  /\ pc[p] = "idle" <=> req[p] = NoRequest
  /\ pc[p] = "phone" => ByPhone(req[p])
  /\ pc[p] \in {"incr", "map"} => Enrolling(p)
  /\ pc[p] = "check" => req[p].op = "logout"
  /\ pc[p] \in {"check", "get", "set"} => user[p] \in Users

\* A user who is being created is nobody else's, and known by no other phone.
CreatorOK(p) ==
  Creates(p) =>
    /\ user[p] \in 1 .. sequence
    /\ account[user[p]] = NoAccount
    /\ \A q \in Procs : Creates(q) /\ user[q] = user[p] => q = p
    /\ \A f \in Phones : phoneUser[f] = user[p] => pc[p] = "set" /\ f = req[p].phone

\* An enroll alone with its phone finds it as it left it.
MetOK(p) ==
  /\ \A q \in Procs, f \in Phones :
       q # p /\ Enrolls(p, f) /\ Enrolls(q, f) => f \in met
  /\ pc[p] \in {"incr", "map"} =>
       phoneUser[req[p].phone] = 0 \/ req[p].phone \in met
  /\ pc[p] = "set" /\ Enrolling(p) =>
       phoneUser[req[p].phone] = user[p] \/ req[p].phone \in met

\* What is about to be written: all of it when nobody wrote since the account
\* was read, and the phone and what waits for a code in any case.
CopyOK(p) ==
  /\ pc[p] = "set" /\ Enrolling(p) =>
       \E t1, t2 \in Tokens : copy[p] = NewAccount(req[p], t1, t2)
  /\ Updates(p) =>
       /\ account[user[p]] # NoAccount
       /\ copy[p] \in Accounts
       /\ copy[p].phone = account[user[p]].phone
       /\ req[p].op = "reset" => copy[p].tmp_password = req[p].password
       /\ req[p].op # "reset" =>
            <<user[p], copy[p].tmp_token, copy[p].tmp_password>> \in asked
       /\ ~ stale[p] =>
            /\ ~ Refuses(req[p], user[p], account[user[p]])
            /\ \E t \in Tokens : copy[p] = Changed(req[p], account[user[p]], t)

ProcsOK == \A p \in Procs : LocalOK(p) /\ CreatorOK(p) /\ MetOK(p) /\ CopyOK(p)

AccountsOK == /\ MappedHaveAccounts
              /\ OnePhoneOneUser
              /\ TokenWithPassword
              /\ AnswersHold

IInv == TypeOK /\ ProcsOK /\ AccountsOK
-----------------------------------------------------------------------------
(* Requests and accounts.                                                  *)

LEMMA RequestFields ==
  ASSUME NEW r \in Requests \cup {NoRequest}
  PROVE  /\ ByPhone(r) => r.phone \in Phones /\ r.password \in Passwords
         /\ r.op \in {"logout", "modify", "code", "verify"} => r.user \in Users
         /\ r.op = "modify" => r.n_pass \in Passwords
         /\ r.op = "verify" => r.token \in Tokens /\ r.code \in Codes
         /\ r.op \in {"none", "enroll", "login", "reset", "logout", "modify",
                      "code", "verify"}
         /\ r = NoRequest <=> r.op = "none"
BY DEF Requests, NoRequest, ByPhone

LEMMA NoAccountIsNone == NoAccount \notin Accounts
BY AccountAssumption DEF NoAccount, Accounts

\* What the account of a new user holds.
LEMMA NewAccountFacts ==
  ASSUME NEW r \in Requests, r.op = "enroll", NEW t1 \in Tokens, NEW t2 \in Tokens
  PROVE  LET a == NewAccount(r, t1, t2)
         IN  /\ a \in Accounts
             /\ a.phone = r.phone
             /\ a.tmp_token = t2 /\ a.tmp_password = r.password
             /\ a.password = RandomPassword /\ a.status = "ENROLL"
BY RequestFields DEF NewAccount, Accounts, AllPasswords, Codes, ByPhone

\* What a request changes in an account: never the phone, and what waits for
\* a code only when it asks for a new password.
LEMMA ChangedFacts ==
  ASSUME NEW r \in Requests, r.op # "enroll", NEW a \in Accounts, NEW t \in Tokens
  PROVE  LET c == Changed(r, a, t)
         IN  /\ c \in Accounts
             /\ c.phone = a.phone
             /\ r.op = "reset" => c.tmp_token = t /\ c.tmp_password = r.password
             /\ r.op # "reset" => /\ c.tmp_token = a.tmp_token
                                  /\ c.tmp_password = a.tmp_password
             /\ c.password = CASE r.op = "modify" -> r.n_pass
                               [] r.op = "verify" -> a.tmp_password
                               [] OTHER           -> a.password
             /\ c.status = CASE r.op \in {"login", "verify"} -> "LOGIN"
                             [] r.op = "logout"              -> "LOGOUT"
                             [] OTHER                        -> a.status
<1> USE DEF Accounts, AllPasswords, Codes
<1>1. r.op \in {"login", "reset", "logout", "modify", "code", "verify"}
  BY RequestFields DEF NoRequest, Requests
<1>2. CASE r.op = "login"
  <2>1. Changed(r, a, t) = LoggedIn(a) BY <1>2 DEF Changed
  <2> QED BY <1>2, <2>1 DEF LoggedIn
<1>3. CASE r.op = "logout"
  <2>1. Changed(r, a, t) = LoggedOut(a, t) BY <1>3 DEF Changed
  <2> QED BY <1>3, <2>1 DEF LoggedOut
<1>4. CASE r.op = "modify"
  <2>1. Changed(r, a, t) = Modified(r, a) BY <1>4 DEF Changed
  <2> QED BY <1>4, <2>1, RequestFields DEF Modified
<1>5. CASE r.op = "reset"
  <2>1. Changed(r, a, t) = Reset(r, a, t) BY <1>5 DEF Changed
  <2> QED BY <1>5, <2>1, RequestFields DEF Reset, ByPhone
<1>6. CASE r.op = "code"
  <2>1. Changed(r, a, t) = CodeSent(a) BY <1>6 DEF Changed
  <2> QED BY <1>6, <2>1 DEF CodeSent
<1>7. CASE r.op = "verify"
  <2>1. Changed(r, a, t) = Verified(a) BY <1>7 DEF Changed
  <2> QED BY <1>7, <2>1 DEF Verified
<1> QED BY <1>1, <1>2, <1>3, <1>4, <1>5, <1>6, <1>7
-----------------------------------------------------------------------------
(* Steps of one process that change no account, phone or number.           *)

LEMMA LocalStep ==
  ASSUME IInv, NEW p \in Procs,
         UNCHANGED <<store, asked, due, lost>>,
         met \subseteq met', broken \subseteq broken',
         \A x \in repeated' : x \in repeated \/ \E w \in Passwords : <<x[1], x[2], w>> \in asked,
         \A q \in Procs \ {p} : /\ pc'[q] = pc[q] /\ req'[q] = req[q]
                                /\ user'[q] = user[q] /\ copy'[q] = copy[q]
                                /\ stale'[q] = stale[q],
         TypeOK', LocalOK(p)', ~ Creates(p)', CopyOK(p)',
         \A q \in Procs \ {p}, f \in Phones :
           Enrolls(p, f)' /\ Enrolls(q, f)' => f \in met',
         pc'[p] = "incr" => phoneUser[req'[p].phone] = 0,
         Creates(p) /\ pc[p] = "set" => req[p].phone \in broken'
  PROVE  IInv'
<1> USE DEF store
<1>1. ASSUME NEW q \in Procs
      PROVE  (LocalOK(q) /\ CreatorOK(q) /\ MetOK(q) /\ CopyOK(q))'
  <2> DEFINE Old == LocalOK(q) /\ CreatorOK(q) /\ MetOK(q) /\ CopyOK(q)
  <2>0. Old BY DEF IInv, ProcsOK
  <2>1. CASE q = p
    <3>1. CreatorOK(p)' BY DEF CreatorOK
    <3>2. MetOK(p)' BY DEF MetOK, Creates
    <3> QED BY <2>1, <3>1, <3>2
  <2>2. CASE q # p
    <3>1. LocalOK(q)' BY <2>0, <2>2 DEF LocalOK, Enrolling
    <3>2. CreatorOK(q)' BY <2>0, <2>2 DEF CreatorOK, Creates, Enrolling
    <3>3. MetOK(q)'
      <4>1. \A r \in Procs, f \in Phones :
              r # q /\ Enrolls(q, f)' /\ Enrolls(r, f)' => f \in met'
        BY <2>0, <2>2 DEF MetOK, Enrolls
      <4> QED BY <2>0, <2>2, <4>1 DEF MetOK, Enrolling
    <3>4. CopyOK(q)' BY <2>0, <2>2 DEF CopyOK, Updates, Enrolling
    <3> QED BY <3>1, <3>2, <3>3, <3>4
  <2> QED BY <2>1, <2>2
<1>2. MappedHaveAccounts'
  <2> SUFFICES ASSUME NEW f \in Phones, phoneUser[f] # 0
               PROVE  LET u == phoneUser[f]
                      IN  \/ account[u].phone = f
                          \/ account[u] = NoAccount
                             /\ \E q \in Procs : (Writes(q, u) /\ Enrolls(q, f))'
                          \/ account[u] = NoAccount /\ f \in broken'
    BY DEF MappedHaveAccounts
  <2>1. CASE \E q \in Procs \ {p} : Writes(q, phoneUser[f]) /\ Enrolls(q, f)
    BY <2>1 DEF IInv, AccountsOK, MappedHaveAccounts, Writes, Enrolls
  <2>2. CASE Writes(p, phoneUser[f]) /\ Enrolls(p, f)
    BY <2>2 DEF IInv, AccountsOK, MappedHaveAccounts, Writes, Enrolls, Creates, Enrolling
  <2> QED BY <2>1, <2>2 DEF IInv, AccountsOK, MappedHaveAccounts
<1>3. (OnePhoneOneUser /\ TokenWithPassword /\ AnswersHold)'
  BY DEF IInv, AccountsOK, OnePhoneOneUser, TokenWithPassword, AnswersHold
<1> QED BY <1>1, <1>2, <1>3 DEF IInv, ProcsOK, AccountsOK

LEMMA InitIInv == Init => IInv
<1> SUFFICES ASSUME Init PROVE IInv OBVIOUS
<1>1. TypeOK
  BY AccountAssumption DEF Init, TypeOK, Users
<1>2. ProcsOK
  BY DEF Init, ProcsOK, LocalOK, CreatorOK, MetOK, CopyOK, Creates, Updates,
         Enrolling, Enrolls, NoRequest, ByPhone
<1>3. AccountsOK
  BY DEF Init, AccountsOK, MappedHaveAccounts, OnePhoneOneUser,
         TokenWithPassword, AnswersHold
<1> QED BY <1>1, <1>2, <1>3 DEF IInv

\* A process that ends is idle again.
LEMMA EndLocal ==
  ASSUME IInv, NEW p \in Procs, End(p)
  PROVE  /\ \A q \in Procs \ {p} : /\ pc'[q] = pc[q] /\ req'[q] = req[q]
                                   /\ user'[q] = user[q] /\ copy'[q] = copy[q]
         /\ pc'[p] = "idle" /\ req'[p] = NoRequest /\ user'[p] = 0
         /\ LocalOK(p)' /\ ~ Creates(p)' /\ CopyOK(p)'
         /\ \A f : ~ Enrolls(p, f)'
         /\ pc' \in [Procs -> {"idle", "phone", "incr", "map", "check", "get", "set"}]
         /\ req' \in [Procs -> Requests \cup {NoRequest}]
         /\ user' \in [Procs -> 0 .. MaxUsers]
         /\ copy' \in [Procs -> Accounts \cup {NoAccount}]
<1>1. /\ pc'[p] = "idle" /\ req'[p] = NoRequest /\ user'[p] = 0
      /\ \A q \in Procs \ {p} : /\ pc'[q] = pc[q] /\ req'[q] = req[q]
                                /\ user'[q] = user[q] /\ copy'[q] = copy[q]
  BY DEF IInv, TypeOK, End
<1>2. LocalOK(p)' /\ ~ Creates(p)' /\ CopyOK(p)' /\ \A f : ~ Enrolls(p, f)'
  BY <1>1 DEF LocalOK, Creates, CopyOK, Updates, Enrolls, NoRequest
<1>3. /\ pc' \in [Procs -> {"idle", "phone", "incr", "map", "check", "get", "set"}]
      /\ req' \in [Procs -> Requests \cup {NoRequest}]
      /\ user' \in [Procs -> 0 .. MaxUsers]
      /\ copy' \in [Procs -> Accounts \cup {NoAccount}]
  BY AccountAssumption DEF IInv, TypeOK, End
<1> QED BY <1>1, <1>2, <1>3

LEMMA BeginStep ==
  ASSUME IInv, NEW p \in Procs, NEW r \in Requests, Begin(p, r)
  PROVE  IInv'
<1>1. TypeOK'
  <2>1. r.op = "enroll" => r.phone \in Phones BY RequestFields DEF ByPhone
  <2>2. (IF ByPhone(r) THEN 0 ELSE r.user) \in 0 .. MaxUsers
    BY RequestFields, AccountAssumption DEF ByPhone, Users, Requests
  <2>3. /\ req' \in [Procs -> Requests \cup {NoRequest}]
        /\ pc' \in [Procs -> {"idle", "phone", "incr", "map", "check", "get", "set"}]
        /\ requests' \in 0 .. MaxRequests
        /\ met' \subseteq Phones
    BY <2>1, AccountAssumption DEF IInv, TypeOK, Begin, FirstCommand
  <2>4. user' \in [Procs -> 0 .. MaxUsers] BY <2>2 DEF IInv, TypeOK, Begin
  <2> QED BY <2>3, <2>4 DEF IInv, TypeOK, Begin, store
<1>2. /\ pc[p] = "idle" /\ req[p] = NoRequest
      /\ req'[p] = r /\ pc'[p] = FirstCommand(r)
      /\ user'[p] = IF ByPhone(r) THEN 0 ELSE r.user
      /\ \A q \in Procs \ {p} : /\ pc'[q] = pc[q] /\ req'[q] = req[q]
                                /\ user'[q] = user[q] /\ copy'[q] = copy[q]
                                /\ stale'[q] = stale[q]
  BY DEF IInv, TypeOK, Begin, ProcsOK, LocalOK
<1>3. r.op \in {"enroll", "login", "reset", "logout", "modify", "code", "verify"}
      /\ r # NoRequest
  BY DEF Requests, NoRequest
<1>4. pc'[p] \in {"phone", "check", "get"} BY <1>2 DEF FirstCommand
<1>5. LocalOK(p)'
  BY <1>2, <1>3, <1>4, RequestFields DEF LocalOK, FirstCommand, ByPhone, Enrolling
<1>6. ~ Creates(p)' /\ CopyOK(p)' BY <1>4 DEF Creates, CopyOK, Updates
<1>7. \A q \in Procs \ {p}, f \in Phones :
        Enrolls(p, f)' /\ Enrolls(q, f)' => f \in met'
  BY <1>2 DEF Enrolls, Begin
<1>8. UNCHANGED <<store, asked, repeated, due, lost, broken>> /\ met \subseteq met'
  BY DEF Begin
<1> QED BY <1>1, <1>2, <1>4, <1>5, <1>6, <1>7, <1>8, LocalStep DEF Creates

\* A request that goes on with another command, or ends.
LEMMA OldEnrolls ==
  ASSUME IInv, NEW p \in Procs, req' = req
  PROVE  \A q \in Procs \ {p}, f \in Phones :
           Enrolls(p, f)' /\ Enrolls(q, f)' => f \in met
BY DEF IInv, ProcsOK, MetOK, Enrolls

LEMMA GetPhoneStep ==
  ASSUME IInv, NEW p \in Procs, GetPhone(p)
  PROVE  IInv'
<1>1. UNCHANGED <<store, requests, failed, history>> /\ pc[p] = "phone" BY DEF GetPhone
<1>2. ByPhone(req[p]) /\ req[p].phone \in Phones /\ req[p] # NoRequest
  <2>1. req[p] \in Requests \cup {NoRequest} BY DEF IInv, TypeOK
  <2>2. LocalOK(p) BY DEF IInv, ProcsOK
  <2>3. ByPhone(req[p]) BY <1>1, <2>2 DEF LocalOK
  <2> QED BY <1>1, <2>1, <2>2, <2>3, RequestFields DEF LocalOK
<1> DEFINE u == phoneUser[req[p].phone]
<1>3. CASE End(p)
  <2>1. TypeOK' BY <1>1, <1>3, EndLocal DEF IInv, TypeOK, store, history
  <2> QED BY <1>1, <1>3, <2>1, EndLocal, LocalStep DEF history, Creates
<1>4. CASE Goes(p, "incr") /\ UNCHANGED user /\ NeedsUser(req[p], u)
  <2>1. TypeOK' BY <1>1, <1>4 DEF IInv, TypeOK, store, history, Goes
  <2>2. pc'[p] = "incr" /\ \A q \in Procs \ {p} : pc'[q] = pc[q]
    BY <1>4 DEF IInv, TypeOK, Goes
  <2>3. LocalOK(p)' BY <1>2, <1>4, <2>2 DEF LocalOK, Goes, Enrolling, NeedsUser
  <2>4. ~ Creates(p)' /\ CopyOK(p)' BY <2>2 DEF Creates, CopyOK, Updates
  <2>5. phoneUser[req'[p].phone] = 0 BY <1>4 DEF Goes, NeedsUser
  <2> QED BY <1>1, <1>4, <2>1, <2>2, <2>3, <2>4, <2>5, OldEnrolls, LocalStep
          DEF history, Goes, Creates
<1>5. CASE Goes(p, "get") /\ user' = [user EXCEPT ![p] = u] /\ u # 0
  <2>1. u \in Users /\ u \in 0 .. MaxUsers
    BY <1>2, <1>5, AccountAssumption DEF IInv, TypeOK, Users
  <2>2. TypeOK' BY <1>1, <1>5, <2>1 DEF IInv, TypeOK, store, history, Goes
  <2>3. /\ pc'[p] = "get" /\ user'[p] = u
        /\ \A q \in Procs \ {p} : pc'[q] = pc[q] /\ user'[q] = user[q]
    BY <1>5 DEF IInv, TypeOK, Goes
  <2>4. LocalOK(p)' BY <1>2, <1>5, <2>1, <2>3 DEF LocalOK, Goes, Enrolling
  <2>5. ~ Creates(p)' /\ CopyOK(p)' BY <2>3 DEF Creates, CopyOK, Updates
  <2> QED BY <1>1, <1>5, <2>2, <2>3, <2>4, <2>5, OldEnrolls, LocalStep
          DEF history, Goes, Creates
<1> QED BY <1>3, <1>4, <1>5 DEF GetPhone

LEMMA CheckLoginStep ==
  ASSUME IInv, NEW p \in Procs, CheckLogin(p)
  PROVE  IInv'
<1>1. UNCHANGED <<store, requests, failed, history>> /\ pc[p] = "check" BY DEF CheckLogin
<1>2. CASE End(p)
  <2>1. TypeOK' BY <1>1, <1>2, EndLocal DEF IInv, TypeOK, store, history
  <2> QED BY <1>1, <1>2, <2>1, EndLocal, LocalStep DEF history, Creates
<1>3. CASE Goes(p, "get") /\ UNCHANGED user
  <2>1. TypeOK' BY <1>1, <1>3 DEF IInv, TypeOK, store, history, Goes
  <2>2. pc'[p] = "get" /\ \A q \in Procs \ {p} : pc'[q] = pc[q]
    BY <1>3 DEF IInv, TypeOK, Goes
  <2>3. LocalOK(p)'
    BY <1>1, <1>3, <2>2 DEF IInv, ProcsOK, LocalOK, Goes, Enrolling, NoRequest
  <2>4. ~ Creates(p)' /\ CopyOK(p)' BY <2>2 DEF Creates, CopyOK, Updates
  <2> QED BY <1>1, <1>3, <2>1, <2>2, <2>3, <2>4, OldEnrolls, LocalStep
          DEF history, Goes, Creates
<1> QED BY <1>2, <1>3 DEF CheckLogin

LEMMA GetAccountStep ==
  ASSUME IInv, NEW p \in Procs, GetAccount(p)
  PROVE  IInv'
<1> DEFINE a == account[user[p]]
           r == req[p]
<1>1. UNCHANGED <<store, requests, failed, asked, due, lost, met, broken>> /\ pc[p] = "get"
  BY DEF GetAccount
<1>2. user[p] \in Users /\ r \in Requests
  BY <1>1 DEF IInv, TypeOK, ProcsOK, LocalOK
<1>3. CASE End(p) /\ UNCHANGED <<stale, repeated>>
  <2>1. TypeOK' BY <1>1, <1>3, EndLocal DEF IInv, TypeOK, store
  <2> QED BY <1>1, <1>3, <2>1, EndLocal, LocalStep DEF Creates
<1>5. CASE /\ a # NoAccount /\ Repeats(r, a) /\ End(p) /\ UNCHANGED stale
           /\ repeated' = repeated \cup {<<user[p], a.tmp_token, r.password>>}
  <2>1. <<user[p], a.tmp_token, a.tmp_password>> \in asked
    BY <1>2, <1>5 DEF IInv, AccountsOK, TokenWithPassword
  <2>2. a.tmp_token \in Tokens /\ a.tmp_password \in Passwords
    BY <2>1 DEF IInv, TypeOK
  <2>3. r.password \in Passwords BY <1>2, <1>5, RequestFields DEF Repeats, ByPhone
  <2>4. repeated' \subseteq Users \X Tokens \X Passwords
    <3>1. <<user[p], a.tmp_token, r.password>> \in Users \X Tokens \X Passwords
      BY <1>2, <2>2, <2>3
    <3> QED BY <1>5, <3>1 DEF IInv, TypeOK
  <2>5. TypeOK' BY <1>1, <1>5, <2>4, EndLocal DEF IInv, TypeOK, store
  <2>6. \A x \in repeated' : x \in repeated \/ \E w \in Passwords : <<x[1], x[2], w>> \in asked
    BY <1>5, <2>1, <2>2
  <2> QED BY <1>1, <1>5, <2>5, <2>6, EndLocal, LocalStep DEF Creates
<1>4. CASE /\ a # NoAccount /\ ~ Refuses(r, user[p], a) /\ ~ Repeats(r, a)
           /\ pc' = [pc EXCEPT ![p] = "set"]
           /\ \E t \in Tokens : copy' = [copy EXCEPT ![p] = Changed(r, a, t)]
           /\ stale' = [stale EXCEPT ![p] = FALSE]
           /\ UNCHANGED <<req, user, repeated>>
  <2>1. PICK t \in Tokens : copy' = [copy EXCEPT ![p] = Changed(r, a, t)] BY <1>4
  <2>2. r.op # "enroll" BY <1>4 DEF Refuses, Repeats
  <2>3. a \in Accounts BY <1>2, <1>4 DEF IInv, TypeOK
  <2>4. Changed(r, a, t) \in Accounts BY <1>2, <2>2, <2>3, ChangedFacts
  <2>5. TypeOK' BY <1>1, <1>4, <2>1, <2>4 DEF IInv, TypeOK, store
  <2>6. /\ pc'[p] = "set" /\ copy'[p] = Changed(r, a, t) /\ stale'[p] = FALSE
        /\ \A q \in Procs \ {p} : /\ pc'[q] = pc[q] /\ copy'[q] = copy[q]
                                  /\ stale'[q] = stale[q]
    BY <1>4, <2>1 DEF IInv, TypeOK
  <2>7. LocalOK(p)'
    BY <1>1, <1>2, <1>4, <2>6 DEF IInv, ProcsOK, LocalOK
  <2>8. ~ Creates(p)' BY <1>4, <2>2, <2>6 DEF Creates, Enrolling
  <2>9. CopyOK(p)'
    <3>1. copy'[p].phone = a.phone BY <1>2, <2>2, <2>3, <2>6, ChangedFacts
    <3>2. r.op = "reset" => copy'[p].tmp_password = r.password
      BY <1>2, <2>2, <2>3, <2>6, ChangedFacts
    <3>3. r.op # "reset" => <<user[p], copy'[p].tmp_token, copy'[p].tmp_password>> \in asked
      <4>1. <<user[p], a.tmp_token, a.tmp_password>> \in asked
        BY <1>2, <1>4 DEF IInv, AccountsOK, TokenWithPassword
      <4> QED BY <1>2, <2>2, <2>3, <2>6, <4>1, ChangedFacts
    <3> QED BY <1>1, <1>4, <2>2, <2>4, <2>6, <3>1, <3>2, <3>3
            DEF CopyOK, Updates, Enrolling, store
  <2> QED BY <1>1, <1>4, <2>5, <2>6, <2>7, <2>8, <2>9, OldEnrolls, LocalStep DEF Creates
<1> QED BY <1>3, <1>4, <1>5 DEF GetAccount

LEMMA FailStep ==
  ASSUME IInv, NEW p \in Procs, Fail(p)
  PROVE  IInv'
<1>1. /\ UNCHANGED <<store, requests, asked, repeated, due, lost, met>>
      /\ End(p) /\ broken \subseteq broken'
      /\ Creates(p) /\ pc[p] = "set" => req[p].phone \in broken'
  BY DEF Fail, Creates, Enrolling
<1>2. \A q \in Procs \ {p} : stale'[q] = stale[q] BY DEF IInv, TypeOK, Fail
<1>3. TypeOK'
  <2>1. failed' \in 0 .. MaxFail BY AccountAssumption DEF IInv, TypeOK, Fail
  <2>2. stale' \in [Procs -> BOOLEAN] BY DEF IInv, TypeOK, Fail
  <2>3. broken' \subseteq Phones
    <3>1. req[p] \in Requests \cup {NoRequest} BY DEF IInv, TypeOK
    <3>2. req[p].op = "enroll" => req[p].phone \in Phones
      BY <3>1, RequestFields DEF ByPhone
    <3> QED BY <3>2 DEF IInv, TypeOK, Fail
  <2> QED BY <1>1, <2>1, <2>2, <2>3, EndLocal DEF IInv, TypeOK, store
<1> QED BY <1>1, <1>2, <1>3, EndLocal, LocalStep
-----------------------------------------------------------------------------
(* The steps of an enroll that create a user.                              *)

LEMMA IncrSequenceStep ==
  ASSUME IInv, NEW p \in Procs, IncrSequence(p)
  PROVE  IInv'
<1>1. /\ UNCHANGED <<phoneUser, account, req, copy, requests, failed, history>>
      /\ pc[p] = "incr" /\ pc'[p] = "map"
      /\ sequence' = sequence + 1 /\ user'[p] = sequence + 1
      /\ \A q \in Procs \ {p} : pc'[q] = pc[q] /\ user'[q] = user[q]
  BY DEF IInv, TypeOK, IncrSequence, NextSequence, Goes
<1>2. sequence \in Nat /\ sequence + 1 \in Users
  BY AccountAssumption DEF IInv, TypeOK, IncrSequence, Users
<1>3. TypeOK'
  <2>1. sequence' \in 0 .. MaxUsers BY <1>1, <1>2, AccountAssumption DEF Users
  <2>2. phoneUser' \in [Phones -> 0 .. sequence'] BY <1>1, <1>2 DEF IInv, TypeOK
  <2>3. \A u \in Users : account'[u] # NoAccount => u <= sequence'
    BY <1>1, <1>2 DEF IInv, TypeOK, Users
  <2>4. user' \in [Procs -> 0 .. MaxUsers]
    BY <1>2, AccountAssumption DEF IInv, TypeOK, IncrSequence, Users
  <2>5. pc' \in [Procs -> {"idle", "phone", "incr", "map", "check", "get", "set"}]
    BY DEF IInv, TypeOK, IncrSequence, Goes
  <2> QED BY <1>1, <2>1, <2>2, <2>3, <2>4, <2>5 DEF IInv, TypeOK, history
<1>4. ASSUME NEW q \in Procs
      PROVE  (LocalOK(q) /\ CreatorOK(q) /\ MetOK(q) /\ CopyOK(q))'
  <2>1. LocalOK(q) /\ CreatorOK(q) /\ MetOK(q) /\ CopyOK(q) BY DEF IInv, ProcsOK
  <2>2. LocalOK(q)' BY <1>1, <2>1 DEF LocalOK, Enrolling
  <2>3. CreatorOK(q)'
    <3>1. \A s \in Procs : Creates(s) => user[s] \in 1 .. sequence
      BY DEF IInv, ProcsOK, CreatorOK
    <3>2. account[sequence + 1] = NoAccount BY <1>2 DEF IInv, TypeOK
    <3>3. \A f \in Phones : phoneUser[f] # sequence + 1 BY <1>2 DEF IInv, TypeOK
    <3>4. \A s \in Procs \ {p} : Creates(s)' <=> Creates(s)
      BY <1>1 DEF Creates, Enrolling
    <3>5. CASE q = p BY <1>1, <1>2, <3>1, <3>2, <3>3, <3>4, <3>5 DEF CreatorOK
    <3>6. CASE q # p BY <1>1, <1>2, <2>1, <3>1, <3>4, <3>6 DEF CreatorOK
    <3> QED BY <3>5, <3>6
  <2>4. MetOK(q)' BY <1>1, <2>1 DEF MetOK, Enrolls, Enrolling, history
  <2>5. CopyOK(q)' BY <1>1, <2>1 DEF CopyOK, Updates, Enrolling, history
  <2> QED BY <2>2, <2>3, <2>4, <2>5
<1>5. MappedHaveAccounts'
  BY <1>1 DEF IInv, AccountsOK, MappedHaveAccounts, Writes, Enrolls, history
<1>6. (OnePhoneOneUser /\ TokenWithPassword /\ AnswersHold)'
  BY <1>1 DEF IInv, AccountsOK, OnePhoneOneUser, TokenWithPassword, AnswersHold, history
<1> QED BY <1>3, <1>4, <1>5, <1>6 DEF IInv, ProcsOK, AccountsOK

LEMMA MapPhoneStep ==
  ASSUME IInv, NEW p \in Procs, MapPhone(p)
  PROVE  IInv'
<1> DEFINE f == req[p].phone
           u == user[p]
<1>1. /\ UNCHANGED <<sequence, account, req, user, requests, failed, history>>
      /\ pc[p] = "map" /\ pc'[p] = "set"
      /\ \E t1, t2 \in Tokens : copy'[p] = NewAccount(req[p], t1, t2)
      /\ \A q \in Procs \ {p} : pc'[q] = pc[q] /\ copy'[q] = copy[q]
  BY DEF IInv, TypeOK, MapPhone
<1>2. req[p] \in Requests /\ Enrolling(p) /\ f \in Phones /\ Creates(p)
  <2>1. LocalOK(p) /\ req[p] \in Requests \cup {NoRequest}
    BY DEF IInv, TypeOK, ProcsOK
  <2> QED BY <1>1, <2>1, RequestFields DEF LocalOK, ByPhone, Enrolling, Creates
<1>3. /\ u \in 1 .. sequence /\ u # 0 /\ account[u] = NoAccount
      /\ \A q \in Procs : Creates(q) /\ user[q] = u => q = p
      /\ \A g \in Phones : phoneUser[g] # u
  BY <1>1, <1>2, AccountAssumption DEF IInv, ProcsOK, CreatorOK, TypeOK
<1>4. /\ phoneUser' \in [Phones -> 0 .. sequence]
      /\ phoneUser'[f] = u
      /\ \A g \in Phones \ {f} : phoneUser'[g] = phoneUser[g]
  BY <1>2, <1>3 DEF IInv, TypeOK, MapPhone, UserToMap
<1>5. TypeOK'
  <2>1. copy' \in [Procs -> Accounts \cup {NoAccount}]
    BY <1>2, NewAccountFacts DEF IInv, TypeOK, MapPhone, Enrolling
  <2>2. pc' \in [Procs -> {"idle", "phone", "incr", "map", "check", "get", "set"}]
    BY DEF IInv, TypeOK, MapPhone
  <2> QED BY <1>1, <1>4, <2>1, <2>2 DEF IInv, TypeOK, history
<1>6. \A q \in Procs : Creates(q)' <=> Creates(q)
  BY <1>1, <1>2 DEF Creates, Enrolling
<1>7. ASSUME NEW q \in Procs
      PROVE  (LocalOK(q) /\ CreatorOK(q) /\ MetOK(q) /\ CopyOK(q))'
  <2>1. LocalOK(q) /\ CreatorOK(q) /\ MetOK(q) /\ CopyOK(q) BY DEF IInv, ProcsOK
  <2>2. LocalOK(q)'
    <3>1. u \in Users BY <1>3, AccountAssumption DEF IInv, TypeOK, Users
    <3> QED BY <1>1, <1>2, <2>1, <3>1 DEF LocalOK, Enrolling, NoRequest
  <2>3. CreatorOK(q)'
    <3>1. CASE q = p BY <1>1, <1>3, <1>4, <1>6, <3>1 DEF CreatorOK
    <3>2. CASE q # p BY <1>1, <1>2, <1>3, <1>4, <1>6, <2>1, <3>2 DEF CreatorOK
    <3> QED BY <3>1, <3>2
  <2>4. MetOK(q)'
    <3>1. \A s \in Procs, g \in Phones :
            s # q /\ Enrolls(q, g)' /\ Enrolls(s, g)' => g \in met'
      BY <1>1, <2>1 DEF MetOK, Enrolls, history
    <3>2. CASE q = p BY <1>1, <1>4, <3>1, <3>2 DEF MetOK
    <3>3. CASE q # p
      <4>1. Enrolls(q, f) => f \in met
        BY <1>2, <2>1, <3>3 DEF MetOK, Enrolls, Enrolling
      <4>2. Enrolling(q) => req[q].phone \in Phones
        <5>1. req[q] \in Requests \cup {NoRequest} BY DEF IInv, TypeOK
        <5> QED BY <5>1, RequestFields DEF ByPhone, Enrolling
      <4> QED BY <1>1, <1>4, <2>1, <3>1, <3>3, <4>1, <4>2
              DEF MetOK, Enrolls, Enrolling, LocalOK, history
    <3> QED BY <3>2, <3>3
  <2>5. CopyOK(q)'
    <3>1. CASE q = p BY <1>1, <1>2, <3>1 DEF CopyOK, Updates, Enrolling
    <3>2. CASE q # p BY <1>1, <2>1, <3>2 DEF CopyOK, Updates, Enrolling, history
    <3> QED BY <3>1, <3>2
  <2> QED BY <2>2, <2>3, <2>4, <2>5
<1>8. MappedHaveAccounts'
  <2> SUFFICES ASSUME NEW g \in Phones, phoneUser'[g] # 0
               PROVE  \/ account[phoneUser'[g]].phone = g
                      \/ account[phoneUser'[g]] = NoAccount
                         /\ \E q \in Procs : /\ pc'[q] = "set"
                                             /\ user[q] = phoneUser'[g]
                                             /\ Enrolls(q, g)
                      \/ account[phoneUser'[g]] = NoAccount /\ g \in broken
    BY <1>1 DEF MappedHaveAccounts, Writes, Enrolls, history
  <2>1. CASE g = f
    <3>1. Enrolls(p, g) BY <1>2, <2>1 DEF Enrolls, Enrolling
    <3> QED BY <1>1, <1>3, <1>4, <2>1, <3>1
  <2>2. CASE g # f
    <3>1. phoneUser'[g] = phoneUser[g] BY <1>4, <2>2
    <3>2. \A q \in Procs : pc[q] = "set" => pc'[q] = "set" BY <1>1
    <3> QED BY <3>1, <3>2 DEF IInv, AccountsOK, MappedHaveAccounts, Writes
  <2> QED BY <2>1, <2>2
<1>9. OnePhoneOneUser'
  <2> SUFFICES ASSUME NEW v \in Users, account[v] # NoAccount
               PROVE  phoneUser'[account[v].phone] = v \/ account[v].phone \in met
    BY <1>1 DEF OnePhoneOneUser, history
  <2>1. account[v].phone \in Phones BY DEF IInv, TypeOK, Accounts
  <2>2. phoneUser[account[v].phone] = v \/ account[v].phone \in met
    BY DEF IInv, AccountsOK, OnePhoneOneUser
  <2>3. phoneUser[f] = 0 \/ f \in met BY <1>1 DEF IInv, ProcsOK, MetOK
  <2> QED BY <1>4, <2>1, <2>2, <2>3, AccountAssumption DEF Users
<1>10. (TokenWithPassword /\ AnswersHold)'
  BY <1>1 DEF IInv, AccountsOK, TokenWithPassword, AnswersHold, history
<1> QED BY <1>5, <1>7, <1>8, <1>9, <1>10 DEF IInv, ProcsOK, AccountsOK
-----------------------------------------------------------------------------
(* The account is written.                                                 *)

Dues == [passwords : SUBSET AllPasswords, status : {"ENROLL", "LOGIN", "LOGOUT"}]

\* What is due of a user when the request has answered.
LEMMA PromiseFacts ==
  ASSUME TypeOK, NEW r \in Requests, NEW u \in Users
  PROVE  LET d == Promise(r, u)
         IN  /\ d \in Dues
             /\ d.passwords = CASE r.op = "enroll" -> {RandomPassword}
                                [] r.op = "modify" -> {r.n_pass}
                                [] r.op = "verify" -> PasswordsAsked(u, r.token)
                                [] OTHER           -> due[u].passwords
             /\ d.status = CASE r.op = "enroll"             -> "ENROLL"
                             [] r.op \in {"login", "verify"} -> "LOGIN"
                             [] r.op = "logout"              -> "LOGOUT"
                             [] OTHER                        -> due[u].status
<1>1. due[u] \in Dues BY DEF TypeOK, Dues
<1>2. r.op \in {"enroll", "login", "reset", "logout", "modify", "code", "verify"}
  BY DEF Requests
<1>3. PasswordsAsked(u, r.token) \subseteq AllPasswords
  BY DEF PasswordsAsked, AllPasswords
<1>4. r.op = "modify" => r.n_pass \in AllPasswords BY RequestFields DEF AllPasswords
<1>5. CASE r.op = "enroll"
  <2>1. Promise(r, u) = [passwords |-> {RandomPassword}, status |-> "ENROLL"]
    BY <1>5 DEF Promise
  <2> QED BY <1>5, <2>1 DEF Dues, AllPasswords
<1>6. CASE r.op = "login"
  <2>1. Promise(r, u) = [due[u] EXCEPT !.status = "LOGIN"] BY <1>6 DEF Promise
  <2> QED BY <1>1, <1>6, <2>1 DEF Dues
<1>7. CASE r.op = "logout"
  <2>1. Promise(r, u) = [due[u] EXCEPT !.status = "LOGOUT"] BY <1>7 DEF Promise
  <2> QED BY <1>1, <1>7, <2>1 DEF Dues
<1>8. CASE r.op = "modify"
  <2>1. Promise(r, u) = [due[u] EXCEPT !.passwords = {r.n_pass}] BY <1>8 DEF Promise
  <2> QED BY <1>1, <1>4, <1>8, <2>1 DEF Dues
<1>9. CASE r.op = "verify"
  <2>1. Promise(r, u) = [passwords |-> PasswordsAsked(u, r.token), status |-> "LOGIN"]
    BY <1>9 DEF Promise
  <2> QED BY <1>3, <1>9, <2>1 DEF Dues
<1>10. CASE r.op \in {"reset", "code"}
  <2>1. Promise(r, u) = due[u] BY <1>10 DEF Promise
  <2> QED BY <1>1, <1>10, <2>1
<1> QED BY <1>2, <1>5, <1>6, <1>7, <1>8, <1>9, <1>10

\* The account written is of the right phone, with a token and a password
\* that were asked for together.
LEMMA WrittenFacts ==
  ASSUME IInv, NEW p \in Procs, SetAccount(p)
  PROVE  /\ pc[p] = "set"
         /\ user[p] \in Users /\ user[p] <= sequence
         /\ req[p] \in Requests
         /\ copy[p] \in Accounts /\ copy[p] # NoAccount
         /\ <<user[p], copy[p].tmp_token, copy[p].tmp_password>> \in asked'
         /\ Enrolling(p) \/ Updates(p)
         /\ Enrolling(p) => /\ copy[p].phone = req[p].phone
                            /\ copy[p].password = RandomPassword
                            /\ copy[p].status = "ENROLL"
<1>1. pc[p] = "set" /\ CreatorOK(p) /\ CopyOK(p) /\ LocalOK(p)
  BY DEF SetAccount, IInv, ProcsOK
<1>2. user[p] \in Users /\ req[p] \in Requests
  BY <1>1 DEF IInv, TypeOK, LocalOK
<1>3. CASE Enrolling(p)
  <2>1. PICK t1, t2 \in Tokens : copy[p] = NewAccount(req[p], t1, t2)
    BY <1>1, <1>3 DEF CopyOK
  <2>2. user[p] <= sequence
    BY <1>1, <1>3 DEF CreatorOK, Creates
  <2>3. /\ copy[p] \in Accounts /\ copy[p].phone = req[p].phone
        /\ copy[p].tmp_password = req[p].password
        /\ copy[p].password = RandomPassword /\ copy[p].status = "ENROLL"
    BY <1>2, <1>3, <2>1, NewAccountFacts DEF Enrolling
  <2>4. <<user[p], copy[p].tmp_token, copy[p].tmp_password>> \in asked'
    BY <1>3, <2>3 DEF SetAccount, Enrolling
  <2> QED BY <1>1, <1>2, <1>3, <2>2, <2>3, <2>4, NoAccountIsNone
<1>4. CASE Updates(p)
  <2>1. user[p] <= sequence BY <1>1, <1>2, <1>4 DEF CopyOK, IInv, TypeOK
  <2>2. <<user[p], copy[p].tmp_token, copy[p].tmp_password>> \in asked'
    BY <1>1, <1>4 DEF SetAccount, CopyOK, Updates, Enrolling
  <2> QED BY <1>1, <1>2, <1>4, <2>1, <2>2, NoAccountIsNone DEF CopyOK, Updates
<1> QED BY <1>1, <1>3, <1>4 DEF Updates

LEMMA SetAccountTypes ==
  ASSUME IInv, NEW p \in Procs, SetAccount(p)
  PROVE  TypeOK'
<1>1. account' \in [Users -> Accounts \cup {NoAccount}]
      /\ \A u \in Users : account'[u] # NoAccount => u <= sequence
  BY WrittenFacts DEF IInv, TypeOK, SetAccount
<1>2. due' \in [Users -> Dues]
  <2>1. Promise(req[p], user[p]) \in Dues BY WrittenFacts, PromiseFacts DEF IInv
  <2> QED BY <2>1 DEF IInv, TypeOK, SetAccount, Dues
<1>3. asked' \subseteq Users \X Tokens \X Passwords
  <2>1. req[p].op \in {"enroll", "reset"} => req[p].password \in Passwords
    BY WrittenFacts, RequestFields DEF ByPhone
  <2>2. copy[p].tmp_token \in Tokens BY WrittenFacts DEF Accounts
  <2>3. \/ asked' = asked
        \/ /\ req[p].op \in {"enroll", "reset"}
           /\ asked' = asked \cup {<<user[p], copy[p].tmp_token, req[p].password>>}
    BY DEF SetAccount
  <2>4. user[p] \in Users BY WrittenFacts
  <2>5. asked \subseteq Users \X Tokens \X Passwords BY DEF IInv, TypeOK
  <2> QED BY <2>1, <2>2, <2>3, <2>4, <2>5
<1>4. stale' \in [Procs -> BOOLEAN] BY DEF IInv, TypeOK, SetAccount, Writes
<1>5. lost' \subseteq Users BY WrittenFacts DEF IInv, TypeOK, SetAccount
<1>6. UNCHANGED <<sequence, phoneUser, requests, failed, repeated, met, broken>> /\ End(p)
  BY DEF SetAccount
<1> QED BY <1>1, <1>2, <1>3, <1>4, <1>5, <1>6, EndLocal DEF IInv, TypeOK, Dues

LEMMA SetAccountProcs ==
  ASSUME IInv, NEW p \in Procs, SetAccount(p)
  PROVE  ProcsOK'
<1> DEFINE u == user[p]
<1>1. /\ UNCHANGED <<sequence, phoneUser, met>>
      /\ account' = [account EXCEPT ![u] = copy[p]]
      /\ asked \subseteq asked'
      /\ \A q \in Procs \ {p} : stale'[q] = (stale[q] \/ Writes(q, u))
      /\ End(p)
  BY DEF SetAccount
<1>2. /\ account'[u] = copy[p]
      /\ \A v \in Users \ {u} : account'[v] = account[v]
  BY <1>1, WrittenFacts DEF IInv, TypeOK
<1> SUFFICES ASSUME NEW q \in Procs
             PROVE  (LocalOK(q) /\ CreatorOK(q) /\ MetOK(q) /\ CopyOK(q))'
  BY DEF ProcsOK
<1>3. CASE q = p
  <2>1. LocalOK(p)' /\ ~ Creates(p)' /\ CopyOK(p)' /\ pc'[p] = "idle"
        /\ \A f : ~ Enrolls(p, f)'
    BY <1>1, EndLocal
  <2> QED BY <1>3, <2>1 DEF CreatorOK, MetOK
<1>4. CASE q # p
  <2>1. LocalOK(q) /\ CreatorOK(q) /\ MetOK(q) /\ CopyOK(q) BY DEF IInv, ProcsOK
  <2>2. /\ pc'[q] = pc[q] /\ req'[q] = req[q] /\ user'[q] = user[q] /\ copy'[q] = copy[q]
        /\ ~ Creates(p)' /\ \A f : ~ Enrolls(p, f)'
        /\ \A s \in Procs \ {p} : pc'[s] = pc[s] /\ req'[s] = req[s] /\ user'[s] = user[s]
    BY <1>1, <1>4, EndLocal
  <2>3. LocalOK(q)' BY <2>1, <2>2 DEF LocalOK, Enrolling
  <2>4. CreatorOK(q)'
    <3> SUFFICES ASSUME Creates(q) PROVE CreatorOK(q)'
      BY <2>2 DEF CreatorOK, Creates, Enrolling
    <3>1. user[q] # u
      <4>1. CASE Enrolling(p)
        <5>1. Creates(p) BY <4>1, WrittenFacts DEF Creates
        <5> QED BY <1>4, <2>1, <5>1 DEF CreatorOK
      <4>2. CASE Updates(p)
        <5>1. account[u] # NoAccount BY <4>2 DEF IInv, ProcsOK, CopyOK
        <5> QED BY <2>1, <5>1 DEF CreatorOK
      <4> QED BY <4>1, <4>2, WrittenFacts
    <3>2. user[q] \in Users
      BY <2>1, AccountAssumption DEF CreatorOK, Users, IInv, TypeOK
    <3>3. \A s \in Procs : Creates(s)' => Creates(s) /\ user'[s] = user[s]
      BY <2>2 DEF Creates, Enrolling
    <3> QED BY <1>1, <1>2, <2>1, <2>2, <3>1, <3>2, <3>3 DEF CreatorOK
  <2>5. MetOK(q)'
    <3>1. \A s \in Procs, f \in Phones :
            s # q /\ Enrolls(q, f)' /\ Enrolls(s, f)' => f \in met
      BY <2>1, <2>2 DEF MetOK, Enrolls
    <3> QED BY <1>1, <2>1, <2>2, <3>1 DEF MetOK, Enrolling
  <2>6. CopyOK(q)'
    <3>1. CASE ~ Updates(q) BY <2>1, <2>2, <3>1 DEF CopyOK, Updates, Enrolling
    <3>2. CASE Updates(q) /\ user[q] # u
      <4>1. user[q] \in Users BY <2>1, <3>2 DEF LocalOK, Updates
      <4>2. account'[user[q]] = account[user[q]] BY <1>2, <3>2, <4>1
      <4>3. stale'[q] = stale[q]
        BY <1>1, <1>4, <3>2 DEF Writes, IInv, TypeOK
      <4> QED BY <1>1, <2>1, <2>2, <3>2, <4>2, <4>3 DEF CopyOK, Updates, Enrolling
    <3>3. CASE Updates(q) /\ user[q] = u
      <4>1. account[u] # NoAccount /\ copy[q].phone = account[u].phone
        BY <2>1, <3>3 DEF CopyOK
      <4>2. Updates(p)
        <5>1. ~ Creates(p) BY <4>1 DEF IInv, ProcsOK, CreatorOK
        <5> QED BY <5>1, WrittenFacts DEF Creates
      <4>3. copy[p].phone = account[u].phone BY <4>2 DEF IInv, ProcsOK, CopyOK
      <4>4. copy[p] # NoAccount BY WrittenFacts
      <4>5. stale'[q] BY <1>1, <1>4, <3>3 DEF Writes, Updates
      <4> QED BY <1>1, <1>2, <2>1, <2>2, <3>3, <4>1, <4>3, <4>4, <4>5
              DEF CopyOK, Updates, Enrolling
    <3> QED BY <3>1, <3>2, <3>3
  <2> QED BY <1>4, <2>3, <2>4, <2>5, <2>6
<1> QED BY <1>3, <1>4

LEMMA SetAccountMapped ==
  ASSUME IInv, NEW p \in Procs, SetAccount(p)
  PROVE  MappedHaveAccounts' /\ OnePhoneOneUser'
<1> DEFINE u == user[p]
<1>1. /\ UNCHANGED <<sequence, phoneUser, met, broken>>
      /\ account'[u] = copy[p]
      /\ \A v \in Users \ {u} : account'[v] = account[v]
      /\ \A q \in Procs \ {p} : pc'[q] = pc[q] /\ user'[q] = user[q] /\ req'[q] = req[q]
  BY WrittenFacts, EndLocal DEF IInv, TypeOK, SetAccount
<1>2. u \in Users /\ copy[p] # NoAccount /\ (Enrolling(p) \/ Updates(p)) /\ pc[p] = "set"
  BY WrittenFacts
<1>3. Enrolling(p) => copy[p].phone = req[p].phone BY WrittenFacts
<1>4. Updates(p) => account[u] # NoAccount /\ copy[p].phone = account[u].phone
  BY DEF IInv, ProcsOK, CopyOK
<1>5. MappedHaveAccounts'
  <2> SUFFICES ASSUME NEW f \in Phones, phoneUser[f] # 0
               PROVE  \/ account'[phoneUser[f]].phone = f
                      \/ account'[phoneUser[f]] = NoAccount
                         /\ \E q \in Procs : /\ pc'[q] = "set"
                                             /\ user'[q] = phoneUser[f]
                                             /\ req'[q].op = "enroll"
                                             /\ req'[q].phone = f
                      \/ account'[phoneUser[f]] = NoAccount /\ f \in broken
    BY <1>1 DEF MappedHaveAccounts, Writes, Enrolls
  <2>1. phoneUser[f] \in Users
    BY AccountAssumption DEF IInv, TypeOK, Users
  <2>2. \/ account[phoneUser[f]].phone = f
        \/ account[phoneUser[f]] = NoAccount
           /\ \E q \in Procs : /\ pc[q] = "set" /\ user[q] = phoneUser[f]
                               /\ req[q].op = "enroll" /\ req[q].phone = f
        \/ account[phoneUser[f]] = NoAccount /\ f \in broken
    BY DEF IInv, AccountsOK, MappedHaveAccounts, Writes, Enrolls
  <2>3. CASE phoneUser[f] # u
    <3>1. account'[phoneUser[f]] = account[phoneUser[f]] BY <1>1, <2>1, <2>3
    <3> QED BY <1>1, <2>2, <2>3, <3>1
  <2>4. CASE phoneUser[f] = u /\ Enrolling(p)
    <3>1. f = req[p].phone
      BY <1>2, <2>4 DEF IInv, ProcsOK, CreatorOK, Creates
    <3> QED BY <1>1, <1>3, <2>4, <3>1
  <2>5. CASE phoneUser[f] = u /\ Updates(p)
    BY <1>1, <1>4, <2>2, <2>5
  <2> QED BY <1>2, <2>3, <2>4, <2>5
<1>6. OnePhoneOneUser'
  <2> SUFFICES ASSUME NEW v \in Users, account'[v] # NoAccount
               PROVE  phoneUser[account'[v].phone] = v \/ account'[v].phone \in met
    BY <1>1 DEF OnePhoneOneUser
  <2>1. CASE v # u
    BY <1>1, <2>1 DEF IInv, AccountsOK, OnePhoneOneUser
  <2>2. CASE v = u /\ Enrolling(p)
    BY <1>1, <1>2, <1>3, <2>2 DEF IInv, ProcsOK, MetOK
  <2>3. CASE v = u /\ Updates(p)
    BY <1>1, <1>4, <2>3 DEF IInv, AccountsOK, OnePhoneOneUser
  <2> QED BY <1>2, <2>1, <2>2, <2>3
<1> QED BY <1>5, <1>6

LEMMA SetAccountAnswers ==
  ASSUME IInv, NEW p \in Procs, SetAccount(p)
  PROVE  TokenWithPassword' /\ AnswersHold'
<1> DEFINE u == user[p]
           r == req[p]
           a == account[u]
<1>1. /\ account'[u] = copy[p]
      /\ \A v \in Users \ {u} : account'[v] = account[v]
      /\ due'[u] = Promise(r, u)
      /\ \A v \in Users \ {u} : due'[v] = due[v]
      /\ asked \subseteq asked' /\ repeated' = repeated
      /\ lost' = IF stale[p] THEN lost \cup {u}
                 ELSE IF r.op = "verify" THEN lost \ {u} ELSE lost
  BY WrittenFacts DEF IInv, TypeOK, SetAccount
<1>2. u \in Users /\ r \in Requests /\ (Enrolling(p) \/ Updates(p)) BY WrittenFacts
<1>3. TokenWithPassword'
  <2>1. ASSUME NEW v \in Users, account'[v] # NoAccount
        PROVE  <<v, account'[v].tmp_token, account'[v].tmp_password>> \in asked'
    <3>1. CASE v = u BY <1>1, <3>1, WrittenFacts
    <3>2. CASE v # u BY <1>1, <2>1, <3>2 DEF IInv, AccountsOK, TokenWithPassword
    <3> QED BY <3>1, <3>2
  <2>2. \A x \in repeated' : \E w \in Passwords : <<x[1], x[2], w>> \in asked'
    BY <1>1 DEF IInv, AccountsOK, TokenWithPassword
  <2> QED BY <2>1, <2>2 DEF TokenWithPassword
<1>4. AnswersHold'
  <2> SUFFICES ASSUME NEW v \in Users, account'[v] # NoAccount, v \notin lost'
               PROVE  /\ account'[v].password \in due'[v].passwords
                      /\ account'[v].status = due'[v].status
    BY DEF AnswersHold
  <2>1. CASE v # u
    <3>1. v \notin lost BY <1>1, <2>1
    <3> QED BY <1>1, <2>1, <3>1 DEF IInv, AccountsOK, AnswersHold
  <2>2. CASE v = u /\ Enrolling(p)
    <3>1. copy[p].password = RandomPassword /\ copy[p].status = "ENROLL"
      BY <2>2, WrittenFacts
    <3>2. Promise(r, u) = [passwords |-> {RandomPassword}, status |-> "ENROLL"]
      BY <2>2 DEF Promise, Enrolling
    <3> QED BY <1>1, <2>2, <3>1, <3>2
  <2>3. CASE v = u /\ Updates(p)
    <3>1. ~ stale[p] BY <1>1, <2>3
    <3>2. a # NoAccount /\ ~ Refuses(r, u, a) /\ \E t \in Tokens : copy[p] = Changed(r, a, t)
      BY <2>3, <3>1 DEF IInv, ProcsOK, CopyOK
    <3>3. PICK t \in Tokens : copy[p] = Changed(r, a, t) BY <3>2
    <3>4. r.op # "enroll" /\ a \in Accounts
      BY <1>2, <2>3, <3>2 DEF Updates, Enrolling, IInv, TypeOK
    <3>5. CASE r.op = "verify"
      <4>1. copy[p].password = a.tmp_password /\ copy[p].status = "LOGIN"
        BY <1>2, <3>3, <3>4, <3>5, ChangedFacts
      <4>2. <<u, a.tmp_token, a.tmp_password>> \in asked
        BY <1>2, <3>2 DEF IInv, AccountsOK, TokenWithPassword
      <4>3. a.tmp_token \in Tokens /\ a.tmp_password \in Passwords
        BY <4>2 DEF IInv, TypeOK
      <4>4. a.tmp_token = r.token \/ u \in IsVerified BY <3>2, <3>5 DEF Refuses
      <4>5. a.tmp_password \in PasswordsAsked(u, r.token)
        BY <4>2, <4>3, <4>4 DEF PasswordsAsked
      <4>6. Promise(r, u) = [passwords |-> PasswordsAsked(u, r.token), status |-> "LOGIN"]
        BY <3>5 DEF Promise
      <4> QED BY <1>1, <2>3, <4>1, <4>5, <4>6
    <3>6. CASE r.op # "verify"
      <4>1. u \notin lost BY <1>1, <2>3, <3>1, <3>6
      <4>2. a.password \in due[u].passwords /\ a.status = due[u].status
        BY <1>2, <3>2, <4>1 DEF IInv, AccountsOK, AnswersHold
      <4>3. /\ copy[p].password = IF r.op = "modify" THEN r.n_pass ELSE a.password
            /\ copy[p].status = IF r.op = "login" THEN "LOGIN"
                                ELSE IF r.op = "logout" THEN "LOGOUT" ELSE a.status
        BY <1>2, <3>3, <3>4, <3>6, ChangedFacts
      <4>4. /\ due'[u].passwords = IF r.op = "modify" THEN {r.n_pass} ELSE due[u].passwords
            /\ due'[u].status = IF r.op = "login" THEN "LOGIN"
                                ELSE IF r.op = "logout" THEN "LOGOUT" ELSE due[u].status
        BY <1>1, <1>2, <3>4, <3>6, PromiseFacts DEF IInv
      <4> QED BY <1>1, <2>3, <4>2, <4>3, <4>4
    <3> QED BY <3>5, <3>6
  <2> QED BY <1>2, <2>1, <2>2, <2>3
<1> QED BY <1>3, <1>4
-----------------------------------------------------------------------------
(* Every step.                                                             *)

LEMMA NextIInv == IInv /\ [Next]_vars => IInv'
<1> SUFFICES ASSUME IInv, [Next]_vars PROVE IInv' OBVIOUS
<1>1. ASSUME NEW p \in Procs, Step(p) PROVE IInv'
  <2>1. CASE SetAccount(p)
    BY <2>1, SetAccountTypes, SetAccountProcs, SetAccountMapped, SetAccountAnswers
       DEF IInv, AccountsOK
  <2> QED BY <1>1, <2>1, GetPhoneStep, IncrSequenceStep, MapPhoneStep,
             CheckLoginStep, GetAccountStep DEF Step
<1>2. ASSUME NEW p \in Procs, Fail(p) PROVE IInv' BY <1>2, FailStep
<1>3. ASSUME NEW p \in Procs, NEW r \in Requests, Begin(p, r) PROVE IInv'
  BY <1>3, BeginStep
<1>4. CASE UNCHANGED vars
  BY <1>4 DEF vars, store, process, history, IInv, TypeOK, ProcsOK, LocalOK,
              CreatorOK, MetOK, CopyOK, Creates, Updates, Enrolling, Enrolls,
              AccountsOK, MappedHaveAccounts, Writes, OnePhoneOneUser,
              TokenWithPassword, AnswersHold
<1> QED BY <1>1, <1>2, <1>3, <1>4 DEF Next

LEMMA IInvHolds == Spec => []IInv
<1> QED BY InitIInv, NextIInv, PTL DEF Spec

(***************************************************************************)
(* Every field of an account, of a phone and of a request of Login.cc      *)
(* always has a value of its type, and no account a number not given out.  *)
(***************************************************************************)
THEOREM TypeOKHolds == Spec => []TypeOK
<1>1. IInv => TypeOK BY DEF IInv
<1> QED BY <1>1, IInvHolds, PTL

(***************************************************************************)
(* A phone that Account::CreateUser has mapped has the account of its      *)
(* user, unless an enroll is about to store it or ended before it did.     *)
(***************************************************************************)
THEOREM MappedHaveAccountsHolds == Spec => []MappedHaveAccounts
<1>1. IInv => MappedHaveAccounts BY DEF IInv, AccountsOK
<1> QED BY <1>1, IInvHolds, PTL

(***************************************************************************)
(* A phone has the one account that Account::Login finds, unless two       *)
(* enrolls of it were under way at a time.                                 *)
(***************************************************************************)
THEOREM OnePhoneOneUserHolds == Spec => []OnePhoneOneUser
<1>1. IInv => OnePhoneOneUser BY DEF IInv, AccountsOK
<1> QED BY <1>1, IInvHolds, PTL

(***************************************************************************)
(* However the requests of one user overwrite each other's accounts, the   *)
(* token and the password that wait for Account::VerifyCode were stored by *)
(* one request, and so was the token that Account::Enroll answers again.   *)
(***************************************************************************)
THEOREM TokenWithPasswordHolds == Spec => []TokenWithPassword
<1>1. IInv => TokenWithPassword BY DEF IInv, AccountsOK
<1> QED BY <1>1, IInvHolds, PTL

(***************************************************************************)
(* The password and the status of an account are what the last request     *)
(* that answered promised, unless an account was written back from a copy  *)
(* read before another request wrote it.                                   *)
(***************************************************************************)
THEOREM AnswersHoldAlways == Spec => []AnswersHold
<1>1. IInv => AnswersHold BY DEF IInv, AccountsOK
<1> QED BY <1>1, IInvHolds, PTL
=============================================================================
