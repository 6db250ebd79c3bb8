----------------------------- MODULE FeedProofs -----------------------------
(***************************************************************************)
(* For every number of users, processes, records, requests and failures:   *)
(* proofs about RecordFeed.                                                *)
(***************************************************************************)
EXTENDS RecordFeed, SequenceTheorems, FiniteSetTheorems, WellFoundedInduction, TLAPS

-----------------------------------------------------------------------------
(* What LREM leaves.  The provers have no induction over sequences: a      *)
(* statement about every prefix is proved by its least counterexample.     *)

LEMMA LeastNumber ==
  ASSUME NEW S, S \subseteq Nat, S # {}
  PROVE  \E x \in S : \A y \in S : x <= y
<1>1. PICK x \in S : \A y \in S : <<y, x>> \notin OpToRel(<, Nat)
  BY NatLessThanWellFounded, WFMin
<1>2. \A y \in S : ~ (y < x) BY <1>1 DEF OpToRel
<1> QED BY <1>2

OneEach(s) == \A i, j \in 1 .. Len(s) : s[i] = s[j] => i = j

In(s, e) == \E i \in 1 .. Len(s) : s[i] = e

Keeps(g, s, r, n) ==
  g = [m \in 0 .. n |-> IF m = 0 THEN << >>
                        ELSE IF s[m] = r THEN g[m - 1] ELSE Append(g[m - 1], s[m])]

\* The recursive function of Without is what its equation says.
LEMMA KeptExists ==
  ASSUME NEW S, NEW s \in Seq(S), NEW r
  PROVE  \E g : Keeps(g, s, r, Len(s))
<1> DEFINE B == {n \in Nat : ~ \E g : Keeps(g, s, r, n)}
<1>0. PICK N \in Nat : N = Len(s) OBVIOUS
<1>4. ASSUME B = {} PROVE \E g : Keeps(g, s, r, N)
  <2>1. N \notin B BY <1>4
  <2> QED BY <2>1
<1> SUFFICES B = {} BY <1>0, <1>4
<1> SUFFICES ASSUME B # {} PROVE FALSE OBVIOUS
<1>1. PICK n \in B : \A m \in B : n <= m BY LeastNumber
<1>2. CASE n = 0
  <2> DEFINE g == [m \in 0 .. 0 |-> << >>]
  <2>1. Keeps(g, s, r, 0) BY DEF Keeps
  <2> QED BY <1>2, <2>1
<1>3. CASE n # 0
  <2>1. n \in Nat /\ n - 1 \in Nat /\ n - 1 \notin B BY <1>1, <1>3
  <2>2. PICK g : Keeps(g, s, r, n - 1) BY <2>1
  <2> DEFINE step(h, m) == IF m = 0 THEN << >>
                           ELSE IF s[m] = r THEN h[m - 1] ELSE Append(h[m - 1], s[m])
             last == step(g, n)
             h == [m \in 0 .. n |-> IF m = n THEN last ELSE g[m]]
  <2>3. \A m \in 0 .. n - 1 : g[m] = step(g, m)
    <3>1. g = [m \in 0 .. n - 1 |-> step(g, m)] BY <2>2 DEF Keeps
    <3> HIDE DEF step
    <3> QED BY <3>1
  <2>4. \A m \in 0 .. n : h[m] = step(h, m)
    <3> SUFFICES ASSUME NEW m \in 0 .. n PROVE h[m] = step(h, m) OBVIOUS
    <3>1. CASE m = 0 BY <3>1, <2>3, <1>3, <2>1
    <3>2. CASE m # 0
      <4>1. m - 1 \in 0 .. n /\ m - 1 # n BY <3>2, <2>1
      <4>2. h[m - 1] = g[m - 1] BY <4>1
      <4>3. step(h, m) = step(g, m) BY <3>2, <4>2
      <4>4. CASE m = n BY <4>3, <4>4
      <4>5. CASE m # n BY <4>3, <4>5, <2>3, <2>1
      <4> QED BY <4>4, <4>5
    <3> QED BY <3>1, <3>2
  <2>5. Keeps(h, s, r, n)
    <3>1. h = [m \in 0 .. n |-> step(h, m)]
      <4> HIDE DEF step, last
      <4> QED BY <2>4
    <3> HIDE DEF h, last
    <3> QED BY <3>1 DEF Keeps, step
  <2> QED BY <2>1, <2>5, <1>1
<1> QED BY <1>2, <1>3

LEMMA WithoutKept ==
  ASSUME NEW S, NEW s \in Seq(S), NEW r
  PROVE  \E g : Keeps(g, s, r, Len(s)) /\ Without(s, r) = g[Len(s)]
<1> DEFINE g == CHOOSE f : Keeps(f, s, r, Len(s))
<1>1. Keeps(g, s, r, Len(s)) BY KeptExists
<1>2. Without(s, r) = g[Len(s)] BY DEF Without, Keeps
<1> QED BY <1>1, <1>2

LEMMA WithoutFacts ==
  ASSUME NEW S, NEW s \in Seq(S), NEW r
  PROVE  /\ Without(s, r) \in Seq(S)
         /\ \A e : In(Without(s, r), e) <=> In(s, e) /\ e # r
         /\ OneEach(s) => OneEach(Without(s, r))
<1>1. PICK g : Keeps(g, s, r, Len(s)) /\ Without(s, r) = g[Len(s)] BY WithoutKept
<1>2. PICK N \in Nat : N = Len(s) OBVIOUS
<1> DEFINE step(m) == IF m = 0 THEN << >>
                      ELSE IF s[m] = r THEN g[m - 1] ELSE Append(g[m - 1], s[m])
           Right(n) == /\ g[n] \in Seq(S)
                       /\ \A e : In(g[n], e) <=> e # r /\ \E i \in 1 .. n : s[i] = e
                       /\ OneEach(s) => OneEach(g[n])
           B == {n \in 0 .. N : ~ Right(n)}
<1>3. \A m \in 0 .. N : g[m] = step(m)
  <2>1. g = [m \in 0 .. N |-> step(m)] BY <1>1, <1>2 DEF Keeps
  <2> HIDE DEF step
  <2> QED BY <2>1
<1>4. B = {}
  <2> SUFFICES ASSUME B # {} PROVE FALSE OBVIOUS
  <2>1. PICK n \in B : \A m \in B : n <= m
    <3>1. B \subseteq Nat OBVIOUS
    <3> HIDE DEF B
    <3> QED BY <3>1, LeastNumber
  <2>2. n \in 0 .. N /\ ~ Right(n) BY <2>1
  <2>3. CASE n = 0
    <3>1. g[n] = << >> BY <2>3, <1>3
    <3> QED BY <2>2, <2>3, <3>1 DEF In, OneEach
  <2>4. CASE n # 0
    <3>0. n - 1 \in 0 .. N /\ ~ (n <= n - 1) BY <2>2, <2>4
    <3>1. n - 1 \in 0 .. N /\ n - 1 \notin B
      <4> HIDE DEF B
      <4> QED BY <2>1, <3>0
    <3>2. Right(n - 1) BY <3>1
    <3> DEFINE t == g[n - 1]
    <3>3. PICK k \in Nat : k = Len(t) BY <3>2
    <3>4. \A e : (\E i \in 1 .. n : s[i] = e) <=> (\E i \in 1 .. n - 1 : s[i] = e) \/ s[n] = e
      <4>1. \A i : i \in 1 .. n <=> i \in 1 .. n - 1 \/ i = n BY <2>2, <2>4
      <4> QED BY <4>1
    <3>5. CASE s[n] = r
      <4>1. g[n] = t BY <1>3, <2>2, <2>4, <3>5
      <4> QED BY <2>2, <3>2, <3>4, <3>5, <4>1
    <3>6. CASE s[n] # r
      <4>1. g[n] = Append(t, s[n]) BY <1>3, <2>2, <2>4, <3>6
      <4>2. s[n] \in S BY <1>2, <2>2, <2>4
      <4>3. g[n] \in Seq(S) BY <4>1, <4>2, <3>2
      <4>4. /\ Len(g[n]) = k + 1 /\ g[n][k + 1] = s[n]
            /\ \A i \in 1 .. k : g[n][i] = t[i]
        BY <4>1, <4>2, <3>2, <3>3
      <4>5. \A i : i \in 1 .. k + 1 <=> i \in 1 .. k \/ i = k + 1 BY <3>3
      <4>6. \A e : In(g[n], e) <=> In(t, e) \/ e = s[n]
        BY <4>4, <4>5, <3>3 DEF In
      <4>7. \A e : In(g[n], e) <=> e # r /\ \E i \in 1 .. n : s[i] = e
        BY <4>6, <3>2, <3>4, <3>6
      <4>8. OneEach(s) => OneEach(g[n])
        <5> SUFFICES ASSUME OneEach(s), NEW i \in 1 .. Len(g[n]), NEW j \in 1 .. Len(g[n]),
                            g[n][i] = g[n][j]
                     PROVE  i = j
          BY DEF OneEach
        <5>1. OneEach(t) BY <3>2
        <5>2. ~ In(t, s[n])
          <6> SUFFICES ASSUME In(t, s[n]) PROVE FALSE OBVIOUS
          <6>1. PICK h \in 1 .. n - 1 : s[h] = s[n] BY <3>2
          <6>2. h \in 1 .. Len(s) /\ n \in 1 .. Len(s) /\ h # n BY <6>1, <1>2, <2>2, <2>4
          <6> QED BY <6>1, <6>2 DEF OneEach
        <5>3. i \in 1 .. k + 1 /\ j \in 1 .. k + 1 BY <4>4
        <5>4. CASE i = k + 1 /\ j = k + 1 BY <5>4
        <5>5. CASE i = k + 1 /\ j # k + 1
          BY <5>5, <5>2, <5>3, <4>4, <4>5, <3>3 DEF In
        <5>6. CASE i # k + 1 /\ j = k + 1
          BY <5>6, <5>2, <5>3, <4>4, <4>5, <3>3 DEF In
        <5>7. CASE i # k + 1 /\ j # k + 1
          <6>1. i \in 1 .. k /\ j \in 1 .. k BY <5>7, <5>3, <4>5
          <6>2. t[i] = t[j] BY <6>1, <4>4
          <6>3. i \in 1 .. Len(t) /\ j \in 1 .. Len(t) BY <6>1, <3>3
          <6> QED BY <5>1, <6>2, <6>3 DEF OneEach
        <5> QED BY <5>4, <5>5, <5>6, <5>7
      <4> QED BY <2>2, <4>3, <4>7, <4>8
    <3> QED BY <3>5, <3>6
  <2> QED BY <2>3, <2>4
<1>5. Right(N)
  <2> HIDE DEF Right
  <2>1. N \in 0 .. N BY <1>2
  <2> QED BY <1>4, <2>1
<1> QED BY <1>1, <1>2, <1>5 DEF In
-----------------------------------------------------------------------------
(* The request of a process is at one of the commands of its operation.    *)

Ops == {"create", "delete", "publish", "page"}

Names == {"incr", "set", "send", "count", "uncount", "get", "mark", "show",
          "range", "mget", "clean"}

Rests == [create  |-> {<<"incr", "set", "send", "count">>, <<"set", "send", "count">>,
                       <<"send", "count">>, <<"count">>},
          delete  |-> {<<"uncount", "get", "mark">>, <<"get", "mark">>, <<"mark">>},
          publish |-> {<<"get", "show">>, <<"show">>},
          page    |-> {<<"range", "mget", "clean">>, <<"mget", "clean">>, <<"clean">>}]

\* The command of each, and the one that follows it.
Steps == [create  |-> {"incr", "set", "send", "count"},
          delete  |-> {"uncount", "get", "mark"},
          publish |-> {"get", "show"},
          page    |-> {"range", "mget", "clean"}]

After(o, c) == CASE c = "incr" -> "set"
                 [] c = "set" -> "send"
                 [] c = "send" -> "count"
                 [] c = "uncount" -> "get"
                 [] c = "get" /\ o = "delete" -> "mark"
                 [] c = "get" /\ o # "delete" -> "show"
                 [] c = "range" -> "mget"
                 [] c = "mget" -> "clean"
                 [] OTHER -> "none"

Now(p) == IF Idle(p) THEN "none" ELSE Head(todo[p])

Creates(p) == Now(p) \in {"incr", "set", "send", "count"}

RequestsT == /\ req \in [Procs -> Requests \cup {NoRequest}]
             /\ DOMAIN todo = Procs
             /\ copy \in [Procs -> Record \cup {NoRecord}]
             /\ ids \in [Procs -> SUBSET Ids]
             /\ \A p \in Procs : IF Idle(p) THEN todo[p] = << >>
                                 ELSE todo[p] \in Rests[req[p].op]

Stored == {r \in 1 .. seq : rec[r] # NoRecord}

WorkerSteps == {"none", "get", "home", "followers", "active", "recent", "done"}

StoreT == /\ seq \in 0 .. MaxRecords
          /\ rec \in [Ids -> Record \cup {NoRecord}]
          /\ owner \in [Ids -> Users \cup {NoOne}]
          /\ \A r \in Ids : rec[r] # NoRecord => r <= seq
          /\ \A r \in Ids : r <= seq => owner[r] \in Users
          /\ DOMAIN list = Keys
          /\ \A k \in Keys : list[k] \in Seq(Stored)
          /\ count \in [Users -> Int]
          /\ followers \in [Users -> SUBSET Users]
          /\ \A u \in Users : u \notin followers[u]
          /\ wpc \in [Ids -> WorkerSteps]
          /\ wtodo \in [Ids -> SUBSET Users]
          /\ \A r \in Ids : wpc[r] # "none" => rec[r] # NoRecord
          /\ asked \in 0 .. MaxRequests
          /\ failed \in 0 .. MaxFail

HistoryT == /\ lost \in [Ids -> SUBSET Keys]
            /\ steady \in [Ids -> SUBSET Users]
            /\ cleaned \subseteq Keys \X Ids
            /\ drift \in [Users -> Int]
            /\ overlapped \subseteq Ids
            /\ intent \in [Ids -> Record \cup {NoRecord}]
            /\ \A r \in Ids : intent[r] = NoRecord <=> rec[r] = NoRecord

\* What a process knows at its command.
LocalOK(p) ==
  /\ Now(p) = "incr" => req[p].id = 0
  /\ Now(p) \in {"set", "send", "count"} =>
       req[p].id \in 1 .. seq /\ owner[req[p].id] = req[p].user
  /\ Now(p) = "set" => rec[req[p].id] = NoRecord
  /\ Now(p) \in {"send", "count"} => rec[req[p].id] # NoRecord
  /\ Now(p) = "send" => wpc[req[p].id] = "none"
  /\ Now(p) \in {"mark", "show"} => copy[p] \in Record /\ rec[req[p].id] # NoRecord
  /\ ids[p] # {} <=> Now(p) \in {"mget", "clean"}
  /\ ids[p] \subseteq Stored

\* A number that was drawn is one request's.
CreatorsDiffer ==
  \A p, q \in Procs : /\ Now(p) \in {"set", "send", "count"}
                      /\ Now(q) \in {"set", "send", "count"}
                      /\ req[p].id = req[q].id
                      => p = q

RoomOK == seq + Cardinality(Creating) <= MaxRecords

TInv == /\ RequestsT /\ StoreT /\ HistoryT
        /\ \A p \in Procs : LocalOK(p)
        /\ CreatorsDiffer /\ RoomOK
-----------------------------------------------------------------------------
(* No list gets a record twice.                                            *)

\* The lists the worker of r may push to yet.
Pending(r) == CASE wpc[r] \in {"none", "get", "home"} -> Keys
                [] wpc[r] = "followers" -> Actives(Users) \cup {Recent}
                [] wpc[r] = "active" -> Actives(wtodo[r]) \cup {Recent}
                [] wpc[r] = "recent" -> {Recent}
                [] wpc[r] = "done" -> {}

ReadIn(p, k, r) == r \in ids[p] /\ req[p].key = k

PInv == /\ \A k \in Keys : OneEach(list[k])
        /\ \A k \in Keys, r \in Ids :
             /\ In(list[k], r) => k \notin Pending(r)
             /\ <<k, r>> \in cleaned => k \notin Pending(r) /\ ~ In(list[k], r)
             /\ \A p \in Procs : ReadIn(p, k, r) => k \notin Pending(r)
-----------------------------------------------------------------------------
(* A record is as its author has asked.                                    *)

ChangesOnce ==
  \A p, q \in Procs, r \in Ids \ overlapped :
    Changes(req[p], r) /\ Changes(req[q], r) => p = q

CopyOK == \A p \in Procs : Now(p) \in {"mark", "show"} /\ req[p].id \notin overlapped
                             => copy[p] = rec[req[p].id]

AInv == ChangesOnce /\ CopyOK /\ RecordAsAsked
-----------------------------------------------------------------------------
(* A dispatched record is in the lists it is due in.                       *)

\* A record that is, or was seen to be, deleted was asked to be.
ReadDeleted(p) ==
  /\ Now(p) \in {"mark", "show"} /\ copy[p].del => intent[req[p].id].del
  /\ Now(p) = "clean" => \A r \in ids[p] : intent[r].del

DeletedAsAsked == /\ \A r \in Ids : rec[r] # NoRecord /\ rec[r].del => intent[r].del
                  /\ \A p \in Procs : ReadDeleted(p)

\* The worker has not asked for the followers.
Early == {"none", "get", "home", "followers"}

SteadyOK == \A r \in Ids : rec[r] # NoRecord /\ wpc[r] \in Early
                             => steady[r] \subseteq followers[owner[r]]

Delivered(r) == wpc[r] # "none" /\ ~ intent[r].del =>
                  \A k \in Due(r) : k \in lost[r] \cup Pending(r) \/ In(list[k], r)

FInv == DeletedAsAsked /\ SteadyOK /\ \A r \in Ids : Delivered(r)
-----------------------------------------------------------------------------
(* The count of a user's records.                                          *)

\* The requests that have stored a record and not counted it, and those that
\* have counted one off and not deleted it.
Adding(u) == {p \in Procs : Now(p) \in {"send", "count"} /\ req[p].user = u}
Taking(u) == {p \in Procs : req[p].op = "delete" /\ Now(p) \in {"get", "mark"} /\ req[p].user = u}

Balance(u) == count[u] - Cardinality(Live(u)) - drift[u]
                + Cardinality(Adding(u)) + Cardinality(Taking(u))

BInv == overlapped = {} => \A u \in Users : Balance(u) \in -failed .. failed
-----------------------------------------------------------------------------
(* The commands of a request, and what a step does to it.                  *)

LEMMA Tuples ==
  ASSUME NEW a, NEW b, NEW c, NEW d
  PROVE  /\ Len(<<a>>) = 1 /\ Head(<<a>>) = a
         /\ Len(<<a, b>>) = 2 /\ Head(<<a, b>>) = a /\ Tail(<<a, b>>) = <<b>>
         /\ Len(<<a, b, c>>) = 3 /\ Head(<<a, b, c>>) = a /\ Tail(<<a, b, c>>) = <<b, c>>
         /\ Len(<<a, b, c, d>>) = 4 /\ Head(<<a, b, c, d>>) = a
         /\ Tail(<<a, b, c, d>>) = <<b, c, d>>
OBVIOUS

LEMMA RestFacts ==
  ASSUME NEW o \in Ops, NEW t \in Rests[o]
  PROVE  /\ t # << >> /\ Len(t) \in 1 .. 4
         /\ Head(t) \in Steps[o]
         /\ Len(t) = 1 <=> After(o, Head(t)) = "none"
         /\ Len(t) # 1 => Tail(t) \in Rests[o] /\ Head(Tail(t)) = After(o, Head(t))
<1> DEFINE Right(s) == /\ s # << >> /\ Len(s) \in 1 .. 4
                       /\ Head(s) \in Steps[o]
                       /\ Len(s) = 1 <=> After(o, Head(s)) = "none"
                       /\ Len(s) # 1 => Tail(s) \in Rests[o] /\ Head(Tail(s)) = After(o, Head(s))
<1>1. CASE o = "create"
  <2>1. Right(<<"incr", "set", "send", "count">>) BY <1>1, Tuples DEF Rests, Steps, After
  <2>2. Right(<<"set", "send", "count">>) BY <1>1, Tuples DEF Rests, Steps, After
  <2>3. Right(<<"send", "count">>) BY <1>1, Tuples DEF Rests, Steps, After
  <2>4. Right(<<"count">>) BY <1>1, Tuples DEF Rests, Steps, After
  <2>5. t \in {<<"incr", "set", "send", "count">>, <<"set", "send", "count">>,
              <<"send", "count">>, <<"count">>}
    BY <1>1 DEF Rests
  <2> HIDE DEF Right
  <2>6. Right(t) BY <2>1, <2>2, <2>3, <2>4, <2>5
  <2> QED BY <2>6 DEF Right
<1>2. CASE o = "delete"
  <2>1. Right(<<"uncount", "get", "mark">>) BY <1>2, Tuples DEF Rests, Steps, After
  <2>2. Right(<<"get", "mark">>) BY <1>2, Tuples DEF Rests, Steps, After
  <2>3. Right(<<"mark">>) BY <1>2, Tuples DEF Rests, Steps, After
  <2>4. t \in {<<"uncount", "get", "mark">>, <<"get", "mark">>, <<"mark">>}
    BY <1>2 DEF Rests
  <2> HIDE DEF Right
  <2>5. Right(t) BY <2>1, <2>2, <2>3, <2>4
  <2> QED BY <2>5 DEF Right
<1>3. CASE o = "publish"
  <2>1. Right(<<"get", "show">>) BY <1>3, Tuples DEF Rests, Steps, After
  <2>2. Right(<<"show">>) BY <1>3, Tuples DEF Rests, Steps, After
  <2>3. t \in {<<"get", "show">>, <<"show">>}
    BY <1>3 DEF Rests
  <2> HIDE DEF Right
  <2>4. Right(t) BY <2>1, <2>2, <2>3
  <2> QED BY <2>4 DEF Right
<1>4. CASE o = "page"
  <2>1. Right(<<"range", "mget", "clean">>) BY <1>4, Tuples DEF Rests, Steps, After
  <2>2. Right(<<"mget", "clean">>) BY <1>4, Tuples DEF Rests, Steps, After
  <2>3. Right(<<"clean">>) BY <1>4, Tuples DEF Rests, Steps, After
  <2>4. t \in {<<"range", "mget", "clean">>, <<"mget", "clean">>, <<"clean">>}
    BY <1>4 DEF Rests
  <2> HIDE DEF Right
  <2>5. Right(t) BY <2>1, <2>2, <2>3, <2>4
  <2> QED BY <2>5 DEF Right
<1> QED BY <1>1, <1>2, <1>3, <1>4 DEF Ops

LEMMA StartFacts ==
  ASSUME NEW o \in Ops
  PROVE  /\ Commands[o] \in Rests[o]
         /\ Head(Commands[o]) = (CASE o = "create" -> "incr" [] o = "delete" -> "uncount"
                                   [] o = "publish" -> "get" [] o = "page" -> "range")
<1>1. CASE o = "create" BY <1>1 DEF Rests, Commands
<1>2. CASE o = "delete" BY <1>2 DEF Rests, Commands
<1>3. CASE o = "publish" BY <1>3 DEF Rests, Commands
<1>4. CASE o = "page" BY <1>4 DEF Rests, Commands
<1> QED BY <1>1, <1>2, <1>3, <1>4 DEF Ops

LEMMA RequestFacts ==
  ASSUME NEW q \in Requests
  PROVE  /\ q.op \in Ops /\ q # NoRequest
         /\ q.op = "create" =>
              q \in [op : {"create"}, user : Users, pub : BOOLEAN, id : {0} \cup Ids]
         /\ q.op = "delete" => q \in [op : {"delete"}, user : Users, id : Ids]
         /\ q.op = "publish" => q \in [op : {"publish"}, id : Ids, pub : BOOLEAN]
         /\ q.op = "page" => q \in [op : {"page"}, key : Keys, page : Pages]
BY DEF Requests, Ops, NoRequest

LEMMA NowFacts ==
  ASSUME RequestsT, NEW p \in Procs
  PROVE  /\ Now(p) = "none" <=> Idle(p)
         /\ ~ Idle(p) => /\ req[p] \in Requests /\ req[p].op \in Ops
                         /\ Now(p) \in Steps[req[p].op]
                         /\ todo[p] \in Rests[req[p].op]
                         /\ Now(p) = Head(todo[p])
         /\ \A c \in Names : Sends(p, c) <=> Now(p) = c
<1>1. CASE Idle(p) BY <1>1 DEF Now, Sends, Names
<1>2. CASE ~ Idle(p)
  <2>1. req[p] \in Requests BY <1>2 DEF RequestsT, Idle
  <2>2. req[p].op \in Ops BY <2>1, RequestFacts
  <2>3. todo[p] \in Rests[req[p].op] BY <1>2 DEF RequestsT
  <2>4. Now(p) = Head(todo[p]) BY <1>2 DEF Now
  <2>5. Now(p) \in Steps[req[p].op] BY <2>2, <2>3, <2>4, RestFacts
  <2>6. Now(p) # "none" BY <2>2, <2>5 DEF Steps, Ops
  <2> QED BY <1>2, <2>1, <2>2, <2>3, <2>4, <2>5, <2>6 DEF Sends
<1> QED BY <1>1, <1>2

\* Which operation a command is of.
LEMMA CommandFacts ==
  ASSUME RequestsT, NEW p \in Procs
  PROVE  /\ Now(p) \in {"incr", "set", "send", "count"} =>
              /\ req[p].op = "create"
              /\ req[p] \in [op : {"create"}, user : Users, pub : BOOLEAN, id : {0} \cup Ids]
         /\ Now(p) \in {"uncount", "mark"} =>
              /\ req[p].op = "delete"
              /\ req[p] \in [op : {"delete"}, user : Users, id : Ids]
         /\ Now(p) = "show" =>
              /\ req[p].op = "publish"
              /\ req[p] \in [op : {"publish"}, id : Ids, pub : BOOLEAN]
         /\ Now(p) = "get" =>
              /\ req[p].op \in {"delete", "publish"} /\ req[p].id \in Ids
              /\ req[p].op = "delete" => req[p].user \in Users
         /\ Now(p) \in {"range", "mget", "clean"} =>
              /\ req[p].op = "page"
              /\ req[p] \in [op : {"page"}, key : Keys, page : Pages]
<1>1. CASE Idle(p) BY <1>1, NowFacts
<1>2. CASE ~ Idle(p)
  <2>1. req[p] \in Requests /\ Now(p) \in Steps[req[p].op] /\ req[p].op \in Ops
    BY <1>2, NowFacts
  <2>2. CASE req[p].op = "create" BY <2>1, <2>2, RequestFacts DEF Steps
  <2>3. CASE req[p].op = "delete" BY <2>1, <2>3, RequestFacts DEF Steps
  <2>4. CASE req[p].op = "publish" BY <2>1, <2>4, RequestFacts DEF Steps
  <2>5. CASE req[p].op = "page" BY <2>1, <2>5, RequestFacts DEF Steps
  <2> QED BY <2>1, <2>2, <2>3, <2>4, <2>5 DEF Ops
<1> QED BY <1>1, <1>2

Same(q) == /\ req'[q] = req[q] /\ todo'[q] = todo[q]
           /\ copy'[q] = copy[q] /\ ids'[q] = ids[q]

Others(p) == \A q \in Procs \ {p} : Same(q)

Ended(p) == Idle(p)' /\ Now(p)' = "none" /\ copy'[p] = NoRecord /\ ids'[p] = {}

Went(p) == req'[p] = req[p] /\ Now(p)' = After(req[p].op, Now(p)) /\ ~ Idle(p)'

LEMMA SameNow ==
  ASSUME NEW q \in Procs, Same(q)
  PROVE  Now(q)' = Now(q) /\ Idle(q)' = Idle(q)
BY DEF Same, Now, Idle

LEMMA ClearFacts ==
  ASSUME RequestsT, NEW p \in Procs, Clear(p)
  PROVE  RequestsT' /\ Others(p) /\ Ended(p)
<1>1. Others(p) BY DEF Others, Same, Clear, RequestsT
<1>2. Ended(p) /\ todo'[p] = << >> BY DEF Ended, Now, Idle, Clear, RequestsT
<1>3. /\ req' \in [Procs -> Requests \cup {NoRequest}]
      /\ DOMAIN todo' = Procs
      /\ copy' \in [Procs -> Record \cup {NoRecord}]
      /\ ids' \in [Procs -> SUBSET Ids]
  BY DEF Clear, RequestsT
<1>4. ASSUME NEW q \in Procs
      PROVE  IF Idle(q)' THEN todo'[q] = << >> ELSE todo'[q] \in Rests[req'[q].op]
  BY <1>1, <1>2 DEF Others, Same, Ended, RequestsT, Idle
<1> QED BY <1>1, <1>2, <1>3, <1>4 DEF RequestsT

LEMMA GoFacts ==
  ASSUME RequestsT, NEW p \in Procs, ~ Idle(p), Len(todo[p]) # 1,
         todo' = [todo EXCEPT ![p] = Tail(@)], req' = req,
         copy' \in [Procs -> Record \cup {NoRecord}], ids' \in [Procs -> SUBSET Ids],
         \A q \in Procs \ {p} : copy'[q] = copy[q] /\ ids'[q] = ids[q]
  PROVE  RequestsT' /\ Others(p) /\ Went(p)
<1>1. Others(p) BY DEF Others, Same, RequestsT
<1>2. todo'[p] = Tail(todo[p]) BY DEF RequestsT
<1>3. req[p].op \in Ops /\ todo[p] \in Rests[req[p].op] /\ Now(p) = Head(todo[p])
  BY NowFacts
<1>4. /\ Tail(todo[p]) \in Rests[req[p].op]
      /\ Head(Tail(todo[p])) = After(req[p].op, Now(p))
  BY <1>3, RestFacts
<1>5. Went(p) BY <1>2, <1>4 DEF Went, Now, Idle
<1>6. ASSUME NEW q \in Procs
      PROVE  IF Idle(q)' THEN todo'[q] = << >> ELSE todo'[q] \in Rests[req'[q].op]
  BY <1>1, <1>2, <1>4 DEF Others, Same, RequestsT, Idle
<1>7. RequestsT' BY <1>6 DEF RequestsT
<1> QED BY <1>1, <1>5, <1>7

\* A command that has one after it is not the last.
LEMMA LastFacts ==
  ASSUME RequestsT, NEW p \in Procs, ~ Idle(p)
  PROVE  Len(todo[p]) = 1 <=> After(req[p].op, Now(p)) = "none"
<1>1. req[p].op \in Ops /\ todo[p] \in Rests[req[p].op] /\ Now(p) = Head(todo[p])
  BY NowFacts
<1> QED BY <1>1, RestFacts

LEMMA AdvanceFacts ==
  ASSUME RequestsT, NEW p \in Procs, ~ Idle(p), Advance(p)
  PROVE  /\ RequestsT' /\ Others(p)
         /\ \/ After(req[p].op, Now(p)) = "none" /\ Ended(p)
            \/ Went(p) /\ After(req[p].op, Now(p)) # "none" /\ copy' = copy /\ ids' = ids
<1>1. CASE Len(todo[p]) = 1
  <2>1. Clear(p) BY <1>1 DEF Advance
  <2> QED BY <1>1, <2>1, ClearFacts, LastFacts
<1>2. CASE Len(todo[p]) # 1
  <2>1. todo' = [todo EXCEPT ![p] = Tail(@)] /\ UNCHANGED <<req, copy, ids>>
    BY <1>2 DEF Advance
  <2> QED BY <1>2, <2>1, GoFacts, LastFacts DEF RequestsT
<1> QED BY <1>1, <1>2
-----------------------------------------------------------------------------
(* Types.                                                                  *)

Grows == /\ seq <= seq'
         /\ \A r \in 1 .. seq : owner'[r] = owner[r]
         /\ \A r \in Ids : rec[r] # NoRecord => rec'[r] # NoRecord

\* What a process counts on is not touched.
Spares(q) == /\ Now(q) = "set" => rec'[req[q].id] = rec[req[q].id]
             /\ Now(q) = "send" => wpc'[req[q].id] = wpc[req[q].id]

Mid == {"set", "send", "count"}

Moves(p) == \/ Ended(p)
            \/ /\ Now(p) # "incr" /\ req'[p] = req[p]
               /\ Now(p)' \in {Now(p), After(req[p].op, Now(p))}

LEMMA StoredFacts ==
  ASSUME StoreT, StoreT', Grows
  PROVE  Stored \subseteq Stored' /\ Seq(Stored) \subseteq Seq(Stored')
<1>1. Stored \subseteq Stored'
  <2> SUFFICES ASSUME NEW r \in Stored PROVE r \in Stored' OBVIOUS
  <2>1. seq \in Nat /\ seq' \in Nat /\ seq <= MaxRecords
    BY FeedBoundsAssumption DEF StoreT
  <2>2. r \in 1 .. seq /\ r \in Ids /\ rec[r] # NoRecord
    BY <2>1, FeedBoundsAssumption DEF Stored, Ids
  <2>3. r \in 1 .. seq' BY <2>1, <2>2 DEF Grows
  <2> QED BY <2>2, <2>3 DEF Grows, Stored
<1> QED BY <1>1

LEMMA SeqFacts ==
  ASSUME StoreT
  PROVE  /\ seq \in Nat /\ seq <= MaxRecords /\ MaxRecords \in Nat
         /\ \A r \in 1 .. seq : r \in Ids
         /\ \A r \in Ids : r \in Nat /\ r # 0
         /\ Stored = {r \in Ids : rec[r] # NoRecord}
<1>1. seq \in Nat /\ seq <= MaxRecords /\ MaxRecords \in Nat
  BY FeedBoundsAssumption DEF StoreT
<1>2. \A r \in 1 .. seq : r \in Ids BY <1>1 DEF Ids
<1>3. \A r \in Ids : r \in Nat /\ r # 0 BY <1>1 DEF Ids
<1>4. \A r \in Ids : rec[r] # NoRecord => r \in 1 .. seq BY <1>1, <1>3 DEF StoreT, Ids
<1> QED BY <1>1, <1>2, <1>3, <1>4 DEF Stored

LEMMA OtherLocal ==
  ASSUME RequestsT, StoreT, StoreT', Grows, NEW q \in Procs, LocalOK(q), Same(q), Spares(q)
  PROVE  LocalOK(q)'
<1>1. Now(q)' = Now(q) BY SameNow
<1>2. req'[q] = req[q] /\ copy'[q] = copy[q] /\ ids'[q] = ids[q] BY DEF Same
<1>3. Stored \subseteq Stored' BY StoredFacts
<1>4. seq \in Nat /\ seq' \in Nat /\ seq <= seq' BY SeqFacts, FeedBoundsAssumption DEF StoreT, Grows
<1>5. Now(q) \in {"set", "send", "count"} =>
        req[q].id \in 1 .. seq' /\ owner'[req[q].id] = req[q].user
  BY <1>4 DEF LocalOK, Grows
<1>6. Now(q) \in {"set", "send", "count"} => req[q].id \in Ids BY SeqFacts DEF LocalOK
<1>7. Now(q) \in {"mark", "show"} => req[q].id \in Ids BY CommandFacts
<1>8. Now(q) \in {"send", "count", "mark", "show"} => rec'[req[q].id] # NoRecord
  BY <1>6, <1>7 DEF LocalOK, Grows
<1>9. Now(q) = "set" => rec'[req[q].id] = NoRecord BY DEF LocalOK, Spares
<1>10. Now(q) = "send" => wpc'[req[q].id] = "none" BY DEF LocalOK, Spares
<1>11. (ids'[q] # {} <=> Now(q)' \in {"mget", "clean"}) /\ ids'[q] \subseteq Stored'
  BY <1>1, <1>2, <1>3 DEF LocalOK
<1> QED BY <1>1, <1>2, <1>5, <1>8, <1>9, <1>10, <1>11 DEF LocalOK

LEMMA AfterFacts ==
  ASSUME NEW o, NEW c, After(o, c) \in Mid
  PROVE  c \in Mid \cup {"incr"}
BY DEF After, Mid

LEMMA AfterNotFirst ==
  ASSUME NEW o, NEW c
  PROVE  After(o, c) # "incr"
BY DEF After

CreatingRight == /\ Creating = {q \in Procs : Now(q) = "incr"}
                 /\ IsFiniteSet(Creating) /\ Cardinality(Creating) \in Nat

LEMMA CreatingFacts == RequestsT => CreatingRight
<1> SUFFICES ASSUME RequestsT PROVE CreatingRight OBVIOUS
<1>1. Creating = {q \in Procs : Now(q) = "incr"} BY NowFacts DEF Creating, Names
<1>2. Creating \subseteq Procs BY <1>1
<1>3. IsFiniteSet(Creating) BY <1>2, FS_Subset, FeedUsersAssumption
<1> QED BY <1>1, <1>3, FS_CardinalityType DEF CreatingRight

\* A command of p that draws no number.
LEMMA StepT ==
  ASSUME TInv, NEW p \in Procs, RequestsT', StoreT', HistoryT', Others(p), Moves(p),
         seq' = seq, Grows, \A q \in Procs \ {p} : Spares(q), LocalOK(p)'
  PROVE  TInv'
<1>1. \A q \in Procs \ {p} : LocalOK(q)' BY OtherLocal DEF TInv, Others
<1>2. \A q \in Procs \ {p} : Now(q)' = Now(q) /\ req'[q] = req[q]
  BY SameNow DEF Others, Same
<1>3. Now(p)' \in Mid => Now(p) \in Mid /\ req'[p] = req[p]
  BY AfterFacts DEF Moves, Ended, Mid
<1>4. CreatorsDiffer'
  <2> SUFFICES ASSUME NEW a \in Procs, NEW b \in Procs, Now(a)' \in Mid, Now(b)' \in Mid,
                      req'[a].id = req'[b].id
               PROVE  a = b
    BY DEF CreatorsDiffer, Mid
  <2>1. Now(a) \in Mid /\ Now(b) \in Mid /\ req'[a] = req[a] /\ req'[b] = req[b]
    BY <1>2, <1>3
  <2> QED BY <2>1 DEF TInv, CreatorsDiffer, Mid
<1>5. RoomOK'
  <2>1. Now(p)' # "incr" BY AfterNotFirst DEF Moves, Ended
  <2>2. /\ Creating = {q \in Procs : Now(q) = "incr"}
        /\ IsFiniteSet(Creating) /\ Cardinality(Creating) \in Nat
    BY CreatingFacts DEF TInv, CreatingRight
  <2>3. /\ Creating' = {q \in Procs : Now(q)' = "incr"}
        /\ Cardinality(Creating)' \in Nat
    <3>1. (RequestsT => CreatingRight)' BY CreatingFacts, PTL
    <3> QED BY <3>1 DEF CreatingRight
  <2>4. Creating' \subseteq Creating BY <1>2, <2>1, <2>2, <2>3
  <2>5. Cardinality(Creating)' <= Cardinality(Creating) BY <2>2, <2>4, FS_Subset
  <2>6. seq + Cardinality(Creating) <= MaxRecords BY DEF TInv, RoomOK
  <2>7. seq \in Nat BY SeqFacts DEF TInv
  <2> QED BY <2>2, <2>3, <2>5, <2>6, <2>7, FeedBoundsAssumption DEF RoomOK
<1> QED BY <1>1, <1>4, <1>5 DEF TInv

\* A step that is no request's.
LEMMA QuietT ==
  ASSUME TInv, UNCHANGED local, StoreT', HistoryT', seq' = seq, Grows,
         \A q \in Procs : Spares(q)
  PROVE  TInv'
<1>1. \A q \in Procs : Same(q) /\ Now(q)' = Now(q) BY SameNow DEF local, Same
<1>2. \A q \in Procs : LocalOK(q)' BY <1>1, OtherLocal DEF TInv
<1>3. RequestsT' BY DEF TInv, RequestsT, local, Idle
<1>4. CreatorsDiffer' BY <1>1 DEF TInv, CreatorsDiffer, local
<1>5. RoomOK'
  <2>1. Creating' = Creating BY DEF Creating, Sends, Idle, local
  <2> QED BY <2>1 DEF TInv, RoomOK
<1> QED BY <1>2, <1>3, <1>4, <1>5 DEF TInv
-----------------------------------------------------------------------------
(* Types, step by step.                                                    *)

LEMMA SameStore ==
  ASSUME StoreT, UNCHANGED <<store, followers, worker>>,
         asked' \in 0 .. MaxRequests, failed' \in 0 .. MaxFail
  PROVE  StoreT' /\ Grows /\ \A q \in Procs : Spares(q)
<1>1. seq \in Nat BY SeqFacts
<1>2. Stored' = Stored BY DEF Stored, store
<1>3. StoreT' BY <1>2 DEF StoreT, store, worker
<1>4. Grows BY <1>1 DEF Grows, store
<1>5. \A q \in Procs : Spares(q) BY DEF Spares, store, worker
<1> QED BY <1>3, <1>4, <1>5

LEMMA FailsFacts == ASSUME StoreT, Fails PROVE failed' \in 0 .. MaxFail
BY FeedBoundsAssumption DEF StoreT, Fails

LEMMA AsksFacts ==
  ASSUME StoreT, asked < MaxRequests, asked' = asked + 1
  PROVE  asked' \in 0 .. MaxRequests
BY FeedBoundsAssumption DEF StoreT

LEMMA BeginT == ASSUME TInv, NEW p \in Procs, NEW q \in Requests, Begin(p, q) PROVE TInv'
<1>1. RequestsT /\ StoreT /\ HistoryT BY DEF TInv
<1>2. q.op \in Ops /\ q # NoRequest BY RequestFacts
<1>3. req'[p] = q /\ todo'[p] = Commands[q.op] /\ copy' = copy /\ ids' = ids
  BY <1>1 DEF Begin, RequestsT
<1>4. Others(p) BY <1>1 DEF Begin, RequestsT, Others, Same
<1>5. ~ Idle(p)' /\ Now(p)' = Head(Commands[q.op]) BY <1>2, <1>3 DEF Idle, Now
<1>6. RequestsT'
  <2>1. \A x \in Procs : IF Idle(x)' THEN todo'[x] = << >> ELSE todo'[x] \in Rests[req'[x].op]
    <3> SUFFICES ASSUME NEW x \in Procs
                 PROVE  IF Idle(x)' THEN todo'[x] = << >> ELSE todo'[x] \in Rests[req'[x].op]
      OBVIOUS
    <3>1. CASE x = p BY <3>1, <1>2, <1>3, <1>5, StartFacts
    <3>2. CASE x # p BY <3>2, <1>1, <1>4 DEF Others, Same, RequestsT, Idle
    <3> QED BY <3>1, <3>2
  <2> QED BY <1>1, <2>1 DEF RequestsT, Begin
<1>7. asked' \in 0 .. MaxRequests BY <1>1, AsksFacts DEF Begin
<1>8. UNCHANGED <<store, followers, worker>> /\ failed' = failed BY DEF Begin, worker
<1>9. failed' \in 0 .. MaxFail BY <1>1, <1>8 DEF StoreT
<1>10. StoreT' /\ Grows /\ \A x \in Procs : Spares(x) BY <1>1, <1>7, <1>8, <1>9, SameStore
<1>11. HistoryT'
  <2>1. overlapped' \subseteq Ids BY <1>1 DEF Begin, HistoryT
  <2> QED BY <1>1, <2>1 DEF Begin, HistoryT, store
<1>12. seq' = seq /\ seq \in Nat BY <1>1, <1>8, SeqFacts DEF store
<1>13. Now(p) = "none" BY <1>1, NowFacts DEF Begin
<1>14. Now(p)' \in {"incr", "uncount", "get", "range"} BY <1>2, <1>5, StartFacts DEF Ops
<1>15. Now(p)' = "incr" => q.op = "create" BY <1>2, <1>5, StartFacts DEF Ops
<1>16. LocalOK(p)'
  <2>1. Now(p)' = "incr" => req'[p].id = 0 BY <1>3, <1>15 DEF Begin, MayAsk
  <2>2. ids[p] = {} BY <1>13 DEF TInv, LocalOK
  <2> QED BY <1>3, <1>14, <2>1, <2>2 DEF LocalOK
<1>17. \A x \in Procs \ {p} : LocalOK(x)' BY <1>1, <1>4, <1>10, OtherLocal DEF TInv, Others
<1>18. \A x \in Procs \ {p} : Now(x)' = Now(x) /\ req'[x] = req[x]
  BY <1>4, SameNow DEF Others, Same
<1>19. CreatorsDiffer' BY <1>14, <1>18 DEF TInv, CreatorsDiffer
<1>20. RoomOK'
  <2>1. CreatingRight /\ CreatingRight'
    <3>1. (RequestsT => CreatingRight)' BY CreatingFacts, PTL
    <3> QED BY <1>1, <1>6, <3>1, CreatingFacts
  <2>2. CASE q.op = "create"
    <3>1. Creating' \subseteq Creating \cup {p} BY <1>18, <2>1 DEF CreatingRight
    <3>2. p \notin Creating BY <1>13, <2>1 DEF CreatingRight
    <3>3. /\ IsFiniteSet(Creating \cup {p})
          /\ Cardinality(Creating \cup {p}) = Cardinality(Creating) + 1
      BY <2>1, <3>2, FS_AddElement DEF CreatingRight
    <3>4. Cardinality(Creating)' <= Cardinality(Creating) + 1 BY <3>1, <3>3, FS_Subset
    <3>5. seq + Cardinality(Creating) < MaxRecords BY <2>2 DEF Begin, MayAsk
    <3> QED BY <1>12, <2>1, <3>4, <3>5, FeedBoundsAssumption DEF RoomOK, CreatingRight
  <2>3. CASE q.op # "create"
    <3>1. Now(p)' # "incr" BY <1>15, <2>3
    <3>2. Creating' \subseteq Creating BY <1>18, <2>1, <3>1 DEF CreatingRight
    <3>3. Cardinality(Creating)' <= Cardinality(Creating)
      BY <2>1, <3>2, FS_Subset DEF CreatingRight
    <3> QED BY <1>12, <2>1, <3>3, FeedBoundsAssumption DEF RoomOK, CreatingRight, TInv
  <2> QED BY <2>2, <2>3
<1> QED BY <1>6, <1>10, <1>11, <1>16, <1>17, <1>19, <1>20 DEF TInv

\* A process that draws a number has room for it.
LEMMA IncrFacts ==
  ASSUME TInv, NEW p \in Procs, Incr(p)
  PROVE  /\ seq' = seq + 1 /\ seq + 1 \in Ids /\ seq \in Nat
         /\ Now(p) = "incr" /\ Others(p)
         /\ req'[p] = [req[p] EXCEPT !.id = seq + 1] /\ req[p].user \in Users
         /\ Now(p)' = "set" /\ ~ Idle(p)' /\ RequestsT'
         /\ copy' = copy /\ ids' = ids
         /\ rec[seq + 1] = NoRecord
<1>1. RequestsT /\ StoreT BY DEF TInv
<1>2. Now(p) = "incr" BY <1>1, NowFacts DEF Incr, Names
<1>3. req[p] \in [op : {"create"}, user : Users, pub : BOOLEAN, id : {0} \cup Ids]
  BY <1>1, <1>2, CommandFacts
<1>4. seq \in Nat /\ seq' = seq + 1 BY <1>1, SeqFacts DEF Incr
<1>5. seq + 1 \in Ids
  <2>1. CreatingRight BY <1>1, CreatingFacts
  <2>2. p \in Creating BY <1>2, <2>1 DEF CreatingRight
  <2>3. Cardinality(Creating) # 0 BY <2>1, <2>2, FS_EmptySet DEF CreatingRight
  <2>4. seq + 1 <= MaxRecords
    BY <1>4, <2>1, <2>3, FeedBoundsAssumption DEF TInv, RoomOK, CreatingRight
  <2> QED BY <1>4, <2>4, FeedBoundsAssumption DEF Ids
<1>6. PICK new : new = [req[p] EXCEPT !.id = seq + 1] OBVIOUS
<1>7. new \in [op : {"create"}, user : Users, pub : BOOLEAN, id : {0} \cup Ids]
  BY <1>3, <1>5, <1>6
<1>8. req' = [req EXCEPT ![p] = new] /\ todo' = [todo EXCEPT ![p] = Tail(todo[p])]
      /\ copy' = copy /\ ids' = ids
  BY <1>6 DEF Incr
<1>9. Others(p) BY <1>1, <1>8 DEF Others, Same, RequestsT
<1>10. req'[p] = new /\ todo'[p] = Tail(todo[p]) BY <1>1, <1>8 DEF RequestsT
<1>11. /\ todo[p] \in Rests["create"] /\ Head(todo[p]) = "incr"
  BY <1>1, <1>2, <1>3, NowFacts
<1>12. "create" \in Ops /\ After("create", "incr") = "set" BY DEF Ops, After
<1>13. Tail(todo[p]) \in Rests["create"] /\ Head(Tail(todo[p])) = "set"
  BY <1>11, <1>12, RestFacts
<1>14. new \in Requests BY <1>7 DEF Requests
<1>15. ~ Idle(p)' /\ Now(p)' = "set" BY <1>10, <1>13, <1>14, RequestFacts DEF Idle, Now
<1>16. RequestsT'
  <2>1. \A x \in Procs : IF Idle(x)' THEN todo'[x] = << >> ELSE todo'[x] \in Rests[req'[x].op]
    <3> SUFFICES ASSUME NEW x \in Procs
                 PROVE  IF Idle(x)' THEN todo'[x] = << >> ELSE todo'[x] \in Rests[req'[x].op]
      OBVIOUS
    <3>1. CASE x = p BY <3>1, <1>7, <1>10, <1>13, <1>15
    <3>2. CASE x # p BY <3>2, <1>1, <1>9 DEF Others, Same, RequestsT, Idle
    <3> QED BY <3>1, <3>2
  <2>2. req' \in [Procs -> Requests \cup {NoRequest}] BY <1>1, <1>8, <1>14 DEF RequestsT
  <2> QED BY <1>1, <1>8, <2>1, <2>2 DEF RequestsT
<1>17. rec[seq + 1] = NoRecord BY <1>1, <1>4, <1>5 DEF StoreT
<1> QED BY <1>2, <1>3, <1>4, <1>5, <1>6, <1>8, <1>9, <1>10, <1>15, <1>16, <1>17

LEMMA IncrT == ASSUME TInv, NEW p \in Procs, Incr(p) PROVE TInv'
<1>0. RequestsT /\ StoreT /\ HistoryT BY DEF TInv
<1>1. /\ seq' = seq + 1 /\ seq + 1 \in Ids /\ seq \in Nat /\ seq' \in Nat
      /\ Now(p) = "incr" /\ Others(p)
      /\ req'[p] = [req[p] EXCEPT !.id = seq + 1] /\ req[p].user \in Users
      /\ Now(p)' = "set" /\ RequestsT' /\ copy' = copy /\ ids' = ids
      /\ rec[seq + 1] = NoRecord
  BY IncrFacts
<1>2. /\ owner' = [owner EXCEPT ![seq + 1] = req[p].user]
      /\ UNCHANGED <<rec, list, count, followers, wpc, wtodo, asked, failed, history>>
  BY DEF Incr, worker
<1>3. Grows BY <1>0, <1>1, <1>2, SeqFacts DEF Grows, StoreT
<1>4. StoreT'
  <2>1. Stored \subseteq Stored'
    <3>1. \A r \in 1 .. seq : r \in 1 .. seq' BY <1>1
    <3> QED BY <1>2, <3>1 DEF Stored
  <2>2. \A k \in Keys : list'[k] \in Seq(Stored') BY <1>0, <1>2, <2>1 DEF StoreT
  <2>3. seq' \in 0 .. MaxRecords BY <1>1, FeedBoundsAssumption DEF Ids
  <2>4. \A r \in Ids : r <= seq' => owner'[r] \in Users
    <3>1. \A r \in Ids : r <= seq' => r <= seq \/ r = seq + 1 BY <1>0, <1>1, SeqFacts
    <3> QED BY <1>0, <1>1, <1>2, <3>1 DEF StoreT
  <2>5. \A r \in Ids : rec'[r] # NoRecord => r <= seq'
    BY <1>0, <1>1, <1>2, SeqFacts DEF StoreT
  <2>6. owner' \in [Ids -> Users \cup {NoOne}] BY <1>0, <1>1, <1>2 DEF StoreT
  <2>7. /\ rec' \in [Ids -> Record \cup {NoRecord}] /\ DOMAIN list' = Keys
        /\ count' \in [Users -> Int] /\ followers' \in [Users -> SUBSET Users]
        /\ \A u \in Users : u \notin followers'[u]
        /\ wpc' \in [Ids -> WorkerSteps] /\ wtodo' \in [Ids -> SUBSET Users]
        /\ \A r \in Ids : wpc'[r] # "none" => rec'[r] # NoRecord
        /\ asked' \in 0 .. MaxRequests /\ failed' \in 0 .. MaxFail
    BY <1>0, <1>2 DEF StoreT
  <2> QED BY <2>2, <2>3, <2>4, <2>5, <2>6, <2>7 DEF StoreT
<1>5. HistoryT' BY <1>0, <1>2 DEF HistoryT, history
<1>6. \A x \in Procs \ {p} : LocalOK(x)'
  BY <1>0, <1>1, <1>2, <1>3, <1>4, OtherLocal DEF TInv, Others, Spares
<1>7. req'[p].id = seq + 1 /\ req'[p].user = req[p].user
  BY <1>0, <1>1, CommandFacts
<1>8. LocalOK(p)'
  <2>1. ids[p] = {} BY <1>1 DEF TInv, LocalOK
  <2>2. owner'[seq + 1] = req[p].user BY <1>0, <1>1, <1>2 DEF StoreT
  <2>3. seq + 1 \in 1 .. seq' BY <1>1
  <2> QED BY <1>1, <1>2, <1>7, <2>1, <2>2, <2>3 DEF LocalOK
<1>9. \A x \in Procs \ {p} : Now(x)' = Now(x) /\ req'[x] = req[x]
  BY <1>1, SameNow DEF Others, Same
<1>10. CreatorsDiffer'
  <2>1. \A x \in Procs \ {p} : Now(x) \in Mid => req[x].id # seq + 1
    BY <1>1 DEF TInv, LocalOK, Mid
  <2> SUFFICES ASSUME NEW a \in Procs, NEW b \in Procs, Now(a)' \in Mid, Now(b)' \in Mid,
                      req'[a].id = req'[b].id
               PROVE  a = b
    BY DEF CreatorsDiffer, Mid
  <2>2. CASE a # p /\ b # p BY <2>2, <1>9 DEF TInv, CreatorsDiffer, Mid
  <2>3. CASE a = p /\ b # p BY <2>3, <2>1, <1>7, <1>9
  <2>4. CASE a # p /\ b = p BY <2>4, <2>1, <1>7, <1>9
  <2> QED BY <2>2, <2>3, <2>4
<1>11. RoomOK'
  <2>1. CreatingRight /\ CreatingRight'
    <3>1. (RequestsT => CreatingRight)' BY CreatingFacts, PTL
    <3> QED BY <1>0, <1>1, <3>1, CreatingFacts
  <2>2. p \in Creating /\ Creating' \subseteq Creating \ {p}
    BY <1>1, <1>9, <2>1 DEF CreatingRight
  <2>3. /\ IsFiniteSet(Creating \ {p})
        /\ Cardinality(Creating \ {p}) = Cardinality(Creating) - 1
    BY <2>1, <2>2, FS_RemoveElement DEF CreatingRight
  <2>4. Cardinality(Creating)' <= Cardinality(Creating) - 1 BY <2>2, <2>3, FS_Subset
  <2> QED BY <1>1, <2>1, <2>4, FeedBoundsAssumption DEF RoomOK, CreatingRight, TInv
<1> QED BY <1>1, <1>4, <1>5, <1>6, <1>8, <1>10, <1>11 DEF TInv
LEMMA NotARecord == NoRecord \notin Record
<1>1. DOMAIN NoRecord = {"pub"} BY DEF NoRecord
<1>2. \A c \in Record : "del" \in DOMAIN c BY DEF Record
<1>3. "del" \notin {"pub"} OBVIOUS
<1> QED BY <1>1, <1>2, <1>3

LEMMA RecordFacts ==
  ASSUME NEW c \in Record, NEW b \in BOOLEAN
  PROVE  /\ [c EXCEPT !.del = TRUE] \in Record /\ [c EXCEPT !.pub = b] \in Record
         /\ [c EXCEPT !.del = TRUE].del = TRUE /\ [c EXCEPT !.del = TRUE].pub = c.pub
         /\ [c EXCEPT !.pub = b].del = c.del /\ [c EXCEPT !.pub = b].pub = b
         /\ c # NoRecord
<1>1. c # NoRecord BY NotARecord
<1>2. [c EXCEPT !.del = TRUE] \in Record /\ [c EXCEPT !.pub = b] \in Record BY DEF Record
<1>3. DOMAIN c = {"pub", "del"} BY DEF Record
<1>4. [c EXCEPT !.del = TRUE].del = TRUE /\ [c EXCEPT !.del = TRUE].pub = c.pub BY <1>3
<1>5. [c EXCEPT !.pub = b].del = c.del /\ [c EXCEPT !.pub = b].pub = b BY <1>3
<1> QED BY <1>1, <1>2, <1>4, <1>5

LEMMA SendsFacts ==
  ASSUME RequestsT, NEW p \in Procs, NEW c \in Names, Sends(p, c)
  PROVE  Now(p) = c /\ ~ Idle(p) /\ req[p].op \in Ops /\ Now(p) # "none"
BY NowFacts DEF Sends

LEMMA EndedLocal == ASSUME NEW p \in Procs, Ended(p) PROVE LocalOK(p)'
<1>1. Now(p)' = "none" /\ ids'[p] = {} BY DEF Ended
<1> QED BY <1>1 DEF LocalOK

\* A request that writes its record: a new one, or one that was read.
LEMMA SetRecT ==
  ASSUME TInv, NEW p \in Procs, NEW new \in Record, ~ Idle(p), SetRec(p, req[p].id, new),
         Now(p) \in {"set", "mark", "show"},
         steady' \in [Ids -> SUBSET Users], drift' \in [Users -> Int],
         intent' \in [Ids -> Record \cup {NoRecord}],
         \A r \in Ids : intent'[r] = NoRecord <=> intent[r] = NoRecord /\ r # req[p].id
  PROVE  TInv'
<1>1. RequestsT /\ StoreT /\ HistoryT /\ LocalOK(p) BY DEF TInv
<1>2. PICK r : r = req[p].id OBVIOUS
<1>3. r \in Ids /\ r <= seq
  <2>1. Now(p) = "set" => r \in 1 .. seq BY <1>1, <1>2 DEF LocalOK
  <2>2. Now(p) \in {"mark", "show"} => r \in Ids /\ rec[r] # NoRecord
    BY <1>1, <1>2, CommandFacts DEF LocalOK
  <2> QED BY <1>1, <2>1, <2>2, SeqFacts DEF StoreT
<1>4. /\ rec' = [rec EXCEPT ![r] = new] /\ Advance(p)
      /\ UNCHANGED <<seq, owner, list, count, followers, wpc, wtodo, asked, failed, lost,
                     cleaned, overlapped>>
  BY <1>2 DEF SetRec, worker
<1>5. /\ RequestsT' /\ Others(p)
      /\ \/ After(req[p].op, Now(p)) = "none" /\ Ended(p)
         \/ /\ Went(p) /\ After(req[p].op, Now(p)) # "none"
            /\ copy' = copy /\ ids' = ids
  BY <1>1, <1>4, AdvanceFacts
<1>6. NoRecord \notin Record /\ new # NoRecord BY NotARecord
<1>7. /\ rec' \in [Ids -> Record \cup {NoRecord}]
      /\ rec'[r] = new /\ \A x \in Ids \ {r} : rec'[x] = rec[x]
  BY <1>1, <1>3, <1>4 DEF StoreT
<1>8. Grows BY <1>1, <1>4, <1>6, <1>7, SeqFacts DEF Grows
<1>9. StoreT'
  <2>1. Stored \subseteq Stored' BY <1>1, <1>4, <1>6, <1>7, SeqFacts DEF Stored
  <2>2. \A k \in Keys : list'[k] \in Seq(Stored') BY <1>1, <1>4, <2>1 DEF StoreT
  <2>3. \A x \in Ids : rec'[x] # NoRecord => x <= seq BY <1>1, <1>3, <1>7 DEF StoreT
  <2>4. \A x \in Ids : wpc'[x] # "none" => rec'[x] # NoRecord
    BY <1>1, <1>4, <1>6, <1>7 DEF StoreT
  <2> QED BY <1>1, <1>4, <1>7, <2>2, <2>3, <2>4 DEF StoreT
<1>10. HistoryT'
  <2>1. \A x \in Ids : intent'[x] = NoRecord <=> rec'[x] = NoRecord
    BY <1>1, <1>2, <1>6, <1>7 DEF HistoryT
  <2> QED BY <1>1, <1>4, <2>1 DEF HistoryT
<1>11. \A q \in Procs \ {p} : Spares(q)
  <2> SUFFICES ASSUME NEW q \in Procs \ {p} PROVE Spares(q) OBVIOUS
  <2>1. Now(q) = "set" => req[q].id \in Ids /\ rec[req[q].id] = NoRecord
    BY <1>1, SeqFacts DEF TInv, LocalOK
  <2>2. Now(q) = "set" => req[q].id # r
    <3>1. CASE Now(p) = "set" BY <1>2, <3>1 DEF TInv, CreatorsDiffer
    <3>2. CASE Now(p) \in {"mark", "show"} BY <1>1, <1>2, <2>1, <3>2 DEF LocalOK
    <3> QED BY <3>1, <3>2
  <2> QED BY <1>4, <1>7, <2>1, <2>2 DEF Spares
<1>12. Moves(p) BY <1>5 DEF Moves, Went
<1>13. LocalOK(p)'
  <2>1. CASE Ended(p) BY <2>1, EndedLocal
  <2>2. CASE Went(p) /\ After(req[p].op, Now(p)) # "none" /\ ids' = ids
    <3>1. Now(p) = "set" /\ Now(p)' = "send" BY <2>2 DEF Went, After
    <3>2. wpc[r] = "none" BY <1>1, <1>2, <1>3, <3>1 DEF LocalOK, StoreT
    <3>3. ids'[p] = {} BY <1>1, <2>2, <3>1 DEF LocalOK
    <3>4. req'[p] = req[p] BY <2>2 DEF Went
    <3>5. /\ req[p].id \in 1 .. seq /\ owner[req[p].id] = req[p].user
      BY <1>1, <3>1 DEF LocalOK
    <3> QED BY <1>2, <1>4, <1>6, <1>7, <1>3, <3>1, <3>2, <3>3, <3>4, <3>5 DEF LocalOK
  <2> QED BY <1>5, <2>1, <2>2
<1> QED BY <1>4, <1>5, <1>8, <1>9, <1>10, <1>11, <1>12, <1>13, StepT

LEMMA SetT == ASSUME TInv, NEW p \in Procs, Set(p) PROVE TInv'
<1>1. RequestsT /\ StoreT /\ HistoryT /\ LocalOK(p) BY DEF TInv
<1>2. Now(p) = "set" /\ ~ Idle(p) BY <1>1, SendsFacts DEF Set, Names
<1>3. req[p] \in [op : {"create"}, user : Users, pub : BOOLEAN, id : {0} \cup Ids]
  BY <1>1, <1>2, CommandFacts
<1>4. PICK new : new = [pub |-> req[p].pub, del |-> FALSE] OBVIOUS
<1>5. new \in Record /\ new # NoRecord
  <2>1. PICK b \in BOOLEAN : b = req[p].pub BY <1>3
  <2>2. new = [pub |-> b, del |-> FALSE] BY <1>4, <2>1
  <2>3. new \in Record BY <2>2 DEF Record
  <2> QED BY <2>3, NotARecord
<1>6. req[p].id \in Ids BY <1>1, <1>2, SeqFacts DEF LocalOK
<1>7. /\ SetRec(p, req[p].id, new) /\ drift' = drift
      /\ intent' = [intent EXCEPT ![req[p].id] = new]
      /\ steady' = [steady EXCEPT ![req[p].id] = followers[owner[req[p].id]]]
  BY <1>4 DEF Set
<1>8. followers[owner[req[p].id]] \in SUBSET Users
  <2>1. owner[req[p].id] \in Users BY <1>2, <1>3, <1>1 DEF LocalOK
  <2> QED BY <1>1, <2>1 DEF StoreT
<1>9. /\ steady' \in [Ids -> SUBSET Users] /\ drift' \in [Users -> Int]
      /\ intent' \in [Ids -> Record \cup {NoRecord}]
  BY <1>1, <1>5, <1>6, <1>7, <1>8 DEF HistoryT
<1>10. \A r \in Ids : intent'[r] = NoRecord <=> intent[r] = NoRecord /\ r # req[p].id
  BY <1>1, <1>5, <1>6, <1>7 DEF HistoryT
<1> QED BY <1>2, <1>5, <1>7, <1>9, <1>10, SetRecT

LEMMA MarkT == ASSUME TInv, NEW p \in Procs, Mark(p) PROVE TInv'
<1>1. RequestsT /\ StoreT /\ HistoryT /\ LocalOK(p) BY DEF TInv
<1>2. Now(p) = "mark" /\ ~ Idle(p) BY <1>1, SendsFacts DEF Mark, Names
<1>3. req[p].id \in Ids /\ copy[p] \in Record /\ rec[req[p].id] # NoRecord
  BY <1>1, <1>2, CommandFacts DEF LocalOK
<1>4. intent[req[p].id] \in Record BY <1>1, <1>3 DEF HistoryT
<1>5. PICK new, int : new = [copy[p] EXCEPT !.del = TRUE]
                      /\ int = [intent[req[p].id] EXCEPT !.del = TRUE]
  OBVIOUS
<1>6. new \in Record /\ int \in Record /\ int # NoRecord
  BY <1>3, <1>4, <1>5, RecordFacts
<1>7. /\ SetRec(p, req[p].id, new) /\ steady' = steady
      /\ intent' = [intent EXCEPT ![req[p].id] = int]
  BY <1>5 DEF Mark
<1>8. drift' \in [Users -> Int]
  <2> DEFINE takes == [u \in Users |->
                        IF u = owner[req[p].id] /\ ~ rec[req[p].id].del THEN 1 ELSE 0]
             own(u) == IF u = req[p].user THEN 1 ELSE 0
  <2>1. drift' = [u \in Users |-> drift[u] + takes[u] - own(u)] BY DEF Mark
  <2>2. \A u \in Users : takes[u] \in Int /\ own(u) \in Int /\ drift[u] \in Int
    BY <1>1 DEF HistoryT
  <2> HIDE DEF takes, own
  <2> QED BY <2>1, <2>2
<1>9. /\ steady' \in [Ids -> SUBSET Users]
      /\ intent' \in [Ids -> Record \cup {NoRecord}]
  BY <1>1, <1>3, <1>6, <1>7 DEF HistoryT
<1>10. \A r \in Ids : intent'[r] = NoRecord <=> intent[r] = NoRecord /\ r # req[p].id
  BY <1>1, <1>3, <1>4, <1>6, <1>7, RecordFacts DEF HistoryT
<1> QED BY <1>2, <1>6, <1>7, <1>8, <1>9, <1>10, SetRecT

LEMMA ShowT == ASSUME TInv, NEW p \in Procs, Show(p) PROVE TInv'
<1>1. RequestsT /\ StoreT /\ HistoryT /\ LocalOK(p) BY DEF TInv
<1>2. Now(p) = "show" /\ ~ Idle(p) BY <1>1, SendsFacts DEF Show, Names
<1>3. /\ req[p].id \in Ids /\ copy[p] \in Record /\ rec[req[p].id] # NoRecord
      /\ req[p].pub \in BOOLEAN
  BY <1>1, <1>2, CommandFacts DEF LocalOK
<1>4. intent[req[p].id] \in Record BY <1>1, <1>3 DEF HistoryT
<1>5. PICK new, int : new = [copy[p] EXCEPT !.pub = req[p].pub]
                      /\ int = [intent[req[p].id] EXCEPT !.pub = req[p].pub]
  OBVIOUS
<1>6. new \in Record /\ int \in Record /\ int # NoRecord
  BY <1>3, <1>4, <1>5, RecordFacts
<1>7. /\ SetRec(p, req[p].id, new) /\ steady' = steady /\ drift' = drift
      /\ intent' = [intent EXCEPT ![req[p].id] = int]
  BY <1>5 DEF Show
<1>8. /\ steady' \in [Ids -> SUBSET Users] /\ drift' \in [Users -> Int]
      /\ intent' \in [Ids -> Record \cup {NoRecord}]
  BY <1>1, <1>3, <1>6, <1>7 DEF HistoryT
<1>9. \A r \in Ids : intent'[r] = NoRecord <=> intent[r] = NoRecord /\ r # req[p].id
  BY <1>1, <1>3, <1>4, <1>6, <1>7, RecordFacts DEF HistoryT
<1> QED BY <1>2, <1>6, <1>7, <1>8, <1>9, SetRecT

\* Steps that leave the store as it is, but what a command counts.
LEMMA ReadT ==
  ASSUME TInv, NEW p \in Procs, RequestsT', Others(p), Moves(p), LocalOK(p)',
         UNCHANGED <<seq, rec, owner, list, followers, worker>>,
         count' \in [Users -> Int], drift' \in [Users -> Int],
         UNCHANGED <<lost, steady, overlapped, cleaned, intent>>,
         asked' \in 0 .. MaxRequests, failed' \in 0 .. MaxFail
  PROVE  TInv'
<1>1. StoreT /\ HistoryT BY DEF TInv
<1>2. Stored' = Stored /\ seq \in Nat BY <1>1, SeqFacts DEF Stored
<1>3. StoreT' BY <1>1, <1>2 DEF StoreT, worker
<1>4. Grows BY <1>2 DEF Grows
<1>5. \A q \in Procs : Spares(q) BY DEF Spares, worker
<1>6. HistoryT' BY <1>1 DEF HistoryT
<1> QED BY <1>3, <1>4, <1>5, <1>6, StepT

LEMMA SendT == ASSUME TInv, NEW p \in Procs, Send(p) PROVE TInv'
<1>1. RequestsT /\ StoreT /\ HistoryT /\ LocalOK(p) BY DEF TInv
<1>2. Now(p) = "send" /\ ~ Idle(p) BY <1>1, SendsFacts DEF Send, Names
<1>3. /\ req[p].id \in Ids /\ rec[req[p].id] # NoRecord
      /\ req[p].id \in 1 .. seq /\ owner[req[p].id] = req[p].user
  BY <1>1, <1>2, SeqFacts DEF LocalOK
<1>4. /\ RequestsT' /\ Others(p) /\ Went(p) /\ ids' = ids
  <2>1. After(req[p].op, Now(p)) # "none" BY <1>2 DEF After
  <2> QED BY <1>1, <1>2, <2>1, AdvanceFacts DEF Send
<1>5. Now(p)' = "count" /\ req'[p] = req[p] BY <1>2, <1>4 DEF Went, After
<1>6. /\ wpc' = [wpc EXCEPT ![req[p].id] = "get"]
      /\ UNCHANGED <<store, followers, wtodo, asked, failed, history>>
  BY DEF Send
<1>7. Stored' = Stored /\ seq \in Nat BY <1>1, <1>6, SeqFacts DEF Stored, store
<1>8. wpc' \in [Ids -> WorkerSteps] /\ \A r \in Ids : wpc'[r] # "none" => rec'[r] # NoRecord
  BY <1>1, <1>3, <1>6 DEF StoreT, WorkerSteps, store
<1>9. StoreT' BY <1>1, <1>6, <1>7, <1>8 DEF StoreT, store
<1>10. HistoryT' BY <1>1, <1>6 DEF HistoryT, history, store
<1>11. Grows BY <1>6, <1>7 DEF Grows, store
<1>12. \A q \in Procs \ {p} : Spares(q)
  <2> SUFFICES ASSUME NEW q \in Procs \ {p} PROVE Spares(q) OBVIOUS
  <2>1. Now(q) = "send" => req[q].id # req[p].id
    BY <1>2 DEF TInv, CreatorsDiffer
  <2> QED BY <1>1, <1>6, <2>1 DEF Spares, store, StoreT
<1>13. Moves(p) BY <1>2, <1>4 DEF Moves, Went
<1>14. LocalOK(p)'
  <2>1. ids'[p] = {} BY <1>1, <1>2, <1>4 DEF LocalOK
  <2> QED BY <1>3, <1>5, <1>6, <2>1 DEF LocalOK, store
<1>15. seq' = seq BY <1>6 DEF store
<1> QED BY <1>4, <1>9, <1>10, <1>11, <1>12, <1>13, <1>14, <1>15, StepT

LEMMA CountT == ASSUME TInv, NEW p \in Procs, Count(p) PROVE TInv'
<1>1. RequestsT /\ StoreT /\ HistoryT /\ LocalOK(p) BY DEF TInv
<1>2. Now(p) \in {"count", "uncount"} /\ ~ Idle(p) BY <1>1, SendsFacts DEF Count, Names
<1>3. req[p].user \in Users BY <1>1, <1>2, CommandFacts
<1>4. /\ RequestsT' /\ Others(p)
      /\ \/ After(req[p].op, Now(p)) = "none" /\ Ended(p)
         \/ Went(p) /\ After(req[p].op, Now(p)) # "none" /\ copy' = copy /\ ids' = ids
  BY <1>1, <1>2, AdvanceFacts DEF Count
<1>5. Moves(p) BY <1>2, <1>4 DEF Moves, Went
<1>6. LocalOK(p)'
  <2>1. CASE Ended(p) BY <2>1, EndedLocal
  <2>2. CASE Went(p) /\ After(req[p].op, Now(p)) # "none" /\ ids' = ids
    <3>1. Now(p) = "uncount" /\ Now(p)' = "get" BY <1>2, <2>2 DEF Went, After
    <3>2. ids'[p] = {} BY <1>1, <2>2, <3>1 DEF LocalOK
    <3> QED BY <3>1, <3>2 DEF LocalOK
  <2> QED BY <1>4, <2>1, <2>2
<1>7. count' \in [Users -> Int]
  <2>1. PICK n \in Int : count' = [count EXCEPT ![req[p].user] = n]
    <3>1. PICK c \in Int : c = count[req[p].user] BY <1>1, <1>3 DEF StoreT
    <3>2. PICK n : n = IF Sends(p, "count") THEN c + 1 ELSE c - 1 OBVIOUS
    <3>3. count' = [count EXCEPT ![req[p].user] = n] BY <3>1, <3>2 DEF Count
    <3>4. n \in Int BY <3>2
    <3> QED BY <3>3, <3>4
  <2> QED BY <1>1, <2>1 DEF StoreT
<1>8. /\ UNCHANGED <<seq, rec, owner, list, followers, worker, asked, failed, drift,
                     lost, steady, overlapped, cleaned, intent>>
  BY DEF Count, history
<1>9. asked' \in 0 .. MaxRequests /\ failed' \in 0 .. MaxFail /\ drift' \in [Users -> Int]
  BY <1>1, <1>8 DEF StoreT, HistoryT
<1> QED BY <1>4, <1>5, <1>6, <1>7, <1>8, <1>9, ReadT

LEMMA GetT == ASSUME TInv, NEW p \in Procs, Get(p) PROVE TInv'
<1>1. RequestsT /\ StoreT /\ HistoryT /\ LocalOK(p) BY DEF TInv
<1>2. Now(p) = "get" /\ ~ Idle(p) /\ After(req[p].op, "get") # "none"
  BY <1>1, SendsFacts DEF Get, Names, After
<1>3. /\ req[p].op \in {"delete", "publish"} /\ req[p].id \in Ids
      /\ req[p].op = "delete" => req[p].user \in Users
  BY <1>1, <1>2, CommandFacts
<1>4. /\ RequestsT' /\ Others(p) /\ Moves(p) /\ LocalOK(p)'
  <2>1. CASE rec[req[p].id] = NoRecord
    <3>1. Clear(p) BY <2>1 DEF Get
    <3> QED BY <1>1, <3>1, ClearFacts, EndedLocal DEF Moves
  <2>2. CASE rec[req[p].id] # NoRecord
    <3>1. /\ copy' = [copy EXCEPT ![p] = rec[req[p].id]]
          /\ todo' = [todo EXCEPT ![p] = Tail(@)]
          /\ UNCHANGED <<req, ids>>
      BY <2>2 DEF Get
    <3>2. rec[req[p].id] \in Record BY <1>1, <1>3, <2>2 DEF StoreT
    <3>3. /\ copy' \in [Procs -> Record \cup {NoRecord}]
          /\ copy'[p] = rec[req[p].id]
          /\ \A q \in Procs \ {p} : copy'[q] = copy[q]
      BY <1>1, <3>1, <3>2 DEF RequestsT
    <3>4. Len(todo[p]) # 1 BY <1>1, <1>2, LastFacts
    <3>5. RequestsT' /\ Others(p) /\ Went(p) BY <1>1, <1>2, <3>1, <3>3, <3>4, GoFacts DEF RequestsT
    <3>6. Moves(p) BY <1>2, <3>5 DEF Moves, Went
    <3>7. Now(p)' \in {"mark", "show"} /\ req'[p] = req[p]
      BY <1>2, <1>3, <3>5 DEF Went, After
    <3>8. ids'[p] = {} BY <1>1, <1>2, <3>1 DEF LocalOK
    <3>9. LocalOK(p)' BY <2>2, <3>2, <3>3, <3>7, <3>8 DEF LocalOK, Get, store
    <3> QED BY <3>5, <3>6, <3>9
  <2> QED BY <2>1, <2>2
<1>5. drift' \in [Users -> Int]
  <2>1. CASE rec[req[p].id] = NoRecord /\ req[p].op = "delete"
    <3>1. PICK u \in Users : u = req[p].user BY <1>3, <2>1
    <3>2. PICK n \in Int : n = drift[u] BY <1>1 DEF HistoryT
    <3>3. drift' = [drift EXCEPT ![u] = n - 1] BY <2>1, <3>1, <3>2 DEF Get
    <3> QED BY <1>1, <3>3 DEF HistoryT
  <2>2. CASE ~ (rec[req[p].id] = NoRecord /\ req[p].op = "delete")
    <3>1. drift' = drift BY <2>2 DEF Get
    <3> QED BY <1>1, <3>1 DEF HistoryT
  <2> QED BY <2>1, <2>2
<1>6. /\ UNCHANGED <<seq, rec, owner, list, followers, worker, asked, failed, count,
                     lost, steady, overlapped, cleaned, intent>>
  BY DEF Get, store
<1>7. asked' \in 0 .. MaxRequests /\ failed' \in 0 .. MaxFail /\ count' \in [Users -> Int]
  BY <1>1, <1>6 DEF StoreT
<1> QED BY <1>4, <1>5, <1>6, <1>7, ReadT

\* A page that was read, and the ids of it that are left.
LEMMA PageLocal ==
  ASSUME TInv, NEW p \in Procs, Now(p) \in {"range", "mget"},
         NEW S, S # {}, S \subseteq Stored,
         ids' = [ids EXCEPT ![p] = S], todo' = [todo EXCEPT ![p] = Tail(@)],
         UNCHANGED <<req, copy, store>>
  PROVE  RequestsT' /\ Others(p) /\ Went(p) /\ Moves(p) /\ LocalOK(p)'
<1>1. RequestsT /\ StoreT BY DEF TInv
<1>2. Stored \subseteq Ids BY <1>1, SeqFacts
<1>3. /\ ids' \in [Procs -> SUBSET Ids] /\ ids'[p] = S
      /\ \A q \in Procs \ {p} : ids'[q] = ids[q]
  BY <1>1, <1>2 DEF RequestsT
<1>4. ~ Idle(p) /\ After(req[p].op, Now(p)) # "none" BY <1>1, NowFacts DEF After
<1>5. Len(todo[p]) # 1 BY <1>1, <1>4, LastFacts
<1>6. RequestsT' /\ Others(p) /\ Went(p) BY <1>1, <1>3, <1>4, <1>5, GoFacts DEF RequestsT
<1>7. Moves(p) BY <1>6 DEF Moves, Went
<1>8. Now(p)' \in {"mget", "clean"} BY <1>6 DEF Went, After
<1>9. Stored' = Stored BY DEF Stored, store
<1>10. LocalOK(p)' BY <1>3, <1>8, <1>9 DEF LocalOK
<1> QED BY <1>6, <1>7, <1>10

LEMMA QuietReadT ==
  ASSUME TInv, NEW p \in Procs, RequestsT', Others(p), Moves(p), LocalOK(p)',
         UNCHANGED <<store, followers, worker, history>>,
         asked' \in 0 .. MaxRequests, failed' \in 0 .. MaxFail
  PROVE  TInv'
<1>1. count' \in [Users -> Int] /\ drift' \in [Users -> Int]
  BY DEF TInv, StoreT, HistoryT, store, history
<1>2. UNCHANGED <<seq, rec, owner, list, followers, worker, lost, steady, overlapped,
                  cleaned, intent>>
  BY DEF store, history
<1> QED BY <1>1, <1>2, ReadT

LEMMA PageFacts ==
  ASSUME TInv, NEW k \in Keys, NEW n \in Pages
  PROVE  /\ Page(list[k], n) \subseteq Stored
         /\ \A r \in Page(list[k], n) : In(list[k], r)
<1>1. list[k] \in Seq(Stored) BY DEF TInv, StoreT
<1>2. \A i \in DOMAIN list[k] : list[k][i] \in Stored BY <1>1
<1>3. DOMAIN list[k] = 1 .. Len(list[k]) BY <1>1
<1> QED BY <1>2, <1>3 DEF Page, In

LEMMA RangeT == ASSUME TInv, NEW p \in Procs, RangePage(p) PROVE TInv'
<1>1. RequestsT /\ StoreT /\ HistoryT /\ LocalOK(p) BY DEF TInv
<1>2. Now(p) = "range" /\ ~ Idle(p) BY <1>1, SendsFacts DEF RangePage, Names
<1>3. req[p].key \in Keys /\ req[p].page \in Pages BY <1>1, <1>2, CommandFacts
<1>4. PICK S : S = Page(list[req[p].key], req[p].page) OBVIOUS
<1>5. S \subseteq Stored BY <1>3, <1>4, PageFacts
<1>6. UNCHANGED <<store, followers, worker, asked, failed, history>> BY DEF RangePage
<1>7. RequestsT' /\ Others(p) /\ Moves(p) /\ LocalOK(p)'
  <2>1. CASE S = {}
    <3>1. Clear(p) BY <1>4, <2>1 DEF RangePage
    <3> QED BY <1>1, <3>1, ClearFacts, EndedLocal DEF Moves
  <2>2. CASE S # {}
    <3>1. /\ ids' = [ids EXCEPT ![p] = S] /\ todo' = [todo EXCEPT ![p] = Tail(@)]
          /\ UNCHANGED <<req, copy>>
      BY <1>4, <2>2 DEF RangePage
    <3> QED BY <1>2, <1>5, <1>6, <2>2, <3>1, PageLocal
  <2> QED BY <2>1, <2>2
<1>8. asked' \in 0 .. MaxRequests /\ failed' \in 0 .. MaxFail BY <1>1, <1>6 DEF StoreT
<1> QED BY <1>6, <1>7, <1>8, QuietReadT

LEMMA MgetT == ASSUME TInv, NEW p \in Procs, Mget(p) PROVE TInv'
<1>1. RequestsT /\ StoreT /\ HistoryT /\ LocalOK(p) BY DEF TInv
<1>2. Now(p) = "mget" /\ ~ Idle(p) BY <1>1, SendsFacts DEF Mget, Names
<1>4. PICK S : S = {r \in ids[p] : rec[r].del} OBVIOUS
<1>5. S \subseteq Stored BY <1>1, <1>4 DEF LocalOK
<1>6. UNCHANGED <<store, followers, worker, asked, failed, history>> BY DEF Mget
<1>7. RequestsT' /\ Others(p) /\ Moves(p) /\ LocalOK(p)'
  <2>1. CASE S = {}
    <3>1. Clear(p) BY <1>4, <2>1 DEF Mget
    <3> QED BY <1>1, <3>1, ClearFacts, EndedLocal DEF Moves
  <2>2. CASE S # {}
    <3>1. /\ ids' = [ids EXCEPT ![p] = S] /\ todo' = [todo EXCEPT ![p] = Tail(@)]
          /\ UNCHANGED <<req, copy>>
      BY <1>4, <2>2 DEF Mget
    <3> QED BY <1>2, <1>5, <1>6, <2>2, <3>1, PageLocal
  <2> QED BY <2>1, <2>2
<1>8. asked' \in 0 .. MaxRequests /\ failed' \in 0 .. MaxFail BY <1>1, <1>6 DEF StoreT
<1> QED BY <1>6, <1>7, <1>8, QuietReadT

LEMMA NextCleanFacts ==
  ASSUME TInv, NEW p \in Procs, Now(p) = "clean", NEW r \in ids[p], NextClean(p, r),
         Stored' = Stored
  PROVE  /\ RequestsT' /\ Others(p) /\ Moves(p) /\ LocalOK(p)'
         /\ ids'[p] \subseteq ids[p]
         /\ \/ Ended(p)
            \/ req' = req /\ Now(p)' = "clean" /\ copy' = copy
<1>1. RequestsT /\ StoreT /\ HistoryT /\ LocalOK(p) BY DEF TInv
<1>2. CASE ids[p] = {r}
  <2>1. Clear(p) BY <1>2 DEF NextClean
  <2>2. RequestsT' /\ Others(p) /\ Ended(p) BY <1>1, <2>1, ClearFacts
  <2> QED BY <2>2, EndedLocal DEF Moves, Ended
<1>3. CASE ids[p] # {r}
  <2>1. ids' = [ids EXCEPT ![p] = ids[p] \ {r}] /\ req' = req /\ todo' = todo /\ copy' = copy
    BY <1>3 DEF NextClean
  <2>2. /\ ids'[p] = ids[p] \ {r} /\ \A q \in Procs \ {p} : ids'[q] = ids[q]
        /\ ids' \in [Procs -> SUBSET Ids]
    BY <1>1, <2>1 DEF RequestsT
  <2>3. Others(p) BY <2>1, <2>2 DEF Others, Same
  <2>4. Now(p)' = Now(p) BY <2>1 DEF Now, Idle
  <2>5. RequestsT' BY <1>1, <2>1, <2>2 DEF RequestsT, Idle
  <2>6. Moves(p) BY <1>1, <2>1, <2>4 DEF Moves
  <2>7. ids'[p] # {} BY <1>3, <2>2
  <2>8. LocalOK(p)' BY <1>1, <2>2, <2>4, <2>7 DEF LocalOK
  <2> QED BY <2>1, <2>2, <2>3, <2>4, <2>5, <2>6, <2>8
<1> QED BY <1>2, <1>3

LEMMA CleanT == ASSUME TInv, NEW p \in Procs, Clean(p) PROVE TInv'
<1>1. RequestsT /\ StoreT /\ HistoryT /\ LocalOK(p) BY DEF TInv
<1>2. Now(p) = "clean" /\ ~ Idle(p) BY <1>1, SendsFacts DEF Clean, Names
<1>3. req[p].key \in Keys BY <1>1, <1>2, CommandFacts
<1>4. PICK r \in ids[p] : /\ list' = [list EXCEPT ![req[p].key] = Without(list[req[p].key], r)]
                          /\ cleaned' = cleaned \cup {<<req[p].key, r>>}
                          /\ NextClean(p, r)
  BY DEF Clean
<1>5. r \in Ids BY <1>1 DEF RequestsT
<1>6. UNCHANGED <<seq, rec, owner, count, followers, wpc, wtodo, asked, failed, lost, steady,
                  drift, overlapped, intent>>
  BY DEF Clean, worker
<1>7. Stored' = Stored /\ seq \in Nat BY <1>1, <1>6, SeqFacts DEF Stored
<1>8. RequestsT' /\ Others(p) /\ Moves(p) /\ LocalOK(p)' BY <1>2, <1>4, <1>7, NextCleanFacts
<1>9. DOMAIN list' = Keys /\ \A k \in Keys : list'[k] \in Seq(Stored)
  <2>1. Without(list[req[p].key], r) \in Seq(Stored)
    <3>1. list[req[p].key] \in Seq(Stored) BY <1>1, <1>3 DEF StoreT
    <3> QED BY <3>1, WithoutFacts
  <2> QED BY <1>1, <1>3, <1>4, <2>1 DEF StoreT
<1>10. StoreT' BY <1>1, <1>6, <1>7, <1>9 DEF StoreT
<1>11. HistoryT' BY <1>1, <1>3, <1>4, <1>5, <1>6 DEF HistoryT
<1>12. Grows BY <1>6, <1>7 DEF Grows
<1>13. \A q \in Procs : Spares(q) BY <1>6 DEF Spares
<1> QED BY <1>6, <1>8, <1>10, <1>11, <1>12, <1>13, StepT

LEMMA FailT == ASSUME TInv, NEW p \in Procs, Fail(p) \/ CleanFails(p) \/ Kill(p) PROVE TInv'
<1>1. RequestsT /\ StoreT /\ HistoryT /\ LocalOK(p) BY DEF TInv
<1>2. UNCHANGED <<store, followers, worker, asked, history>> /\ Fails
  BY DEF Fail, CleanFails, Kill
<1>3. RequestsT' /\ Others(p) /\ Moves(p) /\ LocalOK(p)'
  <2>1. CASE Clear(p) BY <1>1, <2>1, ClearFacts, EndedLocal DEF Moves
  <2>2. CASE ~ Idle(p) /\ Head(todo[p]) \in Ignored /\ Advance(p)
    <3>1. Now(p) \in {"send", "count", "uncount"} BY <2>2 DEF Now, Ignored
    <3>2. /\ RequestsT' /\ Others(p)
          /\ \/ After(req[p].op, Now(p)) = "none" /\ Ended(p)
             \/ Went(p) /\ After(req[p].op, Now(p)) # "none" /\ copy' = copy /\ ids' = ids
      BY <1>1, <2>2, AdvanceFacts
    <3>3. Moves(p) BY <3>1, <3>2 DEF Moves, Went
    <3>4. LocalOK(p)'
      <4>1. CASE Ended(p) BY <4>1, EndedLocal
      <4>2. CASE Went(p) /\ After(req[p].op, Now(p)) # "none" /\ ids' = ids
        <5>1. ids'[p] = {} BY <1>1, <3>1, <4>2 DEF LocalOK
        <5>2. Now(p)' \in {"count", "get"} /\ req'[p] = req[p] BY <3>1, <4>2 DEF Went, After
        <5>3. Now(p)' = "count" => Now(p) = "send" BY <3>1, <4>2 DEF Went, After
        <5> QED BY <1>1, <1>2, <5>1, <5>2, <5>3 DEF LocalOK, store
      <4> QED BY <3>2, <4>1, <4>2
    <3> QED BY <3>2, <3>3, <3>4
  <2>3. CASE CleanFails(p)
    <3>1. Now(p) = "clean" BY <1>1, <2>3, SendsFacts DEF CleanFails, Names
    <3>2. PICK r \in ids[p] : NextClean(p, r) BY <2>3 DEF CleanFails
    <3>3. Stored' = Stored BY <1>2 DEF Stored, store
    <3> QED BY <3>1, <3>2, <3>3, NextCleanFacts
  <2> QED BY <2>1, <2>2, <2>3 DEF Fail, Kill
<1>4. failed' \in 0 .. MaxFail /\ asked' \in 0 .. MaxRequests
  BY <1>1, <1>2, FailsFacts DEF StoreT
<1> QED BY <1>2, <1>3, <1>4, QuietReadT
-----------------------------------------------------------------------------
(* The workers, and the changes of followers.                              *)

LEMMA WorkerT ==
  ASSUME TInv, NEW r \in Ids, wpc[r] # "none", UNCHANGED local,
         UNCHANGED <<seq, rec, owner, count, followers, asked, intent, steady, drift,
                     overlapped, cleaned>>,
         failed' \in 0 .. MaxFail,
         DOMAIN list' = Keys, \A k \in Keys : list'[k] \in Seq(Stored),
         NEW c \in WorkerSteps, WGoTo(r, c),
         wtodo' \in [Ids -> SUBSET Users], lost' \in [Ids -> SUBSET Keys]
  PROVE  TInv'
<1>1. RequestsT /\ StoreT /\ HistoryT BY DEF TInv
<1>2. Stored' = Stored /\ seq \in Nat BY <1>1, SeqFacts DEF Stored
<1>3. wpc' \in [Ids -> WorkerSteps] /\ \A x \in Ids \ {r} : wpc'[x] = wpc[x]
  BY <1>1 DEF WGoTo, StoreT
<1>4. rec[r] # NoRecord BY <1>1 DEF StoreT
<1>5. \A x \in Ids : wpc'[x] # "none" => rec'[x] # NoRecord BY <1>1, <1>3, <1>4 DEF StoreT
<1>6. StoreT' BY <1>1, <1>2, <1>3, <1>5 DEF StoreT
<1>7. HistoryT' BY <1>1 DEF HistoryT
<1>8. Grows BY <1>2 DEF Grows
<1>9. \A q \in Procs : Spares(q)
  <2> SUFFICES ASSUME NEW q \in Procs PROVE Spares(q) OBVIOUS
  <2>1. Now(q) = "send" => wpc[req[q].id] = "none" /\ req[q].id \in Ids
    BY <1>1, SeqFacts DEF TInv, LocalOK
  <2> QED BY <1>3, <2>1 DEF Spares
<1> QED BY <1>6, <1>7, <1>8, <1>9, QuietT

\* Every worker's record is there, and its author.
LEMMA WorksFor ==
  ASSUME TInv, NEW r \in Ids, wpc[r] # "none"
  PROVE  r \in Stored /\ owner[r] \in Users /\ Home(owner[r]) \in Keys
BY SeqFacts DEF TInv, StoreT, Keys

LEMMA KeysFacts ==
  /\ Recent \in Keys
  /\ \A u \in Users : Home(u) \in Keys /\ Active(u) \in Keys
  /\ \A u, v \in Users : /\ Home(u) # Active(v) /\ Home(u) # Recent /\ Active(u) # Recent
                         /\ Home(u) = Home(v) => u = v
                         /\ Active(u) = Active(v) => u = v
BY DEF Keys, Home, Active, Recent

LEMMA PushFacts ==
  ASSUME TInv, NEW r \in Stored, NEW k \in Keys, Push(r, k)
  PROVE  /\ DOMAIN list' = Keys /\ \A x \in Keys : list'[x] \in Seq(Stored)
         /\ \A x \in Keys \ {k} : list'[x] = list[x]
         /\ \A e : In(list'[k], e) <=> In(list[k], e) \/ e = r
         /\ OneEach(list[k]) /\ ~ In(list[k], r) => OneEach(list'[k])
<1>1. PICK s \in Seq(Stored) : s = list[k] BY DEF TInv, StoreT
<1>2. PICK t : t = <<r>> \o s OBVIOUS
<1>3. list' = [list EXCEPT ![k] = t] BY <1>1, <1>2 DEF Push
<1>4. t \in Seq(Stored) BY <1>2
<1>5. list'[k] = t /\ \A x \in Keys \ {k} : list'[x] = list[x] BY <1>3 DEF TInv, StoreT
<1>6. DOMAIN list' = Keys /\ \A x \in Keys : list'[x] \in Seq(Stored)
  BY <1>3, <1>4, <1>5 DEF TInv, StoreT
<1>7. PICK n \in Nat : n = Len(s) BY <1>1
<1>8. Len(t) = n + 1 /\ t[1] = r /\ \A i \in 1 .. n : t[i + 1] = s[i] BY <1>1, <1>2, <1>7
<1>9. \A i \in 2 .. n + 1 : i - 1 \in 1 .. n /\ t[i] = s[i - 1]
  <2> SUFFICES ASSUME NEW i \in 2 .. n + 1 PROVE i - 1 \in 1 .. n /\ t[i] = s[i - 1] OBVIOUS
  <2>1. PICK j \in 1 .. n : j = i - 1 BY <1>7
  <2>2. i = j + 1 BY <2>1
  <2> QED BY <1>8, <2>1, <2>2
<1>10. \A i : i \in 1 .. n + 1 <=> i = 1 \/ i \in 2 .. n + 1 BY <1>7
<1>11. ASSUME NEW e PROVE In(t, e) <=> In(s, e) \/ e = r
  <2>1. In(t, e) => In(s, e) \/ e = r BY <1>7, <1>8, <1>9, <1>10 DEF In
  <2>2. e = r => In(t, e) BY <1>7, <1>8 DEF In
  <2>3. In(s, e) => In(t, e)
    <3> SUFFICES ASSUME In(s, e) PROVE In(t, e) OBVIOUS
    <3>1. PICK i \in 1 .. n : s[i] = e BY <1>7 DEF In
    <3>2. i + 1 \in 1 .. Len(t) /\ t[i + 1] = e BY <1>7, <1>8, <3>1
    <3> QED BY <3>2 DEF In
  <2> QED BY <2>1, <2>2, <2>3
<1>12. ASSUME OneEach(s), ~ In(s, r) PROVE OneEach(t)
  <2> SUFFICES ASSUME NEW i \in 1 .. Len(t), NEW j \in 1 .. Len(t), t[i] = t[j] PROVE i = j
    BY DEF OneEach
  <2>1. i \in 1 .. n + 1 /\ j \in 1 .. n + 1 BY <1>8
  <2>2. \A h \in 2 .. n + 1 : t[h] # r BY <1>7, <1>9, <1>12 DEF In
  <2>3. CASE i = 1 \/ j = 1 BY <1>8, <1>10, <2>1, <2>2, <2>3
  <2>4. CASE i # 1 /\ j # 1
    <3>1. i \in 2 .. n + 1 /\ j \in 2 .. n + 1 BY <1>10, <2>1, <2>4
    <3>2. s[i - 1] = s[j - 1] /\ i - 1 \in 1 .. Len(s) /\ j - 1 \in 1 .. Len(s)
      BY <1>7, <1>9, <3>1
    <3>3. i - 1 = j - 1 BY <1>12, <3>2 DEF OneEach
    <3> QED BY <3>1, <3>3
  <2> QED BY <2>3, <2>4
<1> QED BY <1>1, <1>5, <1>6, <1>11, <1>12

\* One step of the worker of a record.
WorkerStep(r) == \/ WGet(r) \/ LinkToHome(r) \/ ReadFollowers(r) \/ LinkToActive(r)
                 \/ LinkToRecent(r) \/ WFail(r) \/ WKill(r)

LEMMA WorkersT == ASSUME TInv, NEW r \in Ids, WorkerStep(r) PROVE TInv'
<1>1. RequestsT /\ StoreT /\ HistoryT BY DEF TInv
<1>2. wpc[r] # "none"
  BY DEF WorkerStep, WGet, LinkToHome, ReadFollowers, LinkToActive, LinkToRecent, WFail, WKill
<1>3. r \in Stored /\ owner[r] \in Users /\ Home(owner[r]) \in Keys BY <1>2, WorksFor
<1>4. \A k \in Keys : list[k] \in Seq(Stored) BY <1>1 DEF StoreT
<1>5. failed \in 0 .. MaxFail /\ DOMAIN list = Keys BY <1>1 DEF StoreT
<1>6. wtodo \in [Ids -> SUBSET Users] /\ lost \in [Ids -> SUBSET Keys]
  BY <1>1 DEF StoreT, HistoryT
<1>7. CASE WGet(r)
  BY <1>2, <1>4, <1>5, <1>6, <1>7, WorkerT DEF WGet, store, history, WorkerSteps
<1>8. CASE LinkToHome(r)
  <2>1. DOMAIN list' = Keys /\ \A k \in Keys : list'[k] \in Seq(Stored)
    BY <1>3, <1>8, PushFacts DEF LinkToHome
  <2> QED BY <1>2, <1>5, <1>6, <1>8, <2>1, WorkerT DEF LinkToHome, history, WorkerSteps
<1>9. CASE ReadFollowers(r)
  <2>1. wtodo' \in [Ids -> SUBSET Users]
    <3>1. followers[owner[r]] \cup {owner[r]} \in SUBSET Users BY <1>1, <1>3 DEF StoreT
    <3> QED BY <1>6, <1>9, <3>1 DEF ReadFollowers
  <2> QED
    BY <1>2, <1>4, <1>5, <1>6, <1>9, <2>1, WorkerT DEF ReadFollowers, store, history, WorkerSteps
<1>10. ASSUME NEW u \in wtodo[r], Pushed(r, u)
       PROVE  /\ wtodo' \in [Ids -> SUBSET Users]
              /\ WGoTo(r, IF wtodo[r] = {u} THEN "recent" ELSE "active")
              /\ (IF wtodo[r] = {u} THEN "recent" ELSE "active") \in WorkerSteps
  <2>1. wtodo' = [wtodo EXCEPT ![r] = wtodo[r] \ {u}] BY <1>10 DEF Pushed
  <2> QED BY <1>6, <1>10, <2>1 DEF Pushed, WorkerSteps
<1>11. CASE LinkToActive(r)
  <2>1. PICK u \in wtodo[r] : Push(r, Active(u)) /\ Pushed(r, u) BY <1>11 DEF LinkToActive
  <2>2. Active(u) \in Keys BY <1>6, <2>1, KeysFacts
  <2>3. DOMAIN list' = Keys /\ \A k \in Keys : list'[k] \in Seq(Stored)
    BY <1>3, <2>1, <2>2, PushFacts
  <2> QED BY <1>2, <1>5, <1>6, <1>10, <1>11, <2>1, <2>3, WorkerT DEF LinkToActive, history
<1>12. CASE LinkToRecent(r)
  <2>1. DOMAIN list' = Keys /\ \A k \in Keys : list'[k] \in Seq(Stored)
    BY <1>3, <1>12, PushFacts, KeysFacts DEF LinkToRecent
  <2> QED BY <1>2, <1>5, <1>6, <1>12, <2>1, WorkerT DEF LinkToRecent, history, WorkerSteps
<1>13. ASSUME NEW S \in SUBSET Keys, Loses(r, S), NEW c \in WorkerSteps, WGoTo(r, c),
              wtodo' \in [Ids -> SUBSET Users]
       PROVE  TInv'
  <2>1. lost' \in [Ids -> SUBSET Keys] BY <1>6, <1>13 DEF Loses
  <2>2. failed' \in 0 .. MaxFail BY <1>1, <1>13, FailsFacts DEF Loses
  <2> QED BY <1>2, <1>4, <1>5, <1>13, <2>1, <2>2, WorkerT DEF Loses, store
<1>14. Actives(Users) \in SUBSET Keys /\ Actives(wtodo[r]) \in SUBSET Keys
       /\ Home(owner[r]) \in Keys /\ Recent \in Keys
  BY <1>3, <1>6, KeysFacts DEF Actives
<1>15. CASE WFail(r)
  <2>1. CASE wpc[r] = "active" /\ \E u \in wtodo[r] : Loses(r, {Active(u)}) /\ Pushed(r, u)
    <3>1. PICK u \in wtodo[r] : Loses(r, {Active(u)}) /\ Pushed(r, u) BY <2>1
    <3>2. {Active(u)} \in SUBSET Keys BY <1>6, <3>1, KeysFacts
    <3> QED BY <1>10, <1>13, <3>1, <3>2
  <2>2. CASE \E S \in {Keys, {Home(owner[r])}, Actives(Users), {Recent}},
                c \in {"done", "followers", "recent"} :
               Loses(r, S) /\ WGoTo(r, c) /\ UNCHANGED wtodo
    BY <1>6, <1>13, <1>14, <2>2 DEF WorkerSteps
  <2> QED BY <1>15, <2>1, <2>2 DEF WFail
<1>16. CASE WKill(r)
  <2>1. Remaining(r) \in SUBSET Keys BY <1>14 DEF Remaining
  <2> QED BY <1>6, <1>13, <1>16, <2>1 DEF WKill, WorkerSteps
<1> QED BY <1>7, <1>8, <1>9, <1>11, <1>12, <1>15, <1>16 DEF WorkerStep

LEMMA FollowersFacts ==
  ASSUME TInv, NEW u \in Users, NEW v \in Users, FollowersChange(u, v)
  PROVE  /\ followers' \in [Users -> SUBSET Users]
         /\ \A w \in Users : w \notin followers'[w]
         /\ \A w \in Users \ {u} : followers'[w] = followers[w]
         /\ followers[u] \ {v} \subseteq followers'[u]
<1>1. followers \in [Users -> SUBSET Users] /\ \A w \in Users : w \notin followers[w]
  BY DEF TInv, StoreT
<1>2. PICK S : S = IF v \in followers[u] THEN followers[u] \ {v} ELSE followers[u] \cup {v}
  OBVIOUS
<1>3. followers' = [followers EXCEPT ![u] = S] /\ u # v BY <1>2 DEF FollowersChange
<1>4. S \in SUBSET Users /\ u \notin S /\ followers[u] \ {v} \subseteq S BY <1>1, <1>2, <1>3
<1> QED BY <1>1, <1>3, <1>4

LEMMA FollowersT ==
  ASSUME TInv, NEW u \in Users, NEW v \in Users, FollowersChange(u, v)
  PROVE  TInv'
<1>1. RequestsT /\ StoreT /\ HistoryT BY DEF TInv
<1>2. followers' \in [Users -> SUBSET Users] /\ \A w \in Users : w \notin followers'[w]
  BY FollowersFacts
<1>3. asked' \in 0 .. MaxRequests BY <1>1, AsksFacts DEF FollowersChange
<1>4. UNCHANGED <<store, local, worker, failed, lost, cleaned, drift, overlapped, intent>>
  BY DEF FollowersChange
<1>5. steady' \in [Ids -> SUBSET Users]
  <2>1. \A r \in Ids : steady[r] \in SUBSET Users /\ steady[r] \ {v} \in SUBSET Users
    BY <1>1 DEF HistoryT
  <2> QED BY <2>1 DEF FollowersChange
<1>6. Stored' = Stored /\ seq \in Nat BY <1>1, <1>4, SeqFacts DEF Stored, store
<1>7. StoreT' BY <1>1, <1>2, <1>3, <1>4, <1>6 DEF StoreT, store, worker
<1>8. HistoryT' BY <1>1, <1>4, <1>5 DEF HistoryT, store
<1>9. Grows BY <1>4, <1>6 DEF Grows, store
<1>10. \A q \in Procs : Spares(q) BY <1>4 DEF Spares, store, worker
<1> QED BY <1>4, <1>7, <1>8, <1>9, <1>10, QuietT DEF store
-----------------------------------------------------------------------------
LEMMA InitT == Init => TInv
<1> SUFFICES ASSUME Init PROVE TInv OBVIOUS
<1>1. \A p \in Procs : Idle(p) /\ Now(p) = "none" /\ todo[p] = << >> /\ ids[p] = {}
  BY DEF Init, Idle, Now
<1>2. RequestsT
  <2>1. /\ req \in [Procs -> Requests \cup {NoRequest}] /\ DOMAIN todo = Procs
        /\ copy \in [Procs -> Record \cup {NoRecord}] /\ ids \in [Procs -> SUBSET Ids]
    BY DEF Init
  <2> QED BY <1>1, <2>1 DEF RequestsT
<1>3. seq = 0 /\ 0 \in 0 .. MaxRecords /\ 0 \in 0 .. MaxRequests /\ 0 \in 0 .. MaxFail
  BY FeedBoundsAssumption DEF Init
<1>4. StoreT
  <2>1. \A r \in Ids : ~ (r <= seq) BY <1>3, FeedBoundsAssumption DEF Ids
  <2>2. \A k \in Keys : list[k] \in Seq(Stored) BY DEF Init
  <2>3. DOMAIN list = Keys BY DEF Init
  <2>4. /\ rec \in [Ids -> Record \cup {NoRecord}] /\ owner \in [Ids -> Users \cup {NoOne}]
        /\ \A r \in Ids : rec[r] = NoRecord
        /\ count \in [Users -> Int] /\ followers \in [Users -> SUBSET Users]
        /\ \A u \in Users : u \notin followers[u]
    BY DEF Init
  <2>5. /\ wpc \in [Ids -> WorkerSteps] /\ wtodo \in [Ids -> SUBSET Users]
        /\ \A r \in Ids : wpc[r] = "none" /\ asked = 0 /\ failed = 0
    BY DEF Init, WorkerSteps
  <2>6. asked = 0 /\ failed = 0 BY DEF Init
  <2> QED BY <1>3, <2>1, <2>2, <2>3, <2>4, <2>5, <2>6 DEF StoreT
<1>5. HistoryT BY DEF Init, HistoryT
<1>6. \A p \in Procs : LocalOK(p) BY <1>1 DEF LocalOK
<1>7. CreatorsDiffer BY <1>1 DEF CreatorsDiffer
<1>8. RoomOK
  <2>1. Creating = {} BY <1>1 DEF Creating, Sends
  <2>2. Cardinality(Creating) = 0 BY <2>1, FS_EmptySet
  <2> QED BY <1>3, <2>2, FeedBoundsAssumption DEF RoomOK
<1> QED BY <1>2, <1>4, <1>5, <1>6, <1>7, <1>8 DEF TInv

LEMMA NextT == TInv /\ [Next]_vars => TInv'
<1> SUFFICES ASSUME TInv, [Next]_vars PROVE TInv' OBVIOUS
<1>1. ASSUME NEW p \in Procs, NEW q \in Requests, Begin(p, q) PROVE TInv' BY <1>1, BeginT
<1>2. ASSUME NEW p \in Procs, Incr(p) \/ Set(p) \/ Send(p) \/ Count(p) PROVE TInv'
  BY <1>2, IncrT, SetT, SendT, CountT
<1>3. ASSUME NEW p \in Procs, Get(p) \/ Mark(p) \/ Show(p) PROVE TInv'
  BY <1>3, GetT, MarkT, ShowT
<1>4. ASSUME NEW p \in Procs, RangePage(p) \/ Mget(p) \/ Clean(p) PROVE TInv'
  BY <1>4, RangeT, MgetT, CleanT
<1>5. ASSUME NEW p \in Procs, Fail(p) \/ CleanFails(p) \/ Kill(p) PROVE TInv' BY <1>5, FailT
<1>6. ASSUME NEW r \in Ids, WorkerStep(r) PROVE TInv' BY <1>6, WorkersT
<1>7. ASSUME NEW u \in Users, NEW v \in Users, FollowersChange(u, v) PROVE TInv'
  BY <1>7, FollowersT
<1>8. CASE UNCHANGED vars
  <2>1. UNCHANGED <<store, followers, local, worker, asked, failed, history>>
    BY <1>8 DEF vars
  <2>2. StoreT /\ HistoryT BY DEF TInv
  <2>3. StoreT' /\ Grows /\ \A q \in Procs : Spares(q)
    BY <2>1, <2>2, SameStore DEF StoreT
  <2>4. HistoryT' BY <2>1, <2>2 DEF HistoryT, store, history
  <2> QED BY <2>1, <2>3, <2>4, QuietT DEF store
<1> QED BY <1>1, <1>2, <1>3, <1>4, <1>5, <1>6, <1>7, <1>8 DEF Next, WorkerStep

LEMMA TInvHolds == Spec => []TInv
BY InitT, NextT, PTL DEF Spec

\* RecordFeed is well typed, for any number of users, records, requests and
\* failures: a record in a list is one that was stored, has a number that was
\* drawn and an author (Record.cc:82-116, worker.cc:42-72).
THEOREM TypeOKHolds == Spec => []TypeOK
<1>1. TInv => TypeOK
  <2> SUFFICES ASSUME TInv PROVE TypeOK OBVIOUS
  <2>1. RequestsT /\ StoreT /\ HistoryT BY DEF TInv
  <2>2. \A p \in Procs : Len(todo[p]) <= 4
    <3> SUFFICES ASSUME NEW p \in Procs PROVE Len(todo[p]) <= 4 OBVIOUS
    <3>1. CASE Idle(p) BY <2>1, <3>1 DEF RequestsT
    <3>2. CASE ~ Idle(p)
      <4>1. req[p].op \in Ops /\ todo[p] \in Rests[req[p].op] BY <2>1, <3>2, NowFacts
      <4>2. PICK n \in 1 .. 4 : n = Len(todo[p]) BY <4>1, RestFacts
      <4> QED BY <4>2
    <3> QED BY <3>1, <3>2
  <2>3. \A r \in Ids : rec[r] # NoRecord => r <= seq /\ owner[r] \in Users
    BY <2>1 DEF StoreT
  <2>4. \A u \in Users : followers[u] \subseteq Users \ {u} BY <2>1 DEF StoreT
  <2>5. \A k \in Keys : list[k] \in Seq({r \in 1 .. seq : rec[r] # NoRecord})
    BY <2>1 DEF StoreT, Stored
  <2> QED BY <2>1, <2>2, <2>3, <2>4, <2>5
       DEF TypeOK, RequestsT, StoreT, HistoryT, WorkerSteps
<1> QED BY <1>1, TInvHolds, PTL
-----------------------------------------------------------------------------
(* No list gets a record twice.                                            *)

\* The requests' steps that read no page.
Plain(p) == \/ Set(p) \/ Send(p) \/ Count(p) \/ Get(p) \/ Mark(p) \/ Show(p)
            \/ Mget(p) \/ Fail(p) \/ CleanFails(p) \/ Kill(p)

LEMMA MgetFacts ==
  ASSUME TInv, NEW p \in Procs, Mget(p)
  PROVE  /\ Others(p) /\ Now(p) = "mget"
         /\ \/ Ended(p)
            \/ /\ Went(p) /\ Now(p)' = "clean" /\ copy' = copy
               /\ ids'[p] = {r \in ids[p] : rec[r].del}
<1>1. RequestsT /\ StoreT /\ LocalOK(p) BY DEF TInv
<1>2. Now(p) = "mget" /\ ~ Idle(p) BY <1>1, SendsFacts DEF Mget, Names
<1>3. PICK S : S = {r \in ids[p] : rec[r].del} OBVIOUS
<1>4. CASE S = {}
  <2>1. Clear(p) BY <1>3, <1>4 DEF Mget
  <2> QED BY <1>1, <1>2, <2>1, ClearFacts
<1>5. CASE S # {}
  <2>1. /\ ids' = [ids EXCEPT ![p] = S] /\ todo' = [todo EXCEPT ![p] = Tail(@)]
        /\ UNCHANGED <<req, copy, store>>
    BY <1>3, <1>5 DEF Mget
  <2>2. S \subseteq Stored BY <1>1, <1>3 DEF LocalOK
  <2>3. Others(p) /\ Went(p) BY <1>2, <1>5, <2>1, <2>2, PageLocal
  <2>4. Now(p)' = "clean" BY <1>2, <2>3 DEF Went, After
  <2>5. ids'[p] = S BY <1>1, <2>1 DEF RequestsT
  <2> QED BY <1>2, <1>3, <2>1, <2>3, <2>4, <2>5
<1> QED BY <1>4, <1>5

LEMMA GetFacts ==
  ASSUME TInv, NEW p \in Procs, Get(p)
  PROVE  /\ Others(p) /\ Now(p) = "get" /\ req[p].id \in Ids
         /\ \/ rec[req[p].id] = NoRecord /\ Ended(p)
            \/ /\ rec[req[p].id] # NoRecord /\ Went(p) /\ Now(p)' \in {"mark", "show"}
               /\ req[p].op = "delete" <=> Now(p)' = "mark"
               /\ copy'[p] = rec[req[p].id] /\ ids' = ids
<1>1. RequestsT /\ StoreT /\ LocalOK(p) BY DEF TInv
<1>2. Now(p) = "get" /\ ~ Idle(p) /\ After(req[p].op, "get") # "none"
  BY <1>1, SendsFacts DEF Get, Names, After
<1>3. req[p].op \in {"delete", "publish"} /\ req[p].id \in Ids BY <1>1, <1>2, CommandFacts
<1>4. CASE rec[req[p].id] = NoRecord
  <2>1. Clear(p) BY <1>4 DEF Get
  <2> QED BY <1>1, <1>2, <1>3, <1>4, <2>1, ClearFacts
<1>5. CASE rec[req[p].id] # NoRecord
  <2>1. /\ copy' = [copy EXCEPT ![p] = rec[req[p].id]]
        /\ todo' = [todo EXCEPT ![p] = Tail(@)]
        /\ UNCHANGED <<req, ids>>
    BY <1>5 DEF Get
  <2>2. rec[req[p].id] \in Record BY <1>1, <1>3, <1>5 DEF StoreT
  <2>3. /\ copy' \in [Procs -> Record \cup {NoRecord}]
        /\ copy'[p] = rec[req[p].id]
        /\ \A q \in Procs \ {p} : copy'[q] = copy[q]
    BY <1>1, <2>1, <2>2 DEF RequestsT
  <2>4. Len(todo[p]) # 1 BY <1>1, <1>2, LastFacts
  <2>5. Others(p) /\ Went(p) BY <1>1, <1>2, <2>1, <2>3, <2>4, GoFacts DEF RequestsT
  <2>6. Now(p)' = After(req[p].op, "get") BY <1>2, <2>5 DEF Went
  <2>7. Now(p)' = IF req[p].op = "delete" THEN "mark" ELSE "show" BY <2>6 DEF After
  <2> QED BY <1>2, <1>3, <1>5, <2>1, <2>3, <2>5, <2>7
<1> QED BY <1>4, <1>5

\* What a failure, or the end of a process, does to the request.
LEMMA FailFacts ==
  ASSUME TInv, NEW p \in Procs, Fail(p) \/ CleanFails(p) \/ Kill(p)
  PROVE  /\ Others(p) /\ ~ Idle(p)
         /\ \/ Ended(p)
            \/ /\ Now(p) \in {"send", "uncount"} /\ Went(p) /\ copy' = copy /\ ids' = ids
            \/ /\ Now(p) = "clean" /\ Now(p)' = "clean" /\ req' = req /\ copy' = copy
               /\ ids'[p] \subseteq ids[p]
<1>1. RequestsT /\ StoreT BY DEF TInv
<1>2. UNCHANGED <<store, followers, worker, asked, history>> /\ ~ Idle(p)
  BY DEF Fail, CleanFails, Kill, Sends
<1>3. CASE Clear(p) BY <1>1, <1>2, <1>3, ClearFacts
<1>4. CASE Head(todo[p]) \in Ignored /\ Advance(p)
  <2>1. Now(p) \in {"send", "count", "uncount"} BY <1>2, <1>4 DEF Now, Ignored
  <2>2. /\ Others(p)
        /\ \/ After(req[p].op, Now(p)) = "none" /\ Ended(p)
           \/ Went(p) /\ After(req[p].op, Now(p)) # "none" /\ copy' = copy /\ ids' = ids
    BY <1>1, <1>2, <1>4, AdvanceFacts
  <2>3. After(req[p].op, "count") = "none" BY DEF After
  <2> QED BY <1>2, <2>1, <2>2, <2>3
<1>5. CASE CleanFails(p)
  <2>1. Now(p) = "clean" BY <1>1, <1>5, SendsFacts DEF CleanFails, Names
  <2>2. PICK r \in ids[p] : NextClean(p, r) BY <1>5 DEF CleanFails
  <2>3. Stored' = Stored BY <1>2 DEF Stored, store
  <2> QED BY <1>2, <2>1, <2>2, <2>3, NextCleanFacts
<1> QED BY <1>3, <1>4, <1>5 DEF Fail, Kill

\* A command that goes on to the next one, or was the last.
LEMMA WriteFacts ==
  ASSUME TInv, NEW p \in Procs, Set(p) \/ Send(p) \/ Count(p) \/ Mark(p) \/ Show(p)
  PROVE  /\ Others(p) /\ ~ Idle(p)
         /\ Set(p) => Now(p) = "set"
         /\ Send(p) => Now(p) = "send"
         /\ Count(p) => Now(p) \in {"count", "uncount"}
         /\ Mark(p) => Now(p) = "mark"
         /\ Show(p) => Now(p) = "show"
         /\ \/ After(req[p].op, Now(p)) = "none" /\ Ended(p)
            \/ /\ Went(p) /\ After(req[p].op, Now(p)) # "none"
               /\ copy' = copy /\ ids' = ids
<1>1. RequestsT BY DEF TInv
<1>2. ~ Idle(p) /\ Advance(p) BY DEF Set, Send, Count, Mark, Show, SetRec, Sends
<1>3. \A c \in Names : Sends(p, c) => Now(p) = c BY <1>1, NowFacts
<1>4. /\ Set(p) => Now(p) = "set"
      /\ Send(p) => Now(p) = "send"
      /\ Count(p) => Now(p) \in {"count", "uncount"}
      /\ Mark(p) => Now(p) = "mark"
      /\ Show(p) => Now(p) = "show"
  BY <1>3 DEF Set, Send, Count, Mark, Show, Names
<1> QED BY <1>1, <1>2, <1>4, AdvanceFacts

LEMMA PlainFacts ==
  ASSUME TInv, NEW p \in Procs, Plain(p)
  PROVE  /\ Others(p) /\ list' = list /\ cleaned' = cleaned
         /\ \/ ids'[p] = {}
            \/ req'[p] = req[p] /\ ids'[p] \subseteq ids[p]
<1>1. CASE Set(p) \/ Send(p) \/ Count(p) \/ Mark(p) \/ Show(p)
  <2>1. list' = list /\ cleaned' = cleaned
    BY <1>1 DEF Set, Send, Count, Mark, Show, SetRec, store, history
  <2> QED BY <1>1, <2>1, WriteFacts DEF Ended, Went
<1>2. CASE Get(p)
  <2>1. list' = list /\ cleaned' = cleaned BY <1>2 DEF Get, store
  <2> QED BY <1>2, <2>1, GetFacts DEF Ended, Went
<1>3. CASE Mget(p)
  <2>1. list' = list /\ cleaned' = cleaned BY <1>3 DEF Mget, store, history
  <2> QED BY <1>3, <2>1, MgetFacts DEF Ended, Went
<1>4. CASE Fail(p) \/ CleanFails(p) \/ Kill(p)
  <2>1. list' = list /\ cleaned' = cleaned
    BY <1>4 DEF Fail, CleanFails, Kill, store, history
  <2> QED BY <1>4, <2>1, FailFacts DEF Ended, Went
<1> QED BY <1>1, <1>2, <1>3, <1>4 DEF Plain

LEMMA ReadsStay ==
  ASSUME NEW p \in Procs, Others(p), ids'[p] = {} \/ (req'[p] = req[p] /\ ids'[p] \subseteq ids[p]),
         NEW q \in Procs, NEW k, NEW r, ReadIn(q, k, r)'
  PROVE  ReadIn(q, k, r)
BY DEF ReadIn, Others, Same

LEMMA PendingStays ==
  ASSUME StoreT, NEW r \in Ids, wtodo'[r] = wtodo[r],
         wpc'[r] = wpc[r] \/ (wpc[r] = "none" /\ wpc'[r] = "get")
  PROVE  Pending(r)' = Pending(r)
<1>1. CASE wpc'[r] = wpc[r]
  <2> DEFINE P(w, s) == CASE w \in {"none", "get", "home"} -> Keys
                          [] w = "followers" -> Actives(Users) \cup {Recent}
                          [] w = "active" -> Actives(s) \cup {Recent}
                          [] w = "recent" -> {Recent}
                          [] w = "done" -> {}
  <2>1. Pending(r) = P(wpc[r], wtodo[r]) BY DEF Pending
  <2>2. Pending(r)' = P(wpc'[r], wtodo'[r]) BY DEF Pending, Actives
  <2> HIDE DEF P
  <2> QED BY <1>1, <2>1, <2>2
<1>2. CASE wpc[r] = "none" /\ wpc'[r] = "get" BY <1>2 DEF Pending
<1> QED BY <1>1, <1>2

\* Nothing is pushed, taken off or read.
LEMMA PShrinks ==
  ASSUME PInv, UNCHANGED <<list, cleaned>>,
         \A r \in Ids : Pending(r)' \subseteq Pending(r),
         \A q \in Procs, k \in Keys, r \in Ids : ReadIn(q, k, r)' => ReadIn(q, k, r)
  PROVE  PInv'
<1>1. \A k \in Keys : OneEach(list'[k]) BY DEF PInv
<1>2. ASSUME NEW k \in Keys, NEW r \in Ids
      PROVE  /\ In(list'[k], r) => k \notin Pending(r)'
             /\ <<k, r>> \in cleaned' => k \notin Pending(r)' /\ ~ In(list'[k], r)
             /\ \A p \in Procs : ReadIn(p, k, r)' => k \notin Pending(r)'
  BY DEF PInv
<1> QED BY <1>1, <1>2 DEF PInv

LEMMA PlainP == ASSUME TInv, PInv, NEW p \in Procs, Plain(p) PROVE PInv'
<1>1. StoreT BY DEF TInv
<1>2. \A r \in Ids : Pending(r)' = Pending(r)
  <2>1. CASE Send(p)
    <3>1. Now(p) = "send" BY <2>1, WriteFacts
    <3>2. req[p].id \in Ids /\ wpc[req[p].id] = "none" BY <1>1, <3>1, SeqFacts DEF TInv, LocalOK
    <3>3. wpc' = [wpc EXCEPT ![req[p].id] = "get"] /\ wtodo' = wtodo BY <2>1 DEF Send
    <3>4. \A r \in Ids : wpc'[r] = wpc[r] \/ (wpc[r] = "none" /\ wpc'[r] = "get")
      BY <1>1, <3>2, <3>3 DEF StoreT
    <3> QED BY <1>1, <3>3, <3>4, PendingStays
  <2>2. CASE UNCHANGED worker BY <1>1, <2>2, PendingStays DEF worker
  <2> QED BY <2>1, <2>2
       DEF Plain, Set, SetRec, Count, Get, Mark, Show, Mget, Fail, CleanFails, Kill
<1> QED BY <1>2, PlainFacts, PShrinks, ReadsStay

LEMMA BeginP == ASSUME TInv, PInv, NEW p \in Procs, NEW q \in Requests, Begin(p, q) PROVE PInv'
<1>1. StoreT /\ RequestsT BY DEF TInv
<1>2. Now(p) = "none" BY <1>1, NowFacts DEF Begin
<1>3. ids[p] = {} /\ ids' = ids BY <1>2 DEF TInv, LocalOK, Begin
<1>4. Others(p) BY <1>1 DEF Begin, RequestsT, Others, Same
<1>5. UNCHANGED <<list, cleaned, worker>> BY DEF Begin, store
<1>6. \A r \in Ids : Pending(r)' = Pending(r) BY <1>1, <1>5, PendingStays DEF worker
<1> QED BY <1>3, <1>4, <1>5, <1>6, PShrinks, ReadsStay

LEMMA IncrP == ASSUME TInv, PInv, NEW p \in Procs, Incr(p) PROVE PInv'
<1>1. StoreT /\ RequestsT BY DEF TInv
<1>2. Now(p) = "incr" /\ Others(p) /\ ids' = ids BY IncrFacts
<1>3. ids[p] = {} BY <1>2 DEF TInv, LocalOK
<1>5. UNCHANGED <<list, cleaned, worker>> BY DEF Incr, history
<1>6. \A r \in Ids : Pending(r)' = Pending(r) BY <1>1, <1>5, PendingStays DEF worker
<1> QED BY <1>2, <1>3, <1>5, <1>6, PShrinks, ReadsStay

LEMMA RangeP == ASSUME TInv, PInv, NEW p \in Procs, RangePage(p) PROVE PInv'
<1>1. RequestsT /\ StoreT BY DEF TInv
<1>2. Now(p) = "range" /\ ~ Idle(p) BY <1>1, SendsFacts DEF RangePage, Names
<1>3. req[p].key \in Keys /\ req[p].page \in Pages BY <1>1, <1>2, CommandFacts
<1>4. PICK S : S = Page(list[req[p].key], req[p].page) OBVIOUS
<1>5. S \subseteq Stored /\ \A r \in S : In(list[req[p].key], r) BY <1>3, <1>4, PageFacts
<1>6. UNCHANGED <<store, worker, history>> BY DEF RangePage
<1>7. \A r \in Ids : Pending(r)' = Pending(r) BY <1>1, <1>6, PendingStays DEF worker
<1>8. CASE S = {}
  <2>1. Clear(p) BY <1>4, <1>8 DEF RangePage
  <2>2. Others(p) /\ ids'[p] = {} BY <1>1, <2>1, ClearFacts DEF Ended
  <2> QED BY <1>6, <1>7, <2>2, PShrinks, ReadsStay DEF store, history
<1>9. CASE S # {}
  <2>1. /\ ids' = [ids EXCEPT ![p] = S] /\ req' = req /\ copy' = copy
    BY <1>4, <1>9 DEF RangePage
  <2>2. list' = list /\ cleaned' = cleaned BY <1>6 DEF store, history
  <2>3. ASSUME NEW q \in Procs, NEW k \in Keys, NEW r \in Ids, ReadIn(q, k, r)'
        PROVE  k \notin Pending(r)
    <3>1. CASE q = p
      <4>1. ids'[p] = S BY <1>1, <2>1 DEF RequestsT
      <4>2. r \in S /\ k = req[p].key BY <2>1, <2>3, <3>1, <4>1 DEF ReadIn
      <4> QED BY <1>5, <4>2 DEF PInv
    <3>2. CASE q # p
      <4>1. ReadIn(q, k, r) BY <1>1, <2>1, <2>3, <3>2 DEF ReadIn, RequestsT
      <4> QED BY <4>1 DEF PInv
    <3> QED BY <3>1, <3>2
  <2>4. \A k \in Keys : OneEach(list'[k]) BY <2>2 DEF PInv
  <2>5. ASSUME NEW k \in Keys, NEW r \in Ids
        PROVE  /\ In(list'[k], r) => k \notin Pending(r)'
               /\ <<k, r>> \in cleaned' => k \notin Pending(r)' /\ ~ In(list'[k], r)
               /\ \A q \in Procs : ReadIn(q, k, r)' => k \notin Pending(r)'
    BY <1>7, <2>2, <2>3 DEF PInv
  <2> QED BY <2>4, <2>5 DEF PInv
<1> QED BY <1>8, <1>9

LEMMA CleanFacts ==
  ASSUME TInv, NEW p \in Procs, Clean(p)
  PROVE  /\ Now(p) = "clean" /\ req[p].key \in Keys
         /\ Others(p) /\ ids'[p] \subseteq ids[p]
         /\ Ended(p) \/ (req' = req /\ Now(p)' = "clean" /\ copy' = copy)
         /\ \E r \in ids[p] :
              LET k == req[p].key
              IN  /\ r \in Ids /\ cleaned' = cleaned \cup {<<k, r>>}
                  /\ \A x \in Keys \ {k} : list'[x] = list[x]
                  /\ \A e : In(list'[k], e) <=> In(list[k], e) /\ e # r
                  /\ OneEach(list[k]) => OneEach(list'[k])
<1>1. RequestsT /\ StoreT BY DEF TInv
<1>2. Now(p) = "clean" /\ ~ Idle(p) BY <1>1, SendsFacts DEF Clean, Names
<1>3. req[p].key \in Keys BY <1>1, <1>2, CommandFacts
<1>4. PICK r \in ids[p] : /\ list' = [list EXCEPT ![req[p].key] = Without(list[req[p].key], r)]
                          /\ cleaned' = cleaned \cup {<<req[p].key, r>>}
                          /\ NextClean(p, r)
  BY DEF Clean
<1>5. r \in Ids BY <1>1 DEF RequestsT
<1>6. Stored' = Stored BY DEF Clean, Stored
<1>7. /\ Others(p) /\ ids'[p] \subseteq ids[p]
      /\ Ended(p) \/ (req' = req /\ Now(p)' = "clean" /\ copy' = copy)
  BY <1>2, <1>4, <1>6, NextCleanFacts
<1>8. list[req[p].key] \in Seq(Stored) BY <1>1, <1>3 DEF StoreT
<1>9. /\ list'[req[p].key] = Without(list[req[p].key], r)
      /\ \A x \in Keys \ {req[p].key} : list'[x] = list[x]
  BY <1>1, <1>3, <1>4 DEF StoreT
<1>10. /\ \A e : In(list'[req[p].key], e) <=> In(list[req[p].key], e) /\ e # r
       /\ OneEach(list[req[p].key]) => OneEach(list'[req[p].key])
  BY <1>8, <1>9, WithoutFacts
<1> QED BY <1>2, <1>3, <1>4, <1>5, <1>7, <1>9, <1>10

LEMMA CleanP == ASSUME TInv, PInv, NEW p \in Procs, Clean(p) PROVE PInv'
<1>1. StoreT /\ RequestsT BY DEF TInv
<1>2. PICK k \in Keys : k = req[p].key BY CleanFacts
<1>3. PICK r \in ids[p] :
        /\ r \in Ids /\ cleaned' = cleaned \cup {<<k, r>>}
        /\ \A x \in Keys \ {k} : list'[x] = list[x]
        /\ \A e : In(list'[k], e) <=> In(list[k], e) /\ e # r
        /\ OneEach(list[k]) => OneEach(list'[k])
  BY <1>2, CleanFacts
<1>4. /\ Others(p) /\ ids'[p] \subseteq ids[p]
      /\ Ended(p) \/ req' = req
  BY CleanFacts
<1>5. \A y \in Ids : Pending(y)' = Pending(y)
  <2>1. UNCHANGED worker BY DEF Clean
  <2> QED BY <1>1, <2>1, PendingStays DEF worker
<1>6. k \notin Pending(r) BY <1>2, <1>3 DEF PInv, ReadIn
<1>7. \A x \in Keys : OneEach(list'[x]) BY <1>3 DEF PInv
<1>8. \A x \in Keys, y \in Ids : In(list'[x], y) => In(list[x], y) BY <1>3
<1>9. \A q \in Procs, x \in Keys, y \in Ids : ReadIn(q, x, y)' => ReadIn(q, x, y)
  <2>1. ids'[p] = {} \/ (req'[p] = req[p] /\ ids'[p] \subseteq ids[p]) BY <1>4 DEF Ended
  <2> QED BY <1>4, <2>1, ReadsStay
<1>10. ASSUME NEW x \in Keys, NEW y \in Ids
       PROVE  /\ In(list'[x], y) => x \notin Pending(y)'
              /\ <<x, y>> \in cleaned' => x \notin Pending(y)' /\ ~ In(list'[x], y)
              /\ \A q \in Procs : ReadIn(q, x, y)' => x \notin Pending(y)'
  <2>1. In(list'[x], y) => x \notin Pending(y)' BY <1>5, <1>8 DEF PInv
  <2>2. <<x, y>> \in cleaned' => x \notin Pending(y)' /\ ~ In(list'[x], y)
    <3>1. CASE x = k /\ y = r BY <1>3, <1>5, <1>6, <3>1
    <3>2. CASE ~ (x = k /\ y = r)
      <4>1. <<x, y>> \in cleaned' => <<x, y>> \in cleaned BY <1>3, <3>2
      <4> QED BY <4>1, <1>5, <1>8 DEF PInv
    <3> QED BY <3>1, <3>2
  <2>3. \A q \in Procs : ReadIn(q, x, y)' => x \notin Pending(y)' BY <1>5, <1>9 DEF PInv
  <2> QED BY <2>1, <2>2, <2>3
<1> QED BY <1>7, <1>10 DEF PInv

\* A worker pushes what is pending, gives it up, or goes on with it.
LEMMA WorkerFacts ==
  ASSUME TInv, NEW r \in Ids, WorkerStep(r)
  PROVE  /\ UNCHANGED <<seq, rec, owner, count, followers, local, asked, steady, cleaned,
                        drift, overlapped, intent>>
         /\ \A x \in Ids \ {r} : Pending(x)' = Pending(x) /\ wpc'[x] = wpc[x] /\ lost'[x] = lost[x]
         /\ wpc[r] # "none" /\ wpc'[r] # "none"
         /\ wpc'[r] \in {"home", "followers"} => wpc[r] \in {"get", "home"}
         /\ wpc'[r] # "get"
         /\ lost[r] \subseteq lost'[r]
         /\ \/ /\ list' = list /\ Pending(r)' \subseteq Pending(r)
               /\ \/ ReadFollowers(r)
                  \/ Due(r) \cap Pending(r) \subseteq Pending(r)' \cup lost'[r]
            \/ \E k \in Pending(r) :
                 /\ k \in Keys /\ Push(r, k) /\ Pending(r)' \subseteq Pending(r) \ {k}
                 /\ Due(r) \cap Pending(r) \subseteq Pending(r)' \cup {k}
<1>1. RequestsT /\ StoreT /\ HistoryT BY DEF TInv
<1>2. wpc[r] # "none"
  BY DEF WorkerStep, WGet, LinkToHome, ReadFollowers, LinkToActive, LinkToRecent, WFail, WKill
<1>3. r \in Stored /\ owner[r] \in Users /\ Home(owner[r]) \in Keys BY <1>2, WorksFor
<1>4. UNCHANGED <<seq, rec, owner, count, followers, local, asked, steady, cleaned,
                  drift, overlapped, intent>>
  BY DEF WorkerStep, WGet, LinkToHome, ReadFollowers, LinkToActive, LinkToRecent, WFail, WKill,
         Loses, store, history
<1>5. ASSUME NEW c, WGoTo(r, c) PROVE wpc'[r] = c /\ \A x \in Ids \ {r} : wpc'[x] = wpc[x]
  BY <1>1, <1>5 DEF WGoTo, StoreT
<1>6. ASSUME NEW S, Loses(r, S)
      PROVE  lost'[r] = lost[r] \cup S /\ \A x \in Ids \ {r} : lost'[x] = lost[x]
  BY <1>1, <1>6 DEF Loses, HistoryT
<1>7. ASSUME NEW S, wtodo' = [wtodo EXCEPT ![r] = S]
      PROVE  wtodo'[r] = S /\ \A x \in Ids \ {r} : wtodo'[x] = wtodo[x]
  BY <1>1, <1>7 DEF StoreT
<1>8. \A x \in Ids \ {r} : wtodo'[x] = wtodo[x] /\ wpc'[x] = wpc[x] /\ lost'[x] = lost[x]
  BY <1>5, <1>6, <1>7
     DEF WorkerStep, WGet, LinkToHome, ReadFollowers, LinkToActive, LinkToRecent, WFail, WKill,
         Pushed, history, Loses
<1>9. \A x \in Ids \ {r} : Pending(x)' = Pending(x) BY <1>1, <1>8, PendingStays
<1>10. /\ Home(owner[r]) \in Keys /\ Recent \in Keys
       /\ \A u \in Users : Active(u) \in Keys
       /\ \A u, v \in Users : /\ Home(u) # Active(v) /\ Home(u) # Recent /\ Active(u) # Recent
                              /\ Active(u) = Active(v) => u = v
  BY <1>3, KeysFacts
<1>11. wtodo[r] \subseteq Users /\ steady[r] \subseteq Users BY <1>1 DEF StoreT, HistoryT
<1>12. Due(r) \subseteq {Home(owner[r]), Recent} \cup Actives(Users)
  BY <1>3, <1>11 DEF Due, Actives
<1>13. /\ \A x : x \in Actives(Users) <=> \E u \in Users : x = Active(u)
       /\ \A x : x \in Actives(wtodo[r]) <=> \E u \in wtodo[r] : x = Active(u)
       /\ \A x, v : x \in Actives(wtodo[r] \ {v}) <=> \E u \in wtodo[r] \ {v} : x = Active(u)
       /\ Actives(wtodo[r]) \subseteq Actives(Users) /\ Actives(Users) \subseteq Keys
  BY <1>10, <1>11 DEF Actives
<1> DEFINE Kept == /\ list' = list /\ Pending(r)' \subseteq Pending(r)
                   /\ \/ ReadFollowers(r)
                      \/ Due(r) \cap Pending(r) \subseteq Pending(r)' \cup lost'[r]
           Done == \E k \in Pending(r) :
                     /\ k \in Keys /\ Push(r, k) /\ Pending(r)' \subseteq Pending(r) \ {k}
                     /\ Due(r) \cap Pending(r) \subseteq Pending(r)' \cup {k}
           Right == /\ wpc'[r] # "none"
                    /\ wpc'[r] \in {"home", "followers"} => wpc[r] \in {"get", "home"}
                    /\ wpc'[r] # "get"
                    /\ lost[r] \subseteq lost'[r]
                    /\ Kept \/ Done
<1> SUFFICES Right BY <1>2, <1>4, <1>8, <1>9
<1>14. CASE WGet(r)
  <2>1. wpc[r] = "get" /\ wpc'[r] = "home" /\ list' = list /\ lost' = lost
    BY <1>5, <1>14 DEF WGet, store, history
  <2>2. Pending(r) = Keys /\ Pending(r)' = Keys BY <2>1 DEF Pending
  <2> QED BY <2>1, <2>2
<1>15. CASE LinkToHome(r)
  <2>1. /\ wpc[r] = "home" /\ wpc'[r] = "followers" /\ lost' = lost
        /\ Push(r, Home(owner[r]))
    BY <1>5, <1>15 DEF LinkToHome, history
  <2>2. Pending(r) = Keys /\ Pending(r)' = Actives(Users) \cup {Recent}
    BY <2>1 DEF Pending, Actives
  <2>3. Home(owner[r]) \notin Pending(r)' BY <1>3, <1>10, <1>13, <2>2
  <2>4. Due(r) \cap Pending(r) \subseteq Pending(r)' \cup {Home(owner[r])} BY <1>12, <2>2
  <2>5. Pending(r)' \subseteq Keys BY <1>10, <1>13, <2>2
  <2> QED BY <1>3, <2>1, <2>2, <2>3, <2>4, <2>5
<1>16. CASE ReadFollowers(r)
  <2>1. wpc[r] = "followers" /\ wpc'[r] = "active" /\ list' = list /\ lost' = lost
    BY <1>5, <1>16 DEF ReadFollowers, store, history
  <2>2. /\ Pending(r) = Actives(Users) \cup {Recent}
        /\ Pending(r)' = Actives(wtodo'[r]) \cup {Recent}
    BY <2>1 DEF Pending, Actives
  <2>3. wtodo'[r] \subseteq Users BY <1>1, <1>3, <1>7, <1>16 DEF ReadFollowers, StoreT
  <2>4. Actives(wtodo'[r]) \subseteq Actives(Users) BY <2>3 DEF Actives
  <2> QED BY <1>16, <2>1, <2>2, <2>4
<1>17. ASSUME NEW u \in wtodo[r], Pushed(r, u), wpc[r] = "active"
       PROVE  /\ wpc'[r] \in {"active", "recent"} /\ Active(u) \in Keys
              /\ Pending(r) = Actives(wtodo[r]) \cup {Recent}
              /\ Pending(r)' = Actives(wtodo[r] \ {u}) \cup {Recent}
              /\ Active(u) \in Pending(r) /\ Active(u) \notin Pending(r)'
              /\ Pending(r)' \subseteq Pending(r)
              /\ Pending(r) \subseteq Pending(r)' \cup {Active(u)}
  <2>1. wtodo'[r] = wtodo[r] \ {u} BY <1>7, <1>17 DEF Pushed
  <2>2. wpc'[r] = IF wtodo[r] = {u} THEN "recent" ELSE "active" BY <1>5, <1>17 DEF Pushed
  <2>3. Pending(r) = Actives(wtodo[r]) \cup {Recent} BY <1>17 DEF Pending
  <2>4. Pending(r)' = Actives(wtodo[r] \ {u}) \cup {Recent}
    <3>1. CASE wtodo[r] = {u}
      <4>1. Pending(r)' = {Recent} BY <2>2, <3>1 DEF Pending
      <4>2. Actives(wtodo[r] \ {u}) = {} BY <3>1 DEF Actives
      <4> QED BY <4>1, <4>2
    <3>2. CASE wtodo[r] # {u} BY <2>1, <2>2, <3>2 DEF Pending, Actives
    <3> QED BY <3>1, <3>2
  <2>5. \A v \in wtodo[r] \ {u} : Active(v) # Active(u) BY <1>10, <1>11
  <2>6. Active(u) \notin Actives(wtodo[r] \ {u}) /\ Active(u) # Recent
    BY <1>10, <1>11, <1>13, <2>5
  <2>7. /\ Actives(wtodo[r] \ {u}) \subseteq Actives(wtodo[r])
        /\ Actives(wtodo[r]) \subseteq Actives(wtodo[r] \ {u}) \cup {Active(u)}
        /\ Active(u) \in Actives(wtodo[r])
    BY <1>17 DEF Actives
  <2>8. Active(u) \in Keys BY <1>10, <1>11
  <2> QED BY <2>2, <2>3, <2>4, <2>6, <2>7, <2>8
<1>18. CASE LinkToActive(r)
  <2>1. PICK u \in wtodo[r] : Push(r, Active(u)) /\ Pushed(r, u) BY <1>18 DEF LinkToActive
  <2>2. lost' = lost /\ wpc[r] = "active" BY <1>18 DEF LinkToActive, history
  <2>3. /\ wpc'[r] \in {"active", "recent"} /\ Active(u) \in Keys
        /\ Active(u) \in Pending(r) /\ Active(u) \notin Pending(r)'
        /\ Pending(r)' \subseteq Pending(r) /\ Pending(r) \subseteq Pending(r)' \cup {Active(u)}
    BY <1>17, <2>1, <2>2
  <2>4. Done
    <3>1. PICK k : k = Active(u) OBVIOUS
    <3>2. /\ k \in Pending(r) /\ k \in Keys /\ Push(r, k)
          /\ Pending(r)' \subseteq Pending(r) \ {k}
          /\ Due(r) \cap Pending(r) \subseteq Pending(r)' \cup {k}
      BY <2>1, <2>3, <3>1
    <3> QED BY <3>2
  <2> HIDE DEF Done, Kept
  <2> QED BY <2>2, <2>3, <2>4
<1>19. CASE LinkToRecent(r)
  <2>1. wpc[r] = "recent" /\ wpc'[r] = "done" /\ lost' = lost /\ Push(r, Recent)
    BY <1>5, <1>19 DEF LinkToRecent, history
  <2>2. Pending(r) = {Recent} /\ Pending(r)' = {} BY <2>1 DEF Pending
  <2> QED BY <1>10, <2>1, <2>2
<1>20. CASE WFail(r)
  <2>1. list' = list BY <1>20 DEF WFail, Loses, store
  <2>2. CASE wpc[r] = "get" /\ Loses(r, Keys) /\ WGoTo(r, "done")
    <3>1. Pending(r) = Keys /\ Pending(r)' = {} BY <1>5, <2>2 DEF Pending
    <3> QED BY <1>5, <1>6, <2>1, <2>2, <3>1
  <2>3. CASE wpc[r] = "home" /\ Loses(r, {Home(owner[r])}) /\ WGoTo(r, "followers")
    <3>1. wpc'[r] = "followers" BY <1>5, <2>3
    <3>2. Pending(r) = Keys /\ Pending(r)' = Actives(Users) \cup {Recent}
      BY <2>3, <3>1 DEF Pending, Actives
    <3>3. Pending(r)' \subseteq Keys BY <1>10, <1>13, <3>2
    <3>4. Due(r) \cap Pending(r) \subseteq Pending(r)' \cup lost'[r] BY <1>6, <1>12, <2>3, <3>2
    <3> QED BY <1>6, <2>1, <2>3, <3>1, <3>2, <3>3, <3>4
  <2>4. CASE wpc[r] = "followers" /\ Loses(r, Actives(Users)) /\ WGoTo(r, "recent")
    <3>1. Pending(r) = Actives(Users) \cup {Recent} /\ Pending(r)' = {Recent}
      BY <1>5, <2>4 DEF Pending
    <3> QED BY <1>5, <1>6, <2>1, <2>4, <3>1
  <2>5. CASE wpc[r] = "active" /\ \E u \in wtodo[r] : Loses(r, {Active(u)}) /\ Pushed(r, u)
    <3>1. PICK u \in wtodo[r] : Loses(r, {Active(u)}) /\ Pushed(r, u) BY <2>5
    <3>2. /\ wpc'[r] \in {"active", "recent"}
          /\ Pending(r)' \subseteq Pending(r) /\ Pending(r) \subseteq Pending(r)' \cup {Active(u)}
      BY <1>17, <2>5, <3>1
    <3>3. lost'[r] = lost[r] \cup {Active(u)} BY <1>6, <3>1
    <3>4. Kept BY <2>1, <3>2, <3>3
    <3> HIDE DEF Done, Kept
    <3> QED BY <3>2, <3>3, <3>4
  <2>6. CASE wpc[r] = "recent" /\ Loses(r, {Recent}) /\ WGoTo(r, "done")
    <3>1. Pending(r) = {Recent} /\ Pending(r)' = {} BY <1>5, <2>6 DEF Pending
    <3> QED BY <1>5, <1>6, <2>1, <2>6, <3>1
  <2> QED BY <1>20, <2>2, <2>3, <2>4, <2>5, <2>6 DEF WFail
<1>21. CASE WKill(r)
  <2>1. /\ list' = list /\ wpc'[r] = "done" /\ wpc[r] \notin {"none", "done"}
        /\ lost'[r] = lost[r] \cup Remaining(r)
    BY <1>5, <1>6, <1>21 DEF WKill, Loses, store
  <2>2. wpc[r] \in {"get", "home", "followers", "active", "recent"}
    BY <1>1, <2>1 DEF StoreT, WorkerSteps
  <2>3. Remaining(r) = Pending(r) BY <2>2 DEF Remaining, Pending
  <2>4. Pending(r)' = {} BY <2>1 DEF Pending
  <2> QED BY <2>1, <2>3, <2>4
<1> HIDE DEF Right
<1> QED BY <1>14, <1>15, <1>16, <1>18, <1>19, <1>20, <1>21 DEF WorkerStep

LEMMA WorkersP == ASSUME TInv, PInv, NEW r \in Ids, WorkerStep(r) PROVE PInv'
<1>1. UNCHANGED local /\ cleaned' = cleaned /\ wpc[r] # "none"
      /\ \A x \in Ids \ {r} : Pending(x)' = Pending(x)
  BY WorkerFacts
<1>2. \A q \in Procs, k \in Keys, x \in Ids : ReadIn(q, k, x)' => ReadIn(q, k, x)
  BY <1>1 DEF ReadIn, local
<1>3. CASE list' = list /\ Pending(r)' \subseteq Pending(r)
  BY <1>1, <1>2, <1>3, PShrinks
<1>4. CASE \E k \in Pending(r) : /\ k \in Keys /\ Push(r, k)
                                 /\ Pending(r)' \subseteq Pending(r) \ {k}
  <2>1. PICK k \in Keys : /\ k \in Pending(r) /\ Push(r, k)
                          /\ Pending(r)' \subseteq Pending(r) \ {k}
    BY <1>4
  <2>2. r \in Stored BY <1>1, WorksFor
  <2>3. ~ In(list[k], r) /\ <<k, r>> \notin cleaned /\ OneEach(list[k]) BY <2>1 DEF PInv
  <2>4. /\ \A x \in Keys \ {k} : list'[x] = list[x]
        /\ \A e : In(list'[k], e) <=> In(list[k], e) \/ e = r
        /\ OneEach(list'[k])
    BY <2>1, <2>2, <2>3, PushFacts
  <2>5. \A x \in Ids : Pending(x)' \subseteq Pending(x) BY <1>1, <2>1
  <2>6. \A x \in Keys : OneEach(list'[x]) BY <2>4 DEF PInv
  <2>7. ASSUME NEW x \in Keys, NEW y \in Ids
        PROVE  /\ In(list'[x], y) => x \notin Pending(y)'
               /\ <<x, y>> \in cleaned' => x \notin Pending(y)' /\ ~ In(list'[x], y)
               /\ \A q \in Procs : ReadIn(q, x, y)' => x \notin Pending(y)'
    <3>1. CASE x = k /\ y = r
      <4>1. x \notin Pending(y)' BY <2>1, <3>1
      <4> QED BY <1>1, <2>3, <3>1, <4>1
    <3>2. CASE ~ (x = k /\ y = r)
      <4>1. In(list'[x], y) <=> In(list[x], y) BY <2>4, <3>2
      <4> QED BY <1>1, <1>2, <2>5, <4>1 DEF PInv
    <3> QED BY <3>1, <3>2
  <2> QED BY <2>6, <2>7 DEF PInv
<1> QED BY <1>3, <1>4, WorkerFacts

LEMMA InitP == Init => PInv
<1> SUFFICES ASSUME Init PROVE PInv OBVIOUS
<1>1. \A k \in Keys : list[k] = << >> BY DEF Init
<1>2. \A k \in Keys, r \in Ids : OneEach(list[k]) /\ ~ In(list[k], r)
  BY <1>1 DEF OneEach, In
<1>3. \A k \in Keys : OneEach(list[k]) BY <1>1 DEF OneEach
<1>4. cleaned = {} /\ \A p \in Procs : ids[p] = {} BY DEF Init
<1> QED BY <1>2, <1>3, <1>4 DEF PInv, ReadIn

LEMMA NextP == TInv /\ PInv /\ [Next]_vars => PInv'
<1> SUFFICES ASSUME TInv, PInv, [Next]_vars PROVE PInv' OBVIOUS
<1>1. ASSUME NEW p \in Procs, NEW q \in Requests, Begin(p, q) PROVE PInv' BY <1>1, BeginP
<1>2. ASSUME NEW p \in Procs, Incr(p) PROVE PInv' BY <1>2, IncrP
<1>3. ASSUME NEW p \in Procs, Plain(p) PROVE PInv' BY <1>3, PlainP
<1>4. ASSUME NEW p \in Procs, RangePage(p) PROVE PInv' BY <1>4, RangeP
<1>5. ASSUME NEW p \in Procs, Clean(p) PROVE PInv' BY <1>5, CleanP
<1>6. ASSUME NEW r \in Ids, WorkerStep(r) PROVE PInv' BY <1>6, WorkersP
<1>7. CASE \/ \E u, v \in Users : FollowersChange(u, v)
           \/ UNCHANGED vars
  <2>1. UNCHANGED <<list, cleaned, local, worker>>
    BY <1>7 DEF FollowersChange, vars, store, history
  <2>2. \A r \in Ids : Pending(r)' = Pending(r)
    BY <2>1, PendingStays DEF TInv, worker
  <2>3. \A q \in Procs, k \in Keys, r \in Ids : ReadIn(q, k, r)' => ReadIn(q, k, r)
    BY <2>1 DEF ReadIn, local
  <2> QED BY <2>1, <2>2, <2>3, PShrinks
<1> QED BY <1>1, <1>2, <1>3, <1>4, <1>5, <1>6, <1>7 DEF Next, Plain, WorkerStep

LEMMA PInvHolds == Spec => []PInv
BY InitP, NextP, TInvHolds, PTL DEF Spec

\* A list never has a record twice, and one that a reader took off it does not
\* come back, for any number of users, records, readers and failures
\* (worker.cc:42-72, RecordApi.cc:11-22).
THEOREM PushedOnceHolds == Spec => []PushedOnce
<1>1. TInv /\ PInv => PushedOnce
  <2> SUFFICES ASSUME TInv, PInv, NEW k \in Keys, NEW r \in Ids
               PROVE  Cardinality({i \in DOMAIN list[k] : list[k][i] = r})
                        + (IF <<k, r>> \in cleaned THEN 1 ELSE 0) <= 1
    BY DEF PushedOnce
  <2> DEFINE S == {i \in DOMAIN list[k] : list[k][i] = r}
  <2>1. DOMAIN list[k] = 1 .. Len(list[k]) BY DEF TInv, StoreT
  <2>2. CASE In(list[k], r)
    <3>1. PICK i \in 1 .. Len(list[k]) : list[k][i] = r BY <2>2 DEF In
    <3>2. S = {i} BY <2>1, <3>1 DEF PInv, OneEach
    <3>3. Cardinality(S) = 1 BY <3>2, FS_Singleton
    <3>4. <<k, r>> \notin cleaned BY <2>2 DEF PInv
    <3> QED BY <3>3, <3>4
  <2>3. CASE ~ In(list[k], r)
    <3>1. S = {} BY <2>1, <2>3 DEF In
    <3>2. Cardinality(S) = 0 BY <3>1, FS_EmptySet
    <3> QED BY <3>2
  <2> QED BY <2>2, <2>3
<1> QED BY <1>1, TInvHolds, PInvHolds, PTL
-----------------------------------------------------------------------------
(* A record is as its author has asked.                                    *)

Changing == {"mark", "show"}

LEMMA ChangingFacts ==
  ASSUME TInv, NEW p \in Procs, Now(p) \in Changing
  PROVE  /\ req[p].id \in Ids /\ copy[p] \in Record /\ rec[req[p].id] \in Record
         /\ intent[req[p].id] \in Record /\ Changes(req[p], req[p].id)
         /\ req[p].id \in Stored
<1>1. RequestsT /\ StoreT /\ HistoryT /\ LocalOK(p) BY DEF TInv
<1>2. req[p].id \in Ids /\ req[p].op \in {"delete", "publish"}
  BY <1>1, CommandFacts DEF Changing
<1>3. copy[p] \in Record /\ rec[req[p].id] # NoRecord BY <1>1 DEF LocalOK, Changing
<1> QED BY <1>1, <1>2, <1>3, SeqFacts DEF StoreT, HistoryT, Changes

\* What a step that is not a beginning does to the requests for a change.
LEMMA ChangesStay ==
  ASSUME ChangesOnce, overlapped' = overlapped, NEW p \in Procs, Others(p),
         Ended(p) \/ req'[p] = req[p] \/ req'[p].op = "create"
  PROVE  ChangesOnce'
<1>1. \A q \in Procs, r \in Ids : Changes(req'[q], r) => Changes(req[q], r)
  BY DEF Changes, Others, Same, Ended, Idle, NoRequest
<1> QED BY <1>1 DEF ChangesOnce

LEMMA AQuiet ==
  ASSUME AInv, UNCHANGED <<rec, intent>>, overlapped \subseteq overlapped', ChangesOnce',
         \A q \in Procs : Now(q)' \in Changing =>
           \/ Now(q) \in Changing /\ req'[q] = req[q] /\ copy'[q] = copy[q]
           \/ copy'[q] = rec[req'[q].id]
  PROVE  AInv'
<1>1. CopyOK' BY DEF AInv, CopyOK, Changing
<1>2. RecordAsAsked' BY DEF AInv, RecordAsAsked
<1> QED BY <1>1, <1>2 DEF AInv

LEMMA OthersChanging ==
  ASSUME NEW p \in Procs, Others(p), NEW q \in Procs \ {p}
  PROVE  Now(q)' = Now(q) /\ req'[q] = req[q] /\ copy'[q] = copy[q]
BY SameNow DEF Others, Same

LEMMA WriteA ==
  ASSUME TInv, AInv, NEW p \in Procs, NEW r \in Ids, r = req[p].id, Others(p),
         overlapped' = overlapped,
         \/ Now(p) = "set" /\ (Ended(p) \/ (Went(p) /\ copy' = copy))
         \/ Now(p) \in Changing /\ Ended(p),
         NEW new, NEW int, rec' = [rec EXCEPT ![r] = new], intent' = [intent EXCEPT ![r] = int],
         r \notin overlapped => new = int
  PROVE  AInv'
<1>1. RequestsT /\ StoreT /\ HistoryT /\ LocalOK(p) BY DEF TInv
<1>2. /\ rec'[r] = new /\ intent'[r] = int
      /\ \A x \in Ids \ {r} : rec'[x] = rec[x] /\ intent'[x] = intent[x]
  BY <1>1 DEF StoreT, HistoryT
<1>3. RecordAsAsked' BY <1>2 DEF AInv, RecordAsAsked
<1>4. ChangesOnce' BY ChangesStay DEF AInv, Went
<1>5. CopyOK'
  <2> SUFFICES ASSUME NEW q \in Procs, Now(q)' \in Changing, req'[q].id \notin overlapped
               PROVE  copy'[q] = rec'[req'[q].id]
    BY DEF CopyOK, Changing
  <2>1. q # p
    <3>1. Ended(p) => Now(p)' \notin Changing BY DEF Ended, Changing
    <3>2. Now(p) = "set" /\ Went(p) => Now(p)' \notin Changing BY DEF Went, After, Changing
    <3> QED BY <3>1, <3>2
  <2>2. Now(q) \in Changing /\ req'[q] = req[q] /\ copy'[q] = copy[q] BY <2>1, OthersChanging
  <2>3. /\ req[q].id \in Ids /\ rec[req[q].id] \in Record /\ Changes(req[q], req[q].id)
    BY <2>2, ChangingFacts
  <2>4. req[q].id # r
    <3>1. CASE Now(p) = "set" BY <1>1, <2>3, <3>1, NotARecord DEF LocalOK
    <3>2. CASE Now(p) \in Changing
      <4>1. Changes(req[p], r) BY <3>2, ChangingFacts
      <4> QED BY <2>1, <2>2, <2>3, <4>1 DEF AInv, ChangesOnce
    <3> QED BY <3>1, <3>2
  <2>5. copy[q] = rec[req[q].id] BY <2>2 DEF AInv, CopyOK, Changing
  <2> QED BY <1>2, <2>2, <2>3, <2>4, <2>5
<1> QED BY <1>3, <1>4, <1>5 DEF AInv

\* What the writes of a record write.
Written(p, r, new, int) ==
  /\ r = req[p].id
  /\ rec' = [rec EXCEPT ![r] = new] /\ intent' = [intent EXCEPT ![r] = int]
  /\ UNCHANGED <<seq, owner, list, count, followers, worker, failed, lost, cleaned,
                 overlapped>>
  /\ Others(p)
  /\ \/ /\ Set(p) /\ Now(p) = "set" /\ Went(p) /\ Now(p)' = "send" /\ copy' = copy
        /\ ids' = ids /\ rec[r] = NoRecord /\ new = int /\ new.del = FALSE
        /\ owner[r] = req[p].user /\ req[p].user \in Users
        /\ wpc[r] = "none" /\ r \in 1 .. seq
        /\ drift' = drift /\ steady' = [steady EXCEPT ![r] = followers[owner[r]]]
     \/ /\ Mark(p) /\ Now(p) = "mark" /\ Ended(p) /\ r \in Stored
        /\ new = [copy[p] EXCEPT !.del = TRUE] /\ int = [intent[r] EXCEPT !.del = TRUE]
        /\ steady' = steady
     \/ /\ Show(p) /\ Now(p) = "show" /\ Ended(p) /\ r \in Stored
        /\ req[p].pub \in BOOLEAN
        /\ new = [copy[p] EXCEPT !.pub = req[p].pub]
        /\ int = [intent[r] EXCEPT !.pub = req[p].pub]
        /\ drift' = drift /\ steady' = steady

LEMMA SetFacts ==
  ASSUME TInv, NEW p \in Procs, Set(p) \/ Mark(p) \/ Show(p)
  PROVE  \E r \in Ids, new, int \in Record : Written(p, r, new, int)
<1>1. RequestsT /\ StoreT /\ HistoryT /\ LocalOK(p) BY DEF TInv
<1>2. UNCHANGED <<seq, owner, list, count, followers, worker, failed, lost, cleaned,
                  overlapped>>
  BY DEF Set, Mark, Show, SetRec
<1>3. PICK r : r = req[p].id OBVIOUS
<1>4. CASE Set(p)
  <2>1. Now(p) = "set" /\ Others(p) BY <1>4, WriteFacts
  <2>2. Went(p) /\ Now(p)' = "send" /\ copy' = copy /\ ids' = ids
    <3>1. After(req[p].op, "set") = "send" BY DEF After
    <3> QED BY <1>4, <2>1, <3>1, WriteFacts DEF Went
  <2>3. PICK b \in BOOLEAN : b = req[p].pub BY <1>1, <2>1, CommandFacts
  <2>4. PICK new : new = [pub |-> b, del |-> FALSE] OBVIOUS
  <2>5. new \in Record /\ new.del = FALSE BY <2>4 DEF Record
  <2>6. /\ rec' = [rec EXCEPT ![r] = new] /\ intent' = [intent EXCEPT ![r] = new]
        /\ drift' = drift /\ steady' = [steady EXCEPT ![r] = followers[owner[r]]]
    BY <1>3, <1>4, <2>3, <2>4 DEF Set, SetRec
  <2>7. /\ rec[r] = NoRecord /\ r \in Ids /\ owner[r] = req[p].user /\ r \in 1 .. seq
    BY <1>1, <1>3, <2>1, SeqFacts DEF LocalOK
  <2>8. wpc[r] = "none" BY <1>1, <2>7 DEF StoreT
  <2>9. req[p].user \in Users BY <1>1, <2>1, CommandFacts
  <2> QED BY <1>2, <1>3, <1>4, <2>1, <2>2, <2>5, <2>6, <2>7, <2>8, <2>9 DEF Written
<1>5. CASE Mark(p)
  <2>1. Now(p) = "mark" /\ Others(p) BY <1>5, WriteFacts
  <2>2. Ended(p)
    <3>1. After(req[p].op, "mark") = "none" BY DEF After
    <3> QED BY <1>5, <2>1, <3>1, WriteFacts
  <2>3. /\ r \in Ids /\ copy[p] \in Record /\ intent[r] \in Record /\ r \in Stored
    BY <1>3, <2>1, ChangingFacts DEF Changing
  <2>4. PICK new, int : new = [copy[p] EXCEPT !.del = TRUE] /\ int = [intent[r] EXCEPT !.del = TRUE]
    OBVIOUS
  <2>5. new \in Record /\ int \in Record BY <2>3, <2>4, RecordFacts
  <2>6. /\ rec' = [rec EXCEPT ![r] = new] /\ intent' = [intent EXCEPT ![r] = int]
        /\ steady' = steady
    BY <1>3, <1>5, <2>4 DEF Mark, SetRec
  <2> QED BY <1>2, <1>3, <1>5, <2>1, <2>2, <2>3, <2>4, <2>5, <2>6 DEF Written
<1>6. CASE Show(p)
  <2>1. Now(p) = "show" /\ Others(p) BY <1>6, WriteFacts
  <2>2. Ended(p)
    <3>1. After(req[p].op, "show") = "none" BY DEF After
    <3> QED BY <1>6, <2>1, <3>1, WriteFacts
  <2>3. /\ r \in Ids /\ copy[p] \in Record /\ intent[r] \in Record /\ r \in Stored
        /\ req[p].pub \in BOOLEAN
    BY <1>1, <1>3, <2>1, ChangingFacts, CommandFacts DEF Changing
  <2>4. PICK new, int : /\ new = [copy[p] EXCEPT !.pub = req[p].pub]
                        /\ int = [intent[r] EXCEPT !.pub = req[p].pub]
    OBVIOUS
  <2>5. new \in Record /\ int \in Record BY <2>3, <2>4, RecordFacts
  <2>6. /\ rec' = [rec EXCEPT ![r] = new] /\ intent' = [intent EXCEPT ![r] = int]
        /\ steady' = steady /\ drift' = drift
    BY <1>3, <1>6, <2>4 DEF Show, SetRec
  <2> QED BY <1>2, <1>3, <1>6, <2>1, <2>2, <2>3, <2>4, <2>5, <2>6 DEF Written
<1> QED BY <1>4, <1>5, <1>6

LEMMA SetA == ASSUME TInv, AInv, NEW p \in Procs, Set(p) \/ Mark(p) \/ Show(p) PROVE AInv'
<1>1. PICK r \in Ids, new \in Record, int \in Record : Written(p, r, new, int) BY SetFacts
<1>2. r \notin overlapped => new = int
  <2> SUFFICES ASSUME r \notin overlapped PROVE new = int OBVIOUS
  <2>1. rec[r] = intent[r] BY DEF AInv, RecordAsAsked
  <2>2. Now(p) \in Changing => copy[p] = rec[r] BY <1>1 DEF Written, AInv, CopyOK, Changing
  <2>3. CASE Now(p) = "set" BY <1>1, <2>3 DEF Written
  <2>4. CASE Now(p) = "mark"
    <3>1. new = [copy[p] EXCEPT !.del = TRUE] /\ int = [intent[r] EXCEPT !.del = TRUE]
      BY <1>1, <2>4 DEF Written
    <3>2. copy[p] = intent[r] BY <2>1, <2>2, <2>4 DEF Changing
    <3> QED BY <3>1, <3>2
  <2>5. CASE Now(p) = "show"
    <3>1. /\ new = [copy[p] EXCEPT !.pub = req[p].pub]
          /\ int = [intent[r] EXCEPT !.pub = req[p].pub]
      BY <1>1, <2>5 DEF Written
    <3>2. copy[p] = intent[r] BY <2>1, <2>2, <2>5 DEF Changing
    <3> QED BY <3>1, <3>2
  <2> QED BY <1>1, <2>3, <2>4, <2>5 DEF Written
<1>3. \/ Now(p) = "set" /\ (Ended(p) \/ (Went(p) /\ copy' = copy))
      \/ Now(p) \in Changing /\ Ended(p)
  BY <1>1 DEF Written, Changing
<1>4. /\ r = req[p].id /\ Others(p) /\ overlapped' = overlapped
      /\ rec' = [rec EXCEPT ![r] = new] /\ intent' = [intent EXCEPT ![r] = int]
  BY <1>1 DEF Written
<1> QED BY <1>2, <1>3, <1>4, WriteA

\* Every other step of a request.
LEMMA RequestsA ==
  ASSUME TInv, AInv, NEW p \in Procs,
         \/ Incr(p) \/ Send(p) \/ Count(p) \/ Get(p) \/ RangePage(p) \/ Mget(p) \/ Clean(p)
         \/ Fail(p) \/ CleanFails(p) \/ Kill(p)
  PROVE  AInv'
<1>1. RequestsT BY DEF TInv
<1>2. UNCHANGED <<rec, intent, overlapped>>
  BY DEF Incr, Send, Count, Get, RangePage, Mget, Clean, Fail, CleanFails, Kill, store, history
<1>3. /\ Others(p)
      /\ Ended(p) \/ req'[p] = req[p] \/ req'[p].op = "create"
      /\ Now(p)' \in Changing => copy'[p] = rec[req'[p].id]
  <2>1. CASE Incr(p)
    <3>1. /\ Others(p) /\ Now(p) = "incr" /\ Now(p)' = "set"
          /\ req'[p] = [req[p] EXCEPT !.id = seq + 1]
      BY <2>1, IncrFacts
    <3>2. req[p].op = "create" /\ req'[p].op = "create" BY <1>1, <3>1, CommandFacts
    <3> QED BY <3>1, <3>2 DEF Changing
  <2>2. CASE Send(p) \/ Count(p)
    <3>1. Now(p) \in {"send", "count", "uncount"} /\ Others(p) /\ (Ended(p) \/ Went(p))
      BY <2>2, WriteFacts
    <3>2. Went(p) => Now(p)' \notin Changing BY <3>1 DEF Went, After, Changing
    <3> QED BY <3>1, <3>2 DEF Ended, Went, Changing
  <2>3. CASE Get(p) BY <2>3, GetFacts DEF Ended, Went, Changing
  <2>4. CASE RangePage(p)
    <3>1. Now(p) = "range" /\ ~ Idle(p) BY <1>1, <2>4, SendsFacts DEF RangePage, Names
    <3>2. PICK S : S = Page(list[req[p].key], req[p].page) OBVIOUS
    <3>3. CASE S = {}
      <4>1. Clear(p) BY <2>4, <3>2, <3>3 DEF RangePage
      <4> QED BY <1>1, <4>1, ClearFacts DEF Ended, Changing
    <3>4. CASE S # {}
      <4>1. /\ ids' = [ids EXCEPT ![p] = S] /\ todo' = [todo EXCEPT ![p] = Tail(@)]
            /\ UNCHANGED <<req, copy, store>>
        BY <2>4, <3>2, <3>4 DEF RangePage
      <4>2. req[p].key \in Keys /\ req[p].page \in Pages BY <1>1, <3>1, CommandFacts
      <4>3. S \subseteq Stored BY <3>2, <4>2, PageFacts
      <4>4. Others(p) /\ Went(p) BY <3>1, <3>4, <4>1, <4>3, PageLocal
      <4> QED BY <3>1, <4>4 DEF Went, After, Changing
    <3> QED BY <3>3, <3>4
  <2>5. CASE Mget(p) BY <2>5, MgetFacts DEF Ended, Went, Changing
  <2>6. CASE Clean(p)
    <3>1. Others(p) /\ (Ended(p) \/ (req' = req /\ Now(p)' = "clean")) BY <2>6, CleanFacts
    <3> QED BY <3>1 DEF Ended, Changing
  <2>7. CASE Fail(p) \/ CleanFails(p) \/ Kill(p)
    <3>1. /\ Others(p)
          /\ \/ Ended(p)
             \/ Now(p) \in {"send", "uncount"} /\ Went(p)
             \/ Now(p)' = "clean" /\ req' = req
      BY <2>7, FailFacts
    <3>2. Now(p) \in {"send", "uncount"} /\ Went(p) => Now(p)' \notin Changing /\ req'[p] = req[p]
      BY DEF Went, After, Changing
    <3> QED BY <3>1, <3>2 DEF Ended, Changing
  <2> QED BY <2>1, <2>2, <2>3, <2>4, <2>5, <2>6, <2>7
<1>4. ChangesOnce' BY <1>2, <1>3, ChangesStay DEF AInv
<1>5. \A q \in Procs : Now(q)' \in Changing =>
           \/ Now(q) \in Changing /\ req'[q] = req[q] /\ copy'[q] = copy[q]
           \/ copy'[q] = rec[req'[q].id]
  BY <1>3, OthersChanging
<1> QED BY <1>2, <1>4, <1>5, AQuiet

LEMMA BeginA == ASSUME TInv, AInv, NEW p \in Procs, NEW q \in Requests, Begin(p, q) PROVE AInv'
<1>1. RequestsT BY DEF TInv
<1>2. UNCHANGED <<rec, intent, copy>> /\ overlapped \subseteq overlapped' BY DEF Begin, store
<1>3. Others(p) /\ req'[p] = q BY <1>1 DEF Begin, RequestsT, Others, Same
<1>4. overlapped' = overlapped \cup {r \in Ids : /\ Changes(q, r)
                                                /\ \E o \in Procs : Changes(req[o], r)}
  BY DEF Begin
<1>5. ChangesOnce'
  <2> SUFFICES ASSUME NEW a \in Procs, NEW b \in Procs, NEW r \in Ids \ overlapped',
                      Changes(req'[a], r), Changes(req'[b], r)
               PROVE  a = b
    BY DEF ChangesOnce
  <2>1. \A x \in Procs \ {p} : req'[x] = req[x] BY <1>3 DEF Others, Same
  <2>2. CASE a # p /\ b # p BY <1>2, <2>1, <2>2 DEF AInv, ChangesOnce
  <2>3. CASE a = p /\ b # p BY <1>3, <1>4, <2>1, <2>3
  <2>4. CASE a # p /\ b = p BY <1>3, <1>4, <2>1, <2>4
  <2> QED BY <2>2, <2>3, <2>4
<1>6. Now(p)' \notin Changing
  <2>1. q.op \in Ops /\ q # NoRequest BY RequestFacts
  <2>2. todo'[p] = Commands[q.op] BY <1>1 DEF Begin, RequestsT
  <2>3. Now(p)' = Head(Commands[q.op]) BY <1>3, <2>1, <2>2 DEF Now, Idle
  <2> QED BY <2>1, <2>3, StartFacts DEF Ops, Changing
<1>7. \A x \in Procs : Now(x)' \in Changing =>
           \/ Now(x) \in Changing /\ req'[x] = req[x] /\ copy'[x] = copy[x]
           \/ copy'[x] = rec[req'[x].id]
  BY <1>3, <1>6, OthersChanging
<1> QED BY <1>2, <1>5, <1>7, AQuiet

LEMMA QuietA ==
  ASSUME AInv, UNCHANGED <<local, rec, intent, overlapped>>
  PROVE  AInv'
<1>1. \A q \in Procs : Now(q)' = Now(q) /\ req'[q] = req[q] /\ copy'[q] = copy[q]
  BY DEF local, Now, Idle
<1>2. ChangesOnce' BY <1>1 DEF AInv, ChangesOnce
<1> QED BY <1>1, <1>2, AQuiet

LEMMA NextA == TInv /\ AInv /\ [Next]_vars => AInv'
<1> SUFFICES ASSUME TInv, AInv, [Next]_vars PROVE AInv' OBVIOUS
<1>1. ASSUME NEW p \in Procs, NEW q \in Requests, Begin(p, q) PROVE AInv' BY <1>1, BeginA
<1>2. ASSUME NEW p \in Procs, Set(p) \/ Mark(p) \/ Show(p) PROVE AInv' BY <1>2, SetA
<1>3. ASSUME NEW p \in Procs,
             \/ Incr(p) \/ Send(p) \/ Count(p) \/ Get(p) \/ RangePage(p) \/ Mget(p) \/ Clean(p)
             \/ Fail(p) \/ CleanFails(p) \/ Kill(p)
      PROVE  AInv'
  BY <1>3, RequestsA
<1>4. ASSUME NEW r \in Ids, WorkerStep(r) PROVE AInv' BY <1>4, WorkerFacts, QuietA
<1>5. CASE \/ \E u, v \in Users : FollowersChange(u, v)
           \/ UNCHANGED vars
  BY <1>5, QuietA DEF FollowersChange, vars, store, history
<1> QED BY <1>1, <1>2, <1>3, <1>4, <1>5 DEF Next, WorkerStep

LEMMA InitA == Init => AInv
<1> SUFFICES ASSUME Init PROVE AInv OBVIOUS
<1>1. \A p \in Procs : req[p] = NoRequest /\ Now(p) = "none" BY DEF Init, Idle, Now
<1>2. ChangesOnce BY <1>1 DEF ChangesOnce, Changes, NoRequest
<1>3. CopyOK BY <1>1 DEF CopyOK
<1>4. RecordAsAsked BY DEF Init, RecordAsAsked
<1> QED BY <1>2, <1>3, <1>4 DEF AInv

\* A record is as it was asked to be, whatever fails in between and for any
\* number of records and requests, unless two changes of it ran at once
\* (RecordApi.cc:46-71).
THEOREM RecordAsAskedHolds == Spec => []RecordAsAsked
<1>1. Spec => []AInv BY InitA, NextA, TInvHolds, PTL DEF Spec
<1>2. AInv => RecordAsAsked BY DEF AInv
<1> QED BY <1>1, <1>2, PTL
-----------------------------------------------------------------------------
(* A dispatched record is in the lists it is due in.                       *)

\* What was asked to be deleted is not taken back.
Lasting == \A r \in Stored : r \in Ids /\ (intent[r].del => intent'[r].del)

LEMMA DeletedStep ==
  ASSUME TInv, DeletedAsAsked, NEW p \in Procs, Others(p), Lasting, ReadDeleted(p)',
         \A r \in Ids : rec'[r] # NoRecord /\ rec'[r].del => intent'[r].del
  PROVE  DeletedAsAsked'
<1>1. ASSUME NEW q \in Procs \ {p} PROVE ReadDeleted(q)'
  <2>1. /\ Now(q)' = Now(q) /\ req'[q] = req[q] /\ copy'[q] = copy[q] /\ ids'[q] = ids[q]
    BY SameNow DEF Others, Same
  <2>2. ReadDeleted(q) /\ ids[q] \subseteq Stored BY DEF DeletedAsAsked, TInv, LocalOK
  <2>3. Now(q) \in {"mark", "show"} => req[q].id \in Stored BY ChangingFacts DEF Changing
  <2>4. Now(q) \in {"mark", "show"} /\ copy[q].del => intent'[req[q].id].del
    BY <2>2, <2>3 DEF ReadDeleted, Lasting
  <2>5. Now(q) = "clean" => \A r \in ids[q] : intent'[r].del
    BY <2>2 DEF ReadDeleted, Lasting
  <2> QED BY <2>1, <2>4, <2>5 DEF ReadDeleted
<1> QED BY <1>1 DEF DeletedAsAsked

LEMMA DeletedQuiet ==
  ASSUME DeletedAsAsked, UNCHANGED <<local, rec, intent>>
  PROVE  DeletedAsAsked'
<1>1. \A q \in Procs : Now(q)' = Now(q) BY DEF local, Now, Idle
<1> QED BY <1>1 DEF DeletedAsAsked, ReadDeleted, local

LEMMA SteadyStays ==
  ASSUME SteadyOK, UNCHANGED <<steady, followers>>,
         \A r \in Ids : rec'[r] # NoRecord =>
           /\ rec[r] # NoRecord /\ owner'[r] = owner[r]
           /\ wpc'[r] \in Early => wpc[r] \in Early
  PROVE  SteadyOK'
BY DEF SteadyOK

LEMMA DueFacts ==
  ASSUME TInv, NEW r \in Ids, owner[r] \in Users
  PROVE  Due(r) \subseteq Keys
<1>1. steady[r] \cup {owner[r]} \subseteq Users BY DEF TInv, HistoryT
<1>2. Actives(steady[r] \cup {owner[r]}) \subseteq Keys BY <1>1, KeysFacts DEF Actives
<1> QED BY <1>2, KeysFacts DEF Due

LEMMA DeliveredStays ==
  ASSUME TInv, NEW r \in Ids, Delivered(r),
         wpc'[r] # "none" => wpc[r] # "none", ~ intent'[r].del => ~ intent[r].del,
         Due(r)' \subseteq Due(r), Pending(r) \subseteq Pending(r)' \cup lost'[r],
         lost[r] \subseteq lost'[r],
         \A k \in Keys : In(list[k], r) => In(list'[k], r)
  PROVE  Delivered(r)'
<1> SUFFICES ASSUME wpc'[r] # "none", ~ intent'[r].del, NEW k \in Due(r)'
             PROVE  k \in lost'[r] \cup Pending(r)' \/ In(list'[k], r)
  BY DEF Delivered
<1>1. k \in Due(r) /\ (k \in lost[r] \cup Pending(r) \/ In(list[k], r)) BY DEF Delivered
<1>2. Due(r) \subseteq Keys BY WorksFor, DueFacts
<1> QED BY <1>1, <1>2

LEMMA DueSame ==
  ASSUME NEW r, owner'[r] = owner[r], steady'[r] \subseteq steady[r]
  PROVE  Due(r)' \subseteq Due(r)
BY DEF Due, Actives

\* Nothing is pushed, and no page is cleaned.
LEMMA DeliveredSame ==
  ASSUME TInv, NEW r \in Ids, Delivered(r), UNCHANGED <<worker, lost, list>>,
         ~ intent'[r].del => ~ intent[r].del,
         wpc[r] # "none" => owner'[r] = owner[r] /\ steady'[r] \subseteq steady[r]
  PROVE  Delivered(r)'
<1>1. CASE wpc[r] = "none" BY <1>1 DEF Delivered, worker
<1>2. CASE wpc[r] # "none"
  <2>1. Pending(r)' = Pending(r) BY PendingStays DEF worker, TInv
  <2>2. Due(r)' \subseteq Due(r) BY <1>2, DueSame
  <2> QED BY <2>1, <2>2, DeliveredStays DEF worker
<1> QED BY <1>1, <1>2

LEMMA SetF == ASSUME TInv, FInv, NEW p \in Procs, Set(p) \/ Mark(p) \/ Show(p) PROVE FInv'
<1>1. RequestsT /\ StoreT /\ HistoryT BY DEF TInv
<1>2. PICK r \in Ids, new \in Record, int \in Record : Written(p, r, new, int) BY SetFacts
<1>3. /\ r = req[p].id /\ Others(p)
      /\ UNCHANGED <<seq, owner, list, followers, worker, lost>>
  BY <1>2 DEF Written
<1>4. /\ rec'[r] = new /\ intent'[r] = int
      /\ \A x \in Ids \ {r} : rec'[x] = rec[x] /\ intent'[x] = intent[x]
  BY <1>1, <1>2 DEF Written, StoreT, HistoryT
<1>5. Now(p)' \notin {"mark", "show", "clean"} BY <1>2 DEF Written, Ended
<1>6. \/ Set(p) /\ rec[r] = NoRecord /\ wpc[r] = "none" /\ new.del = FALSE
      \/ Mark(p) /\ r \in Stored /\ int.del = TRUE
      \/ Show(p) /\ r \in Stored /\ new.del = copy[p].del /\ int.del = intent[r].del
  <2>1. CASE Now(p) = "set" BY <1>2, <2>1 DEF Written
  <2>2. CASE Now(p) \in Changing
    <3>1. copy[p] \in Record /\ intent[r] \in Record BY <1>3, <2>2, ChangingFacts
    <3>2. CASE Mark(p)
      <4>1. int = [intent[r] EXCEPT !.del = TRUE] /\ r \in Stored
        BY <1>2, <2>2, <3>2, WriteFacts DEF Written
      <4> QED BY <3>1, <3>2, <4>1, RecordFacts
    <3>3. CASE Show(p)
      <4>1. /\ new = [copy[p] EXCEPT !.pub = req[p].pub] /\ req[p].pub \in BOOLEAN
            /\ int = [intent[r] EXCEPT !.pub = req[p].pub] /\ r \in Stored
        BY <1>2, <2>2, <3>3, WriteFacts DEF Written
      <4> QED BY <3>1, <3>3, <4>1, RecordFacts
    <3>4. Mark(p) \/ Show(p) BY <2>2, WriteFacts DEF Changing
    <3> QED BY <3>2, <3>3, <3>4
  <2> QED BY <1>2, <2>1, <2>2 DEF Written, Changing
<1>7. Lasting /\ (wpc[r] # "none" => (~ int.del => ~ intent[r].del))
  <2>1. \A x \in Stored : x \in Ids /\ rec[x] # NoRecord BY <1>1, SeqFacts
  <2>2. r \in Stored => (intent[r].del => int.del) BY <1>6, <2>1
  <2> QED BY <1>4, <1>6, <2>1, <2>2 DEF Lasting
<1>8. DeletedAsAsked'
  <2>1. ReadDeleted(p)' BY <1>5 DEF ReadDeleted
  <2>2. new.del => int.del
    <3>1. CASE Show(p)
      <4>1. Now(p) = "show" BY <3>1, WriteFacts
      <4>2. copy[p].del => intent[r].del BY <1>3, <4>1 DEF FInv, DeletedAsAsked, ReadDeleted
      <4> QED BY <1>6, <3>1, <4>1, <4>2, WriteFacts
    <3> QED BY <1>6, <3>1
  <2>3. \A x \in Ids : rec'[x] # NoRecord /\ rec'[x].del => intent'[x].del
    BY <1>4, <2>2 DEF FInv, DeletedAsAsked
  <2> QED BY <1>3, <1>7, <2>1, <2>3, DeletedStep DEF FInv
<1>9. SteadyOK' /\ (wpc[r] # "none" => steady' = steady)
      /\ \A x \in Ids \ {r} : steady'[x] = steady[x]
  <2>1. CASE Set(p)
    <3>1. steady' = [steady EXCEPT ![r] = followers[owner[r]]]
      BY <1>2, <2>1, WriteFacts DEF Written
    <3>2. steady'[r] = followers[owner[r]] /\ \A x \in Ids \ {r} : steady'[x] = steady[x]
      BY <1>1, <3>1 DEF HistoryT
    <3>3. wpc[r] = "none" BY <1>2, <2>1, WriteFacts DEF Written
    <3> QED BY <1>3, <1>4, <3>2, <3>3 DEF FInv, SteadyOK, worker
  <2>2. CASE Mark(p) \/ Show(p)
    <3>1. steady' = steady /\ r \in Stored BY <1>2, <2>2, WriteFacts DEF Written
    <3>2. rec[r] # NoRecord BY <3>1 DEF Stored
    <3> QED BY <1>3, <1>4, <3>1, <3>2, SteadyStays DEF FInv, worker
  <2> QED BY <2>1, <2>2
<1>10. ASSUME NEW x \in Ids PROVE Delivered(x)'
  <2>1. CASE wpc[x] = "none" BY <1>3, <2>1 DEF Delivered, worker
  <2>2. CASE wpc[x] # "none"
    <3>1. ~ intent'[x].del => ~ intent[x].del BY <1>4, <1>7, <2>2
    <3>2. steady'[x] = steady[x] BY <1>9, <2>2
    <3> QED BY <1>3, <3>1, <3>2, DeliveredSame DEF FInv
  <2> QED BY <2>1, <2>2
<1> QED BY <1>8, <1>9, <1>10 DEF FInv

\* What the requests that write no record have read.
LEMMA ReadsF ==
  ASSUME TInv, DeletedAsAsked, NEW p \in Procs,
         \/ Incr(p) \/ Send(p) \/ Count(p) \/ Get(p) \/ RangePage(p) \/ Mget(p) \/ Clean(p)
         \/ Fail(p) \/ CleanFails(p) \/ Kill(p)
  PROVE  DeletedAsAsked'
<1>1. RequestsT /\ StoreT BY DEF TInv
<1>2. UNCHANGED <<rec, intent>>
  BY DEF Incr, Send, Count, Get, RangePage, Mget, Clean, Fail, CleanFails, Kill, store, history
<1>3. Lasting BY <1>1, <1>2, SeqFacts DEF Lasting
<1>4. Others(p) /\ ReadDeleted(p)'
  <2>1. ASSUME Now(p)' \notin {"mark", "show", "clean"} PROVE ReadDeleted(p)'
    BY <2>1 DEF ReadDeleted
  <2>2. CASE Incr(p)
    <3>1. Others(p) /\ Now(p)' = "set" BY <2>2, IncrFacts
    <3> QED BY <2>1, <3>1
  <2>3. CASE Send(p) \/ Count(p)
    <3>1. Now(p) \in {"send", "count", "uncount"} /\ Others(p) /\ (Ended(p) \/ Went(p))
      BY <2>3, WriteFacts
    <3>2. Went(p) => Now(p)' \notin {"mark", "show", "clean"} BY <3>1 DEF Went, After
    <3> QED BY <2>1, <3>1, <3>2 DEF Ended
  <2>4. CASE Get(p)
    <3>1. CASE Ended(p) BY <2>1, <2>4, <3>1, GetFacts DEF Ended
    <3>2. CASE ~ Ended(p)
      <4>1. /\ Others(p) /\ req[p].id \in Ids /\ rec[req[p].id] # NoRecord
            /\ Went(p) /\ Now(p)' \in {"mark", "show"} /\ copy'[p] = rec[req[p].id]
        BY <2>4, <3>2, GetFacts
      <4>2. req'[p] = req[p] BY <4>1 DEF Went
      <4>3. rec[req[p].id].del => intent[req[p].id].del BY <4>1 DEF DeletedAsAsked
      <4> QED BY <1>2, <4>1, <4>2, <4>3 DEF ReadDeleted
    <3> QED BY <3>1, <3>2
  <2>5. CASE RangePage(p)
    <3>1. Now(p) = "range" /\ ~ Idle(p) BY <1>1, <2>5, SendsFacts DEF RangePage, Names
    <3>2. PICK S : S = Page(list[req[p].key], req[p].page) OBVIOUS
    <3>3. CASE S = {}
      <4>1. Clear(p) BY <2>5, <3>2, <3>3 DEF RangePage
      <4> QED BY <1>1, <2>1, <4>1, ClearFacts DEF Ended
    <3>4. CASE S # {}
      <4>1. /\ ids' = [ids EXCEPT ![p] = S] /\ todo' = [todo EXCEPT ![p] = Tail(@)]
            /\ UNCHANGED <<req, copy, store>>
        BY <2>5, <3>2, <3>4 DEF RangePage
      <4>2. req[p].key \in Keys /\ req[p].page \in Pages BY <1>1, <3>1, CommandFacts
      <4>3. S \subseteq Stored BY <3>2, <4>2, PageFacts
      <4>4. Others(p) /\ Went(p) BY <3>1, <3>4, <4>1, <4>3, PageLocal
      <4>5. Now(p)' = "mget" BY <3>1, <4>4 DEF Went, After
      <4> QED BY <2>1, <4>4, <4>5
    <3> QED BY <3>3, <3>4
  <2>6. CASE Mget(p)
    <3>1. CASE Ended(p) BY <2>1, <2>6, <3>1, MgetFacts DEF Ended
    <3>2. CASE ~ Ended(p)
      <4>1. Others(p) /\ Now(p)' = "clean" /\ ids'[p] = {r \in ids[p] : rec[r].del}
        BY <2>6, <3>2, MgetFacts
      <4>2. \A r \in ids[p] : r \in Ids /\ rec[r] # NoRecord
        BY <1>1, SeqFacts DEF TInv, LocalOK
      <4>3. \A r \in ids'[p] : intent'[r].del BY <1>2, <4>1, <4>2 DEF DeletedAsAsked
      <4> QED BY <4>1, <4>3 DEF ReadDeleted
    <3> QED BY <3>1, <3>2
  <2>7. ASSUME Now(p) = "clean", Now(p)' = "clean", ids'[p] \subseteq ids[p]
        PROVE  ReadDeleted(p)'
    BY <1>2, <2>7 DEF ReadDeleted, DeletedAsAsked
  <2>8. CASE Clean(p)
    <3>1. /\ Others(p) /\ Now(p) = "clean" /\ ids'[p] \subseteq ids[p]
          /\ Ended(p) \/ Now(p)' = "clean"
      BY <2>8, CleanFacts
    <3> QED BY <2>1, <2>7, <3>1 DEF Ended
  <2>9. CASE Fail(p) \/ CleanFails(p) \/ Kill(p)
    <3>1. /\ Others(p)
          /\ \/ Ended(p)
             \/ Now(p) \in {"send", "uncount"} /\ Went(p)
             \/ Now(p) = "clean" /\ Now(p)' = "clean" /\ ids'[p] \subseteq ids[p]
      BY <2>9, FailFacts
    <3>2. Now(p) \in {"send", "uncount"} /\ Went(p) => Now(p)' \notin {"mark", "show", "clean"}
      BY DEF Went, After
    <3> QED BY <2>1, <2>7, <3>1, <3>2 DEF Ended
  <2> QED BY <2>2, <2>3, <2>4, <2>5, <2>6, <2>8, <2>9
<1>5. \A r \in Ids : rec'[r] # NoRecord /\ rec'[r].del => intent'[r].del
  BY <1>2 DEF DeletedAsAsked
<1> QED BY <1>3, <1>4, <1>5, DeletedStep

\* The steps that leave the lists and the workers alone.
LEMMA PlainF ==
  ASSUME TInv, FInv, NEW p \in Procs,
         \/ Incr(p) \/ Count(p) \/ Get(p) \/ RangePage(p) \/ Mget(p)
         \/ Fail(p) \/ CleanFails(p) \/ Kill(p)
  PROVE  FInv'
<1>1. DeletedAsAsked' BY ReadsF DEF FInv
<1>2. UNCHANGED <<rec, list, followers, worker, steady, lost, intent>>
  BY DEF Incr, Count, Get, RangePage, Mget, Fail, CleanFails, Kill, store, history
<1>3. \A r \in Ids : rec[r] # NoRecord => owner'[r] = owner[r]
  <2>1. CASE Incr(p)
    <3>1. owner' = [owner EXCEPT ![seq + 1] = req[p].user] BY <2>1 DEF Incr
    <3>2. rec[seq + 1] = NoRecord BY <2>1, IncrFacts
    <3> QED BY <3>1, <3>2 DEF TInv, StoreT
  <2>2. CASE UNCHANGED owner BY <2>2
  <2> QED BY <2>1, <2>2 DEF Count, Get, RangePage, Mget, Fail, CleanFails, Kill, store
<1>4. SteadyOK' BY <1>2, <1>3, SteadyStays DEF FInv, worker
<1>5. \A r \in Ids : wpc[r] # "none" => owner'[r] = owner[r]
  BY <1>3 DEF TInv, StoreT
<1>6. \A r \in Ids : Delivered(r)' BY <1>2, <1>5, DeliveredSame DEF FInv
<1> QED BY <1>1, <1>4, <1>6 DEF FInv

LEMMA SendF == ASSUME TInv, FInv, NEW p \in Procs, Send(p) PROVE FInv'
<1>1. RequestsT /\ StoreT /\ LocalOK(p) BY DEF TInv
<1>2. DeletedAsAsked' BY ReadsF DEF FInv
<1>3. /\ wpc' = [wpc EXCEPT ![req[p].id] = "get"] /\ wtodo' = wtodo
      /\ UNCHANGED <<rec, owner, list, followers, steady, lost, intent>>
  BY DEF Send, store, history
<1>4. Now(p) = "send" BY WriteFacts
<1>5. req[p].id \in Ids /\ wpc[req[p].id] = "none" /\ owner[req[p].id] \in Users
  BY <1>1, <1>4, SeqFacts DEF LocalOK, StoreT
<1>6. wpc'[req[p].id] = "get" /\ \A r \in Ids \ {req[p].id} : wpc'[r] = wpc[r]
  BY <1>1, <1>3, <1>5 DEF StoreT
<1>7. SteadyOK' BY <1>3, <1>5, <1>6, SteadyStays DEF FInv, Early
<1>8. ASSUME NEW r \in Ids PROVE Delivered(r)'
  <2>1. Due(r)' = Due(r) BY <1>3 DEF Due, Actives
  <2>2. CASE r = req[p].id
    <3>1. Pending(r)' = Keys BY <1>6, <2>2 DEF Pending, Keys
    <3>2. Due(r) \subseteq Keys BY <1>5, <2>2, DueFacts
    <3> QED BY <2>1, <3>1, <3>2 DEF Delivered
  <2>3. CASE r # req[p].id
    <3>1. Pending(r)' = Pending(r) BY <1>1, <1>3, <1>6, <2>3, PendingStays
    <3> QED BY <1>3, <1>6, <2>1, <2>3, <3>1, DeliveredStays DEF FInv
  <2> QED BY <2>2, <2>3
<1> QED BY <1>2, <1>7, <1>8 DEF FInv

LEMMA CleanF == ASSUME TInv, FInv, NEW p \in Procs, Clean(p) PROVE FInv'
<1>1. DeletedAsAsked' BY ReadsF DEF FInv
<1>2. UNCHANGED <<rec, owner, followers, worker, steady, lost, intent>> BY DEF Clean
<1>3. SteadyOK' BY <1>2, SteadyStays DEF FInv, worker
<1>4. PICK k \in Keys : k = req[p].key BY CleanFacts
<1>5. PICK e \in ids[p] : /\ \A x \in Keys \ {k} : list'[x] = list[x]
                          /\ \A y : In(list'[k], y) <=> In(list[k], y) /\ y # e
  BY <1>4, CleanFacts
<1>6. intent[e].del
  <2>1. Now(p) = "clean" BY CleanFacts
  <2> QED BY <1>5, <2>1 DEF FInv, DeletedAsAsked, ReadDeleted
<1>7. ASSUME NEW r \in Ids PROVE Delivered(r)'
  <2>1. CASE intent[r].del BY <1>2, <2>1 DEF Delivered
  <2>2. CASE ~ intent[r].del
    <3>1. r # e BY <1>6, <2>2
    <3>2. \A x \in Keys : In(list[x], r) => In(list'[x], r) BY <1>5, <3>1
    <3>3. Due(r)' = Due(r) BY <1>2 DEF Due, Actives
    <3>4. Pending(r)' = Pending(r) BY <1>2, PendingStays DEF TInv, worker
    <3> QED BY <1>2, <3>2, <3>3, <3>4, DeliveredStays DEF FInv, worker
  <2> QED BY <2>1, <2>2
<1> QED BY <1>1, <1>3, <1>7 DEF FInv

LEMMA WorkersF == ASSUME TInv, FInv, NEW r \in Ids, WorkerStep(r) PROVE FInv'
<1>1. /\ UNCHANGED <<rec, owner, followers, local, steady, intent>>
      /\ \A x \in Ids \ {r} : /\ Pending(x)' = Pending(x) /\ wpc'[x] = wpc[x]
                              /\ lost'[x] = lost[x]
      /\ wpc[r] # "none" /\ wpc'[r] # "none"
      /\ wpc'[r] \in {"home", "followers"} => wpc[r] \in {"get", "home"}
      /\ wpc'[r] # "get" /\ lost[r] \subseteq lost'[r]
  BY WorkerFacts
<1>2. DeletedAsAsked' BY <1>1, DeletedQuiet DEF FInv
<1>3. \A x \in Ids : wpc'[x] \in Early => wpc[x] \in Early BY <1>1 DEF Early
<1>4. SteadyOK' BY <1>1, <1>3, SteadyStays DEF FInv
<1>5. \A x \in Ids : Due(x)' = Due(x) BY <1>1 DEF Due, Actives
<1>6. \/ /\ list' = list /\ Due(r) \cap Pending(r) \subseteq Pending(r)' \cup lost'[r]
      \/ \E k \in Keys : /\ Push(r, k)
                         /\ Due(r) \cap Pending(r) \subseteq Pending(r)' \cup {k}
  <2>1. CASE ReadFollowers(r)
    <3>1. /\ wpc[r] = "followers" /\ list' = list
          /\ wtodo' = [wtodo EXCEPT ![r] = followers[owner[r]] \cup {owner[r]}]
          /\ wpc' = [wpc EXCEPT ![r] = "active"]
      BY <2>1 DEF ReadFollowers, store, WGoTo
    <3>2. wtodo'[r] = followers[owner[r]] \cup {owner[r]} /\ wpc'[r] = "active"
      BY <3>1 DEF TInv, StoreT
    <3>3. Pending(r)' = Actives(followers[owner[r]] \cup {owner[r]}) \cup {Recent}
      BY <3>2 DEF Pending, Actives
    <3>4. r \in Stored /\ owner[r] \in Users BY <1>1, WorksFor
    <3>5. rec[r] # NoRecord BY <3>4 DEF Stored
    <3>6. steady[r] \subseteq followers[owner[r]] BY <3>1, <3>5 DEF FInv, SteadyOK, Early
    <3>7. Actives(steady[r] \cup {owner[r]})
            \subseteq Actives(followers[owner[r]] \cup {owner[r]})
      BY <3>6 DEF Actives
    <3>8. Home(owner[r]) \notin Pending(r)
      <4>1. Pending(r) = Actives(Users) \cup {Recent} BY <3>1 DEF Pending
      <4> QED BY <3>4, <4>1, KeysFacts DEF Actives
    <3> QED BY <3>1, <3>3, <3>7, <3>8 DEF Due
  <2>2. CASE ~ ReadFollowers(r) BY <2>2, WorkerFacts
  <2> QED BY <2>1, <2>2
<1>7. \A k \in Keys, x \in Ids : In(list[k], x) => In(list'[k], x)
  <2>1. CASE list' = list BY <2>1
  <2>2. CASE \E k \in Keys : Push(r, k)
    <3>1. r \in Stored BY <1>1, WorksFor
    <3> QED BY <2>2, <3>1, PushFacts
  <2> QED BY <1>6, <2>1, <2>2
<1>8. ASSUME NEW x \in Ids PROVE Delivered(x)'
  <2>1. CASE x # r
    BY <1>1, <1>5, <1>7, <2>1, DeliveredStays DEF FInv
  <2>2. CASE x = r
    <3> SUFFICES ASSUME ~ intent[r].del, NEW k \in Due(r)
                 PROVE  k \in lost'[r] \cup Pending(r)' \/ In(list'[k], r)
      BY <1>1, <1>5, <2>2 DEF Delivered
    <3>1. k \in lost[r] \cup Pending(r) \/ In(list[k], r) BY <1>1 DEF FInv, Delivered
    <3>2. Due(r) \subseteq Keys BY <1>1, WorksFor, DueFacts
    <3>3. CASE k \in lost[r] \/ In(list[k], r) BY <1>1, <1>7, <3>2, <3>3
    <3>4. CASE k \in Pending(r)
      <4>1. r \in Stored BY <1>1, WorksFor
      <4>2. \A h \in Keys : Push(r, h) => In(list'[h], r) BY <4>1, PushFacts
      <4> QED BY <1>6, <3>4, <4>2
    <3> QED BY <3>1, <3>3, <3>4
  <2> QED BY <2>1, <2>2
<1> QED BY <1>2, <1>4, <1>8 DEF FInv

LEMMA FollowersF ==
  ASSUME TInv, FInv, NEW u \in Users, NEW v \in Users, FollowersChange(u, v)
  PROVE  FInv'
<1>1. UNCHANGED <<store, local, worker, lost, intent>> BY DEF FollowersChange
<1>2. DeletedAsAsked' BY <1>1, DeletedQuiet DEF FInv, store
<1>3. \A r \in Ids : steady'[r] = IF owner[r] = u /\ wpc[r] \in Early
                                  THEN steady[r] \ {v} ELSE steady[r]
  BY DEF FollowersChange, Early
<1>4. SteadyOK'
  <2> SUFFICES ASSUME NEW r \in Ids, rec[r] # NoRecord, wpc[r] \in Early
               PROVE  steady'[r] \subseteq followers'[owner[r]]
    BY <1>1 DEF SteadyOK, store, worker
  <2>1. steady[r] \subseteq followers[owner[r]] BY DEF FInv, SteadyOK
  <2>2. CASE owner[r] = u
    <3>1. followers[u] \ {v} \subseteq followers'[u] BY FollowersFacts
    <3> QED BY <1>3, <2>1, <2>2, <3>1
  <2>3. CASE owner[r] # u
    <3>1. owner[r] \in Users BY DEF TInv, StoreT
    <3>2. followers'[owner[r]] = followers[owner[r]] BY <2>3, <3>1, FollowersFacts
    <3> QED BY <1>3, <2>1, <2>3, <3>2
  <2> QED BY <2>2, <2>3
<1>5. \A r \in Ids : steady'[r] \subseteq steady[r] BY <1>3
<1>6. \A r \in Ids : Delivered(r)'
  BY <1>1, <1>5, DeliveredSame DEF FInv, store
<1> QED BY <1>2, <1>4, <1>6 DEF FInv

LEMMA BeginF == ASSUME TInv, FInv, NEW p \in Procs, NEW q \in Requests, Begin(p, q) PROVE FInv'
<1>1. RequestsT BY DEF TInv
<1>2. UNCHANGED <<store, followers, worker, lost, steady, intent>> BY DEF Begin
<1>3. DeletedAsAsked'
  <2>1. Others(p) /\ req'[p] = q /\ todo'[p] = Commands[q.op]
    BY <1>1 DEF Begin, RequestsT, Others, Same
  <2>2. q.op \in Ops /\ q # NoRequest BY RequestFacts
  <2>3. Now(p)' = Head(Commands[q.op]) BY <2>1, <2>2 DEF Now, Idle
  <2>4. Now(p)' \notin {"mark", "show", "clean"} BY <2>2, <2>3, StartFacts DEF Ops
  <2>5. ReadDeleted(p)' BY <2>4 DEF ReadDeleted
  <2>6. Lasting BY <1>2, SeqFacts DEF Lasting, TInv
  <2>7. \A r \in Ids : rec'[r] # NoRecord /\ rec'[r].del => intent'[r].del
    BY <1>2 DEF store, FInv, DeletedAsAsked
  <2> QED BY <2>1, <2>5, <2>6, <2>7, DeletedStep DEF FInv
<1>4. SteadyOK' BY <1>2, SteadyStays DEF FInv, store, worker
<1>5. \A r \in Ids : Delivered(r)' BY <1>2, DeliveredSame DEF FInv, store
<1> QED BY <1>3, <1>4, <1>5 DEF FInv

LEMMA NextF == TInv /\ FInv /\ [Next]_vars => FInv'
<1> SUFFICES ASSUME TInv, FInv, [Next]_vars PROVE FInv' OBVIOUS
<1>1. ASSUME NEW p \in Procs, NEW q \in Requests, Begin(p, q) PROVE FInv' BY <1>1, BeginF
<1>2. ASSUME NEW p \in Procs, Set(p) \/ Mark(p) \/ Show(p) PROVE FInv' BY <1>2, SetF
<1>3. ASSUME NEW p \in Procs,
             \/ Incr(p) \/ Count(p) \/ Get(p) \/ RangePage(p) \/ Mget(p)
             \/ Fail(p) \/ CleanFails(p) \/ Kill(p)
      PROVE  FInv'
  BY <1>3, PlainF
<1>4. ASSUME NEW p \in Procs, Send(p) PROVE FInv' BY <1>4, SendF
<1>5. ASSUME NEW p \in Procs, Clean(p) PROVE FInv' BY <1>5, CleanF
<1>6. ASSUME NEW r \in Ids, WorkerStep(r) PROVE FInv' BY <1>6, WorkersF
<1>7. ASSUME NEW u \in Users, NEW v \in Users, FollowersChange(u, v) PROVE FInv'
  BY <1>7, FollowersF
<1>8. CASE UNCHANGED vars
  <2>1. UNCHANGED <<rec, owner, list, local, followers, worker, lost, steady, intent>>
    BY <1>8 DEF vars, store, history
  <2>2. DeletedAsAsked' BY <2>1, DeletedQuiet DEF FInv
  <2>3. SteadyOK' BY <2>1, SteadyStays DEF FInv, worker
  <2>4. \A r \in Ids : Delivered(r)' BY <2>1, DeliveredSame DEF FInv
  <2> QED BY <2>2, <2>3, <2>4 DEF FInv
<1> QED BY <1>1, <1>2, <1>3, <1>4, <1>5, <1>6, <1>7, <1>8 DEF Next, WorkerStep

LEMMA InitF == Init => FInv
<1> SUFFICES ASSUME Init PROVE FInv OBVIOUS
<1>1. \A p \in Procs : Now(p) = "none" BY DEF Init, Idle, Now
<1>2. \A r \in Ids : rec[r] = NoRecord /\ wpc[r] = "none" BY DEF Init
<1> QED BY <1>1, <1>2 DEF FInv, DeletedAsAsked, ReadDeleted, SteadyOK, Delivered

\* A record whose worker has ended is in every list it is due in, but those
\* that a failure cost it, whatever followers come and go and whichever pages
\* are cleaned meanwhile (worker.cc:42-72).
THEOREM FeedCompleteHolds == Spec => []FeedComplete
<1>1. Spec => []FInv BY InitF, NextF, TInvHolds, PTL DEF Spec
<1>2. TInv /\ FInv => FeedComplete
  <2> SUFFICES ASSUME TInv, FInv, NEW r \in Ids, wpc[r] = "done", ~ intent[r].del,
                      NEW k \in Due(r) \ lost[r]
               PROVE  Has(k, r)
    BY DEF FeedComplete
  <2>1. Pending(r) = {} BY DEF Pending
  <2>2. In(list[k], r) BY <2>1 DEF FInv, Delivered
  <2>3. Due(r) \subseteq Keys BY WorksFor, DueFacts
  <2>4. list[k] \in Seq(Stored) BY <2>3 DEF TInv, StoreT
  <2>5. DOMAIN list[k] = 1 .. Len(list[k]) BY <2>4
  <2> QED BY <2>2, <2>5 DEF In, Has
<1> QED BY <1>1, <1>2, TInvHolds, PTL
-----------------------------------------------------------------------------
(* The count of a user's records.                                          *)

\* Two finite sets that differ in one element at most.
Differ(S, T, e) ==
  /\ Cardinality(S) \in Nat /\ Cardinality(T) \in Nat
  /\ (e \in S <=> e \in T) => Cardinality(T) = Cardinality(S)
  /\ e \in T /\ e \notin S => Cardinality(T) = Cardinality(S) + 1
  /\ e \in S /\ e \notin T => Cardinality(T) = Cardinality(S) - 1

LEMMA DifferFacts ==
  ASSUME NEW W, IsFiniteSet(W), NEW S, NEW T, S \subseteq W, T \subseteq W, NEW e,
         \A x \in W \ {e} : x \in S <=> x \in T
  PROVE  Differ(S, T, e)
<1>1. IsFiniteSet(S) /\ IsFiniteSet(T) BY FS_Subset
<1>2. Cardinality(S) \in Nat /\ Cardinality(T) \in Nat BY <1>1, FS_CardinalityType
<1>3. (e \in S <=> e \in T) => T = S OBVIOUS
<1>4. ASSUME e \in T, e \notin S PROVE Cardinality(T) = Cardinality(S) + 1
  <2>1. T = S \cup {e} BY <1>4
  <2> QED BY <1>1, <1>4, <2>1, FS_AddElement
<1>5. ASSUME e \in S, e \notin T PROVE Cardinality(T) = Cardinality(S) - 1
  <2>1. S = T \cup {e} BY <1>5
  <2>2. Cardinality(S) = Cardinality(T) + 1 BY <1>1, <1>5, <2>1, FS_AddElement
  <2> QED BY <1>2, <2>2
<1> QED BY <1>2, <1>3, <1>4, <1>5 DEF Differ

LEMMA AddingDiffer ==
  ASSUME NEW p \in Procs, Others(p), NEW u
  PROVE  Differ(Adding(u), Adding(u)', p) /\ Differ(Taking(u), Taking(u)', p)
<1>1. \A q \in Procs \ {p} : Now(q)' = Now(q) /\ req'[q] = req[q] BY SameNow DEF Others, Same
<1>2. Differ(Adding(u), Adding(u)', p)
  BY <1>1, DifferFacts, FeedUsersAssumption DEF Adding
<1>3. Differ(Taking(u), Taking(u)', p)
  BY <1>1, DifferFacts, FeedUsersAssumption DEF Taking
<1> QED BY <1>2, <1>3

LEMMA LiveDiffer ==
  ASSUME NEW r, NEW u,
         \A x \in Ids \ {r} : x \in Live(u) <=> x \in Live(u)'
  PROVE  Differ(Live(u), Live(u)', r)
<1>1. IsFiniteSet(Ids) BY FS_Interval, FeedBoundsAssumption DEF Ids
<1> QED BY <1>1, DifferFacts DEF Live

LEMMA LiveFinite == ASSUME NEW u PROVE Cardinality(Live(u)) \in Nat
<1>1. IsFiniteSet(Ids) BY FS_Interval, FeedBoundsAssumption DEF Ids
<1>2. Live(u) \subseteq Ids BY DEF Live
<1> QED BY <1>1, <1>2, FS_Subset, FS_CardinalityType

LEMMA LiveSame ==
  ASSUME NEW u, Live(u)' = Live(u)
  PROVE  Cardinality(Live(u)') = Cardinality(Live(u)) /\ Cardinality(Live(u)) \in Nat
BY LiveFinite

\* The numbers a balance is made of, changed by these.
Shifted(u, dc, dl, dd, da, dt) ==
  /\ dc \in Int /\ dl \in Int /\ dd \in Int /\ da \in Int /\ dt \in Int
  /\ count'[u] = count[u] + dc /\ drift'[u] = drift[u] + dd
  /\ Cardinality(Live(u)') = Cardinality(Live(u)) + dl
  /\ Cardinality(Adding(u)') = Cardinality(Adding(u)) + da
  /\ Cardinality(Taking(u)') = Cardinality(Taking(u)) + dt
  /\ Cardinality(Live(u)) \in Int /\ Cardinality(Adding(u)) \in Int
  /\ Cardinality(Taking(u)) \in Int

\* The balance, with its five numbers before and after a step.
LEMMA BalanceIs ==
  ASSUME TInv, NEW u \in Users, NEW dc, NEW dl, NEW dd, NEW da, NEW dt,
         Shifted(u, dc, dl, dd, da, dt)
  PROVE  Balance(u) \in Int /\ Balance(u)' = Balance(u) + dc - dl - dd + da + dt
<1>0. dc \in Int /\ dl \in Int /\ dd \in Int /\ da \in Int /\ dt \in Int BY DEF Shifted
<1>1. PICK c \in Int, d \in Int : c = count[u] /\ d = drift[u] BY DEF TInv, StoreT, HistoryT
<1>2. PICK l \in Int, a \in Int, t \in Int :
        l = Cardinality(Live(u)) /\ a = Cardinality(Adding(u)) /\ t = Cardinality(Taking(u))
  BY DEF Shifted
<1>3. Balance(u) = c - l - d + a + t BY <1>1, <1>2 DEF Balance
<1>4. Balance(u)' = (c + dc) - (l + dl) - (d + dd) + (a + da) + (t + dt)
  BY <1>1, <1>2 DEF Balance, Shifted
<1> QED BY <1>0, <1>3, <1>4

LEMMA BKept ==
  ASSUME TInv, BInv, overlapped \subseteq overlapped', failed' \in Nat, failed <= failed',
         \A u \in Users : Balance(u) \in Int /\ Balance(u)' = Balance(u)
  PROVE  BInv'
<1> SUFFICES ASSUME overlapped' = {}, NEW u \in Users PROVE Balance(u)' \in -failed' .. failed'
  BY DEF BInv
<1>1. failed \in Nat BY FeedBoundsAssumption DEF TInv, StoreT
<1>2. Balance(u) \in -failed .. failed BY DEF BInv
<1>3. PICK b \in Int : b = Balance(u) OBVIOUS
<1>4. b \in -failed' .. failed' BY <1>1, <1>2, <1>3
<1> QED BY <1>3, <1>4

\* Nothing that is counted changes, and p neither begins nor ends to count.
Counted(p) == Now(p) \in {"send", "count"}
Uncounted(p) == req[p].op = "delete" /\ Now(p) \in {"get", "mark"}

LEMMA BQuiet ==
  ASSUME TInv, BInv, overlapped \subseteq overlapped', failed' \in Nat, failed <= failed',
         UNCHANGED <<count, drift>>, \A u \in Users : Live(u)' = Live(u),
         NEW p \in Procs, Others(p),
         Counted(p)' <=> Counted(p), Uncounted(p)' <=> Uncounted(p),
         Counted(p) \/ Uncounted(p) => req'[p] = req[p]
  PROVE  BInv'
<1>1. ASSUME NEW u \in Users PROVE Balance(u) \in Int /\ Balance(u)' = Balance(u)
  <2>1. p \in Adding(u) <=> p \in Adding(u)' BY DEF Adding, Counted
  <2>2. p \in Taking(u) <=> p \in Taking(u)' BY DEF Taking, Uncounted
  <2>3. /\ Cardinality(Adding(u)') = Cardinality(Adding(u)) /\ Cardinality(Adding(u)) \in Nat
        /\ Cardinality(Taking(u)') = Cardinality(Taking(u)) /\ Cardinality(Taking(u)) \in Nat
    BY <2>1, <2>2, AddingDiffer DEF Differ
  <2>4. /\ Cardinality(Live(u)') = Cardinality(Live(u)) /\ Cardinality(Live(u)) \in Nat
    BY LiveSame
  <2>5. count[u] \in Int /\ drift[u] \in Int BY DEF TInv, StoreT, HistoryT
  <2> QED BY <2>3, <2>4, <2>5 DEF Balance
<1> QED BY <1>1, BKept

LEMMA LiveKept ==
  ASSUME TInv, NEW u, rec' = rec, \A r \in Stored : owner'[r] = owner[r]
  PROVE  Live(u)' = Live(u)
<1>1. \A r \in Ids : rec[r] # NoRecord => owner'[r] = owner[r] BY SeqFacts DEF TInv
<1> QED BY <1>1 DEF Live

LEMMA FailedFacts == ASSUME TInv PROVE failed \in Nat /\ failed <= failed
BY FeedBoundsAssumption DEF TInv, StoreT

LEMMA BeginB == ASSUME TInv, BInv, NEW p \in Procs, NEW q \in Requests, Begin(p, q) PROVE BInv'
<1>1. RequestsT BY DEF TInv
<1>2. Others(p) /\ req'[p] = q /\ todo'[p] = Commands[q.op]
  BY <1>1 DEF Begin, RequestsT, Others, Same
<1>3. q.op \in Ops /\ q # NoRequest BY RequestFacts
<1>4. Now(p)' = Head(Commands[q.op]) BY <1>2, <1>3 DEF Now, Idle
<1>5. ~ Counted(p) /\ ~ Uncounted(p) BY <1>1, NowFacts DEF Begin, Counted, Uncounted
<1>6. ~ Counted(p)' /\ ~ Uncounted(p)'
  BY <1>2, <1>3, <1>4, StartFacts DEF Ops, Counted, Uncounted
<1>7. \A u \in Users : Live(u)' = Live(u) BY LiveKept DEF Begin, store
<1>8. UNCHANGED <<count, drift, failed>> /\ overlapped \subseteq overlapped'
  BY DEF Begin, store
<1> QED BY <1>2, <1>5, <1>6, <1>7, <1>8, BQuiet, FailedFacts

LEMMA IncrB == ASSUME TInv, BInv, NEW p \in Procs, Incr(p) PROVE BInv'
<1>1. Now(p) = "incr" /\ Others(p) /\ Now(p)' = "set" /\ seq \in Nat BY IncrFacts
<1>2. /\ UNCHANGED <<rec, count, failed, drift, overlapped>>
      /\ owner' = [owner EXCEPT ![seq + 1] = req[p].user]
  BY DEF Incr, history
<1>3. \A r \in Stored : r # seq + 1 /\ r \in Ids BY <1>1, SeqFacts DEF TInv, Stored
<1>4. \A r \in Stored : owner'[r] = owner[r] BY <1>2, <1>3 DEF TInv, StoreT
<1>5. \A u \in Users : Live(u)' = Live(u) BY <1>2, <1>4, LiveKept
<1>6. ~ Counted(p) /\ ~ Uncounted(p) /\ ~ Counted(p)' /\ ~ Uncounted(p)'
  BY <1>1 DEF Counted, Uncounted
<1> QED BY <1>1, <1>2, <1>5, <1>6, BQuiet, FailedFacts

\* How many of p there are in a set of processes, and how many more then.
LEMMA Moved ==
  ASSUME NEW p \in Procs, Others(p), NEW u,
         NEW da \in Int, NEW dt \in Int,
         \/ p \in Adding(u) /\ p \notin Adding(u)' /\ da = -1
         \/ p \notin Adding(u) /\ p \in Adding(u)' /\ da = 1
         \/ (p \in Adding(u) <=> p \in Adding(u)') /\ da = 0,
         \/ p \in Taking(u) /\ p \notin Taking(u)' /\ dt = -1
         \/ p \notin Taking(u) /\ p \in Taking(u)' /\ dt = 1
         \/ (p \in Taking(u) <=> p \in Taking(u)') /\ dt = 0
  PROVE  /\ Cardinality(Adding(u)') = Cardinality(Adding(u)) + da
         /\ Cardinality(Taking(u)') = Cardinality(Taking(u)) + dt
         /\ Cardinality(Adding(u)) \in Int /\ Cardinality(Taking(u)) \in Int
<1>1. Differ(Adding(u), Adding(u)', p) /\ Differ(Taking(u), Taking(u)', p) BY AddingDiffer
<1>2. /\ Cardinality(Adding(u)') = Cardinality(Adding(u)) + da
      /\ Cardinality(Adding(u)) \in Int
  BY <1>1 DEF Differ
<1>3. /\ Cardinality(Taking(u)') = Cardinality(Taking(u)) + dt
      /\ Cardinality(Taking(u)) \in Int
  BY <1>1 DEF Differ
<1> QED BY <1>2, <1>3

LEMMA SetB == ASSUME TInv, BInv, NEW p \in Procs, Set(p) PROVE BInv'
<1>1. RequestsT /\ StoreT /\ HistoryT BY DEF TInv
<1>2. Now(p) = "set" BY WriteFacts
<1>3. PICK r \in Ids, new \in Record, int \in Record : Written(p, r, new, int) BY SetFacts
<1>4. /\ rec' = [rec EXCEPT ![r] = new] /\ Others(p) /\ Went(p) /\ Now(p)' = "send"
      /\ UNCHANGED <<owner, count, failed, drift, overlapped>>
      /\ rec[r] = NoRecord /\ new.del = FALSE /\ owner[r] = req[p].user
  BY <1>2, <1>3 DEF Written
<1>5. rec'[r] = new /\ \A x \in Ids \ {r} : rec'[x] = rec[x] BY <1>1, <1>4 DEF StoreT
<1>6. req'[p] = req[p] BY <1>4 DEF Went
<1>7. ASSUME NEW u \in Users PROVE Balance(u) \in Int /\ Balance(u)' = Balance(u)
  <2>1. PICK d \in {0, 1} : d = IF req[p].user = u THEN 1 ELSE 0 OBVIOUS
  <2>2. /\ p \notin Adding(u) /\ (p \in Adding(u)' <=> d = 1)
        /\ p \notin Taking(u) /\ p \notin Taking(u)'
    BY <1>2, <1>4, <1>6, <2>1 DEF Adding, Taking
  <2>3. /\ Cardinality(Adding(u)') = Cardinality(Adding(u)) + d
        /\ Cardinality(Taking(u)') = Cardinality(Taking(u)) + 0
        /\ Cardinality(Adding(u)) \in Int /\ Cardinality(Taking(u)) \in Int
    BY <1>4, <2>1, <2>2, Moved
  <2>4. r \notin Live(u) /\ (r \in Live(u)' <=> d = 1)
    BY <1>4, <1>5, <2>1, NotARecord DEF Live
  <2>5. Differ(Live(u), Live(u)', r)
    <3>1. \A x \in Ids \ {r} : x \in Live(u) <=> x \in Live(u)' BY <1>4, <1>5 DEF Live
    <3> QED BY <3>1, LiveDiffer
  <2>6. /\ Cardinality(Live(u)') = Cardinality(Live(u)) + d /\ Cardinality(Live(u)) \in Int
    BY <2>1, <2>4, <2>5 DEF Differ
  <2>7. count'[u] = count[u] + 0 /\ drift'[u] = drift[u] + 0
    BY <1>1, <1>4 DEF StoreT, HistoryT
  <2>8. Balance(u) \in Int /\ Balance(u)' = Balance(u) + 0 - d - 0 + d + 0
    <3>1. d \in Int /\ 0 \in Int BY <2>1
    <3>2. Shifted(u, 0, d, 0, d, 0) BY <2>3, <2>6, <2>7, <3>1 DEF Shifted
    <3> QED BY <3>2, BalanceIs
  <2> QED BY <2>1, <2>8
<1> QED BY <1>4, <1>7, BKept, FailedFacts

LEMMA SendB == ASSUME TInv, BInv, NEW p \in Procs, Send(p) PROVE BInv'
<1>1. Now(p) = "send" /\ Others(p) /\ (Ended(p) \/ Went(p)) BY WriteFacts
<1>2. After(req[p].op, "send") = "count" BY DEF After
<1>3. Went(p) BY <1>1, <1>2, WriteFacts
<1>4. Now(p)' = "count" /\ req'[p] = req[p] BY <1>1, <1>2, <1>3 DEF Went
<1>5. Counted(p) /\ Counted(p)' /\ ~ Uncounted(p) /\ ~ Uncounted(p)'
  BY <1>1, <1>4 DEF Counted, Uncounted
<1>6. UNCHANGED <<count, drift, failed, overlapped, rec, owner>> BY DEF Send, store, history
<1>7. \A u \in Users : Live(u)' = Live(u) BY <1>6, LiveKept
<1> QED BY <1>1, <1>4, <1>5, <1>6, <1>7, BQuiet, FailedFacts

LEMMA CountB == ASSUME TInv, BInv, NEW p \in Procs, Count(p) PROVE BInv'
<1>1. RequestsT /\ StoreT /\ HistoryT BY DEF TInv
<1>2. Now(p) \in {"count", "uncount"} /\ Others(p) BY WriteFacts
<1>3. req[p].user \in Users BY <1>1, <1>2, CommandFacts
<1>4. UNCHANGED <<rec, owner, failed, drift, overlapped>> BY DEF Count, history
<1>5. PICK e \in {-1, 1} : e = IF Now(p) = "count" THEN 1 ELSE -1 OBVIOUS
<1>6. count' = [count EXCEPT ![req[p].user] = count[req[p].user] + e]
  <2>1. Sends(p, "count") <=> Now(p) = "count" BY <1>1, NowFacts DEF Names
  <2>2. count' = [count EXCEPT ![req[p].user] = IF Sends(p, "count") THEN @ + 1 ELSE @ - 1]
    BY DEF Count
  <2>3. count[req[p].user] \in Int BY <1>1, <1>3 DEF StoreT
  <2> QED BY <1>5, <2>1, <2>2, <2>3
<1>7. /\ Now(p) = "count" => Ended(p)
      /\ Now(p) = "uncount" => Now(p)' = "get" /\ req'[p] = req[p] /\ req[p].op = "delete"
  <2>1. After(req[p].op, "count") = "none" /\ After(req[p].op, "uncount") = "get" BY DEF After
  <2>2. Now(p) = "uncount" => Went(p) BY <1>2, <2>1, WriteFacts
  <2>3. Now(p) = "count" => Ended(p) BY <2>1, WriteFacts
  <2>4. Now(p) = "uncount" => req[p].op = "delete" BY <1>1, CommandFacts
  <2> QED BY <2>1, <2>2, <2>3, <2>4 DEF Went
<1>8. ASSUME NEW u \in Users PROVE Balance(u) \in Int /\ Balance(u)' = Balance(u)
  <2>1. PICK dc \in {-1, 0, 1} : dc = IF req[p].user = u THEN e ELSE 0 BY <1>5
  <2>2. PICK da \in {-1, 0} : da = IF req[p].user = u /\ Now(p) = "count" THEN -1 ELSE 0 OBVIOUS
  <2>3. PICK dt \in {0, 1} : dt = IF req[p].user = u /\ Now(p) = "uncount" THEN 1 ELSE 0 OBVIOUS
  <2>4. count'[u] = count[u] + dc BY <1>1, <1>3, <1>6, <2>1 DEF StoreT
  <2>5. /\ p \in Adding(u) <=> req[p].user = u /\ Now(p) = "count"
        /\ p \notin Adding(u)' /\ p \notin Taking(u)
        /\ p \in Taking(u)' <=> req[p].user = u /\ Now(p) = "uncount"
    <3>1. CASE Now(p) = "count" BY <1>7, <3>1 DEF Adding, Taking, Ended
    <3>2. CASE Now(p) = "uncount" BY <1>7, <3>2 DEF Adding, Taking
    <3> QED BY <1>2, <3>1, <3>2
  <2>6. /\ Cardinality(Adding(u)') = Cardinality(Adding(u)) + da
        /\ Cardinality(Taking(u)') = Cardinality(Taking(u)) + dt
        /\ Cardinality(Adding(u)) \in Int /\ Cardinality(Taking(u)) \in Int
    BY <1>2, <2>2, <2>3, <2>5, Moved
  <2>7. Cardinality(Live(u)') = Cardinality(Live(u)) + 0 /\ Cardinality(Live(u)) \in Int
    <3>1. Live(u)' = Live(u) BY <1>4, LiveKept
    <3> QED BY <3>1, LiveSame
  <2>8. drift'[u] = drift[u] + 0 BY <1>1, <1>4 DEF HistoryT
  <2>9. Balance(u) \in Int /\ Balance(u)' = Balance(u) + dc - 0 - 0 + da + dt
    <3>1. dc \in Int /\ da \in Int /\ dt \in Int /\ 0 \in Int
      BY <2>1, <2>2, <2>3
    <3>2. Shifted(u, dc, 0, 0, da, dt)
      BY <2>4, <2>6, <2>7, <2>8, <3>1 DEF Shifted
    <3> QED BY <3>2, BalanceIs
  <2>10. dc + da + dt = 0 BY <1>2, <1>5, <2>1, <2>2, <2>3
  <2> QED BY <2>9, <2>10
<1> QED BY <1>4, <1>8, BKept, FailedFacts

\* A deletion that finds no record has counted one off for nothing.
LEMMA GetB == ASSUME TInv, BInv, NEW p \in Procs, Get(p) PROVE BInv'
<1>1. RequestsT /\ StoreT /\ HistoryT BY DEF TInv
<1>2. /\ Others(p) /\ Now(p) = "get" BY GetFacts
<1>3. UNCHANGED <<rec, owner, count, failed, overlapped>> BY DEF Get, store
<1>4. /\ req[p].op \in {"delete", "publish"}
      /\ req[p].op = "delete" => req[p].user \in Users
  BY <1>1, <1>2, CommandFacts
<1>5. CASE rec[req[p].id] # NoRecord
  <2>1. Went(p) /\ (req[p].op = "delete" <=> Now(p)' = "mark") /\ Now(p)' \in {"mark", "show"}
    BY <1>5, GetFacts
  <2>2. drift' = drift BY <1>5 DEF Get
  <2>3. \A u \in Users : Live(u)' = Live(u) BY <1>3, LiveKept
  <2>4. /\ Uncounted(p) <=> Uncounted(p)'
        /\ ~ Counted(p) /\ ~ Counted(p)' /\ req'[p] = req[p]
    BY <1>2, <2>1 DEF Went, Counted, Uncounted
  <2> QED BY <1>2, <1>3, <2>2, <2>3, <2>4, BQuiet, FailedFacts
<1>6. CASE rec[req[p].id] = NoRecord
  <2>1. Ended(p) BY <1>6, GetFacts
  <2>2. ASSUME NEW u \in Users PROVE Balance(u) \in Int /\ Balance(u)' = Balance(u)
    <3>1. PICK d \in {-1, 0} : d = IF req[p].op = "delete" /\ req[p].user = u THEN -1 ELSE 0
      OBVIOUS
    <3>2. drift'[u] = drift[u] + d
      <4>1. CASE req[p].op = "delete"
        <5>1. drift' = [drift EXCEPT ![req[p].user] = @ - 1] BY <1>6, <4>1 DEF Get
        <5>2. drift[u] \in Int BY <1>1 DEF HistoryT
        <5> QED BY <1>1, <1>4, <3>1, <4>1, <5>1, <5>2 DEF HistoryT
      <4>2. CASE req[p].op # "delete"
        <5>1. drift' = drift BY <4>2 DEF Get
        <5> QED BY <1>1, <3>1, <4>2, <5>1 DEF HistoryT
      <4> QED BY <4>1, <4>2
    <3>3. /\ p \in Taking(u) <=> req[p].op = "delete" /\ req[p].user = u
          /\ p \notin Taking(u)' /\ p \notin Adding(u) /\ p \notin Adding(u)'
      BY <1>2, <2>1 DEF Adding, Taking, Ended
    <3>4. /\ Cardinality(Adding(u)') = Cardinality(Adding(u)) + 0
          /\ Cardinality(Taking(u)') = Cardinality(Taking(u)) + d
          /\ Cardinality(Adding(u)) \in Int /\ Cardinality(Taking(u)) \in Int
      BY <1>2, <3>1, <3>3, Moved
    <3>5. Cardinality(Live(u)') = Cardinality(Live(u)) + 0 /\ Cardinality(Live(u)) \in Int
      <4>1. Live(u)' = Live(u) BY <1>3, LiveKept
      <4> QED BY <4>1, LiveSame
    <3>6. count'[u] = count[u] + 0 BY <1>1, <1>3 DEF StoreT
    <3>7. Balance(u) \in Int /\ Balance(u)' = Balance(u) + 0 - 0 - d + 0 + d
      <4>1. d \in Int /\ 0 \in Int BY <3>1
      <4>2. Shifted(u, 0, 0, d, 0, d) BY <3>2, <3>4, <3>5, <3>6, <4>1 DEF Shifted
      <4> QED BY <4>2, BalanceIs
    <3> QED BY <3>1, <3>7
  <2> QED BY <1>3, <2>2, BKept, FailedFacts
<1> QED BY <1>5, <1>6

LEMMA MarkB == ASSUME TInv, BInv, NEW p \in Procs, Mark(p) PROVE BInv'
<1>1. RequestsT /\ StoreT /\ HistoryT BY DEF TInv
<1>2. Now(p) = "mark" /\ req[p].op = "delete" BY <1>1, WriteFacts, CommandFacts
<1>3. PICK r \in Ids, new \in Record, int \in Record : Written(p, r, new, int) BY SetFacts
<1>4. /\ r = req[p].id /\ rec' = [rec EXCEPT ![r] = new] /\ Others(p) /\ Ended(p)
      /\ UNCHANGED <<owner, count, failed, overlapped>>
      /\ new = [copy[p] EXCEPT !.del = TRUE] /\ r \in Stored
  BY <1>2, <1>3 DEF Written
<1>5. rec'[r] = new /\ (\A x \in Ids \ {r} : rec'[x] = rec[x]) /\ new.del = TRUE
  <2>1. copy[p] \in Record BY <1>2, ChangingFacts DEF Changing
  <2> QED BY <1>1, <1>4, <2>1, RecordFacts DEF StoreT
<1>6. ASSUME NEW u \in Users PROVE Balance(u) \in Int /\ Balance(u)' = Balance(u)
  <2>1. PICK k \in {0, 1} : k = IF u = owner[r] /\ ~ rec[r].del THEN 1 ELSE 0 OBVIOUS
  <2>2. PICK e \in {-1, 0} : e = IF u = req[p].user THEN -1 ELSE 0 OBVIOUS
  <2>3. drift'[u] = drift[u] + (k + e)
    <3> DEFINE takes == [v \in Users |-> IF v = owner[r] /\ ~ rec[r].del THEN 1 ELSE 0]
    <3>1. drift' = [v \in Users |-> drift[v] + takes[v] - IF v = req[p].user THEN 1 ELSE 0]
      BY <1>4 DEF Mark
    <3>2. takes[u] = k BY <2>1
    <3> HIDE DEF takes
    <3>3. drift'[u] = drift[u] + k - IF u = req[p].user THEN 1 ELSE 0 BY <3>1, <3>2
    <3>4. drift[u] \in Int BY <1>1 DEF HistoryT
    <3>5. CASE u = req[p].user
      <4>1. drift'[u] = drift[u] + k - 1 /\ e = -1 BY <2>2, <3>3, <3>5
      <4> QED BY <2>1, <3>4, <4>1
    <3>6. CASE u # req[p].user
      <4>1. drift'[u] = drift[u] + k - 0 /\ e = 0 BY <2>2, <3>3, <3>6
      <4> QED BY <2>1, <3>4, <4>1
    <3> QED BY <3>5, <3>6
  <2>4. /\ p \in Taking(u) <=> u = req[p].user
        /\ p \notin Taking(u)' /\ p \notin Adding(u) /\ p \notin Adding(u)'
    BY <1>2, <1>4 DEF Adding, Taking, Ended
  <2>5. /\ Cardinality(Adding(u)') = Cardinality(Adding(u)) + 0
        /\ Cardinality(Taking(u)') = Cardinality(Taking(u)) + e
        /\ Cardinality(Adding(u)) \in Int /\ Cardinality(Taking(u)) \in Int
    <3>1. Others(p) BY <1>4
    <3>2. /\ e \in Int /\ 0 \in Int
          /\ \/ p \in Taking(u) /\ p \notin Taking(u)' /\ e = -1
             \/ (p \in Taking(u) <=> p \in Taking(u)') /\ e = 0
          /\ p \in Adding(u) <=> p \in Adding(u)'
      BY <2>2, <2>4
    <3> QED BY <3>1, <3>2, Moved
  <2>6. /\ r \notin Live(u)' /\ (r \in Live(u) <=> k = 1)
    <3>1. rec[r] # NoRecord BY <1>4 DEF Stored
    <3>2. r \in Live(u) <=> k = 1 BY <2>1, <3>1 DEF Live
    <3>3. rec'[r].del BY <1>5
    <3> QED BY <3>2, <3>3 DEF Live
  <2>7. Differ(Live(u), Live(u)', r)
    <3>1. \A x \in Ids \ {r} : x \in Live(u) <=> x \in Live(u)' BY <1>4, <1>5 DEF Live
    <3> QED BY <3>1, LiveDiffer
  <2>8. PICK l \in {-1, 0} : /\ Cardinality(Live(u)') = Cardinality(Live(u)) + l
                             /\ l + k = 0 /\ Cardinality(Live(u)) \in Int
    <3>1. CASE k = 1
      <4>1. Cardinality(Live(u)') = Cardinality(Live(u)) - 1 /\ Cardinality(Live(u)) \in Nat
        BY <2>6, <2>7, <3>1 DEF Differ
      <4>2. -1 \in {-1, 0} /\ -1 + 1 = 0 OBVIOUS
      <4>3. Cardinality(Live(u)') = Cardinality(Live(u)) + (-1) BY <4>1
      <4> QED BY <3>1, <4>1, <4>2, <4>3
    <3>2. CASE k = 0
      <4>1. Cardinality(Live(u)') = Cardinality(Live(u)) /\ Cardinality(Live(u)) \in Nat
        BY <2>6, <2>7, <3>2 DEF Differ
      <4> QED BY <3>2, <4>1
    <3> QED BY <2>1, <3>1, <3>2
  <2>9. count'[u] = count[u] + 0 BY <1>1, <1>4 DEF StoreT
  <2>10. PICK d \in Int : d = k + e BY <2>1, <2>2
  <2>11. /\ l \in Int /\ e \in Int /\ 0 \in Int
         /\ drift'[u] = drift[u] + d
    BY <2>3, <2>10
  <2>12. Balance(u) \in Int /\ Balance(u)' = Balance(u) + 0 - l - d + 0 + e
    <3>1. /\ count'[u] = count[u] + 0 /\ drift'[u] = drift[u] + d
          /\ Cardinality(Live(u)') = Cardinality(Live(u)) + l
          /\ Cardinality(Adding(u)') = Cardinality(Adding(u)) + 0
          /\ Cardinality(Taking(u)') = Cardinality(Taking(u)) + e
          /\ Cardinality(Live(u)) \in Int /\ Cardinality(Adding(u)) \in Int
          /\ Cardinality(Taking(u)) \in Int
      BY <2>5, <2>8, <2>9, <2>11
    <3>2. d \in Int BY <2>10
    <3>3. Shifted(u, 0, l, d, 0, e) BY <2>11, <3>1, <3>2 DEF Shifted
    <3> QED BY <3>3, BalanceIs
  <2>13. 0 - l - d + 0 + e = 0 BY <2>1, <2>2, <2>8, <2>10
  <2> QED BY <2>8, <2>10, <2>11, <2>12, <2>13
<1> QED BY <1>4, <1>6, BKept, FailedFacts

LEMMA ShowB == ASSUME TInv, AInv, BInv, NEW p \in Procs, Show(p) PROVE BInv'
<1>1. RequestsT /\ StoreT /\ HistoryT BY DEF TInv
<1>2. Now(p) = "show" /\ req[p].op = "publish" BY <1>1, WriteFacts, CommandFacts
<1>3. PICK r \in Ids, new \in Record, int \in Record : Written(p, r, new, int) BY SetFacts
<1>4. /\ r = req[p].id /\ rec' = [rec EXCEPT ![r] = new] /\ Others(p) /\ Ended(p)
      /\ UNCHANGED <<owner, count, failed, overlapped, drift>>
      /\ new = [copy[p] EXCEPT !.pub = req[p].pub] /\ r \in Stored /\ req[p].pub \in BOOLEAN
  BY <1>2, <1>3 DEF Written
<1>5. CASE overlapped # {} BY <1>4, <1>5 DEF BInv
<1>6. CASE overlapped = {}
  <2>1. copy[p] = rec[r] BY <1>2, <1>4, <1>6 DEF AInv, CopyOK
  <2>2. rec[r] \in Record BY <1>2, <1>4, ChangingFacts DEF Changing
  <2>3. new.del = rec[r].del /\ new # NoRecord /\ rec[r] # NoRecord
    BY <1>4, <2>1, <2>2, RecordFacts, NotARecord
  <2>4. rec'[r] = new /\ \A x \in Ids \ {r} : rec'[x] = rec[x] BY <1>1, <1>4 DEF StoreT
  <2>5. \A u \in Users : Live(u)' = Live(u) BY <1>4, <2>3, <2>4 DEF Live
  <2>6. ~ Counted(p) /\ ~ Uncounted(p) /\ ~ Counted(p)' /\ ~ Uncounted(p)'
    BY <1>2, <1>4 DEF Counted, Uncounted, Ended
  <2> QED BY <1>4, <2>5, <2>6, BQuiet, FailedFacts
<1> QED BY <1>5, <1>6

LEMMA PagesB ==
  ASSUME TInv, BInv, NEW p \in Procs, RangePage(p) \/ Mget(p) \/ Clean(p)
  PROVE  BInv'
<1>1. RequestsT BY DEF TInv
<1>2. Others(p) /\ Now(p) \in {"range", "mget", "clean"}
      /\ Now(p)' \in {"none", "mget", "clean"}
  <2>1. CASE Mget(p) BY <2>1, MgetFacts DEF Ended
  <2>2. CASE Clean(p) BY <2>2, CleanFacts DEF Ended
  <2>3. CASE RangePage(p)
    <3>1. Now(p) = "range" /\ ~ Idle(p) BY <1>1, <2>3, SendsFacts DEF RangePage, Names
    <3>2. PICK S : S = Page(list[req[p].key], req[p].page) OBVIOUS
    <3>3. CASE S = {}
      <4>1. Clear(p) BY <2>3, <3>2, <3>3 DEF RangePage
      <4> QED BY <1>1, <3>1, <4>1, ClearFacts DEF Ended
    <3>4. CASE S # {}
      <4>1. /\ ids' = [ids EXCEPT ![p] = S] /\ todo' = [todo EXCEPT ![p] = Tail(@)]
            /\ UNCHANGED <<req, copy, store>>
        BY <2>3, <3>2, <3>4 DEF RangePage
      <4>2. req[p].key \in Keys /\ req[p].page \in Pages BY <1>1, <3>1, CommandFacts
      <4>3. S \subseteq Stored BY <3>2, <4>2, PageFacts
      <4>4. Others(p) /\ Went(p) BY <3>1, <3>4, <4>1, <4>3, PageLocal
      <4> QED BY <3>1, <4>4 DEF Went, After
    <3> QED BY <3>3, <3>4
  <2> QED BY <2>1, <2>2, <2>3
<1>3. ~ Counted(p) /\ ~ Uncounted(p) /\ ~ Counted(p)' /\ ~ Uncounted(p)'
  BY <1>2 DEF Counted, Uncounted
<1>4. UNCHANGED <<rec, owner, count, failed, drift, overlapped>>
  BY DEF RangePage, Mget, Clean, store, history
<1>5. \A u \in Users : Live(u)' = Live(u) BY <1>4, LiveKept
<1> QED BY <1>2, <1>3, <1>4, <1>5, BQuiet, FailedFacts

\* A failure puts the count off by one at most.
LEMMA FailB == ASSUME TInv, BInv, NEW p \in Procs, Fail(p) \/ CleanFails(p) \/ Kill(p) PROVE BInv'
<1>1. RequestsT /\ StoreT /\ HistoryT BY DEF TInv
<1>2. UNCHANGED <<rec, owner, count, drift, overlapped>> /\ failed' = failed + 1
  BY DEF Fail, CleanFails, Kill, Fails, store, history
<1>3. /\ Others(p)
      /\ \/ Ended(p)
         \/ Now(p) \in {"send", "uncount"} /\ Went(p)
         \/ Now(p) = "clean" /\ Now(p)' = "clean" /\ req' = req
  BY FailFacts
<1>4. ASSUME NEW u \in Users
      PROVE  \/ /\ p \in Adding(u) /\ p \notin Adding(u)'
                /\ p \notin Taking(u) /\ p \notin Taking(u)'
             \/ /\ p \in Taking(u) <=> p \notin Taking(u)'
                /\ p \notin Adding(u) /\ p \notin Adding(u)'
             \/ /\ p \in Adding(u) <=> p \in Adding(u)'
                /\ p \in Taking(u) <=> p \in Taking(u)'
  <2>1. CASE Ended(p) BY <2>1 DEF Ended, Adding, Taking
  <2>2. CASE Now(p) = "send" /\ Went(p)
    <3>1. Now(p)' = "count" /\ req'[p] = req[p] BY <2>2 DEF Went, After
    <3> QED BY <2>2, <3>1 DEF Adding, Taking
  <2>3. CASE Now(p) = "uncount" /\ Went(p)
    <3>1. Now(p)' = "get" /\ req'[p] = req[p] BY <2>3 DEF Went, After
    <3> QED BY <2>3, <3>1 DEF Adding, Taking
  <2>4. CASE Now(p) = "clean" /\ Now(p)' = "clean" BY <2>4 DEF Adding, Taking
  <2> QED BY <1>3, <2>1, <2>2, <2>3, <2>4
<1> SUFFICES ASSUME overlapped = {}, NEW u \in Users PROVE Balance(u)' \in -failed' .. failed'
  BY <1>2 DEF BInv
<1>5. \E da, dt \in {-1, 0, 1} :
         /\ da + dt \in {-1, 0, 1}
         /\ Cardinality(Adding(u)') = Cardinality(Adding(u)) + da
         /\ Cardinality(Taking(u)') = Cardinality(Taking(u)) + dt
         /\ Cardinality(Adding(u)) \in Int /\ Cardinality(Taking(u)) \in Int
  <2>1. Differ(Adding(u), Adding(u)', p) /\ Differ(Taking(u), Taking(u)', p)
    BY <1>3, AddingDiffer
  <2>2. Cardinality(Adding(u)) \in Int /\ Cardinality(Taking(u)) \in Int BY <2>1 DEF Differ
  <2>3. \E da \in {-1, 0, 1} : /\ Cardinality(Adding(u)') = Cardinality(Adding(u)) + da
                               /\ (p \in Adding(u) <=> p \in Adding(u)') => da = 0
    BY <2>1 DEF Differ
  <2>4. \E dt \in {-1, 0, 1} : /\ Cardinality(Taking(u)') = Cardinality(Taking(u)) + dt
                               /\ (p \in Taking(u) <=> p \in Taking(u)') => dt = 0
    BY <2>1 DEF Differ
  <2>5. PICK da \in {-1, 0, 1} : /\ Cardinality(Adding(u)') = Cardinality(Adding(u)) + da
                                 /\ (p \in Adding(u) <=> p \in Adding(u)') => da = 0
    BY <2>3
  <2>6. PICK dt \in {-1, 0, 1} : /\ Cardinality(Taking(u)') = Cardinality(Taking(u)) + dt
                                 /\ (p \in Taking(u) <=> p \in Taking(u)') => dt = 0
    BY <2>4
  <2>7. da = 0 \/ dt = 0 BY <1>4, <2>5, <2>6
  <2>8. da + dt \in {-1, 0, 1} BY <2>7
  <2> QED BY <2>2, <2>5, <2>6, <2>8
<1>6. PICK da \in {-1, 0, 1}, dt \in {-1, 0, 1} :
         /\ da + dt \in {-1, 0, 1}
         /\ Cardinality(Adding(u)') = Cardinality(Adding(u)) + da
         /\ Cardinality(Taking(u)') = Cardinality(Taking(u)) + dt
         /\ Cardinality(Adding(u)) \in Int /\ Cardinality(Taking(u)) \in Int
  BY <1>5
<1>7. Cardinality(Live(u)') = Cardinality(Live(u)) + 0 /\ Cardinality(Live(u)) \in Int
  <2>1. Live(u)' = Live(u) BY <1>2, LiveKept
  <2> QED BY <2>1, LiveSame
<1>8. count'[u] = count[u] + 0 /\ drift'[u] = drift[u] + 0 BY <1>1, <1>2 DEF StoreT, HistoryT
<1>9. Balance(u) \in Int /\ Balance(u)' = Balance(u) + 0 - 0 - 0 + da + dt
  <2>1. da \in Int /\ dt \in Int /\ 0 \in Int OBVIOUS
  <2>2. Shifted(u, 0, 0, 0, da, dt) BY <1>6, <1>7, <1>8, <2>1 DEF Shifted
  <2> QED BY <2>2, BalanceIs
<1>10. PICK b \in Int, d \in {-1, 0, 1} : b = Balance(u) /\ d = da + dt BY <1>6, <1>9
<1>11. Balance(u)' = b + d BY <1>6, <1>9, <1>10
<1>12. b \in -failed .. failed /\ failed \in Nat BY <1>10, FailedFacts DEF BInv
<1>13. b + d \in -(failed + 1) .. failed + 1 BY <1>10, <1>12
<1> QED BY <1>2, <1>11, <1>13

\* Nobody's request goes on.
LEMMA OutsideB ==
  ASSUME TInv, BInv, UNCHANGED <<rec, owner, count, drift, overlapped, local>>,
         failed' \in Nat, failed <= failed'
  PROVE  BInv'
<1>1. \A q \in Procs : Now(q)' = Now(q) /\ req'[q] = req[q] BY DEF local, Now, Idle
<1>2. ASSUME NEW u \in Users PROVE Balance(u) \in Int /\ Balance(u)' = Balance(u)
  <2>1. Adding(u)' = Adding(u) /\ Taking(u)' = Taking(u) BY <1>1 DEF Adding, Taking
  <2>2. Adding(u) \subseteq Procs /\ Taking(u) \subseteq Procs BY DEF Adding, Taking
  <2>3. IsFiniteSet(Adding(u)) /\ IsFiniteSet(Taking(u))
    BY <2>2, FS_Subset, FeedUsersAssumption
  <2>4. Cardinality(Adding(u)) \in Nat /\ Cardinality(Taking(u)) \in Nat
    BY <2>3, FS_CardinalityType
  <2>5. Live(u)' = Live(u) BY LiveKept
  <2>6. Cardinality(Live(u)') = Cardinality(Live(u)) /\ Cardinality(Live(u)) \in Nat
    BY <2>5, LiveSame
  <2>7. count[u] \in Int /\ drift[u] \in Int BY DEF TInv, StoreT, HistoryT
  <2>8. Balance(u)' = Balance(u) BY <2>1, <2>6 DEF Balance
  <2> QED BY <2>4, <2>6, <2>7, <2>8 DEF Balance
<1> QED BY <1>2, BKept

LEMMA NextB == TInv /\ AInv /\ BInv /\ [Next]_vars => BInv'
<1> SUFFICES ASSUME TInv, AInv, BInv, [Next]_vars PROVE BInv' OBVIOUS
<1>1. ASSUME NEW p \in Procs, NEW q \in Requests, Begin(p, q) PROVE BInv' BY <1>1, BeginB
<1>2. ASSUME NEW p \in Procs, Incr(p) \/ Set(p) \/ Send(p) \/ Count(p) PROVE BInv'
  BY <1>2, IncrB, SetB, SendB, CountB
<1>3. ASSUME NEW p \in Procs, Get(p) \/ Mark(p) \/ Show(p) PROVE BInv'
  BY <1>3, GetB, MarkB, ShowB
<1>4. ASSUME NEW p \in Procs, RangePage(p) \/ Mget(p) \/ Clean(p) PROVE BInv' BY <1>4, PagesB
<1>5. ASSUME NEW p \in Procs, Fail(p) \/ CleanFails(p) \/ Kill(p) PROVE BInv' BY <1>5, FailB
<1>6. ASSUME NEW r \in Ids, WorkerStep(r) PROVE BInv'
  <2>1. UNCHANGED <<rec, owner, count, drift, overlapped, local>> BY <1>6, WorkerFacts
  <2>2. failed' = failed \/ failed' = failed + 1
    BY <1>6 DEF WorkerStep, WGet, LinkToHome, ReadFollowers, LinkToActive, LinkToRecent, WFail,
                WKill, Loses, Fails
  <2>3. failed' \in Nat /\ failed <= failed' BY <2>2, FailedFacts
  <2> QED BY <2>1, <2>3, OutsideB
<1>7. CASE \/ \E u, v \in Users : FollowersChange(u, v)
           \/ UNCHANGED vars
  <2>1. UNCHANGED <<rec, owner, count, drift, overlapped, local, failed>>
    BY <1>7 DEF FollowersChange, vars, store, history
  <2> QED BY <2>1, FailedFacts, OutsideB
<1> QED BY <1>1, <1>2, <1>3, <1>4, <1>5, <1>6, <1>7 DEF Next, WorkerStep

LEMMA InitB == Init => BInv
<1> SUFFICES ASSUME Init, NEW u \in Users PROVE Balance(u) \in -failed .. failed
  BY DEF BInv
<1>1. \A p \in Procs : Now(p) = "none" BY DEF Init, Idle, Now
<1>2. Adding(u) = {} /\ Taking(u) = {} /\ Live(u) = {}
  BY <1>1 DEF Adding, Taking, Live, Init
<1>3. Cardinality({}) = 0 BY FS_EmptySet
<1>4. count[u] = 0 /\ drift[u] = 0 /\ failed = 0 BY DEF Init
<1>5. Balance(u) = 0 - 0 - 0 + 0 + 0 BY <1>2, <1>3, <1>4 DEF Balance
<1> QED BY <1>4, <1>5

\* A user's count of records is off by the failures, and by the deletions that
\* removed no record of his or were another's, and never by more, for any
\* number of requests and however they overlap (RecordApi.cc:46-71,
\* StatisticApi.cc:30-72).
THEOREM CountBoundedHolds == Spec => []CountBounded
<1>1. Spec => [](TInv /\ AInv /\ BInv)
  BY InitT, InitA, InitB, NextT, NextA, NextB, PTL DEF Spec
<1>2. TInv /\ BInv => CountBounded
  <2> SUFFICES ASSUME TInv, BInv, overlapped = {}, \A p \in Procs : Idle(p), NEW u \in Users
               PROVE  count[u] - Cardinality(Live(u)) - drift[u] \in -failed .. failed
    BY DEF CountBounded
  <2>1. \A p \in Procs : Now(p) = "none" BY DEF Now
  <2>2. Adding(u) = {} /\ Taking(u) = {} BY <2>1 DEF Adding, Taking
  <2>3. Balance(u) = count[u] - Cardinality(Live(u)) - drift[u] + 0 + 0
    BY <2>2, FS_EmptySet DEF Balance
  <2>4. Balance(u) \in -failed .. failed BY DEF BInv
  <2>5. PICK b : b = count[u] - Cardinality(Live(u)) - drift[u] OBVIOUS
  <2>6. b \in Int
    <3>1. Cardinality(Live(u)) \in Nat BY LiveFinite
    <3> QED BY <2>5, <3>1 DEF TInv, StoreT, HistoryT
  <2>7. Balance(u) = b BY <2>3, <2>5, <2>6
  <2> QED BY <2>4, <2>5, <2>7
<1> QED BY <1>1, <1>2, PTL
=============================================================================
