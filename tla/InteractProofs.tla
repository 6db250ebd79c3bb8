---------------------------- MODULE InteractProofs ----------------------------
(***************************************************************************)
(* The lists, the notices and the counters of the interactions: the        *)
(* inductive invariant of Interact and its theorems, for every number of   *)
(* users, processes, requests and failures.                                *)
(***************************************************************************)
EXTENDS Interact, SequenceTheorems, FiniteSetTheorems, TLAPS

(***************************************************************************)
(* The inductive invariant.  What a process has yet to send says what it   *)
(* has sent: a command that is no longer there has had its effect, because *)
(* none of these is passed over when it fails.                             *)
(***************************************************************************)
Names == {"incr", "countLike", "addLike", "countComment", "setRough", "readTarget",
          "setRecordData", "linkRecord", "setUserData", "linkSent", "readOwner",
          "linkReceived", "linkNotice", "find", "uncountLike", "remLike",
          "uncountComment", "unlinkRecord", "unlinkSent", "readRough", "setDeleted",
          "readNotice", "trim"}

Setters == {"incr", "setRough", "setRecordData", "setUserData", "readOwner"}
Linkers == {"linkRecord", "linkSent", "linkReceived", "linkNotice"}

Has(s, c) == \E i \in 1 .. Len(s) : s[i] = c

Ordered(s) ==
  \A i, j \in 1 .. Len(s) :
    /\ s[i] = "incr" => i <= j
    /\ s[i] = "setRecordData" /\ s[j] = "linkRecord" => i < j
    /\ s[i] \in {"setRough", "setUserData"}
         /\ s[j] \in {"linkSent", "linkReceived", "linkNotice"} => i < j
    /\ s[i] = "readOwner" /\ s[j] \in {"linkReceived", "linkNotice"} => i < j
    /\ s[i] = "setRough" /\ s[j] = "setRough" => i = j
    /\ s[i] \in {"find", "readNotice"} => i < Len(s)

FitsOp(s, o) == /\ \A c \in Setters \cup Linkers : Has(s, c) => o \in Kinds
                /\ Has(s, "find") => o \notin Kinds

Effect(p, c) == /\ c = "incr" => id[p] \in 1 .. sequence
                /\ c = "setRough" => rough[id[p]].user = user[p]
                /\ c = "setRecordData" => id[p] \in recordData
                /\ c = "setUserData" => id[p] \in userData
                /\ c = "readOwner" => user[p] # Owner

Numbered(p) == Sends(p) /\ ~ Has(todo[p], "incr")

ProcOK(p) ==
  op[p] # "none" =>
    /\ user[p] \in Users
    /\ todo[p] \in Seq(Names) /\ todo[p] # << >>
    /\ Ordered(todo[p])
    /\ FitsOp(todo[p], op[p])
    /\ Sends(p) /\ Has(todo[p], "incr") => \A c \in Setters : Has(todo[p], c)
    /\ Numbered(p) => \A c \in Setters : ~ Has(todo[p], c) => Effect(p, c)
    /\ Numbered(p) /\ Has(todo[p], "setRough") => rough[id[p]].user = NoOne
    /\ Numbered(p) => \A q \in Procs : Numbered(q) /\ id[q] = id[p] => q = p

RequestsOK == /\ op \in [Procs -> DOMAIN Commands \cup {"none"}]
              /\ DOMAIN user = Procs /\ DOMAIN id = Procs
              /\ DOMAIN todo = Procs
              /\ \A p \in Procs : ProcOK(p)

StoreOK == /\ sequence \in 0 .. MaxInteracts
           /\ rough \in [Interacts -> Rough \cup {NoRough}]
           /\ \A i \in Interacts : i > sequence => rough[i].user = NoOne
           /\ sent \in [Users -> SUBSET Interacts]
           /\ received \subseteq Interacts
           /\ notice \in Seq(Interacts)

KnownSenders == \A i \in received \cup Elements(notice) : rough[i].user \in Users

IInv == StoreOK /\ RequestsOK /\ ListedHaveDetails /\ KnownSenders
-----------------------------------------------------------------------------
(* The commands of a request.                                              *)

\* What is left after the first command.
LEMMA TailFacts ==
  ASSUME NEW s \in Seq(Names), s # << >>, Len(s) # 1
  PROVE  /\ Tail(s) \in Seq(Names) /\ Tail(s) # << >>
         /\ Ordered(s) => Ordered(Tail(s))
         /\ \A o : FitsOp(s, o) => FitsOp(Tail(s), o)
         /\ \A c : Has(Tail(s), c) => Has(s, c)
         /\ \A c : Has(s, c) => Head(s) = c \/ Has(Tail(s), c)
         /\ Ordered(s) /\ Head(s) = "setRough" => ~ Has(Tail(s), "setRough")
<1>1. /\ Len(s) \in Nat \ {0, 1} /\ Tail(s) \in Seq(Names)
      /\ Len(Tail(s)) = Len(s) - 1 /\ Head(s) = s[1]
      /\ \A i \in 1 .. Len(Tail(s)) : Tail(s)[i] = s[i + 1]
  OBVIOUS
<1>2. Tail(s) # << >>
  <2>1. Len(Tail(s)) # 0 BY <1>1
  <2> QED BY <2>1, EmptySeq
<1>3. \A c : Has(Tail(s), c) => Has(s, c)
  <2> SUFFICES ASSUME NEW c, NEW i \in 1 .. Len(Tail(s)), Tail(s)[i] = c
               PROVE  \E j \in 1 .. Len(s) : s[j] = c
    BY DEF Has
  <2> QED BY <1>1
<1>4. Ordered(s) => Ordered(Tail(s))
  <2> SUFFICES ASSUME Ordered(s), NEW i \in 1 .. Len(Tail(s)), NEW j \in 1 .. Len(Tail(s))
               PROVE  Ordered(Tail(s))!(i, j)
    BY DEF Ordered
  <2>1. i + 1 \in 1 .. Len(s) /\ j + 1 \in 1 .. Len(s) BY <1>1
  <2>2. Ordered(s)!(i + 1, j + 1) BY <2>1 DEF Ordered
  <2>3. Tail(s)[i] = s[i + 1] /\ Tail(s)[j] = s[j + 1] BY <1>1
  <2> QED BY <2>2, <2>3
<1>5. ASSUME NEW c, Has(s, c) PROVE Head(s) = c \/ Has(Tail(s), c)
  <2> SUFFICES ASSUME NEW i \in 1 .. Len(s), s[i] = c, i # 1
               PROVE  \E j \in 1 .. Len(Tail(s)) : Tail(s)[j] = c
    BY <1>1, <1>5 DEF Has
  <2>1. i - 1 \in 1 .. Len(Tail(s)) /\ Tail(s)[i - 1] = s[i] BY <1>1
  <2> QED BY <2>1
<1>6. \A o : FitsOp(s, o) => FitsOp(Tail(s), o) BY <1>3 DEF FitsOp
<1>7. ASSUME Ordered(s), Head(s) = "setRough", Has(Tail(s), "setRough") PROVE FALSE
  <2>1. PICK i \in 1 .. Len(Tail(s)) : Tail(s)[i] = "setRough" BY <1>7 DEF Has
  <2>2. 1 \in 1 .. Len(s) /\ i + 1 \in 1 .. Len(s) /\ s[i + 1] = "setRough" BY <1>1, <2>1
  <2>3. Ordered(s)!(1, i + 1) BY <1>7, <2>2 DEF Ordered
  <2> QED BY <1>1, <1>7, <2>2, <2>3
<1> QED BY <1>1, <1>2, <1>3, <1>4, <1>5, <1>6, <1>7

\* What the first command says of the others.
LEMMA HeadFacts ==
  ASSUME NEW s \in Seq(Names), s # << >>, Ordered(s)
  PROVE  /\ Has(s, Head(s)) /\ Head(s) \in Names
         /\ Head(s) # "incr" => ~ Has(s, "incr")
         /\ Head(s) = "linkRecord" => ~ Has(s, "setRecordData")
         /\ Head(s) \in {"linkSent", "linkReceived", "linkNotice"} =>
              ~ Has(s, "setRough") /\ ~ Has(s, "setUserData")
         /\ Head(s) \in {"linkReceived", "linkNotice"} => ~ Has(s, "readOwner")
         /\ Head(s) \in {"find", "readNotice"} => Len(s) # 1
<1>1. Len(s) \in Nat \ {0} /\ Head(s) = s[1] /\ 1 \in 1 .. Len(s) BY EmptySeq
<1>2. \A i \in 1 .. Len(s) : Ordered(s)!(i, 1) BY <1>1 DEF Ordered
<1>3. \A i \in 1 .. Len(s) : ~ (i < 1) BY <1>1
<1>4. \A i \in 1 .. Len(s) : i <= 1 => i = 1 BY <1>1
<1> QED BY <1>1, <1>2, <1>3, <1>4 DEF Has

LEMMA CommandsFacts ==
  ASSUME NEW o \in DOMAIN Commands
  PROVE  LET s == Commands[o]
         IN  /\ s \in Seq(Names) /\ s # << >>
             /\ Ordered(s)
             /\ FitsOp(s, o)
             /\ o \in Kinds => \A c \in Setters : Has(s, c)
<1>1. CASE o = "like"
  <2> DEFINE s == Commands["like"]
  <2>1. /\ s \in Seq(Names) /\ Len(s) = 12
        /\ s[1] = "incr" /\ s[2] = "countLike" /\ s[3] = "addLike" /\ s[4] = "setRough"
        /\ s[5] = "readTarget" /\ s[6] = "setRecordData" /\ s[7] = "linkRecord"
         /\ s[8] = "setUserData"
        /\ s[9] = "linkSent" /\ s[10] = "readOwner" /\ s[11] = "linkReceived"
         /\ s[12] = "linkNotice"
    BY DEF Commands, Dispatch, Deletion, Undo, Names
  <2> HIDE DEF s
  <2>2. s # << >>
    <3>1. Len(s) # 0 BY <2>1
    <3> QED BY <3>1, EmptySeq
  <2>3. \A i \in 1 .. 12 :
          /\ s[i] = "incr" => i = 1
          /\ s[i] = "setRough" => i = 4
          /\ s[i] = "setRecordData" => i = 6
          /\ s[i] = "setUserData" => i = 8
          /\ s[i] = "readOwner" => i = 10
          /\ s[i] = "linkRecord" => i = 7
          /\ s[i] = "linkSent" => i = 9
          /\ s[i] \in {"linkReceived", "linkNotice"} => i \in {11, 12}
          /\ s[i] \notin {"find", "readNotice"}
    BY <2>1
  <2>4. Ordered(s)
    <3> SUFFICES ASSUME NEW i \in 1 .. Len(s), NEW j \in 1 .. Len(s)
                 PROVE  Ordered(s)!(i, j)
      BY DEF Ordered
    <3> QED BY <2>1, <2>3
  <2>5. \A c \in Setters : Has(s, c) BY <2>1 DEF Has, Setters
  <2>6. FitsOp(s, o) BY <1>1, <2>1, <2>3 DEF FitsOp, Has, Kinds
  <2> QED BY <1>1, <2>1, <2>2, <2>4, <2>5, <2>6 DEF s
<1>2. CASE o = "comment"
  <2> DEFINE s == Commands["comment"]
  <2>1. /\ s \in Seq(Names) /\ Len(s) = 11
        /\ s[1] = "incr" /\ s[2] = "countComment" /\ s[3] = "setRough" /\ s[4] = "readTarget"
        /\ s[5] = "setRecordData" /\ s[6] = "linkRecord" /\ s[7] = "setUserData"
         /\ s[8] = "linkSent"
        /\ s[9] = "readOwner" /\ s[10] = "linkReceived" /\ s[11] = "linkNotice"
    BY DEF Commands, Dispatch, Deletion, Undo, Names
  <2> HIDE DEF s
  <2>2. s # << >>
    <3>1. Len(s) # 0 BY <2>1
    <3> QED BY <3>1, EmptySeq
  <2>3. \A i \in 1 .. 11 :
          /\ s[i] = "incr" => i = 1
          /\ s[i] = "setRough" => i = 3
          /\ s[i] = "setRecordData" => i = 5
          /\ s[i] = "setUserData" => i = 7
          /\ s[i] = "readOwner" => i = 9
          /\ s[i] = "linkRecord" => i = 6
          /\ s[i] = "linkSent" => i = 8
          /\ s[i] \in {"linkReceived", "linkNotice"} => i \in {10, 11}
          /\ s[i] \notin {"find", "readNotice"}
    BY <2>1
  <2>4. Ordered(s)
    <3> SUFFICES ASSUME NEW i \in 1 .. Len(s), NEW j \in 1 .. Len(s)
                 PROVE  Ordered(s)!(i, j)
      BY DEF Ordered
    <3> QED BY <2>1, <2>3
  <2>5. \A c \in Setters : Has(s, c) BY <2>1 DEF Has, Setters
  <2>6. FitsOp(s, o) BY <1>2, <2>1, <2>3 DEF FitsOp, Has, Kinds
  <2> QED BY <1>2, <2>1, <2>2, <2>4, <2>5, <2>6 DEF s
<1>3. CASE o = "unlike"
  <2> DEFINE s == Commands["unlike"]
  <2>1. /\ s \in Seq(Names) /\ Len(s) = 7
        /\ s[1] = "find" /\ s[2] = "uncountLike" /\ s[3] = "remLike" /\ s[4] = "unlinkRecord"
        /\ s[5] = "unlinkSent" /\ s[6] = "readRough" /\ s[7] = "setDeleted"
    BY DEF Commands, Dispatch, Deletion, Undo, Names
  <2> HIDE DEF s
  <2>2. s # << >>
    <3>1. Len(s) # 0 BY <2>1
    <3> QED BY <3>1, EmptySeq
  <2>3. \A i \in 1 .. 7 : s[i] \notin Setters \cup Linkers
    BY <2>1 DEF Setters, Linkers
  <2>4. Ordered(s)
    <3> SUFFICES ASSUME NEW i \in 1 .. Len(s), NEW j \in 1 .. Len(s)
                 PROVE  Ordered(s)!(i, j)
      BY DEF Ordered
    <3>1. s[i] \notin Setters BY <2>1, <2>3
    <3>2. s[i] \in {"find", "readNotice"} => i < Len(s) BY <2>1
    <3> QED BY <3>1, <3>2 DEF Setters
  <2>5. FitsOp(s, o) /\ o \notin Kinds BY <1>3, <2>1, <2>3 DEF FitsOp, Has, Kinds
  <2> QED BY <1>3, <2>1, <2>2, <2>4, <2>5 DEF s
<1>4. CASE o = "uncomment"
  <2> DEFINE s == Commands["uncomment"]
  <2>1. /\ s \in Seq(Names) /\ Len(s) = 5
        /\ s[1] = "uncountComment" /\ s[2] = "unlinkRecord" /\ s[3] = "unlinkSent"
         /\ s[4] = "readRough"
        /\ s[5] = "setDeleted"
    BY DEF Commands, Dispatch, Deletion, Undo, Names
  <2> HIDE DEF s
  <2>2. s # << >>
    <3>1. Len(s) # 0 BY <2>1
    <3> QED BY <3>1, EmptySeq
  <2>3. \A i \in 1 .. 5 : s[i] \notin Setters \cup Linkers
    BY <2>1 DEF Setters, Linkers
  <2>4. Ordered(s)
    <3> SUFFICES ASSUME NEW i \in 1 .. Len(s), NEW j \in 1 .. Len(s)
                 PROVE  Ordered(s)!(i, j)
      BY DEF Ordered
    <3>1. s[i] \notin Setters BY <2>1, <2>3
    <3>2. s[i] \in {"find", "readNotice"} => i < Len(s) BY <2>1
    <3> QED BY <3>1, <3>2 DEF Setters
  <2>5. FitsOp(s, o) /\ o \notin Kinds BY <1>4, <2>1, <2>3 DEF FitsOp, Has, Kinds
  <2> QED BY <1>4, <2>1, <2>2, <2>4, <2>5 DEF s
<1>5. CASE o = "notices"
  <2> DEFINE s == Commands["notices"]
  <2>1. /\ s \in Seq(Names) /\ Len(s) = 2
        /\ s[1] = "readNotice" /\ s[2] = "trim"
    BY DEF Commands, Dispatch, Deletion, Undo, Names
  <2> HIDE DEF s
  <2>2. s # << >>
    <3>1. Len(s) # 0 BY <2>1
    <3> QED BY <3>1, EmptySeq
  <2>3. \A i \in 1 .. 2 : s[i] \notin Setters \cup Linkers
    BY <2>1 DEF Setters, Linkers
  <2>4. Ordered(s)
    <3> SUFFICES ASSUME NEW i \in 1 .. Len(s), NEW j \in 1 .. Len(s)
                 PROVE  Ordered(s)!(i, j)
      BY DEF Ordered
    <3>1. s[i] \notin Setters BY <2>1, <2>3
    <3>2. s[i] \in {"find", "readNotice"} => i < Len(s) BY <2>1
    <3> QED BY <3>1, <3>2 DEF Setters
  <2>5. FitsOp(s, o) /\ o \notin Kinds BY <1>5, <2>1, <2>3 DEF FitsOp, Has, Kinds
  <2> QED BY <1>5, <2>1, <2>2, <2>4, <2>5 DEF s
<1> QED BY <1>1, <1>2, <1>3, <1>4, <1>5 DEF Commands
-----------------------------------------------------------------------------
(* What a step does to the requests.                                       *)

LEMMA OtherRequests ==
  ASSUME IInv, NEW p \in Procs,
         /\ op' \in [Procs -> DOMAIN Commands \cup {"none"}]
         /\ DOMAIN user' = Procs /\ DOMAIN id' = Procs /\ DOMAIN todo' = Procs,
         \A q \in Procs \ {p} : /\ op'[q] = op[q] /\ user'[q] = user[q]
                                /\ id'[q] = id[q] /\ todo'[q] = todo[q],
         sequence' \in {sequence, sequence + 1},
         recordData \subseteq recordData', userData \subseteq userData',
         \A q \in Procs \ {p} : Numbered(q) => rough'[id[q]].user = rough[id[q]].user,
         ProcOK(p)'
  PROVE  RequestsOK'
<1>1. \A i \in 1 .. sequence : i \in 1 .. sequence' BY DEF IInv, StoreOK
<1>2. ASSUME NEW q \in Procs, q # p PROVE ProcOK(q)'
  <2>1. ProcOK(q) BY DEF IInv, RequestsOK
  <2>2. /\ Numbered(q)' <=> Numbered(q)
        /\ Sends(q)' <=> Sends(q)
    BY <1>2 DEF Numbered, Sends
  <2>3. Numbered(q) => \A c \in Setters : Effect(q, c) => Effect(q, c)'
    BY <1>1, <1>2 DEF Effect
  <2>4. Numbered(q) => \A r \in Procs : Numbered(r)' /\ id'[r] = id'[q] => r = q
    <3> SUFFICES ASSUME Numbered(q), NEW r \in Procs, Numbered(r)', id'[r] = id'[q]
                 PROVE  r = q
      OBVIOUS
    <3>1. CASE r = p
      <4>1. op'[p] # "none" BY <3>1 DEF Numbered, Sends, Kinds
      <4> QED BY <2>2, <3>1, <4>1 DEF ProcOK
    <3>2. CASE r # p
      <4>1. Numbered(r) /\ id[r] = id[q] BY <1>2, <3>2 DEF Numbered, Sends
      <4>2. op[q] # "none" BY DEF Numbered, Sends, Kinds
      <4> QED BY <2>1, <4>1, <4>2 DEF ProcOK
    <3> QED BY <3>1, <3>2
  <2>5. CASE op[q] = "none" BY <1>2, <2>5 DEF ProcOK
  <2>6. CASE op[q] # "none"
    <3>1. Numbered(q) /\ Has(todo[q], "setRough") => rough'[id[q]].user = NoOne
      BY <1>2, <2>1, <2>6 DEF ProcOK
    <3>2. Numbered(q) => \A c \in Setters : ~ Has(todo[q], c) => Effect(q, c)'
      BY <2>1, <2>3, <2>6 DEF ProcOK
    <3> QED BY <1>2, <2>1, <2>2, <2>4, <2>6, <3>1, <3>2 DEF ProcOK
  <2> QED BY <2>5, <2>6
<1> QED BY <1>2 DEF RequestsOK

LEMMA ClearStep ==
  ASSUME IInv, NEW p \in Procs, Clear(p), sequence' = sequence,
         \A q \in Procs \ {p} : Numbered(q) => rough'[id[q]].user = rough[id[q]].user,
         recordData \subseteq recordData', userData \subseteq userData'
  PROVE  RequestsOK'
<1>1. op'[p] = "none" BY DEF Clear, IInv, RequestsOK
<1>2. ProcOK(p)' BY <1>1 DEF ProcOK
<1> QED BY <1>2, OtherRequests DEF Clear, IInv, RequestsOK

\* The effect of the first command, when it has one, is the step's.
LEMMA GoOnStep ==
  ASSUME IInv, NEW p \in Procs, ~ Idle(p), GoOn(p), Len(todo[p]) # 1,
         DOMAIN id' = Procs,
         \A q \in Procs \ {p} : id'[q] = id[q],
         id'[p] = id[p] \/ ~ Sends(p),
         sequence' = sequence,
         recordData \subseteq recordData', userData \subseteq userData',
         \A q \in Procs \ {p} : Numbered(q) => rough'[id[q]].user = rough[id[q]].user,
         Head(todo[p]) # "setRough" => rough'[id[p]].user = rough[id[p]].user,
         Head(todo[p]) # "incr",
         Head(todo[p]) = "setRough" => rough'[id[p]].user = user[p],
         Head(todo[p]) = "setRecordData" => id[p] \in recordData',
         Head(todo[p]) = "setUserData" => id[p] \in userData',
         Head(todo[p]) = "readOwner" => user[p] # Owner
  PROVE  RequestsOK'
<1> DEFINE s == todo[p]
<1>1. ProcOK(p) /\ op[p] # "none" BY DEF IInv, RequestsOK, Idle
<1>2. s \in Seq(Names) /\ s # << >> /\ Ordered(s) /\ Len(s) # 1
      /\ FitsOp(s, op[p]) /\ user[p] \in Users
  BY <1>1 DEF ProcOK
<1>3. /\ todo'[p] = Tail(s) /\ op'[p] = op[p] /\ user'[p] = user[p]
      /\ \A q \in Procs \ {p} : /\ op'[q] = op[q] /\ user'[q] = user[q]
                                /\ todo'[q] = todo[q]
      /\ op' \in [Procs -> DOMAIN Commands \cup {"none"}]
      /\ DOMAIN user' = Procs /\ DOMAIN todo' = Procs
  BY DEF GoOn, IInv, RequestsOK
<1> HIDE DEF s
<1>4. /\ Tail(s) \in Seq(Names) /\ Tail(s) # << >>
      /\ Ordered(Tail(s)) /\ FitsOp(Tail(s), op[p])
  BY <1>2, TailFacts
<1>5. ~ Has(s, "incr")
  BY <1>2, HeadFacts DEF s
<1>6. ~ Has(Tail(s), "incr") BY <1>2, <1>5, TailFacts
<1>7. Numbered(p)' <=> Numbered(p)
  BY <1>3, <1>5, <1>6 DEF Numbered, Sends, s
<1>8. ASSUME Numbered(p), NEW c \in Setters, ~ Has(Tail(s), c)
      PROVE  Effect(p, c)'
  <2>1. id'[p] = id[p] BY <1>8 DEF Numbered
  <2>2. CASE Has(s, c)
    <3>1. Head(s) = c BY <1>2, <1>8, <2>2, TailFacts
    <3> QED BY <1>3, <2>1, <3>1 DEF Effect, Setters, s
  <2>3. CASE ~ Has(s, c)
    <3>1. Effect(p, c) BY <1>1, <1>8, <2>3 DEF ProcOK, s
    <3>2. c = "setRough" => Head(s) # "setRough" BY <1>2, <2>3, HeadFacts
    <3> QED BY <1>3, <2>1, <3>1, <3>2 DEF Effect, s
  <2> QED BY <2>2, <2>3
<1>9. ASSUME Numbered(p), Has(Tail(s), "setRough")
      PROVE  rough'[id'[p]].user = NoOne
  <2>1. Has(s, "setRough") /\ Head(s) # "setRough" BY <1>2, <1>9, TailFacts
  <2>2. rough[id[p]].user = NoOne BY <1>1, <1>9, <2>1 DEF ProcOK, s
  <2> QED BY <1>9, <2>1, <2>2 DEF Numbered, s
<1>10. ASSUME Numbered(p), NEW q \in Procs, Numbered(q)', id'[q] = id'[p], q # p
       PROVE  FALSE
  <2>1. Numbered(q) /\ id[q] = id[p]
    BY <1>3, <1>10 DEF Numbered, Sends
  <2> QED BY <1>1, <1>10, <2>1 DEF ProcOK
<1>11. ProcOK(p)'
  BY <1>1, <1>2, <1>3, <1>4, <1>6, <1>7, <1>8, <1>9, <1>10 DEF ProcOK
<1> QED BY <1>3, <1>11, OtherRequests

LEMMA AdvanceStep ==
  ASSUME IInv, NEW p \in Procs, ~ Idle(p), Advance(p),
         sequence' = sequence,
         recordData \subseteq recordData', userData \subseteq userData',
         \A q \in Procs \ {p} : Numbered(q) => rough'[id[q]].user = rough[id[q]].user,
         Head(todo[p]) # "setRough" => rough'[id[p]].user = rough[id[p]].user,
         Head(todo[p]) # "incr",
         Head(todo[p]) = "setRough" => rough'[id[p]].user = user[p],
         Head(todo[p]) = "setRecordData" => id[p] \in recordData',
         Head(todo[p]) = "setUserData" => id[p] \in userData',
         Head(todo[p]) = "readOwner" => user[p] # Owner
  PROVE  RequestsOK'
<1>1. CASE Len(todo[p]) = 1
  BY <1>1, ClearStep DEF Advance
<1>2. CASE Len(todo[p]) # 1
  BY <1>2, GoOnStep DEF Advance, IInv, RequestsOK
<1> QED BY <1>1, <1>2

LEMMA AtFacts ==
  ASSUME IInv, NEW p \in Procs, NEW c, At(p, c)
  PROVE  /\ ~ Idle(p) /\ op[p] # "none" /\ Head(todo[p]) = c /\ user[p] \in Users
         /\ c \in Setters \cup Linkers => Sends(p)
         /\ c = "find" => ~ Sends(p)
         /\ c \in {"find", "readNotice"} => Len(todo[p]) # 1
         /\ c \in (Setters \cup Linkers) \ {"incr"} => Numbered(p)
         /\ c = "setRough" => rough[id[p]].user = NoOne
         /\ c \in {"linkSent", "linkReceived", "linkNotice"} =>
              /\ rough[id[p]].user = user[p]
              /\ id[p] \in userData
         /\ c \in {"linkReceived", "linkNotice"} => user[p] # Owner
         /\ c = "linkRecord" => id[p] \in recordData
         /\ Numbered(p) => id[p] \in Interacts /\ id[p] <= sequence
<1>1. ~ Idle(p) /\ op[p] # "none" /\ Head(todo[p]) = c /\ ProcOK(p)
  BY DEF At, IInv, RequestsOK, Idle
<1>2. /\ user[p] \in Users /\ todo[p] \in Seq(Names) /\ todo[p] # << >>
      /\ Ordered(todo[p]) /\ FitsOp(todo[p], op[p])
  BY <1>1 DEF ProcOK
<1>3. /\ Has(todo[p], c)
      /\ c # "incr" => ~ Has(todo[p], "incr")
      /\ c = "linkRecord" => ~ Has(todo[p], "setRecordData")
      /\ c \in {"linkSent", "linkReceived", "linkNotice"} =>
           ~ Has(todo[p], "setRough") /\ ~ Has(todo[p], "setUserData")
      /\ c \in {"linkReceived", "linkNotice"} => ~ Has(todo[p], "readOwner")
      /\ c \in {"find", "readNotice"} => Len(todo[p]) # 1
  BY <1>1, <1>2, HeadFacts
<1>4. /\ c \in Setters \cup Linkers => Sends(p)
      /\ c = "find" => ~ Sends(p)
  BY <1>2, <1>3 DEF FitsOp, Sends
<1>5. c \in (Setters \cup Linkers) \ {"incr"} => Numbered(p)
  BY <1>3, <1>4 DEF Numbered
<1>6. Numbered(p) => \A d \in Setters : ~ Has(todo[p], d) => Effect(p, d)
  BY <1>1 DEF ProcOK
<1>7. Numbered(p) => id[p] \in 1 .. sequence
  BY <1>6 DEF Numbered, Effect, Setters
<1>8. Numbered(p) => id[p] \in Interacts /\ id[p] <= sequence
  BY <1>7, InteractAssumption DEF IInv, StoreOK, Interacts
<1>9. c = "setRough" => rough[id[p]].user = NoOne
  BY <1>1, <1>3, <1>5 DEF ProcOK, Setters
<1>10. c \in {"linkSent", "linkReceived", "linkNotice"} =>
         rough[id[p]].user = user[p] /\ id[p] \in userData
  BY <1>3, <1>5, <1>6 DEF Effect, Setters, Linkers
<1>11. c \in {"linkReceived", "linkNotice"} => user[p] # Owner
  BY <1>3, <1>5, <1>6 DEF Effect, Setters, Linkers
<1>12. c = "linkRecord" => id[p] \in recordData
  BY <1>3, <1>5, <1>6 DEF Effect, Setters, Linkers
<1> QED BY <1>1, <1>2, <1>3, <1>4, <1>5, <1>8, <1>9, <1>10, <1>11, <1>12
-----------------------------------------------------------------------------
(* The commands.                                                           *)

\* A command that puts nothing on a list.
LEMMA QuietStep ==
  ASSUME IInv, RequestsOK', UNCHANGED <<sequence, rough, received>>,
         recordData \subseteq recordData', userData \subseteq userData',
         onRecord' \subseteq onRecord,
         sent' \in [Users -> SUBSET Interacts], \A u \in Users : sent'[u] \subseteq sent[u],
         notice' \in Seq(Interacts), Elements(notice') \subseteq Elements(notice)
  PROVE  IInv'
<1>1. StoreOK' BY DEF IInv, StoreOK
<1>2. ListedHaveDetails' BY DEF IInv, ListedHaveDetails
<1>3. KnownSenders' BY DEF IInv, KnownSenders
<1> QED BY <1>1, <1>2, <1>3 DEF IInv

\* The senders of what is listed stay who they are.
LEMMA RoughStep ==
  ASSUME IInv, RequestsOK', UNCHANGED <<sequence, lists, notice>>,
         rough' \in [Interacts -> Rough \cup {NoRough}],
         \A i \in Interacts : \/ rough'[i].user = rough[i].user
                              \/ rough[i].user = NoOne /\ i <= sequence
  PROVE  IInv'
<1>0. received \cup Elements(notice) \subseteq Interacts
  BY DEF IInv, StoreOK, Elements
<1>1. StoreOK' BY DEF IInv, StoreOK, lists, Interacts
<1>2. ListedHaveDetails'
  <2>1. ASSUME NEW u \in Users, NEW i \in sent[u] PROVE rough'[i].user = u
    <3>1. i \in Interacts /\ rough[i].user = u BY DEF IInv, StoreOK, ListedHaveDetails
    <3> QED BY <3>1, InteractAssumption
  <2>2. ASSUME NEW i \in received \cup Elements(notice) PROVE rough'[i].user = rough[i].user
    BY <1>0, InteractAssumption DEF IInv, KnownSenders
  <2> QED BY <2>1, <2>2 DEF IInv, ListedHaveDetails, lists
<1>3. KnownSenders' BY <1>0, InteractAssumption DEF IInv, KnownSenders, lists
<1> QED BY <1>1, <1>2, <1>3 DEF IInv

LEMMA InitIInv == Init => IInv
<1> SUFFICES ASSUME Init PROVE IInv OBVIOUS
<1>1. StoreOK
  <2>1. notice \in Seq(Interacts) BY EmptySeq DEF Init
  <2>2. rough \in [Interacts -> Rough \cup {NoRough}] BY DEF Init
  <2> QED BY <2>1, <2>2, InteractAssumption DEF Init, StoreOK, NoRough
<1>2. RequestsOK BY DEF Init, RequestsOK, ProcOK
<1>3. Elements(notice) = {} BY EmptySeq DEF Init, Elements
<1>4. ListedHaveDetails /\ KnownSenders
  BY <1>3 DEF Init, ListedHaveDetails, KnownSenders
<1> QED BY <1>1, <1>2, <1>4 DEF IInv

LEMMA BeginStep ==
  ASSUME IInv, NEW p \in Procs, NEW o \in DOMAIN Commands, NEW u \in Users,
         NEW i, NEW t, Begin(p, o, u, i, t)
  PROVE  IInv'
<1>1. /\ op'[p] = o /\ user'[p] = u /\ todo'[p] = Commands[o]
      /\ \A q \in Procs \ {p} : /\ op'[q] = op[q] /\ user'[q] = user[q]
                                /\ id'[q] = id[q] /\ todo'[q] = todo[q]
      /\ op' \in [Procs -> DOMAIN Commands \cup {"none"}]
      /\ DOMAIN user' = Procs /\ DOMAIN id' = Procs /\ DOMAIN todo' = Procs
      /\ UNCHANGED store
  BY DEF Begin, IInv, RequestsOK
<1>2. ~ Numbered(p)'
  BY <1>1, CommandsFacts DEF Numbered, Sends, Setters
<1>3. ProcOK(p)' BY <1>1, <1>2, CommandsFacts DEF ProcOK, Sends
<1>4. RequestsOK' BY <1>1, <1>3, OtherRequests DEF store, lists
<1> QED BY <1>1, <1>4, QuietStep DEF store, lists, IInv, StoreOK

LEMMA IncrSequenceStep ==
  ASSUME IInv, NEW p \in Procs, IncrSequence(p)
  PROVE  IInv'
<1> DEFINE s == todo[p]
<1>1. /\ sequence' = sequence + 1 /\ sequence \in Nat
      /\ id'[p] = sequence + 1 /\ sequence + 1 \in Interacts
      /\ \A q \in Procs \ {p} : /\ op'[q] = op[q] /\ user'[q] = user[q]
                                /\ id'[q] = id[q] /\ todo'[q] = todo[q]
      /\ todo'[p] = Tail(s) /\ UNCHANGED <<op, user>>
      /\ DOMAIN id' = Procs /\ DOMAIN todo' = Procs
      /\ UNCHANGED <<rough, lists, notice>>
  BY InteractAssumption
     DEF IncrSequence, NextSequence, GoOn, IInv, StoreOK, RequestsOK, Interacts
<1>2. Sends(p) /\ Head(s) = "incr" /\ op[p] # "none" BY AtFacts DEF IncrSequence, Setters
<1>3. ProcOK(p) BY DEF IInv, RequestsOK
<1> HIDE DEF s
<1>4. /\ s \in Seq(Names) /\ s # << >> /\ Ordered(s) /\ FitsOp(s, op[p])
      /\ user[p] \in Users /\ Has(s, "incr")
      /\ \A c \in Setters : Has(s, c)
  <2>1. /\ s \in Seq(Names) /\ s # << >> /\ Ordered(s) /\ FitsOp(s, op[p])
        /\ user[p] \in Users
    BY <1>2, <1>3 DEF ProcOK, s
  <2>2. Has(s, "incr") BY <1>2, <2>1, HeadFacts
  <2> QED BY <1>2, <1>3, <2>1, <2>2 DEF ProcOK, s
<1>5. Len(s) # 1
  <2>1. PICK k \in 1 .. Len(s) : s[k] = "setRough" BY <1>4 DEF Has, Setters
  <2>2. Len(s) \in Nat \ {0} /\ s[1] = "incr" BY <1>2, <1>4, EmptySeq
  <2> QED BY <2>1, <2>2
<1>6. /\ Tail(s) \in Seq(Names) /\ Tail(s) # << >>
      /\ Ordered(Tail(s)) /\ FitsOp(Tail(s), op[p])
      /\ \A c \in Setters \ {"incr"} : Has(Tail(s), c)
  BY <1>2, <1>4, <1>5, TailFacts
<1>7. Effect(p, "incr")' BY <1>1 DEF Effect
<1>8. rough'[id'[p]].user = NoOne BY <1>1 DEF IInv, StoreOK
<1>9. ASSUME NEW q \in Procs, Numbered(q)', id'[q] = id'[p] PROVE q = p
  <2> SUFFICES ASSUME q # p PROVE FALSE OBVIOUS
  <2>1. Numbered(q) /\ ProcOK(q) /\ op[q] # "none"
    BY <1>1, <1>9 DEF Numbered, Sends, Kinds, IInv, RequestsOK
  <2>2. id[q] \in 1 .. sequence
    BY <2>1 DEF ProcOK, Numbered, Effect, Setters
  <2> QED BY <1>1, <1>9, <2>2
<1>10. ProcOK(p)'
  BY <1>1, <1>4, <1>6, <1>7, <1>8, <1>9 DEF ProcOK, Sends
<1>11. RequestsOK' BY <1>1, <1>10, OtherRequests DEF lists, IInv, RequestsOK
<1>12. StoreOK' BY <1>1 DEF IInv, StoreOK, lists, Interacts
<1>13. (ListedHaveDetails /\ KnownSenders)'
  BY <1>1 DEF IInv, ListedHaveDetails, KnownSenders, lists
<1> QED BY <1>11, <1>12, <1>13 DEF IInv

\* Commands on the counters and details, and reads that end a request or not.
LEMMA StoreStep ==
  ASSUME IInv, NEW p \in Procs,
         \/ CountStat(p) \/ SetLiked(p) \/ ReadTarget(p) \/ SetData(p)
         \/ ReadOwner(p) \/ ReadRough(p)
  PROVE  IInv'
<1>1. /\ ~ Idle(p) /\ Head(todo[p]) \notin {"incr", "setRough"}
      /\ \/ Clear(p)
         \/ Advance(p) /\ (Head(todo[p]) = "readOwner" => user[p] # Owner)
      /\ UNCHANGED <<sequence, rough, onRecord, sent, received, notice>>
      /\ recordData \subseteq recordData' /\ userData \subseteq userData'
      /\ Head(todo[p]) = "setRecordData" => id[p] \in recordData'
      /\ Head(todo[p]) = "setUserData" => id[p] \in userData'
  <2>1. CASE CountStat(p)
    BY <2>1, AtFacts DEF CountStat, Done, lists
  <2>2. CASE SetLiked(p)
    BY <2>2, AtFacts DEF SetLiked, Done, lists
  <2>3. CASE ReadTarget(p)
    BY <2>3, AtFacts DEF ReadTarget, Done, Stop, store, lists
  <2>4. CASE SetData(p)
    BY <2>4, AtFacts DEF SetData, Done
  <2>5. CASE ReadOwner(p)
    BY <2>5, AtFacts DEF ReadOwner, store, lists
  <2>6. CASE ReadRough(p)
    BY <2>6, AtFacts DEF ReadRough, Done, Stop, store, lists
  <2> QED BY <2>1, <2>2, <2>3, <2>4, <2>5, <2>6
<1>2. RequestsOK' BY <1>1, ClearStep, AdvanceStep
<1> QED BY <1>1, <1>2, QuietStep DEF IInv, StoreOK

LEMMA NumberedFacts ==
  ASSUME IInv, NEW q \in Procs, Numbered(q)
  PROVE  id[q] \in Interacts
<1>1. ProcOK(q) /\ op[q] # "none" BY DEF IInv, RequestsOK, Numbered, Sends, Kinds
<1>2. id[q] \in 1 .. sequence BY <1>1 DEF ProcOK, Numbered, Effect, Setters
<1> QED BY <1>2, InteractAssumption DEF IInv, StoreOK, Interacts

LEMMA SetRoughStep ==
  ASSUME IInv, NEW p \in Procs, SetRough(p)
  PROVE  IInv'
<1>1. /\ ~ Idle(p) /\ Head(todo[p]) = "setRough" /\ Advance(p) /\ Numbered(p)
      /\ user[p] \in Users /\ rough[id[p]].user = NoOne
      /\ id[p] \in Interacts /\ id[p] <= sequence /\ op[p] \in Kinds
      /\ UNCHANGED <<sequence, lists, notice>>
  BY AtFacts DEF SetRough, Done, Setters, Sends
<1> DEFINE r == [user |-> user[p], kind |-> op[p], is_delete |-> FALSE]
<1>2. rough' = [rough EXCEPT ![id[p]] = r] /\ r \in Rough /\ r.user = user[p]
  BY <1>1 DEF SetRough, Rough
<1> HIDE DEF r
<1>3. /\ rough' \in [Interacts -> Rough \cup {NoRough}]
      /\ rough'[id[p]].user = user[p]
      /\ \A i \in Interacts : i # id[p] => rough'[i] = rough[i]
  BY <1>1, <1>2 DEF IInv, StoreOK
<1>4. \A q \in Procs \ {p} : Numbered(q) => rough'[id[q]].user = rough[id[q]].user
  <2> SUFFICES ASSUME NEW q \in Procs \ {p}, Numbered(q)
               PROVE  rough'[id[q]].user = rough[id[q]].user
    OBVIOUS
  <2>1. ProcOK(q) /\ op[q] # "none" BY DEF IInv, RequestsOK, Numbered, Sends, Kinds
  <2>2. id[q] # id[p] BY <1>1, <2>1 DEF ProcOK
  <2>3. id[q] \in Interacts BY NumberedFacts
  <2> QED BY <1>3, <2>2, <2>3
<1>5. RequestsOK' BY <1>1, <1>3, <1>4, AdvanceStep DEF lists
<1> QED BY <1>1, <1>3, <1>5, RoughStep

LEMMA SetDeletedStep ==
  ASSUME IInv, NEW p \in Procs, SetDeleted(p)
  PROVE  IInv'
<1>1. /\ ~ Idle(p) /\ Head(todo[p]) = "setDeleted" /\ Advance(p)
      /\ UNCHANGED <<sequence, lists, notice>>
  BY AtFacts DEF SetDeleted, Done
<1>2. /\ rough' \in [Interacts -> Rough \cup {NoRough}]
      /\ \A i \in Interacts : rough'[i].user = rough[i].user
  <2>1. ASSUME NEW r \in Rough \cup {NoRough}
        PROVE  LET d == [r EXCEPT !.is_delete = TRUE]
               IN  d \in Rough \cup {NoRough} /\ d.user = r.user
    <3>1. CASE r \in Rough BY <3>1 DEF Rough
    <3>2. CASE r = NoRough BY <3>2 DEF NoRough
    <3> QED BY <3>1, <3>2
  <2>2. rough' = [rough EXCEPT ![id[p]] = [rough[id[p]] EXCEPT !.is_delete = TRUE]]
    BY DEF SetDeleted
  <2> QED BY <2>1, <2>2 DEF IInv, StoreOK
<1>3. id[p] \notin Interacts => rough' = rough
  BY DEF SetDeleted, IInv, StoreOK
<1>4. rough'[id[p]].user = rough[id[p]].user BY <1>2, <1>3
<1>5. \A q \in Procs : Numbered(q) => id[q] \in Interacts
  BY NumberedFacts
<1>6. RequestsOK' BY <1>1, <1>2, <1>4, <1>5, AdvanceStep DEF lists
<1> QED BY <1>1, <1>2, <1>6, RoughStep

LEMMA LinkStep ==
  ASSUME IInv, NEW p \in Procs, Link(p)
  PROVE  IInv'
<1>1. /\ ~ Idle(p) /\ Head(todo[p]) \in {"linkRecord", "linkSent", "linkReceived"}
      /\ Advance(p) /\ Numbered(p) /\ id[p] \in Interacts /\ user[p] \in Users
      /\ UNCHANGED <<sequence, rough, recordData, userData, notice>>
  BY AtFacts DEF Link, Done, Linkers, Setters
<1>2. RequestsOK' BY <1>1, AdvanceStep
<1>3. CASE At(p, "linkRecord") /\ onRecord' = onRecord \cup {id[p]} /\ UNCHANGED <<sent, received>>
  <2>1. id[p] \in recordData BY <1>3, AtFacts
  <2>2. StoreOK' BY <1>1, <1>3 DEF IInv, StoreOK
  <2>3. ListedHaveDetails' BY <1>1, <1>3, <2>1 DEF IInv, ListedHaveDetails
  <2>4. KnownSenders' BY <1>1, <1>3 DEF IInv, KnownSenders
  <2> QED BY <1>2, <2>2, <2>3, <2>4 DEF IInv
<1>4. CASE /\ At(p, "linkSent") /\ sent' = [sent EXCEPT ![user[p]] = @ \cup {id[p]}]
           /\ UNCHANGED <<onRecord, received>>
  <2>1. id[p] \in userData /\ rough[id[p]].user = user[p] BY <1>4, AtFacts
  <2>2. /\ sent' \in [Users -> SUBSET Interacts]
        /\ \A u \in Users : \A i \in sent'[u] : i \in sent[u] \/ (u = user[p] /\ i = id[p])
    BY <1>1, <1>4 DEF IInv, StoreOK
  <2>3. StoreOK' BY <1>1, <1>4, <2>2 DEF IInv, StoreOK
  <2>4. ListedHaveDetails' BY <1>1, <1>4, <2>1, <2>2 DEF IInv, ListedHaveDetails
  <2>5. KnownSenders' BY <1>1, <1>4 DEF IInv, KnownSenders
  <2> QED BY <1>2, <2>3, <2>4, <2>5 DEF IInv
<1>5. CASE At(p, "linkReceived") /\ received' = received \cup {id[p]}
           /\ UNCHANGED <<onRecord, sent>>
  <2>1. id[p] \in userData /\ rough[id[p]].user = user[p] /\ user[p] # Owner BY <1>5, AtFacts
  <2>2. StoreOK' BY <1>1, <1>5 DEF IInv, StoreOK
  <2>3. ListedHaveDetails' BY <1>1, <1>5, <2>1 DEF IInv, ListedHaveDetails
  <2>4. KnownSenders' BY <1>1, <1>5, <2>1 DEF IInv, KnownSenders
  <2> QED BY <1>2, <2>2, <2>3, <2>4 DEF IInv
<1> QED BY <1>3, <1>4, <1>5 DEF Link

LEMMA LinkNoticeStep ==
  ASSUME IInv, NEW p \in Procs, LinkNotice(p)
  PROVE  IInv'
<1>1. /\ ~ Idle(p) /\ Head(todo[p]) = "linkNotice" /\ Advance(p)
      /\ id[p] \in Interacts /\ user[p] \in Users
      /\ id[p] \in userData /\ rough[id[p]].user = user[p] /\ user[p] # Owner
      /\ UNCHANGED <<sequence, rough, lists>>
  BY AtFacts DEF LinkNotice, Linkers, Setters
<1>2. RequestsOK' BY <1>1, AdvanceStep DEF lists
<1>3. /\ notice' \in Seq(Interacts)
      /\ Elements(notice') \subseteq Elements(notice) \cup {id[p]}
  <2> DEFINE s == <<id[p]>>  n == <<id[p]>> \o notice
  <2>1. notice \in Seq(Interacts) /\ Len(notice) \in Nat BY DEF IInv, StoreOK
  <2>2. s \in Seq(Interacts) /\ Len(s) = 1 /\ s[1] = id[p] BY <1>1
  <2>3. /\ n \in Seq(Interacts) /\ Len(n) = 1 + Len(notice)
        /\ \A i \in 1 .. 1 + Len(notice) : n[i] = IF i <= 1 THEN s[1] ELSE notice[i - 1]
    <3> HIDE DEF s
    <3>1. /\ s \o notice \in Seq(Interacts)
          /\ Len(s \o notice) = Len(s) + Len(notice)
          /\ \A i \in 1 .. Len(s) + Len(notice) :
               (s \o notice)[i] = IF i <= Len(s) THEN s[i] ELSE notice[i - Len(s)]
      BY <2>1, <2>2, ConcatProperties, Zenon
    <3>2. \A i \in 1 .. 1 + Len(notice) :
            (s \o notice)[i] = IF i <= 1 THEN s[i] ELSE notice[i - 1]
      BY <2>2, <3>1
    <3>3. \A i \in 1 .. 1 + Len(notice) : i <= 1 => i = 1 BY <2>1
    <3>4. n = s \o notice BY DEF s
    <3> HIDE DEF n
    <3> QED BY <2>2, <3>1, <3>2, <3>3, <3>4
  <2> HIDE DEF s, n
  <2>4. Elements(n) \subseteq Elements(notice) \cup {id[p]}
    <3> SUFFICES ASSUME NEW k \in 1 .. Len(n), n[k] # id[p]
                 PROVE  \E j \in 1 .. Len(notice) : notice[j] = n[k]
      BY DEF Elements
    <3>1. k \in 1 .. 1 + Len(notice) /\ ~ (k <= 1) /\ k - 1 \in 1 .. Len(notice) BY <2>1, <2>2, <2>3
    <3>2. n[k] = notice[k - 1] BY <2>3, <3>1
    <3> QED BY <3>1, <3>2
  <2>5. notice' = n BY DEF LinkNotice, n
  <2> QED BY <2>3, <2>4, <2>5
<1>4. StoreOK' BY <1>1, <1>3 DEF IInv, StoreOK, lists
<1>5. ListedHaveDetails' BY <1>1, <1>3 DEF IInv, ListedHaveDetails, lists
<1>6. KnownSenders' BY <1>1, <1>3 DEF IInv, KnownSenders, lists
<1> QED BY <1>2, <1>4, <1>5, <1>6 DEF IInv

LEMMA UnlinkStep ==
  ASSUME IInv, NEW p \in Procs, Unlink(p)
  PROVE  IInv'
<1>1. /\ ~ Idle(p) /\ Head(todo[p]) \in {"unlinkRecord", "unlinkSent"} /\ Advance(p)
      /\ UNCHANGED <<sequence, rough, recordData, userData, received, notice>>
  BY AtFacts DEF Unlink, Done
<1>2. RequestsOK' BY <1>1, AdvanceStep
<1>3. /\ onRecord' \subseteq onRecord
      /\ sent' \in [Users -> SUBSET Interacts]
      /\ \A u \in Users : sent'[u] \subseteq sent[u]
  BY DEF Unlink, IInv, StoreOK
<1> QED BY <1>1, <1>2, <1>3, QuietStep DEF IInv, StoreOK

LEMMA FindLikeStep ==
  ASSUME IInv, NEW p \in Procs, FindLike(p)
  PROVE  IInv'
<1>1. ~ Idle(p) /\ Head(todo[p]) = "find" /\ ~ Sends(p) /\ UNCHANGED store
  BY AtFacts DEF FindLike
<1>2. CASE Clear(p)
  <2>1. RequestsOK' BY <1>1, <1>2, ClearStep DEF store, lists
  <2> QED BY <1>1, <2>1, QuietStep DEF store, lists, IInv, StoreOK
<1>3. CASE GoOn(p) /\ \E i : id' = [id EXCEPT ![p] = i]
  <2>1. Len(todo[p]) # 1 BY AtFacts DEF FindLike
  <2>2. DOMAIN id' = Procs /\ \A q \in Procs \ {p} : id'[q] = id[q]
    BY <1>3 DEF IInv, RequestsOK
  <2>3. RequestsOK' BY <1>1, <1>3, <2>1, <2>2, GoOnStep DEF store, lists
  <2> QED BY <1>1, <2>3, QuietStep DEF store, lists, IInv, StoreOK
<1> QED BY <1>2, <1>3 DEF FindLike

LEMMA ReadNoticeStep ==
  ASSUME IInv, NEW p \in Procs, ReadNotice(p)
  PROVE  IInv'
<1>1. ~ Idle(p) /\ Head(todo[p]) = "readNotice" /\ Len(todo[p]) # 1 /\ UNCHANGED store
  BY AtFacts DEF ReadNotice
<1>2. CASE Clear(p)
  <2>1. RequestsOK' BY <1>1, <1>2, ClearStep DEF store, lists
  <2> QED BY <1>1, <2>1, QuietStep DEF store, lists, IInv, StoreOK
<1>3. CASE GoOn(p) /\ UNCHANGED id
  <2>1. RequestsOK' BY <1>1, <1>3, GoOnStep DEF store, lists, IInv, RequestsOK
  <2> QED BY <1>1, <2>1, QuietStep DEF store, lists, IInv, StoreOK
<1> QED BY <1>2, <1>3 DEF ReadNotice

\* What is left of the notices was among them.
LEMMA TrimStep ==
  ASSUME IInv, NEW p \in Procs, Trim(p)
  PROVE  IInv'
<1>1. Clear(p) /\ UNCHANGED <<sequence, rough, lists>> BY DEF Trim
<1>2. RequestsOK' BY <1>1, ClearStep DEF lists
<1>3. notice' \in Seq(Interacts) /\ Elements(notice') \subseteq Elements(notice)
  <2> DEFINE m == PageCount + 1  n == Len(notice)  s == SubSeq(notice, m, n)
  <2>1. /\ notice \in Seq(Interacts) /\ n \in Nat /\ m \in Nat \ {0}
        /\ \A i \in m .. n : notice[i] \in Interacts
    BY InteractAssumption DEF IInv, StoreOK
  <2>2. notice' = s BY DEF Trim, AfterPage
  <2> HIDE DEF m, n
  <2>3. /\ s \in Seq(Interacts) /\ Len(s) = IF m <= n THEN n - m + 1 ELSE 0
        /\ \A i \in 1 .. n - m + 1 : s[i] = notice[m + i - 1]
    BY <2>1, SubSeqProperties
  <2> HIDE DEF s
  <2>4. ASSUME NEW k \in 1 .. Len(s)
        PROVE  \E j \in 1 .. n : notice[j] = s[k]
    <3>1. k \in 1 .. n - m + 1 /\ m + k - 1 \in 1 .. n BY <2>1, <2>3
    <3> QED BY <2>3, <3>1
  <2>5. Elements(s) \subseteq Elements(notice) BY <2>4 DEF Elements, n
  <2> QED BY <2>2, <2>3, <2>5
<1> QED BY <1>1, <1>2, <1>3, QuietStep DEF lists, IInv, StoreOK

\* A command whose failure is passed over has no effect that counts.
LEMMA FailStep ==
  ASSUME IInv, NEW p \in Procs, Fail(p)
  PROVE  IInv'
<1>1. ~ Idle(p) /\ UNCHANGED store BY DEF Fail
<1>2. CASE Clear(p)
  <2>1. RequestsOK' BY <1>1, <1>2, ClearStep DEF store, lists
  <2> QED BY <1>1, <2>1, QuietStep DEF store, lists, IInv, StoreOK
<1>3. CASE /\ Head(todo[p]) \in PassedOver /\ Len(todo[p]) > 1
           /\ GoOn(p) /\ UNCHANGED <<id, page>>
  <2>3. todo[p] \in Seq(Names) BY DEF Fail, Idle, IInv, RequestsOK, ProcOK
  <2>1. Head(todo[p]) \notin Setters /\ Len(todo[p]) # 1
    <3>1. Len(todo[p]) \in Nat BY <2>3
    <3>2. \A n \in Nat : n > 1 => n # 1 OBVIOUS
    <3>3. \A c \in PassedOver : c \notin Setters BY DEF PassedOver, Setters
    <3> QED BY <1>3, <3>1, <3>2, <3>3, Zenon
  <2>2. RequestsOK'
    BY <1>1, <1>3, <2>1, GoOnStep DEF store, lists, IInv, RequestsOK, Setters
  <2> QED BY <1>1, <2>2, QuietStep DEF store, lists, IInv, StoreOK
<1> QED BY <1>2, <1>3 DEF Fail

LEMMA KillStep ==
  ASSUME IInv, NEW p \in Procs, Kill(p)
  PROVE  IInv'
<1>1. Clear(p) /\ UNCHANGED store BY DEF Kill
<1>2. RequestsOK' BY <1>1, ClearStep DEF store, lists
<1> QED BY <1>1, <1>2, QuietStep DEF store, lists, IInv, StoreOK

LEMMA NextIInv == IInv /\ [Next]_vars => IInv'
<1> SUFFICES ASSUME IInv, [Next]_vars PROVE IInv' OBVIOUS
<1>1. CASE UNCHANGED vars
  <2>1. /\ UNCHANGED <<op, user, id, todo, sequence, rough, recordData, userData>>
        /\ UNCHANGED <<onRecord, sent, received, notice>>
    BY <1>1 DEF vars, store, request, lists
  <2>2. RequestsOK'
    BY <2>1 DEF IInv, RequestsOK, ProcOK, Numbered, Sends, Effect
  <2> QED BY <2>1, <2>2, QuietStep DEF IInv, StoreOK
<1>2. CASE Next
  <2>1. PICK p \in Procs : \/ Ask(p) \/ Sending(p) \/ Deleting(p) \/ Reading(p)
                           \/ Fail(p) \/ Kill(p)
    BY <1>2 DEF Next
  <2>2. CASE Ask(p) BY <2>2, BeginStep DEF Ask
  <2>3. CASE Sending(p)
    BY <2>3, IncrSequenceStep, StoreStep, SetRoughStep, LinkStep, LinkNoticeStep DEF Sending
  <2>4. CASE Deleting(p)
    BY <2>4, FindLikeStep, UnlinkStep, StoreStep, SetDeletedStep DEF Deleting
  <2>5. CASE Reading(p) BY <2>5, ReadNoticeStep, TrimStep DEF Reading
  <2>6. CASE Fail(p) BY <2>6, FailStep
  <2>7. CASE Kill(p) BY <2>7, KillStep
  <2> QED BY <2>1, <2>2, <2>3, <2>4, <2>5, <2>6, <2>7
<1> QED BY <1>1, <1>2

\* Whatever commands fail, whatever requests are killed and however many are
\* served at once, no list names an interaction whose details are not stored,
\* a sender's list is of his own and the owner is told of nothing he did
\* himself (InteractApi.cc:295-351: rough, details, links, in this order).
THEOREM ListedHaveDetailsHolds == Spec => []ListedHaveDetails
<1>1. IInv => ListedHaveDetails BY DEF IInv
<1> QED BY <1>1, InitIInv, NextIInv, PTL DEF Spec
-----------------------------------------------------------------------------
(* The place of a request among its commands.  Rank is an order in which   *)
(* every program sends them.                                               *)

Rank == [incr |-> 1, find |-> 1, uncountComment |-> 1, readNotice |-> 1,
         countLike |-> 2, countComment |-> 2, uncountLike |-> 2, trim |-> 2,
         addLike |-> 3, remLike |-> 3, setRough |-> 4, unlinkRecord |-> 4,
         readTarget |-> 5, unlinkSent |-> 5, setRecordData |-> 6, readRough |-> 6,
         linkRecord |-> 7, setDeleted |-> 7, setUserData |-> 8, linkSent |-> 9,
         readOwner |-> 10, linkReceived |-> 11, linkNotice |-> 12]

Dispatched == {"setRough", "readTarget", "setRecordData", "linkRecord", "setUserData",
               "linkSent", "readOwner", "linkReceived", "linkNotice"}
Deleted == {"unlinkRecord", "unlinkSent", "readRough", "setDeleted"}

Program == [like      |-> {"incr", "countLike", "addLike"} \cup Dispatched,
            comment   |-> {"incr", "countComment"} \cup Dispatched,
            unlike    |-> {"find", "uncountLike", "remLike"} \cup Deleted,
            uncomment |-> {"uncountComment"} \cup Deleted,
            notices   |-> {"readNotice", "trim"}]

Sorted(s) == \A i, j \in 1 .. Len(s) : i < j => Rank[s[i]] < Rank[s[j]]

Now(p) == IF Idle(p) THEN "none" ELSE Head(todo[p])
Left(p) == Elements(todo[p])

\* A request without an interaction has none yet, or is not about one.
PlaceOK(p) ==
  IF Idle(p)
    THEN todo[p] = << >> /\ id[p] = 0 /\ page[p] = {}
    ELSE /\ user[p] \in Users
         /\ todo[p] \in Seq(Names) /\ todo[p] # << >> /\ Len(todo[p]) <= 12
         /\ Sorted(todo[p])
         /\ Left(p) = {c \in Program[op[p]] : Rank[Now(p)] <= Rank[c]}
         /\ id[p] = 0 <=> Now(p) \in {"incr", "find", "readNotice", "trim"}
         /\ page[p] # {} <=> Now(p) = "trim"

\* An id may be that of no interaction yet, when it is the client's.
IdsOK == \A p \in Procs : id[p] > sequence => op[p] = "uncomment"

LInv == /\ op \in [Procs -> DOMAIN Commands \cup {"none"}]
        /\ user \in [Procs -> Users \cup {NoOne}]
        /\ id \in [Procs -> 0 .. MaxInteracts]
        /\ target \in [Procs -> 0 .. MaxInteracts]
        /\ IdsOK
        /\ page \in [Procs -> SUBSET Interacts]
        /\ DOMAIN todo = Procs
        /\ \A p \in Procs : PlaceOK(p)

DataT == /\ recordData \subseteq Interacts /\ userData \subseteq Interacts
         /\ onRecord \subseteq Interacts /\ liked \subseteq Users
         /\ requests \in 0 .. MaxRequests
         /\ failed \in 0 .. MaxFail
         /\ fate \in [Interacts -> Fates]
         /\ shown \subseteq Interacts /\ unread \subseteq Interacts
         /\ crossed \subseteq Procs
         /\ \A i \in Interacts : i > sequence <=> fate[i] = "none"
-----------------------------------------------------------------------------
(* A counter and the requests that have yet to change it.                  *)

Pending(c) == {p \in Procs : c \in Left(p)}
Due(c) == {p \in Procs : c \in Left(p) /\ "incr" \notin Left(p)}

\* n is above a, with a place for each member of S.
Room(a, S, n) == /\ IsFiniteSet(S) /\ a \in Int /\ n \in Int
                 /\ a + Cardinality(S) <= n

BoundsOK == /\ Room(like, Due("countLike"), sequence)
            /\ Room(comment, Due("countComment"), sequence)
            /\ Room(Len(notice), Due("linkNotice"), sequence)
            /\ Room(-like, Pending("uncountLike"), requests)
            /\ Room(-comment, Pending("uncountComment"), requests)

MissedOK == missed \in Nat /\ Room(missed, Pending("uncountComment"), requests)
-----------------------------------------------------------------------------
(* What an interaction has become, and what its request has done to it.    *)

KindOf == [like |-> "like", comment |-> "comment", unlike |-> "like", uncomment |-> "comment"]

Told == Elements(notice) \cup shown \cup unread

SendingOK(p) ==
  Sends(p) /\ id[p] # 0 =>
    LET i == id[p]
    IN  /\ fate[i] \in {"sending", "odd"}
        /\ "setRough" \notin Left(p) => rough[i] \in Rough /\ rough[i].kind = op[p]
        /\ fate[i] = "sending" =>
             /\ "setRough" \notin Left(p) => ~ rough[i].is_delete
             /\ "linkRecord" \notin Left(p) => i \in onRecord
             /\ "linkSent" \notin Left(p) => i \in sent[user[p]]
             /\ "linkReceived" \notin Left(p) => i \in received

DeletingOK(p) ==
  Deletes(p) /\ id[p] # 0 =>
    LET i == id[p]
    IN  /\ fate[i] \in {"none", "leaving", "odd"}
        /\ fate[i] = "leaving" =>
             /\ rough[i].user = user[p] /\ rough[i].kind = KindOf[op[p]]
             /\ "unlinkRecord" \notin Left(p) => i \notin onRecord
             /\ "unlinkSent" \notin Left(p) => i \notin sent[user[p]]

LeaversDiffer ==
  \A p, q \in Procs : /\ Deletes(p) /\ Deletes(q) /\ id[p] = id[q] /\ id[p] # 0
                      /\ fate[id[p]] = "leaving"
                      => p = q

ThereOK(i) ==
  fate[i] \in {"sent", "leaving", "gone"} =>
    /\ rough[i] \in Rough
    /\ rough[i].user # Owner => i \in received /\ i \in Told
    /\ fate[i] = "sent" => /\ i \in onRecord /\ i \in sent[rough[i].user]
                           /\ ~ rough[i].is_delete
    /\ fate[i] = "gone" => /\ i \notin onRecord /\ i \notin sent[rough[i].user]
                           /\ rough[i].is_delete

FInv == /\ \A p \in Procs : SendingOK(p) /\ DeletingOK(p)
        /\ LeaversDiffer
        /\ \A i \in Interacts : ThereOK(i)
-----------------------------------------------------------------------------
(* The page that was read.                                                 *)

ReadOK == \A p \in Procs : Now(p) = "trim" /\ p \notin crossed => page[p] = Elements(FirstPage)
-----------------------------------------------------------------------------
(* The counters, when nothing was disturbed.                               *)

NoOdd == \A i \in Interacts : fate[i] # "odd"

\* The interactions that are counted, and the requests under way that have
\* counted theirs, or counted it off.
Present(k) == All("sent", k) \cup All("leaving", k)
Counted(o, c) == {p \in Procs : op[p] = o /\ id[p] # 0 /\ c \notin Left(p)}

\* The requests about an interaction that is not there, and those that have
\* counted off a comment that is.
Absent == {p \in Procs : id[p] # 0 /\ fate[id[p]] = "none"}
Uncounted == Counted("uncomment", "uncountComment") \ Absent

Tally(n, P, A, B) == /\ IsFiniteSet(P) /\ IsFiniteSet(A) /\ IsFiniteSet(B)
                     /\ n = Cardinality(P) + Cardinality(A) - Cardinality(B)

\* The likes of a user; the requests under way that have said he likes the
\* record, those that will say he does not, and those that have.
LikesOf(u, f) == {i \in All(f, "like") : rough[i].user = u}
Liking(u) == {p \in Counted("like", "addLike") : user[p] = u}
Unliked(u) == {p \in Counted("unlike", "remLike") : user[p] = u}
Unliking(u) == {p \in Procs : /\ op[p] = "unlike" /\ id[p] # 0 /\ "remLike" \in Left(p)
                              /\ user[p] = u}

LikedOK(u) ==
  /\ u \in liked => LikesOf(u, "sent") # {} \/ Liking(u) # {} \/ Unliking(u) # {}
  /\ LikesOf(u, "sent") # {} \/ Liking(u) # {} =>
       u \in liked \/ LikesOf(u, "gone") # {} \/ Unliked(u) # {}

LeaversThere == \A i \in Interacts : fate[i] = "leaving" => \E p \in Procs : Deletes(p) /\ id[p] = i

LikeTally ==
  Tally(like, Present("like"), Counted("like", "countLike"), Counted("unlike", "uncountLike"))

CommentTally ==
  Tally(comment + missed, Present("comment"), Counted("comment", "countComment"), Uncounted)

CInv == NoOdd =>
  /\ LikeTally /\ CommentTally
  /\ \A u \in Users : LikedOK(u)
  /\ LeaversThere

-----------------------------------------------------------------------------
(* The commands a request has yet to send.                                 *)

LEMMA RankType == Rank \in [Names -> 1 .. 12]
BY DEF Rank, Names

\* What is left after the first command, in the order of the ranks.
LEMMA TailSorted ==
  ASSUME NEW s \in Seq(Names), s # << >>, Sorted(s)
  PROVE  /\ Head(s) \in Elements(s) /\ Elements(s) \subseteq Names
         /\ \A c \in Elements(s) : Rank[Head(s)] <= Rank[c]
         /\ Len(s) = 1 => Elements(s) = {Head(s)}
         /\ Len(s) # 1 =>
              /\ Sorted(Tail(s)) /\ Len(Tail(s)) = Len(s) - 1
              /\ Elements(Tail(s)) = Elements(s) \ {Head(s)}
              /\ Head(Tail(s)) \in Elements(Tail(s))
              /\ Rank[Head(s)] < Rank[Head(Tail(s))]
              /\ \A c \in Elements(Tail(s)) : Rank[Head(Tail(s))] <= Rank[c]
<1>1. /\ Len(s) \in Nat \ {0} /\ Head(s) = s[1] /\ 1 \in 1 .. Len(s)
      /\ \A i \in 1 .. Len(s) : s[i] \in Names
  BY EmptySeq
<1>2. \A c \in Names : Rank[c] \in Nat BY RankType
<1>3. Head(s) \in Elements(s) /\ Elements(s) \subseteq Names BY <1>1 DEF Elements
<1>4. \A i \in 1 .. Len(s) : i = 1 \/ Rank[s[1]] < Rank[s[i]]
  BY <1>1 DEF Sorted
<1>5. \A c \in Elements(s) : Rank[Head(s)] <= Rank[c]
  BY <1>1, <1>2, <1>4 DEF Elements
<1>6. Len(s) = 1 => Elements(s) = {Head(s)} BY <1>1 DEF Elements
<1>7. ASSUME Len(s) # 1
      PROVE  /\ Sorted(Tail(s)) /\ Len(Tail(s)) = Len(s) - 1
             /\ Elements(Tail(s)) = Elements(s) \ {Head(s)}
             /\ Head(Tail(s)) \in Elements(Tail(s))
             /\ Rank[Head(s)] < Rank[Head(Tail(s))]
             /\ \A c \in Elements(Tail(s)) : Rank[Head(Tail(s))] <= Rank[c]
  <2>1. PICK t : t = Tail(s) OBVIOUS
  <2>2. /\ Len(t) = Len(s) - 1 /\ Len(t) \in Nat \ {0} /\ t \in Seq(Names)
        /\ \A i \in 1 .. Len(t) : t[i] = s[i + 1] /\ i + 1 \in 1 .. Len(s)
    BY <1>1, <1>7, <2>1
  <2>3. Head(t) = t[1] /\ 1 \in 1 .. Len(t) BY <2>2
  <2>4. Sorted(t)
    <3> SUFFICES ASSUME NEW i \in 1 .. Len(t), NEW j \in 1 .. Len(t), i < j
                 PROVE  Rank[t[i]] < Rank[t[j]]
      BY DEF Sorted
    <3>1. i + 1 \in 1 .. Len(s) /\ j + 1 \in 1 .. Len(s) /\ i + 1 < j + 1 BY <2>2
    <3>2. Rank[s[i + 1]] < Rank[s[j + 1]] BY <3>1 DEF Sorted
    <3> QED BY <2>2, <3>2
  <2>5. Elements(t) \subseteq Elements(s) \ {Head(s)}
    <3> SUFFICES ASSUME NEW i \in 1 .. Len(t)
                 PROVE  t[i] \in Elements(s) /\ t[i] # s[1]
      BY <1>1 DEF Elements
    <3>1. i + 1 \in 1 .. Len(s) /\ i + 1 # 1 /\ t[i] = s[i + 1] BY <2>2
    <3>2. Rank[s[1]] < Rank[s[i + 1]] BY <1>4, <3>1
    <3>3. s[1] \in Names /\ s[i + 1] \in Names BY <1>1, <3>1
    <3>4. \A a, b \in Nat : a < b => a # b OBVIOUS
    <3>5. s[1] # s[i + 1] BY <1>2, <3>2, <3>3, <3>4
    <3> QED BY <3>1, <3>5 DEF Elements
  <2>6. Elements(s) \ {Head(s)} \subseteq Elements(t)
    <3> SUFFICES ASSUME NEW j \in 1 .. Len(s), s[j] # s[1]
                 PROVE  \E i \in 1 .. Len(t) : t[i] = s[j]
      BY <1>1 DEF Elements
    <3>1. j - 1 \in 1 .. Len(t) /\ t[j - 1] = s[j] BY <1>1, <2>2
    <3> QED BY <3>1
  <2>7. Head(t) \in Elements(t) BY <2>3 DEF Elements
  <2>8. Rank[Head(s)] < Rank[Head(t)]
    <3>1. t[1] = s[2] /\ 2 \in 1 .. Len(s) BY <2>2, <2>3
    <3> QED BY <1>1, <1>4, <2>3, <3>1
  <2>9. \A i \in 1 .. Len(t) : i = 1 \/ Rank[t[1]] < Rank[t[i]]
    BY <2>3, <2>4 DEF Sorted
  <2>10. \A i \in 1 .. Len(t) : t[i] \in Names BY <2>2
  <2>11. \A c \in Elements(t) : Rank[Head(t)] <= Rank[c]
    BY <1>2, <2>3, <2>9, <2>10 DEF Elements
  <2> QED BY <2>1, <2>2, <2>4, <2>5, <2>6, <2>7, <2>8, <2>11
<1> QED BY <1>3, <1>5, <1>6, <1>7

\* The program of an operation is its commands.
LEMMA ProgramFacts ==
  ASSUME NEW o \in DOMAIN Commands
  PROVE  LET s == Commands[o]
         IN  /\ s \in Seq(Names) /\ s # << >> /\ Len(s) <= 12 /\ Sorted(s)
             /\ Elements(s) = Program[o]
             /\ \A c \in Program[o] : Rank[Head(s)] <= Rank[c]
             /\ Head(s) \in {"incr", "find", "readNotice"} <=> o # "uncomment"
             /\ Head(s) # "trim" /\ Head(s) \in Names
<1>0. Commands[o] \in Seq(Names) /\ Commands[o] # << >> BY CommandsFacts
<1>1. CASE o = "like"
  <2> DEFINE s == Commands["like"]
  <2>1. /\ Len(s) = 12
        /\ s[1] = "incr" /\ s[2] = "countLike" /\ s[3] = "addLike" /\ s[4] = "setRough"
        /\ s[5] = "readTarget" /\ s[6] = "setRecordData" /\ s[7] = "linkRecord"
        /\ s[8] = "setUserData" /\ s[9] = "linkSent" /\ s[10] = "readOwner"
        /\ s[11] = "linkReceived" /\ s[12] = "linkNotice"
    BY DEF Commands, Dispatch, Deletion, Undo
  <2> HIDE DEF s
  <2>2. \A i \in 1 .. 12 : Rank[s[i]] = i BY <2>1 DEF Rank
  <2>3. Sorted(s) BY <2>1, <2>2 DEF Sorted
  <2>4. Elements(s) = Program["like"] BY <2>1 DEF Elements, Program, Dispatched
  <2>5. s[1] = Head(s) BY <1>0, <1>1, <2>1 DEF s
  <2> QED BY <1>0, <1>1, <2>1, <2>3, <2>4, <2>5, TailSorted DEF s, Names
<1>2. CASE o = "comment"
  <2> DEFINE s == Commands["comment"]
  <2>1. /\ Len(s) = 11
        /\ s[1] = "incr" /\ s[2] = "countComment" /\ s[3] = "setRough" /\ s[4] = "readTarget"
        /\ s[5] = "setRecordData" /\ s[6] = "linkRecord" /\ s[7] = "setUserData"
        /\ s[8] = "linkSent" /\ s[9] = "readOwner" /\ s[10] = "linkReceived"
        /\ s[11] = "linkNotice"
    BY DEF Commands, Dispatch, Deletion, Undo
  <2> HIDE DEF s
  <2>2. \A i \in 1 .. 11 : Rank[s[i]] = IF i < 3 THEN i ELSE i + 1 BY <2>1 DEF Rank
  <2>3. Sorted(s) BY <2>1, <2>2 DEF Sorted
  <2>4. Elements(s) = Program["comment"] BY <2>1 DEF Elements, Program, Dispatched
  <2>5. s[1] = Head(s) BY <1>0, <1>2, <2>1 DEF s
  <2> QED BY <1>0, <1>2, <2>1, <2>3, <2>4, <2>5, TailSorted DEF s, Names
<1>3. CASE o = "unlike"
  <2> DEFINE s == Commands["unlike"]
  <2>1. /\ Len(s) = 7
        /\ s[1] = "find" /\ s[2] = "uncountLike" /\ s[3] = "remLike" /\ s[4] = "unlinkRecord"
        /\ s[5] = "unlinkSent" /\ s[6] = "readRough" /\ s[7] = "setDeleted"
    BY DEF Commands, Dispatch, Deletion, Undo
  <2> HIDE DEF s
  <2>2. \A i \in 1 .. 7 : Rank[s[i]] = i BY <2>1 DEF Rank
  <2>3. Sorted(s) BY <2>1, <2>2 DEF Sorted
  <2>4. Elements(s) = Program["unlike"] BY <2>1 DEF Elements, Program, Deleted
  <2>5. s[1] = Head(s) BY <1>0, <1>3, <2>1 DEF s
  <2> QED BY <1>0, <1>3, <2>1, <2>3, <2>4, <2>5, TailSorted DEF s, Names
<1>4. CASE o = "uncomment"
  <2> DEFINE s == Commands["uncomment"]
  <2>1. /\ Len(s) = 5
        /\ s[1] = "uncountComment" /\ s[2] = "unlinkRecord" /\ s[3] = "unlinkSent"
        /\ s[4] = "readRough" /\ s[5] = "setDeleted"
    BY DEF Commands, Dispatch, Deletion, Undo
  <2> HIDE DEF s
  <2>2. \A i \in 1 .. 5 : Rank[s[i]] = IF i = 1 THEN i ELSE i + 2 BY <2>1 DEF Rank
  <2>3. Sorted(s) BY <2>1, <2>2 DEF Sorted
  <2>4. Elements(s) = Program["uncomment"] BY <2>1 DEF Elements, Program, Deleted
  <2>5. s[1] = Head(s) BY <1>0, <1>4, <2>1 DEF s
  <2> QED BY <1>0, <1>4, <2>1, <2>3, <2>4, <2>5, TailSorted DEF s, Names
<1>5. CASE o = "notices"
  <2> DEFINE s == Commands["notices"]
  <2>1. Len(s) = 2 /\ s[1] = "readNotice" /\ s[2] = "trim"
    BY DEF Commands, Dispatch, Deletion, Undo
  <2> HIDE DEF s
  <2>2. \A i \in 1 .. 2 : Rank[s[i]] = i BY <2>1 DEF Rank
  <2>3. Sorted(s) BY <2>1, <2>2 DEF Sorted
  <2>4. Elements(s) = Program["notices"] BY <2>1 DEF Elements, Program
  <2>5. s[1] = Head(s) BY <1>0, <1>5, <2>1 DEF s
  <2> QED BY <1>0, <1>5, <2>1, <2>3, <2>4, <2>5, TailSorted DEF s, Names
<1> QED BY <1>1, <1>2, <1>3, <1>4, <1>5 DEF Commands

-----------------------------------------------------------------------------
(* Where a request is, and how a step moves it.                            *)

\* What a request has yet to send at each of its commands.
LEMMA NowFacts ==
  ASSUME LInv, NEW p \in Procs, ~ Idle(p)
  PROVE  /\ op[p] \in DOMAIN Commands /\ op[p] # "none" /\ user[p] \in Users
         /\ Now(p) = Head(todo[p]) /\ Now(p) \in Left(p) /\ Left(p) \subseteq Program[op[p]]
         /\ Now(p) \in Names
         /\ Sends(p) => "linkNotice" \in Left(p)
         /\ Deletes(p) => "setDeleted" \in Left(p)
         /\ ~ Sends(p) /\ ~ Deletes(p) => op[p] = "notices" /\ "trim" \in Left(p)
         /\ "incr" \in Left(p) <=> Now(p) = "incr"
         /\ "find" \in Left(p) <=> Now(p) = "find"
         /\ Now(p) \in {"incr", "find"} => Left(p) = Program[op[p]]
         /\ Now(p) \in {"linkRecord", "linkSent", "readOwner", "linkReceived", "linkNotice"} =>
              "setRough" \notin Left(p)
         /\ Now(p) \in {"readOwner", "linkNotice"} =>
              "linkRecord" \notin Left(p) /\ "linkSent" \notin Left(p)
         /\ Now(p) = "linkNotice" => "linkReceived" \notin Left(p)
         /\ Now(p) = "setDeleted" =>
              /\ "unlinkRecord" \notin Left(p) /\ "unlinkSent" \notin Left(p)
              /\ "remLike" \notin Left(p) /\ "uncountLike" \notin Left(p)
              /\ "uncountComment" \notin Left(p)
         /\ Now(p) \in {"linkNotice", "readOwner"} =>
              /\ "countLike" \notin Left(p) /\ "addLike" \notin Left(p)
              /\ "countComment" \notin Left(p)
         /\ Len(todo[p]) = 1 <=> Now(p) \in {"linkNotice", "setDeleted", "trim"}
<1>1. /\ op[p] \in DOMAIN Commands /\ op[p] # "none" /\ user[p] \in Users
      /\ Now(p) = Head(todo[p]) /\ todo[p] \in Seq(Names) /\ todo[p] # << >>
      /\ Sorted(todo[p]) /\ Left(p) = {c \in Program[op[p]] : Rank[Now(p)] <= Rank[c]}
  BY DEF LInv, PlaceOK, Idle, Now
<1>2. /\ Now(p) \in Left(p) /\ Left(p) \subseteq Names
      /\ Len(todo[p]) = 1 => Left(p) = {Now(p)}
      /\ Len(todo[p]) # 1 => \E c \in Left(p) : Rank[Now(p)] < Rank[c]
  BY <1>1, TailSorted DEF Left
<1>3. Now(p) \in Program[op[p]] /\ Now(p) \in Names BY <1>1, <1>2
<1>4. op[p] \in {"like", "comment", "unlike", "uncomment", "notices"}
  BY <1>1 DEF Commands
<1>5. /\ Sends(p) => "linkNotice" \in Left(p)
      /\ Deletes(p) => "setDeleted" \in Left(p)
      /\ ~ Sends(p) /\ ~ Deletes(p) => op[p] = "notices" /\ "trim" \in Left(p)
  <2>1. CASE op[p] \in {"like", "comment"}
    BY <1>1, <1>3, <2>1 DEF Rank, Program, Dispatched, Sends, Deletes, Kinds
  <2>2. CASE op[p] \in {"unlike", "uncomment"}
    BY <1>1, <1>3, <2>2 DEF Rank, Program, Deleted, Sends, Deletes, Kinds
  <2>3. CASE op[p] = "notices"
    BY <1>1, <1>3, <2>3 DEF Rank, Program, Sends, Deletes, Kinds
  <2> QED BY <1>4, <2>1, <2>2, <2>3
<1>6. \A c \in Left(p) : Rank[Now(p)] <= Rank[c] BY <1>1
<1>7. /\ "incr" \in Left(p) <=> Now(p) = "incr"
      /\ "find" \in Left(p) <=> Now(p) = "find"
  <2>1. ASSUME "incr" \in Left(p) PROVE Now(p) = "incr"
    <3>1. Rank[Now(p)] <= 1 BY <1>6, <2>1 DEF Rank
    <3>2. Now(p) \in {"incr", "find", "uncountComment", "readNotice"} BY <1>3, <3>1 DEF Rank, Names
    <3>3. op[p] \in {"like", "comment"} BY <1>1, <1>4, <2>1 DEF Program, Deleted
    <3> QED BY <1>3, <3>2, <3>3 DEF Program, Dispatched
  <2>2. ASSUME "find" \in Left(p) PROVE Now(p) = "find"
    <3>1. Rank[Now(p)] <= 1 BY <1>6, <2>2 DEF Rank
    <3>2. Now(p) \in {"incr", "find", "uncountComment", "readNotice"} BY <1>3, <3>1 DEF Rank, Names
    <3>3. op[p] = "unlike" BY <1>1, <1>4, <2>2 DEF Program, Deleted, Dispatched
    <3> QED BY <1>3, <3>2, <3>3 DEF Program, Deleted
  <2> QED BY <1>2, <2>1, <2>2
<1>8. Now(p) \in {"incr", "find"} => Left(p) = Program[op[p]]
  <2> SUFFICES ASSUME Now(p) \in {"incr", "find"}, NEW c \in Program[op[p]]
               PROVE  Rank[Now(p)] <= Rank[c]
    BY <1>1
  <2>1. Rank[Now(p)] = 1 BY DEF Rank
  <2>2. c \in Names BY <1>4 DEF Program, Dispatched, Deleted, Names
  <2> QED BY <2>1, <2>2, RankType
<1>9. /\ Now(p) \in {"linkRecord", "linkSent", "readOwner", "linkReceived", "linkNotice"} =>
           "setRough" \notin Left(p)
      /\ Now(p) \in {"readOwner", "linkNotice"} =>
           "linkRecord" \notin Left(p) /\ "linkSent" \notin Left(p)
      /\ Now(p) = "linkNotice" => "linkReceived" \notin Left(p)
  BY <1>6 DEF Rank
<1>10. Now(p) = "setDeleted" =>
         /\ "unlinkRecord" \notin Left(p) /\ "unlinkSent" \notin Left(p)
         /\ "remLike" \notin Left(p) /\ "uncountLike" \notin Left(p)
         /\ "uncountComment" \notin Left(p)
  BY <1>6 DEF Rank
<1>11. Now(p) \in {"linkNotice", "readOwner"} =>
         /\ "countLike" \notin Left(p) /\ "addLike" \notin Left(p)
         /\ "countComment" \notin Left(p)
  BY <1>6 DEF Rank
<1>12. ASSUME Len(todo[p]) = 1 PROVE Now(p) \in {"linkNotice", "setDeleted", "trim"}
  BY <1>2, <1>5, <1>12
<1>13. ASSUME Now(p) \in {"linkNotice", "setDeleted", "trim"} PROVE Len(todo[p]) = 1
  <2> SUFFICES ASSUME NEW c \in Left(p), Rank[Now(p)] < Rank[c] PROVE FALSE BY <1>2
  <2>1. CASE Now(p) = "linkNotice"
    <3>1. c \in Names /\ Rank["linkNotice"] = 12 BY <1>2 DEF Rank
    <3> QED BY <2>1, <3>1, RankType
  <2>2. CASE Now(p) = "setDeleted"
    <3>1. op[p] \in {"unlike", "uncomment"} BY <1>3, <1>4, <2>2 DEF Program, Dispatched
    <3>2. c \in Program[op[p]] BY <1>1
    <3> QED BY <2>2, <3>1, <3>2 DEF Program, Deleted, Rank
  <2>3. CASE Now(p) = "trim"
    <3>1. op[p] = "notices" BY <1>3, <1>4, <2>3 DEF Program, Dispatched, Deleted
    <3>2. c \in Program[op[p]] BY <1>1
    <3> QED BY <2>3, <3>1, <3>2 DEF Program, Rank
  <2> QED BY <1>13, <2>1, <2>2, <2>3
<1> QED BY <1>1, <1>2, <1>3, <1>5, <1>7, <1>8, <1>9, <1>10, <1>11, <1>12, <1>13

\* Which request a command belongs to.
LEMMA WhoseCommand ==
  ASSUME LInv, NEW p \in Procs, NEW c \in Left(p)
  PROVE  /\ ~ Idle(p)
         /\ c \in {"incr", "setRough", "readTarget", "setRecordData", "linkRecord",
                   "setUserData", "linkSent", "readOwner", "linkReceived", "linkNotice"} => Sends(p)
         /\ c \in {"countLike", "addLike"} => op[p] = "like"
         /\ c = "countComment" => op[p] = "comment"
         /\ c \in {"find", "uncountLike", "remLike"} => op[p] = "unlike"
         /\ c = "uncountComment" => op[p] = "uncomment"
         /\ c \in {"unlinkRecord", "unlinkSent", "readRough", "setDeleted"} => Deletes(p)
         /\ c \in {"readNotice", "trim"} => op[p] = "notices"
<1>1. ~ Idle(p)
  <2> SUFFICES ASSUME Idle(p) PROVE FALSE OBVIOUS
  <2>1. todo[p] = << >> BY DEF LInv, PlaceOK
  <2>2. Left(p) = {} BY <2>1, EmptySeq DEF Left, Elements
  <2> QED BY <2>2
<1>2. c \in Program[op[p]] /\ op[p] \in DOMAIN Commands BY <1>1, NowFacts
<1>3. op[p] \in {"like", "comment", "unlike", "uncomment", "notices"}
  BY <1>2 DEF Commands
<1>4. CASE op[p] \in {"like", "comment"}
  BY <1>1, <1>2, <1>4 DEF Program, Dispatched, Sends, Deletes, Kinds
<1>5. CASE op[p] \in {"unlike", "uncomment"}
  BY <1>1, <1>2, <1>5 DEF Program, Deleted, Sends, Deletes, Kinds
<1>6. CASE op[p] = "notices"
  BY <1>1, <1>2, <1>6 DEF Program, Sends, Deletes, Kinds
<1> QED BY <1>3, <1>4, <1>5, <1>6

-----------------------------------------------------------------------------
(* How a step moves a request.                                             *)

SameRequest(q) == /\ op'[q] = op[q] /\ user'[q] = user[q] /\ id'[q] = id[q]
                  /\ todo'[q] = todo[q] /\ page'[q] = page[q]

Others(p) == \A q \in Procs \ {p} : SameRequest(q)

\* The request of p is over; it has sent its first command.
Ended(p) == op'[p] = "none" /\ id'[p] = 0 /\ page'[p] = {} /\ Left(p)' = {}

Went(p) == /\ op'[p] = op[p] /\ user'[p] = user[p]
           /\ Left(p)' = Left(p) \ {Now(p)}
           /\ Now(p)' \in Left(p)'

LEMMA SameFacts ==
  ASSUME NEW q \in Procs, SameRequest(q)
  PROVE  /\ Idle(q)' <=> Idle(q)
         /\ Now(q)' = Now(q) /\ Left(q)' = Left(q)
         /\ Sends(q)' <=> Sends(q)
         /\ Deletes(q)' <=> Deletes(q)
         /\ PlaceOK(q)' <=> PlaceOK(q)
BY DEF SameRequest, Idle, Now, Left, Elements, Sends, Deletes, PlaceOK

\* The types of the requests, but for their places.
FieldsT == /\ op \in [Procs -> DOMAIN Commands \cup {"none"}]
           /\ user \in [Procs -> Users \cup {NoOne}]
           /\ id \in [Procs -> 0 .. MaxInteracts]
           /\ target \in [Procs -> 0 .. MaxInteracts]
           /\ page \in [Procs -> SUBSET Interacts]
           /\ DOMAIN todo = Procs

LEMMA PlacesStep ==
  ASSUME LInv, NEW p \in Procs, Others(p), FieldsT', PlaceOK(p)',
         sequence \in Nat, sequence' \in {sequence, sequence + 1},
         id'[p] > sequence' => op'[p] = "uncomment"
  PROVE  LInv'
<1>1. ASSUME NEW q \in Procs, q # p PROVE PlaceOK(q)'
  BY <1>1, SameFacts DEF Others, LInv
<1>2. ASSUME NEW q \in Procs, q # p, id'[q] > sequence' PROVE op'[q] = "uncomment"
  <2>1. id'[q] = id[q] /\ op'[q] = op[q] BY <1>2 DEF Others, SameRequest
  <2>2. id[q] \in 0 .. MaxInteracts BY DEF LInv
  <2>3. id[q] > sequence BY <1>2, <2>1, <2>2, InteractAssumption
  <2> QED BY <2>1, <2>3 DEF LInv, IdsOK
<1>3. IdsOK' BY <1>2 DEF IdsOK
<1> QED BY <1>1, <1>3 DEF LInv, FieldsT

LEMMA ClearMove ==
  ASSUME LInv, NEW p \in Procs, Clear(p), sequence' = sequence, sequence \in Nat
  PROVE  LInv' /\ Others(p) /\ Ended(p)
<1>1. /\ op'[p] = "none" /\ id'[p] = 0 /\ page'[p] = {} /\ todo'[p] = << >>
      /\ Others(p)
  BY DEF Clear, Others, SameRequest, LInv
<1>2. FieldsT'
  <2>1. 0 \in 0 .. MaxInteracts BY InteractAssumption
  <2> QED BY <2>1 DEF Clear, FieldsT, LInv
<1>3. PlaceOK(p)' BY <1>1 DEF PlaceOK, Idle
<1>4. Left(p)' = {} BY <1>1, EmptySeq DEF Left, Elements
<1>5. ~ (id'[p] > sequence') BY <1>1
<1> QED BY <1>1, <1>2, <1>3, <1>4, <1>5, PlacesStep DEF Ended

\* A request that goes on; what it has found or read may be new.
LEMMA GoOnMove ==
  ASSUME LInv, NEW p \in Procs, ~ Idle(p), GoOn(p), Len(todo[p]) # 1,
         sequence' \in {sequence, sequence + 1}, sequence \in Nat,
         id' \in [Procs -> 0 .. MaxInteracts], page' \in [Procs -> SUBSET Interacts],
         id'[p] > sequence' => op[p] = "uncomment",
         \A q \in Procs \ {p} : id'[q] = id[q] /\ page'[q] = page[q],
         id'[p] # 0 <=> Now(p) # "readNotice",
         page'[p] # {} <=> Now(p) = "readNotice"
  PROVE  LInv' /\ Others(p) /\ Went(p)
<1>1. /\ op'[p] = op[p] /\ user'[p] = user[p] /\ todo'[p] = Tail(todo[p])
      /\ op[p] # "none"
      /\ Others(p)
  BY DEF GoOn, Others, SameRequest, LInv, Idle
<1>2. FieldsT' BY DEF GoOn, FieldsT, LInv
<1>3. /\ op[p] \in DOMAIN Commands /\ user[p] \in Users
      /\ Now(p) = Head(todo[p]) /\ todo[p] \in Seq(Names) /\ todo[p] # << >>
      /\ Len(todo[p]) <= 12 /\ Sorted(todo[p])
      /\ Left(p) = {c \in Program[op[p]] : Rank[Now(p)] <= Rank[c]}
  BY <1>1 DEF LInv, PlaceOK, Idle, Now
<1> DEFINE t == Tail(todo[p])
<1>4. /\ Sorted(t) /\ Len(t) = Len(todo[p]) - 1
      /\ Elements(t) = Left(p) \ {Now(p)}
      /\ Head(t) \in Elements(t)
      /\ Rank[Now(p)] < Rank[Head(t)]
      /\ \A c \in Elements(t) : Rank[Head(t)] <= Rank[c]
      /\ Left(p) \subseteq Names
  BY <1>3, TailSorted DEF Left
<1>5. t \in Seq(Names) /\ t # << >> /\ Len(t) <= 12
  <2>1. Len(todo[p]) \in Nat \ {0, 1} /\ t \in Seq(Names) BY <1>3, EmptySeq
  <2>2. Len(t) # 0 /\ Len(t) <= 12 BY <1>3, <1>4, <2>1
  <2> QED BY <2>1, <2>2, EmptySeq
<1>6. todo'[p] = t BY <1>1
<1> HIDE DEF t
<1>7. /\ Left(p)' = Left(p) \ {Now(p)} /\ Now(p)' = Head(t) /\ ~ Idle(p)'
      /\ Left(p)' = Elements(t)
  BY <1>1, <1>4, <1>6 DEF Left, Now, Idle, Elements
<1>8. Left(p)' = {c \in Program[op[p]] : Rank[Head(t)] <= Rank[c]}
  <2>1. \A c \in Left(p)' : c \in Program[op[p]] /\ Rank[Head(t)] <= Rank[c]
    BY <1>3, <1>4, <1>7
  <2>2. ASSUME NEW c \in Program[op[p]], Rank[Head(t)] <= Rank[c] PROVE c \in Left(p)'
    <3>1. op[p] \in {"like", "comment", "unlike", "uncomment", "notices"}
      BY <1>3 DEF Commands
    <3>2. c \in Names BY <3>1 DEF Program, Dispatched, Deleted, Names
    <3>3. Now(p) \in Names /\ Head(t) \in Names
      BY <1>4, NowFacts
    <3>4. Rank[c] \in Nat /\ Rank[Now(p)] \in Nat /\ Rank[Head(t)] \in Nat
      BY <3>2, <3>3, RankType
    <3>5. Rank[Now(p)] <= Rank[c] /\ Rank[Now(p)] # Rank[c]
      BY <1>4, <2>2, <3>4
    <3> QED BY <1>3, <1>7, <3>5
  <2> QED BY <2>1, <2>2
<1>9. /\ Now(p)' \notin {"incr", "find", "readNotice"}
      /\ Now(p)' = "trim" <=> Now(p) = "readNotice"
  <2>1. Now(p) \in Left(p) /\ Now(p)' \in Left(p) BY <1>4, <1>7, NowFacts
  <2>2. "incr" \in Left(p) => Now(p) = "incr" BY NowFacts
  <2>3. "find" \in Left(p) => Now(p) = "find" BY NowFacts
  <2>4. Now(p)' # Now(p) BY <1>4, <1>7
  <2>5. Now(p) # "trim" BY NowFacts
  <2>6. "readNotice" \in Left(p) => op[p] = "notices" BY WhoseCommand
  <2>7. "trim" \in Left(p) => op[p] = "notices" BY WhoseCommand
  <2>8. op[p] = "notices" => Left(p) \subseteq {"readNotice", "trim"}
    BY <1>3 DEF Program
  <2> QED BY <2>1, <2>2, <2>3, <2>4, <2>5, <2>6, <2>7, <2>8
<1>10. PlaceOK(p)'
  <2>1. id'[p] = 0 <=> Now(p)' \in {"incr", "find", "readNotice", "trim"}
    BY <1>9
  <2>2. page'[p] # {} <=> Now(p)' = "trim" BY <1>9
  <2> QED BY <1>1, <1>3, <1>4, <1>5, <1>6, <1>7, <1>8, <2>1, <2>2 DEF PlaceOK
<1> QED BY <1>1, <1>2, <1>4, <1>7, <1>10, PlacesStep DEF Went

\* A command that leaves the interaction and the page as they are.
LEMMA AdvanceMove ==
  ASSUME LInv, NEW p \in Procs, ~ Idle(p), Advance(p),
         Now(p) \notin {"incr", "find", "readNotice"},
         sequence' = sequence, sequence \in Nat
  PROVE  /\ LInv' /\ Others(p)
         /\ Now(p) \in {"linkNotice", "setDeleted", "trim"} =>
              Ended(p) /\ fate' = FateWhenDone(p)
         /\ Now(p) \notin {"linkNotice", "setDeleted", "trim"} =>
              Went(p) /\ UNCHANGED <<id, page, fate>>
<1>1. CASE Len(todo[p]) = 1
  <2>1. Clear(p) /\ fate' = FateWhenDone(p) BY <1>1 DEF Advance
  <2> QED BY <1>1, <2>1, ClearMove, NowFacts
<1>2. CASE Len(todo[p]) # 1
  <2>1. GoOn(p) /\ UNCHANGED <<id, page, fate>> BY <1>2 DEF Advance
  <2>2. Now(p) \notin {"linkNotice", "setDeleted", "trim"} BY <1>2, NowFacts
  <2>3. id[p] # 0 /\ page[p] = {} /\ Now(p) # "readNotice"
    BY <2>2 DEF LInv, PlaceOK
  <2>4. /\ id' \in [Procs -> 0 .. MaxInteracts] /\ page' \in [Procs -> SUBSET Interacts]
        /\ id'[p] > sequence' => op[p] = "uncomment"
    BY <2>1 DEF LInv, IdsOK
  <2>5. \A q \in Procs \ {p} : id'[q] = id[q] /\ page'[q] = page[q] BY <2>1
  <2>6. id'[p] # 0 /\ page'[p] = {} BY <2>1, <2>3
  <2>7. LInv' /\ Others(p) /\ Went(p)
    BY <1>2, <2>1, <2>3, <2>4, <2>5, <2>6, GoOnMove
  <2> QED BY <2>1, <2>2, <2>7
<1> QED BY <1>1, <1>2

-----------------------------------------------------------------------------
(* Each action: its command, what it does to the request, and to the fate  *)
(* of the interaction the request is about.                                *)

Base == IInv /\ LInv /\ DataT

LEMMA BaseFacts ==
  ASSUME Base
  PROVE  /\ sequence \in Nat /\ sequence <= MaxInteracts
         /\ \A p \in Procs : /\ id[p] # 0 => id[p] \in Interacts
                             /\ Idle(p) => id[p] = 0 /\ page[p] = {}
                             /\ id[p] # 0 => Sends(p) \/ Deletes(p)
                             /\ Sends(p) => ~ Deletes(p) /\ ~ Idle(p)
                             /\ Deletes(p) => ~ Idle(p)
                             /\ Numbered(p) <=> Sends(p) /\ id[p] # 0
                             /\ Exists(id[p]) => id[p] # 0
                             /\ id[p] # 0 /\ op[p] # "uncomment" => Exists(id[p])
<1>1. sequence \in Nat /\ sequence <= MaxInteracts /\ MaxInteracts \in Nat
  BY InteractAssumption DEF Base, IInv, StoreOK
<1>2. ASSUME NEW p \in Procs, id[p] # 0 PROVE id[p] \in Interacts
  BY <1>1, <1>2 DEF Base, LInv, Interacts
<1>3. ASSUME NEW p \in Procs, Idle(p) PROVE id[p] = 0 /\ page[p] = {}
  BY <1>3 DEF Base, LInv, PlaceOK
<1>4. ASSUME NEW p \in Procs
      PROVE  (Sends(p) => ~ Deletes(p) /\ ~ Idle(p)) /\ (Deletes(p) => ~ Idle(p))
  BY DEF Sends, Deletes, Idle, Kinds
<1>5. ASSUME NEW p \in Procs, id[p] # 0 PROVE Sends(p) \/ Deletes(p)
  <2> SUFFICES ASSUME ~ Sends(p), ~ Deletes(p) PROVE FALSE OBVIOUS
  <2>1. ~ Idle(p) BY <1>3, <1>5
  <2>2. op[p] = "notices" /\ Now(p) \in Program[op[p]] BY <2>1, NowFacts DEF Base
  <2>3. Now(p) \in {"readNotice", "trim"} BY <2>2 DEF Program
  <2> QED BY <1>5, <2>1, <2>3 DEF Base, LInv, PlaceOK
<1>6. ASSUME NEW p \in Procs, Sends(p) PROVE Has(todo[p], "incr") <=> id[p] = 0
  <2>1. ~ Idle(p) BY <1>4, <1>6
  <2>2. Has(todo[p], "incr") <=> "incr" \in Left(p) BY DEF Has, Left, Elements
  <2>3. "incr" \in Left(p) <=> Now(p) = "incr" BY <2>1, NowFacts DEF Base
  <2>4. id[p] = 0 <=> Now(p) \in {"incr", "find", "readNotice", "trim"}
    BY <2>1 DEF Base, LInv, PlaceOK
  <2>5. Now(p) \in Left(p) BY <2>1, NowFacts DEF Base
  <2>6. Now(p) \notin {"find", "readNotice", "trim"}
    <3>1. op[p] \in {"like", "comment"} BY <1>6 DEF Sends, Kinds
    <3> QED BY <2>5, <3>1, WhoseCommand DEF Base
  <2> QED BY <2>2, <2>3, <2>4, <2>6
<1>7. ASSUME NEW p \in Procs
      PROVE  /\ Exists(id[p]) => id[p] # 0
             /\ id[p] # 0 /\ op[p] # "uncomment" => Exists(id[p])
  <2>1. id[p] \in 0 .. MaxInteracts /\ (id[p] > sequence => op[p] = "uncomment")
    BY DEF Base, LInv, IdsOK
  <2> QED BY <1>1, <2>1 DEF Exists
<1> QED BY <1>1, <1>2, <1>3, <1>4, <1>5, <1>6, <1>7 DEF Numbered

\* An interaction is there when it has a fate.
LEMMA ExistsFate ==
  ASSUME Base, NEW i \in Interacts
  PROVE  Exists(i) <=> fate[i] # "none"
<1>1. i > sequence <=> fate[i] = "none" BY DEF Base, DataT
<1>2. i \in Nat /\ i >= 1 BY InteractAssumption DEF Interacts
<1> QED BY <1>1, <1>2, BaseFacts DEF Exists

\* The interaction of a request that is disturbed, and of one that is done.
LEMMA FateFacts ==
  ASSUME Base, NEW p \in Procs
  PROVE  /\ FateWhenFailed(p) = IF Exists(id[p]) THEN [fate EXCEPT ![id[p]] = "odd"] ELSE fate
         /\ id[p] # 0 => FateWhenDone(p) =
              IF Sends(p) /\ fate[id[p]] = "sending" THEN [fate EXCEPT ![id[p]] = "sent"]
              ELSE IF Deletes(p) /\ fate[id[p]] = "leaving"
                THEN [fate EXCEPT ![id[p]] = "gone"]
              ELSE fate
<1>1. id[p] # 0 => Sends(p) \/ Deletes(p) BY BaseFacts
<1> QED BY <1>1, BaseFacts DEF FateWhenFailed, FateWhenDone

\* What a command changes besides its effect on the store: nothing but the
\* request, which goes on.
Quiet(p) == Went(p) /\ UNCHANGED <<id, page, fate, requests, failed, shown, unread, crossed>>

\* The command of a step.
LEMMA AtNow == ASSUME Base, NEW p \in Procs, NEW c, At(p, c)
               PROVE  ~ Idle(p) /\ Now(p) = c /\ c \in Left(p)
<1>1. ~ Idle(p) /\ Now(p) = c BY DEF At, Now
<1> QED BY <1>1, NowFacts DEF Base

\* A command in the middle of a request.
LEMMA QuietAdvance ==
  ASSUME Base, NEW p \in Procs, NEW c, At(p, c), sequence' = sequence,
         Advance(p), UNCHANGED <<requests, failed, notices>>,
         c \notin {"incr", "find", "readNotice", "linkNotice", "setDeleted", "trim"}
  PROVE  LInv' /\ Others(p) /\ Quiet(p) /\ id[p] # 0 /\ Now(p) = c /\ c \in Left(p)
<1>1. ~ Idle(p) /\ Now(p) = c /\ c \in Left(p) BY AtNow
<1>2. id[p] # 0 BY <1>1 DEF Base, LInv, PlaceOK
<1>3. Advance(p) /\ UNCHANGED <<requests, failed, shown, unread, crossed>>
  BY DEF notices
<1>4. LInv' /\ Others(p) /\ Went(p) /\ UNCHANGED <<id, page, fate>>
  BY <1>1, <1>3, BaseFacts, AdvanceMove DEF Base
<1> QED BY <1>1, <1>2, <1>3, <1>4 DEF Quiet

LEMMA QuietMove ==
  ASSUME Base, NEW p \in Procs, NEW c, At(p, c), Done(p), sequence' = sequence,
         c \notin {"incr", "find", "readNotice", "linkNotice", "setDeleted", "trim"}
  PROVE  LInv' /\ Others(p) /\ Quiet(p) /\ id[p] # 0 /\ Now(p) = c /\ c \in Left(p)
BY QuietAdvance DEF Done

LEMMA CountStatMove ==
  ASSUME Base, NEW p \in Procs, CountStat(p)
  PROVE  /\ LInv' /\ Others(p) /\ Quiet(p) /\ id[p] # 0 /\ Now(p) \in Left(p)
         /\ UNCHANGED <<sequence, rough, lists, notice, liked>>
         /\ \/ Now(p) = "countLike" /\ like' = like + 1 /\ UNCHANGED comment
            \/ Now(p) = "uncountLike" /\ like' = like - 1 /\ UNCHANGED comment
            \/ Now(p) = "countComment" /\ comment' = comment + 1 /\ UNCHANGED like
            \/ Now(p) = "uncountComment" /\ comment' = comment - 1 /\ UNCHANGED like
         /\ missed' = IF Now(p) = "uncountComment" /\ ~ Exists(id[p]) THEN missed + 1 ELSE missed
<1>1. PICK c \in {"countLike", "uncountLike", "countComment", "uncountComment"} : At(p, c)
  BY DEF CountStat
<1>2. /\ Advance(p) /\ UNCHANGED <<requests, failed, notices>>
      /\ UNCHANGED <<sequence, rough, lists, notice, liked>> /\ sequence' = sequence
  BY DEF CountStat
<1>3. LInv' /\ Others(p) /\ Quiet(p) /\ id[p] # 0 /\ Now(p) = c /\ Now(p) \in Left(p)
  BY <1>1, <1>2, QuietAdvance
<1>4. At(p, "uncountComment") <=> Now(p) = "uncountComment"
  BY <1>1, <1>3, AtNow DEF At, Now
<1> QED BY <1>2, <1>3, <1>4, AtNow DEF CountStat

LEMMA SetLikedMove ==
  ASSUME Base, NEW p \in Procs, SetLiked(p)
  PROVE  /\ LInv' /\ Others(p) /\ Quiet(p) /\ id[p] # 0 /\ Now(p) \in Left(p)
         /\ UNCHANGED <<sequence, rough, lists, notice, like, comment>>
         /\ \/ Now(p) = "addLike" /\ liked' = liked \cup {user[p]}
            \/ Now(p) = "remLike" /\ liked' = liked \ {user[p]}
<1>1. PICK c \in {"addLike", "remLike"} : At(p, c) BY DEF SetLiked
<1>2. Done(p) /\ UNCHANGED <<sequence, rough, lists, notice, like, comment>> BY DEF SetLiked
<1>3. LInv' /\ Others(p) /\ Quiet(p) /\ id[p] # 0 /\ Now(p) \in Left(p)
  BY <1>1, <1>2, QuietMove
<1> QED BY <1>2, <1>3, AtNow DEF SetLiked

LEMMA SetRoughMove ==
  ASSUME Base, NEW p \in Procs, SetRough(p)
  PROVE  /\ LInv' /\ Others(p) /\ Quiet(p) /\ id[p] \in Interacts /\ id[p] # 0
         /\ Now(p) = "setRough" /\ Sends(p) /\ Now(p) \in Left(p)
         /\ rough' = [rough EXCEPT ![id[p]] =
                        [user |-> user[p], kind |-> op[p], is_delete |-> FALSE]]
         /\ UNCHANGED <<sequence, lists, notice, counters>>
<1>1. At(p, "setRough") /\ Done(p) /\ UNCHANGED <<sequence, lists, notice, counters>>
  BY DEF SetRough
<1>2. LInv' /\ Others(p) /\ Quiet(p) /\ id[p] # 0 /\ Now(p) = "setRough" /\ Now(p) \in Left(p)
  BY <1>1, QuietMove
<1>3. Sends(p) BY <1>2, WhoseCommand DEF Base
<1> QED BY <1>1, <1>2, <1>3, BaseFacts DEF SetRough

LEMMA StopMove ==
  ASSUME Base, NEW p \in Procs, Stop(p), sequence' = sequence
  PROVE  /\ LInv' /\ Others(p) /\ Ended(p) /\ fate' = FateWhenFailed(p)
         /\ UNCHANGED <<requests, failed, shown, unread, crossed>>
BY BaseFacts, ClearMove DEF Stop, notices, Base

\* A read that lets the request go on or ends it.
LEMMA ReadMove ==
  ASSUME Base, NEW p \in Procs, ReadTarget(p) \/ ReadRough(p)
  PROVE  /\ LInv' /\ Others(p) /\ UNCHANGED store /\ id[p] # 0
         /\ Now(p) \in {"readTarget", "readRough"} /\ Now(p) \in Left(p)
         /\ \/ Quiet(p)
            \/ /\ Ended(p) /\ fate' = FateWhenFailed(p)
               /\ UNCHANGED <<requests, failed, shown, unread, crossed>>
<1>1. PICK c \in {"readTarget", "readRough"} : At(p, c) BY DEF ReadTarget, ReadRough
<1>2. (Done(p) \/ Stop(p)) /\ UNCHANGED store BY DEF ReadTarget, ReadRough
<1>3. sequence' = sequence BY <1>2 DEF store
<1>4. ~ Idle(p) /\ Now(p) = c /\ c \in Left(p) BY <1>1, AtNow
<1>5. id[p] # 0 BY <1>4 DEF Base, LInv, PlaceOK
<1>6. CASE Done(p) BY <1>1, <1>2, <1>3, <1>6, QuietMove
<1>7. CASE Stop(p) BY <1>2, <1>3, <1>4, <1>5, <1>7, StopMove
<1> QED BY <1>2, <1>6, <1>7

LEMMA SetDataMove ==
  ASSUME Base, NEW p \in Procs, SetData(p)
  PROVE  /\ LInv' /\ Others(p) /\ Quiet(p) /\ id[p] \in Interacts /\ id[p] # 0
         /\ Now(p) \in {"setRecordData", "setUserData"} /\ Now(p) \in Left(p)
         /\ recordData' \subseteq recordData \cup {id[p]}
         /\ userData' \subseteq userData \cup {id[p]}
         /\ UNCHANGED <<sequence, rough, onRecord, sent, received, notice, counters>>
<1>1. PICK c \in {"setRecordData", "setUserData"} : At(p, c) BY DEF SetData
<1>2. Done(p) /\ UNCHANGED <<sequence, rough, onRecord, sent, received, notice, counters>>
  BY DEF SetData
<1>3. LInv' /\ Others(p) /\ Quiet(p) /\ id[p] # 0 /\ Now(p) = c /\ Now(p) \in Left(p)
  BY <1>1, <1>2, QuietMove
<1> QED BY <1>1, <1>2, <1>3, BaseFacts DEF SetData

LEMMA LinkMove ==
  ASSUME Base, NEW p \in Procs, Link(p)
  PROVE  /\ LInv' /\ Others(p) /\ Quiet(p) /\ id[p] \in Interacts /\ id[p] # 0
         /\ Sends(p) /\ Now(p) \in Left(p) /\ user[p] \in Users
         /\ \/ /\ Now(p) = "linkRecord" /\ onRecord' = onRecord \cup {id[p]}
               /\ UNCHANGED <<sent, received>>
            \/ /\ Now(p) = "linkSent"
               /\ sent' = [sent EXCEPT ![user[p]] = @ \cup {id[p]}]
               /\ UNCHANGED <<onRecord, received>>
            \/ /\ Now(p) = "linkReceived" /\ received' = received \cup {id[p]}
               /\ UNCHANGED <<onRecord, sent>>
         /\ UNCHANGED <<sequence, rough, recordData, userData, notice, counters>>
<1>1. PICK c \in {"linkRecord", "linkSent", "linkReceived"} : At(p, c) BY DEF Link
<1>2. Done(p) /\ UNCHANGED <<sequence, rough, recordData, userData, notice, counters>>
  BY DEF Link
<1>3. LInv' /\ Others(p) /\ Quiet(p) /\ id[p] # 0 /\ Now(p) = c /\ Now(p) \in Left(p)
  BY <1>1, <1>2, QuietMove
<1>4. Sends(p) /\ ~ Idle(p) BY <1>1, <1>3, WhoseCommand DEF Base
<1>5. user[p] \in Users BY <1>4, NowFacts DEF Base
<1> QED BY <1>2, <1>3, <1>4, <1>5, AtNow, BaseFacts DEF Link

LEMMA UnlinkMove ==
  ASSUME Base, NEW p \in Procs, Unlink(p)
  PROVE  /\ LInv' /\ Others(p) /\ Quiet(p) /\ id[p] \in Interacts /\ id[p] # 0
         /\ Deletes(p) /\ Now(p) \in Left(p) /\ user[p] \in Users
         /\ \/ Now(p) = "unlinkRecord" /\ onRecord' = onRecord \ {id[p]} /\ UNCHANGED sent
            \/ /\ Now(p) = "unlinkSent" /\ UNCHANGED onRecord
               /\ sent' = [sent EXCEPT ![user[p]] = @ \ {id[p]}]
         /\ UNCHANGED <<sequence, rough, recordData, userData, received, notice, counters>>
<1>1. PICK c \in {"unlinkRecord", "unlinkSent"} : At(p, c) BY DEF Unlink
<1>2. Done(p) /\ UNCHANGED <<sequence, rough, recordData, userData, received, notice, counters>>
  BY DEF Unlink
<1>3. LInv' /\ Others(p) /\ Quiet(p) /\ id[p] # 0 /\ Now(p) = c /\ Now(p) \in Left(p)
  BY <1>1, <1>2, QuietMove
<1>4. Deletes(p) /\ ~ Idle(p) BY <1>1, <1>3, WhoseCommand DEF Base
<1>5. user[p] \in Users BY <1>4, NowFacts DEF Base
<1> QED BY <1>2, <1>3, <1>4, <1>5, AtNow, BaseFacts DEF Unlink

LEMMA ReadOwnerMove ==
  ASSUME Base, NEW p \in Procs, ReadOwner(p)
  PROVE  /\ LInv' /\ Others(p) /\ UNCHANGED store /\ id[p] # 0
         /\ Now(p) = "readOwner" /\ Sends(p) /\ Now(p) \in Left(p)
         /\ \/ Quiet(p)
            \/ /\ Ended(p) /\ fate' = FateWhenDone(p) /\ user[p] = Owner
               /\ UNCHANGED <<requests, failed, shown, unread, crossed>>
<1>1. /\ At(p, "readOwner") /\ UNCHANGED <<store, requests, failed, shown, unread, crossed>>
      /\ sequence' = sequence
      /\ \/ Advance(p)
         \/ Clear(p) /\ fate' = FateWhenDone(p) /\ user[p] = Owner
  BY DEF ReadOwner, notices, store
<1>2. ~ Idle(p) /\ Now(p) = "readOwner" /\ Now(p) \in Left(p) BY <1>1, AtNow
<1>3. id[p] # 0 BY <1>2 DEF Base, LInv, PlaceOK
<1>4. Sends(p) BY <1>2, WhoseCommand DEF Base
<1>5. CASE Advance(p)
  <2>1. LInv' /\ Others(p) /\ Went(p) /\ UNCHANGED <<id, page, fate>>
    BY <1>1, <1>2, <1>5, BaseFacts, AdvanceMove DEF Base
  <2> QED BY <1>1, <1>2, <1>3, <1>4, <2>1 DEF Quiet
<1>6. CASE Clear(p) /\ fate' = FateWhenDone(p) /\ user[p] = Owner
  BY <1>1, <1>2, <1>3, <1>4, <1>6, BaseFacts, ClearMove DEF Base
<1> QED BY <1>1, <1>5, <1>6

\* The first page of what there is.
LEMMA FirstPageFacts ==
  ASSUME IInv, notice # << >>
  PROVE  Elements(FirstPage) \subseteq Interacts /\ Elements(FirstPage) # {}
<1> DEFINE m == IF Len(notice) < PageCount THEN Len(notice) ELSE PageCount
           s == SubSeq(notice, 1, m)
<1>1. notice \in Seq(Interacts) /\ Len(notice) \in Nat \ {0} /\ PageCount \in Nat \ {0}
  BY EmptySeq, InteractAssumption DEF IInv, StoreOK
<1>2. m \in 1 .. Len(notice) BY <1>1
<1>3. FirstPage = s BY DEF FirstPage
<1> HIDE DEF m
<1>4. Len(s) = m /\ \A k \in 1 .. m : s[k] = notice[k] BY <1>1, <1>2
<1>5. \A k \in 1 .. m : notice[k] \in Interacts BY <1>1, <1>2
<1> HIDE DEF s
<1>6. Elements(s) \subseteq Interacts BY <1>4, <1>5 DEF Elements
<1>7. s[1] \in Elements(s) BY <1>2, <1>4 DEF Elements
<1> QED BY <1>3, <1>6, <1>7

\* The notices after the first page.
LEMMA AfterPageFacts ==
  ASSUME IInv
  PROVE  /\ Len(AfterPage) \in Nat /\ Len(AfterPage) <= Len(notice)
         /\ Elements(notice) \subseteq Elements(FirstPage) \cup Elements(AfterPage)
<1> PICK n : n = Len(notice) OBVIOUS
<1> PICK c : c = PageCount OBVIOUS
<1>1. notice \in Seq(Interacts) /\ n \in Nat /\ c \in Nat \ {0}
  BY InteractAssumption DEF IInv, StoreOK
<1> DEFINE m == IF n < c THEN n ELSE c
           f == SubSeq(notice, 1, m)
           a == SubSeq(notice, c + 1, n)
<1>2. FirstPage = f /\ AfterPage = a BY DEF FirstPage, AfterPage
<1>3. m \in 0 .. n /\ m <= c /\ (m = n \/ m = c) BY <1>1
<1> HIDE DEF m
<1>4. Len(f) = m /\ \A k \in 1 .. m : f[k] = notice[k] BY <1>1, <1>3
<1>5. /\ Len(a) = IF c + 1 <= n THEN n - c ELSE 0
      /\ c < n => \A k \in 1 .. n - c : a[k] = notice[c + k]
  BY <1>1
<1> HIDE DEF f, a
<1>6. Len(a) \in Nat /\ Len(a) <= n BY <1>1, <1>5
<1>7. ASSUME NEW k \in 1 .. n PROVE notice[k] \in Elements(f) \cup Elements(a)
  <2>1. CASE k <= m
    <3>1. k \in 1 .. Len(f) /\ f[k] = notice[k] BY <1>1, <1>3, <1>4, <2>1
    <3> QED BY <3>1 DEF Elements
  <2>2. CASE ~ (k <= m)
    <3>1. m = c /\ c < n BY <1>1, <1>3, <2>2
    <3>2. k - c \in 1 .. n - c /\ c + (k - c) = k BY <1>1, <2>2, <3>1
    <3>3. Len(a) = n - c BY <1>1, <1>5, <3>1
    <3>4. a[k - c] = notice[k] BY <1>5, <3>1, <3>2
    <3> QED BY <3>2, <3>3, <3>4 DEF Elements
  <2> QED BY <2>1, <2>2
<1> QED BY <1>2, <1>6, <1>7 DEF Elements

\* The last command of a dispatch and of a deletion.
LEMMA LinkNoticeMove ==
  ASSUME Base, NEW p \in Procs, LinkNotice(p)
  PROVE  /\ LInv' /\ Others(p) /\ Ended(p) /\ fate' = FateWhenDone(p)
         /\ id[p] # 0 /\ id[p] \in Interacts /\ Sends(p)
         /\ Now(p) = "linkNotice" /\ Now(p) \in Left(p)
         /\ notice' = <<id[p]>> \o notice
         /\ crossed' = crossed \cup Readers(p)
         /\ UNCHANGED <<sequence, rough, lists, counters, requests, failed, shown, unread>>
<1>1. /\ At(p, "linkNotice") /\ Advance(p)
      /\ notice' = <<id[p]>> \o notice
      /\ crossed' = crossed \cup Readers(p)
      /\ UNCHANGED <<sequence, rough, lists, counters, requests, failed, shown, unread>>
  BY DEF LinkNotice
<1>2. ~ Idle(p) /\ Now(p) = "linkNotice" /\ Now(p) \in Left(p) BY <1>1, AtNow
<1>3. id[p] # 0 BY <1>2 DEF Base, LInv, PlaceOK
<1>4. LInv' /\ Others(p) /\ Ended(p) /\ fate' = FateWhenDone(p)
  BY <1>1, <1>2, BaseFacts, AdvanceMove DEF Base
<1>5. Sends(p) BY <1>2, WhoseCommand DEF Base
<1> QED BY <1>1, <1>2, <1>3, <1>4, <1>5, BaseFacts

LEMMA SetDeletedMove ==
  ASSUME Base, NEW p \in Procs, SetDeleted(p)
  PROVE  /\ LInv' /\ Others(p) /\ Ended(p) /\ fate' = FateWhenDone(p)
         /\ id[p] # 0 /\ id[p] \in Interacts /\ Deletes(p)
         /\ Now(p) = "setDeleted" /\ Now(p) \in Left(p)
         /\ rough' = [rough EXCEPT ![id[p]].is_delete = TRUE]
         /\ UNCHANGED <<sequence, lists, notice, counters>>
         /\ UNCHANGED <<requests, failed, shown, unread, crossed>>
<1>1. /\ At(p, "setDeleted") /\ Advance(p)
      /\ rough' = [rough EXCEPT ![id[p]].is_delete = TRUE]
      /\ UNCHANGED <<sequence, lists, notice, counters>>
      /\ UNCHANGED <<requests, failed, shown, unread, crossed>>
  BY DEF SetDeleted, Done, notices
<1>2. ~ Idle(p) /\ Now(p) = "setDeleted" /\ Now(p) \in Left(p) BY <1>1, AtNow
<1>3. id[p] # 0 BY <1>2 DEF Base, LInv, PlaceOK
<1>4. LInv' /\ Others(p) /\ Ended(p) /\ fate' = FateWhenDone(p)
  BY <1>1, <1>2, BaseFacts, AdvanceMove DEF Base
<1>5. Deletes(p) BY <1>2, WhoseCommand DEF Base
<1> QED BY <1>1, <1>2, <1>3, <1>4, <1>5, BaseFacts

LEMMA IncrSequenceMove ==
  ASSUME Base, NEW p \in Procs, IncrSequence(p)
  PROVE  /\ LInv' /\ Others(p) /\ Went(p) /\ id[p] = 0 /\ id'[p] = sequence + 1
         /\ Sends(p) /\ Now(p) = "incr" /\ Left(p) = Program[op[p]]
         /\ sequence' = sequence + 1 /\ sequence + 1 \in Interacts
         /\ \E f \in {"sending", "odd"} :
              /\ fate' = [fate EXCEPT ![sequence + 1] = f]
              /\ f = "sending" => \A q \in Procs : Deletes(q) => id[q] # sequence + 1
         /\ UNCHANGED <<rough, lists, notice, counters>>
         /\ UNCHANGED <<page, requests, failed, shown, unread, crossed>>
<1>1. /\ At(p, "incr") /\ sequence < MaxInteracts /\ sequence' = sequence + 1
      /\ id' = [id EXCEPT ![p] = sequence + 1] /\ GoOn(p)
      /\ \E f \in {"sending", "odd"} :
           /\ fate' = [fate EXCEPT ![sequence + 1] = f]
           /\ f = "sending" => \A q \in Procs : Deletes(q) => id[q] # sequence + 1
      /\ UNCHANGED <<rough, lists, notice, counters>>
      /\ UNCHANGED <<page, requests, failed, shown, unread, crossed>>
  BY DEF IncrSequence, NextSequence, FateWhenNumbered, notices
<1>2. ~ Idle(p) /\ Now(p) = "incr" /\ Now(p) \in Left(p) BY <1>1, AtNow
<1>3. sequence \in Nat /\ sequence + 1 \in Interacts
  BY <1>1, BaseFacts, InteractAssumption DEF Interacts
<1>4. id[p] = 0 /\ page[p] = {} BY <1>2 DEF Base, LInv, PlaceOK
<1>5. /\ id' \in [Procs -> 0 .. MaxInteracts] /\ id'[p] = sequence + 1
      /\ \A q \in Procs \ {p} : id'[q] = id[q]
      /\ ~ (id'[p] > sequence')
  <2>1. id \in [Procs -> 0 .. MaxInteracts] BY DEF Base, LInv
  <2>2. sequence + 1 \in 0 .. MaxInteracts BY <1>3 DEF Interacts
  <2> QED BY <1>1, <1>3, <2>1, <2>2
<1>6. page' \in [Procs -> SUBSET Interacts] BY <1>1 DEF Base, LInv
<1>7. Len(todo[p]) # 1 BY <1>2, NowFacts DEF Base
<1>8. id'[p] # 0 BY <1>3, <1>5
<1>9. LInv' /\ Others(p) /\ Went(p)
  BY <1>1, <1>2, <1>3, <1>4, <1>5, <1>6, <1>7, <1>8, GoOnMove DEF Base
<1>10. Sends(p) /\ Left(p) = Program[op[p]] BY <1>2, WhoseCommand, NowFacts DEF Base
<1> QED BY <1>1, <1>2, <1>3, <1>4, <1>5, <1>9, <1>10

\* A like of the user's own is there, whole or not.
LEMMA FindLikeMove ==
  ASSUME Base, NEW p \in Procs, FindLike(p)
  PROVE  /\ LInv' /\ Others(p) /\ UNCHANGED store /\ id[p] = 0
         /\ op[p] = "unlike" /\ Now(p) = "find" /\ Left(p) = Program["unlike"]
         /\ user[p] \in Users
         /\ UNCHANGED <<requests, failed, shown, unread, crossed>>
         /\ \/ Ended(p) /\ fate' = fate
            \/ \E i \in Likes(user[p]) :
                 /\ i \in 1 .. sequence /\ i \in Interacts
                 /\ Went(p) /\ id'[p] = i /\ page' = page
                 /\ fate' = FateOnDeletion(i, user[p], "like")
<1>1. /\ At(p, "find") /\ UNCHANGED <<store, requests, failed, shown, unread, crossed>>
      /\ sequence' = sequence
  BY DEF FindLike, notices, store
<1>2. ~ Idle(p) /\ Now(p) = "find" /\ Now(p) \in Left(p) BY <1>1, AtNow
<1>3. op[p] = "unlike" /\ user[p] \in Users /\ Left(p) = Program["unlike"]
  BY <1>2, WhoseCommand, NowFacts DEF Base
<1>4. id[p] = 0 /\ page[p] = {} BY <1>2 DEF Base, LInv, PlaceOK
<1>5. CASE Clear(p) /\ UNCHANGED fate
  BY <1>1, <1>2, <1>3, <1>4, <1>5, BaseFacts, ClearMove DEF Base
<1>6. ASSUME NEW i \in Likes(user[p]), id' = [id EXCEPT ![p] = i], GoOn(p), UNCHANGED page,
             fate' = FateOnDeletion(i, user[p], "like")
      PROVE  LInv' /\ Others(p) /\ Went(p) /\ i \in 1 .. sequence /\ i \in Interacts /\ id'[p] = i
  <2>1. i \in Interacts /\ rough[i].user = user[p] BY <1>6 DEF Likes, Base, DataT
  <2>2. user[p] # NoOne BY <1>3, InteractAssumption
  <2>3. ~ (i > sequence) BY <2>1, <2>2 DEF Base, IInv, StoreOK
  <2>4. i \in 1 .. sequence BY <2>1, <2>3, BaseFacts, InteractAssumption DEF Interacts
  <2>5. /\ id' \in [Procs -> 0 .. MaxInteracts] /\ id'[p] = i
        /\ \A q \in Procs \ {p} : id'[q] = id[q]
        /\ ~ (id'[p] > sequence')
    <3>1. i \in 0 .. MaxInteracts BY <2>1 DEF Interacts
    <3> QED BY <1>1, <1>6, <2>3, <3>1 DEF Base, LInv
  <2>6. page' \in [Procs -> SUBSET Interacts] BY <1>6 DEF Base, LInv
  <2>7. Len(todo[p]) # 1 BY <1>2, NowFacts DEF Base
  <2>8. id'[p] # 0 BY <2>4, <2>5
  <2>9. LInv' /\ Others(p) /\ Went(p)
    BY <1>1, <1>2, <1>4, <1>6, <2>5, <2>6, <2>7, <2>8, BaseFacts, GoOnMove DEF Base
  <2> QED BY <2>1, <2>4, <2>5, <2>9
<1>7. \/ Clear(p) /\ UNCHANGED fate
      \/ \E i \in Likes(user[p]) : /\ id' = [id EXCEPT ![p] = i]
                                   /\ fate' = FateOnDeletion(i, user[p], "like")
                                   /\ GoOn(p) /\ UNCHANGED page
  BY DEF FindLike
<1>8. CASE \E i \in Likes(user[p]) : /\ id' = [id EXCEPT ![p] = i]
                                        /\ fate' = FateOnDeletion(i, user[p], "like")
                                        /\ GoOn(p) /\ UNCHANGED page
  <2>1. PICK i \in Likes(user[p]) : /\ id' = [id EXCEPT ![p] = i]
                                     /\ fate' = FateOnDeletion(i, user[p], "like")
                                     /\ GoOn(p) /\ UNCHANGED page
    BY <1>8
  <2>2. LInv' /\ Others(p) /\ Went(p) /\ i \in 1 .. sequence /\ i \in Interacts /\ id'[p] = i
    BY <1>6, <2>1
  <2> QED BY <1>1, <1>2, <1>3, <1>4, <2>1, <2>2
<1> QED BY <1>5, <1>7, <1>8

LEMMA ReadNoticeMove ==
  ASSUME Base, NEW p \in Procs, ReadNotice(p)
  PROVE  /\ LInv' /\ Others(p) /\ UNCHANGED store /\ id[p] = 0 /\ id'[p] = 0
         /\ op[p] = "notices" /\ Now(p) = "readNotice" /\ Now(p) \in Left(p)
         /\ \/ Ended(p)
            \/ Went(p) /\ page'[p] = Elements(FirstPage)
         /\ crossed' = crossed \ {p}
         /\ UNCHANGED <<fate, requests, failed, shown, unread>>
<1>1. /\ At(p, "readNotice") /\ UNCHANGED <<store, fate, requests, failed, shown, unread>>
      /\ crossed' = crossed \ {p} /\ sequence' = sequence
      /\ \/ Clear(p)
         \/ /\ notice # << >> /\ page' = [page EXCEPT ![p] = Elements(FirstPage)]
            /\ GoOn(p) /\ UNCHANGED id
  BY DEF ReadNotice, store
<1>2. ~ Idle(p) /\ Now(p) = "readNotice" /\ Now(p) \in Left(p) BY <1>1, AtNow
<1>3. op[p] = "notices" BY <1>2, WhoseCommand DEF Base
<1>4. id[p] = 0 /\ p \in DOMAIN page BY <1>2 DEF Base, LInv, PlaceOK
<1>5. CASE Clear(p)
  <2>1. LInv' /\ Others(p) /\ Ended(p) BY <1>1, <1>5, BaseFacts, ClearMove DEF Base
  <2> QED BY <1>1, <1>2, <1>3, <1>4, <2>1 DEF Ended
<1>6. CASE /\ notice # << >> /\ page' = [page EXCEPT ![p] = Elements(FirstPage)]
           /\ GoOn(p) /\ UNCHANGED id
  <2>1. Elements(FirstPage) \subseteq Interacts /\ Elements(FirstPage) # {}
    BY <1>6, FirstPageFacts DEF Base
  <2>2. /\ id' \in [Procs -> 0 .. MaxInteracts] /\ page' \in [Procs -> SUBSET Interacts]
        /\ page'[p] = Elements(FirstPage) /\ id'[p] = 0 /\ ~ (id'[p] > sequence')
        /\ \A q \in Procs \ {p} : id'[q] = id[q] /\ page'[q] = page[q]
    BY <1>1, <1>4, <1>6, <2>1, BaseFacts DEF Base, LInv
  <2>3. Len(todo[p]) # 1 BY <1>2, NowFacts DEF Base
  <2>4. LInv' /\ Others(p) /\ Went(p)
    BY <1>1, <1>2, <1>6, <2>1, <2>2, <2>3, BaseFacts, GoOnMove DEF Base
  <2> QED BY <1>1, <1>2, <1>3, <1>4, <2>2, <2>4
<1> QED BY <1>1, <1>5, <1>6

LEMMA TrimMove ==
  ASSUME Base, NEW p \in Procs, Trim(p)
  PROVE  /\ LInv' /\ Others(p) /\ Ended(p) /\ id[p] = 0
         /\ op[p] = "notices" /\ Now(p) = "trim" /\ Now(p) \in Left(p)
         /\ notice' = AfterPage /\ shown' = shown \cup page[p]
         /\ unread' = unread \cup ((Elements(notice) \ Elements(notice')) \ shown')
         /\ crossed' = crossed \cup Readers(p)
         /\ UNCHANGED <<sequence, rough, lists, counters, requests, failed, fate>>
<1>1. At(p, "trim") /\ Clear(p) /\ sequence' = sequence BY DEF Trim
<1>2. ~ Idle(p) /\ Now(p) = "trim" /\ Now(p) \in Left(p) BY <1>1, AtNow
<1>3. op[p] = "notices" BY <1>2, WhoseCommand DEF Base
<1>4. id[p] = 0 BY <1>2 DEF Base, LInv, PlaceOK
<1>5. LInv' /\ Others(p) /\ Ended(p) BY <1>1, BaseFacts, ClearMove DEF Base
<1> QED BY <1>2, <1>3, <1>4, <1>5 DEF Trim

\* A disturbed request.  None stops being told of what was shown to it.
LEMMA FailMove ==
  ASSUME Base, NEW p \in Procs, Fail(p) \/ Kill(p)
  PROVE  /\ LInv' /\ Others(p) /\ UNCHANGED store /\ ~ Idle(p) /\ Now(p) \in Left(p)
         /\ \/ Ended(p)
            \/ /\ Went(p) /\ UNCHANGED <<id, page>> /\ id[p] # 0
               /\ Now(p) # "setRough"
         /\ fate' = FateWhenFailed(p)
         /\ failed < MaxFail /\ failed' = failed + 1
         /\ shown \subseteq shown' /\ shown' \subseteq shown \cup page[p]
         /\ UNCHANGED <<requests, unread, crossed>>
<1>1. /\ ~ Idle(p) /\ UNCHANGED store /\ sequence' = sequence
      /\ fate' = FateWhenFailed(p) /\ failed < MaxFail /\ failed' = failed + 1
      /\ shown \subseteq shown' /\ shown' \subseteq shown \cup page[p]
      /\ UNCHANGED <<requests, unread, crossed>>
      /\ \/ Clear(p)
         \/ /\ Head(todo[p]) \in PassedOver /\ Len(todo[p]) > 1
            /\ GoOn(p) /\ UNCHANGED <<id, page>>
  BY DEF Fail, Kill, store, notices
<1>2. Now(p) = Head(todo[p]) /\ Now(p) \in Left(p) BY <1>1, NowFacts DEF Base
<1>3. CASE Clear(p) BY <1>1, <1>2, <1>3, BaseFacts, ClearMove DEF Base
<1>4. CASE /\ Head(todo[p]) \in PassedOver /\ Len(todo[p]) > 1
           /\ GoOn(p) /\ UNCHANGED <<id, page>>
  <2>1. Len(todo[p]) # 1
    <3>1. Len(todo[p]) > 1 BY <1>4
    <3>2. todo[p] \in Seq(Names) BY <1>1 DEF Base, LInv, PlaceOK
    <3>3. Len(todo[p]) \in Nat BY <3>2
    <3>4. \A n \in Nat : n > 1 => n # 1 OBVIOUS
    <3> QED BY <3>1, <3>3, <3>4, Zenon
  <2>2. Now(p) \notin {"incr", "find", "readNotice", "trim", "setRough"}
    <3>1. Now(p) \notin {"incr", "find", "readNotice", "setRough"}
      BY <1>2, <1>4 DEF PassedOver
    <3>2. Now(p) # "trim" BY <1>1, <2>1, NowFacts DEF Base
    <3> QED BY <3>1, <3>2
  <2>3. id[p] # 0 /\ page[p] = {} BY <1>1, <2>2 DEF Base, LInv, PlaceOK
  <2>4. /\ id' \in [Procs -> 0 .. MaxInteracts] /\ page' \in [Procs -> SUBSET Interacts]
        /\ id'[p] > sequence' => op[p] = "uncomment"
    BY <1>1, <1>4 DEF Base, LInv, IdsOK
  <2>5. LInv' /\ Others(p) /\ Went(p)
    BY <1>1, <1>4, <2>1, <2>2, <2>3, <2>4, BaseFacts, GoOnMove DEF Base
  <2> QED BY <1>1, <1>2, <1>4, <2>2, <2>3, <2>5
<1> QED BY <1>1, <1>3, <1>4

LEMMA BeginMove ==
  ASSUME Base, NEW p \in Procs, Ask(p)
  PROVE  /\ LInv' /\ Others(p) /\ UNCHANGED store /\ Idle(p) /\ ~ Idle(p)'
         /\ Left(p)' = Program[op'[p]] /\ op'[p] \in DOMAIN Commands /\ user'[p] \in Users
         /\ Now(p)' \notin {"trim"}
         /\ requests < MaxRequests /\ requests' = requests + 1
         /\ UNCHANGED <<failed, shown, unread, crossed>>
         /\ \/ op'[p] # "uncomment" /\ id'[p] = 0 /\ fate' = fate
            \/ /\ op'[p] = "uncomment" /\ id'[p] \in Interacts
               /\ fate' = IF Exists(id'[p]) THEN FateOnDeletion(id'[p], user'[p], "comment")
                          ELSE fate
<1>1. PICK o \in DOMAIN Commands, u \in Users, i \in 0 .. MaxInteracts, t \in 0 .. MaxInteracts :
        Begin(p, o, u, i, t)
  BY DEF Ask
<1>2. /\ Idle(p) /\ requests < MaxRequests /\ requests' = requests + 1
      /\ o = "uncomment" <=> i # 0
      /\ op' = [op EXCEPT ![p] = o] /\ user' = [user EXCEPT ![p] = u]
      /\ id' = [id EXCEPT ![p] = i] /\ target' = [target EXCEPT ![p] = t]
      /\ todo' = [todo EXCEPT ![p] = Commands[o]] /\ page' = page
      /\ fate' = IF Exists(i) THEN FateOnDeletion(i, u, "comment") ELSE fate
      /\ UNCHANGED <<store, failed, shown, unread, crossed>> /\ sequence' = sequence
  BY <1>1 DEF Begin, notices, store
<1>3. /\ op'[p] = o /\ user'[p] = u /\ id'[p] = i /\ todo'[p] = Commands[o]
      /\ Others(p)
  BY <1>2 DEF Others, SameRequest, Base, LInv
<1>4. FieldsT' BY <1>2 DEF FieldsT, Base, LInv
<1>5. o # "none" BY DEF Commands
<1>6. page'[p] = {} BY <1>2, BaseFacts
<1>7. /\ Commands[o] \in Seq(Names) /\ Commands[o] # << >> /\ Len(Commands[o]) <= 12
      /\ Sorted(Commands[o]) /\ Elements(Commands[o]) = Program[o]
      /\ \A c \in Program[o] : Rank[Head(Commands[o])] <= Rank[c]
      /\ Head(Commands[o]) \in {"incr", "find", "readNotice"} <=> o # "uncomment"
      /\ Head(Commands[o]) # "trim"
  BY ProgramFacts
<1>8. ~ Idle(p)' /\ Now(p)' = Head(Commands[o]) /\ Left(p)' = Program[o]
  BY <1>3, <1>5, <1>7 DEF Idle, Now, Left, Elements
<1>9. PlaceOK(p)'
  <2>1. Left(p)' = {c \in Program[o] : Rank[Now(p)'] <= Rank[c]} BY <1>7, <1>8
  <2>2. id'[p] = 0 <=> Now(p)' \in {"incr", "find", "readNotice", "trim"}
    BY <1>2, <1>3, <1>7, <1>8
  <2>3. page'[p] # {} <=> Now(p)' = "trim" BY <1>6, <1>7, <1>8
  <2> QED BY <1>3, <1>7, <1>8, <2>1, <2>2, <2>3 DEF PlaceOK
<1>10. LInv'
  <2>1. id'[p] > sequence' => op'[p] = "uncomment"
    <3>1. i = 0 => ~ (i > sequence') BY <1>2, BaseFacts
    <3> QED BY <1>2, <1>3, <3>1
  <2> QED BY <1>2, <1>3, <1>4, <1>9, <2>1, BaseFacts, PlacesStep DEF Base
<1>11. i # 0 => i \in Interacts
  BY InteractAssumption DEF Interacts
<1>12. i = 0 => ~ Exists(i) BY BaseFacts DEF Exists
<1> QED BY <1>2, <1>3, <1>7, <1>8, <1>10, <1>11, <1>12

-----------------------------------------------------------------------------
(* Types of the store and of the history.                                  *)

\* An interaction keeps a fate; one that has none has not begun.
FateKept == /\ fate' \in [Interacts -> Fates] /\ sequence' = sequence
            /\ \A i \in Interacts : fate'[i] = "none" <=> fate[i] = "none"

LEMMA FateKeeps ==
  ASSUME Base, NEW p \in Procs, sequence' = sequence,
         \/ fate' = fate
         \/ fate' = FateWhenFailed(p)
         \/ fate' = FateWhenDone(p) /\ id[p] # 0
         \/ \E i \in 1 .. sequence : \E u, k : fate' = FateOnDeletion(i, u, k)
  PROVE  FateKept
<1>1. fate \in [Interacts -> Fates] /\ \A i \in Interacts : i > sequence <=> fate[i] = "none"
  BY DEF Base, DataT
<1>2. ASSUME NEW i \in Interacts, i \in 1 .. sequence, NEW f \in Fates \ {"none"},
             fate' = [fate EXCEPT ![i] = f]
      PROVE  FateKept
  <2>1. fate[i] # "none" BY <1>1, <1>2, BaseFacts
  <2> QED BY <1>1, <1>2, <2>1 DEF FateKept
<1>3. CASE fate' = fate BY <1>1, <1>3 DEF FateKept
<1>4. /\ id[p] # 0 => id[p] \in Interacts
      /\ Exists(id[p]) => id[p] # 0 /\ id[p] \in 1 .. sequence
      /\ id[p] # 0 /\ fate[id[p]] # "none" => id[p] \in 1 .. sequence
  BY BaseFacts, ExistsFate DEF Exists
<1>5. {"odd", "sent", "gone", "leaving"} \subseteq Fates \ {"none"} BY DEF Fates
<1>6. CASE fate' = FateWhenFailed(p)
  BY <1>2, <1>3, <1>4, <1>5, <1>6, FateFacts
<1>7. CASE fate' = FateWhenDone(p) /\ id[p] # 0
  BY <1>2, <1>3, <1>4, <1>5, <1>7, FateFacts
<1>8. ASSUME NEW i \in 1 .. sequence, NEW u, NEW k, fate' = FateOnDeletion(i, u, k)
      PROVE  FateKept
  <2>1. i \in Interacts BY BaseFacts, InteractAssumption DEF Interacts
  <2>2. \E f \in {"leaving", "odd"} : fate' = [fate EXCEPT ![i] = f]
    BY <1>8 DEF FateOnDeletion
  <2> QED BY <1>2, <1>5, <2>1, <2>2
<1> QED BY <1>3, <1>6, <1>7, <1>8

LEMMA DataKept ==
  ASSUME Base, FateKept,
         recordData' \subseteq Interacts, userData' \subseteq Interacts,
         onRecord' \subseteq Interacts, liked' \subseteq Users,
         requests' \in 0 .. MaxRequests, failed' \in 0 .. MaxFail,
         shown' \subseteq Interacts, unread' \subseteq Interacts, crossed' \subseteq Procs
  PROVE  DataT'
BY DEF Base, DataT, FateKept

LEMMA PageFacts == ASSUME Base, NEW p \in Procs PROVE page[p] \subseteq Interacts
BY DEF Base, LInv

LEMMA NoticesFacts == ASSUME Base PROVE Elements(notice) \subseteq Interacts
BY DEF Base, IInv, StoreOK, Elements

LEMMA DataStep ==
  ASSUME Base, NEW p \in Procs,
         \/ Ask(p) \/ Sending(p) \/ Deleting(p) \/ Reading(p) \/ Fail(p) \/ Kill(p)
  PROVE  DataT'
<1>0. /\ recordData \subseteq Interacts /\ userData \subseteq Interacts
      /\ onRecord \subseteq Interacts /\ liked \subseteq Users
      /\ requests \in 0 .. MaxRequests /\ failed \in 0 .. MaxFail
      /\ shown \subseteq Interacts /\ unread \subseteq Interacts /\ crossed \subseteq Procs
  BY DEF Base, DataT
<1>1. CASE Ask(p)
  <2>1. /\ UNCHANGED store /\ requests < MaxRequests /\ requests' = requests + 1
        /\ UNCHANGED <<failed, shown, unread, crossed>>
        /\ \/ fate' = fate
           \/ \E i \in 1 .. sequence : \E u, k : fate' = FateOnDeletion(i, u, k)
    BY <1>1, BeginMove DEF Exists
  <2>2. FateKept BY <2>1, FateKeeps DEF store
  <2>3. requests' \in 0 .. MaxRequests BY <1>0, <2>1, InteractAssumption
  <2> QED BY <1>0, <2>1, <2>2, <2>3, DataKept DEF store, lists, counters
<1>2. CASE CountStat(p)
  <2>1. /\ Quiet(p) /\ UNCHANGED <<sequence, lists, liked>> BY <1>2, CountStatMove
  <2>2. FateKept BY <2>1, FateKeeps DEF Quiet
  <2> QED BY <1>0, <2>1, <2>2, DataKept DEF Quiet, lists
<1>3. CASE SetLiked(p)
  <2>1. /\ Quiet(p) /\ UNCHANGED <<sequence, lists>> /\ ~ Idle(p)
        /\ liked' = liked \cup {user[p]} \/ liked' = liked \ {user[p]}
    BY <1>3, SetLikedMove, AtNow DEF SetLiked
  <2>2. FateKept BY <2>1, FateKeeps DEF Quiet
  <2>3. user[p] \in Users BY <2>1, NowFacts DEF Base
  <2> QED BY <1>0, <2>1, <2>2, <2>3, DataKept DEF Quiet, lists
<1>4. CASE SetRough(p)
  <2>1. Quiet(p) /\ UNCHANGED <<sequence, lists, counters>> BY <1>4, SetRoughMove
  <2>2. FateKept BY <2>1, FateKeeps DEF Quiet
  <2> QED BY <1>0, <2>1, <2>2, DataKept DEF Quiet, lists, counters
<1>5. CASE ReadTarget(p) \/ ReadRough(p)
  <2>1. /\ UNCHANGED store /\ UNCHANGED <<requests, failed, shown, unread, crossed>>
        /\ fate' = fate \/ fate' = FateWhenFailed(p)
    BY <1>5, ReadMove DEF Quiet
  <2>2. FateKept BY <2>1, FateKeeps DEF store
  <2> QED BY <1>0, <2>1, <2>2, DataKept DEF store, lists, counters
<1>6. CASE SetData(p)
  <2>1. /\ Quiet(p) /\ UNCHANGED <<sequence, onRecord, counters>> /\ id[p] \in Interacts
        /\ recordData' \subseteq recordData \cup {id[p]}
        /\ userData' \subseteq userData \cup {id[p]}
    BY <1>6, SetDataMove
  <2>2. FateKept BY <2>1, FateKeeps DEF Quiet
  <2>3. recordData' \subseteq Interacts /\ userData' \subseteq Interacts
    BY <1>0, <2>1
  <2> QED BY <1>0, <2>1, <2>2, <2>3, DataKept DEF Quiet, counters
<1>7. CASE Link(p)
  <2>1. /\ Quiet(p) /\ UNCHANGED <<sequence, recordData, userData, counters>>
        /\ id[p] \in Interacts /\ onRecord' \subseteq onRecord \cup {id[p]}
    BY <1>7, LinkMove
  <2>2. FateKept BY <2>1, FateKeeps DEF Quiet
  <2>3. onRecord' \subseteq Interacts BY <1>0, <2>1
  <2> QED BY <1>0, <2>1, <2>2, <2>3, DataKept DEF Quiet, counters
<1>8. CASE Unlink(p)
  <2>1. /\ Quiet(p) /\ UNCHANGED <<sequence, recordData, userData, counters>>
        /\ onRecord' \subseteq onRecord
    BY <1>8, UnlinkMove
  <2>2. FateKept BY <2>1, FateKeeps DEF Quiet
  <2>3. onRecord' \subseteq Interacts BY <1>0, <2>1
  <2> QED BY <1>0, <2>1, <2>2, <2>3, DataKept DEF Quiet, counters
<1>9. CASE ReadOwner(p)
  <2>1. /\ UNCHANGED store /\ UNCHANGED <<requests, failed, shown, unread, crossed>>
        /\ fate' = fate \/ (fate' = FateWhenDone(p) /\ id[p] # 0)
    BY <1>9, ReadOwnerMove DEF Quiet
  <2>2. FateKept BY <2>1, FateKeeps DEF store
  <2> QED BY <1>0, <2>1, <2>2, DataKept DEF store, lists, counters
<1>10. CASE LinkNotice(p)
  <2>1. /\ UNCHANGED <<sequence, lists, counters, requests, failed, shown, unread>>
        /\ crossed' = crossed \cup Readers(p) /\ fate' = FateWhenDone(p) /\ id[p] # 0
    BY <1>10, LinkNoticeMove
  <2>2. FateKept BY <2>1, FateKeeps
  <2>3. crossed' \subseteq Procs BY <1>0, <2>1 DEF Readers
  <2> QED BY <1>0, <2>1, <2>2, <2>3, DataKept DEF lists, counters
<1>11. CASE SetDeleted(p)
  <2>1. /\ UNCHANGED <<sequence, lists, counters>> /\ fate' = FateWhenDone(p) /\ id[p] # 0
        /\ UNCHANGED <<requests, failed, shown, unread, crossed>>
    BY <1>11, SetDeletedMove
  <2>2. FateKept BY <2>1, FateKeeps
  <2> QED BY <1>0, <2>1, <2>2, DataKept DEF lists, counters
<1>12. CASE IncrSequence(p)
  <2>1. /\ sequence' = sequence + 1 /\ sequence + 1 \in Interacts
        /\ \E f \in {"sending", "odd"} : fate' = [fate EXCEPT ![sequence + 1] = f]
        /\ UNCHANGED <<lists, counters>>
        /\ UNCHANGED <<requests, failed, shown, unread, crossed>>
    BY <1>12, IncrSequenceMove
  <2>2. fate \in [Interacts -> Fates] /\ \A i \in Interacts : i > sequence <=> fate[i] = "none"
    BY DEF Base, DataT
  <2>3. fate' \in [Interacts -> Fates] BY <2>1, <2>2 DEF Fates
  <2>4. \A i \in Interacts : i > sequence' <=> fate'[i] = "none"
    <3> SUFFICES ASSUME NEW i \in Interacts PROVE i > sequence' <=> fate'[i] = "none"
      OBVIOUS
    <3>1. CASE i = sequence + 1 BY <2>1, <2>2, <3>1, BaseFacts
    <3>2. CASE i # sequence + 1
      <4>1. fate'[i] = fate[i] BY <2>1, <2>2, <3>2
      <4>2. i > sequence + 1 <=> i > sequence BY <3>2, BaseFacts DEF Interacts
      <4> QED BY <2>1, <2>2, <4>1, <4>2
    <3> QED BY <3>1, <3>2
  <2> QED BY <1>0, <2>1, <2>3, <2>4 DEF DataT, lists, counters
<1>13. CASE FindLike(p)
  <2>1. /\ UNCHANGED store /\ UNCHANGED <<requests, failed, shown, unread, crossed>>
        /\ \/ fate' = fate
           \/ \E i \in 1 .. sequence : \E u, k : fate' = FateOnDeletion(i, u, k)
    BY <1>13, FindLikeMove
  <2>2. FateKept BY <2>1, FateKeeps DEF store
  <2> QED BY <1>0, <2>1, <2>2, DataKept DEF store, lists, counters
<1>14. CASE ReadNotice(p)
  <2>1. /\ UNCHANGED store /\ UNCHANGED <<fate, requests, failed, shown, unread>>
        /\ crossed' = crossed \ {p}
    BY <1>14, ReadNoticeMove
  <2>2. FateKept BY <2>1, FateKeeps DEF store
  <2>3. crossed' \subseteq Procs BY <1>0, <2>1
  <2> QED BY <1>0, <2>1, <2>2, <2>3, DataKept DEF store, lists, counters
<1>15. CASE Trim(p)
  <2>1. /\ UNCHANGED <<sequence, lists, counters, requests, failed, fate>>
        /\ crossed' = crossed \cup Readers(p)
        /\ shown' = shown \cup page[p]
        /\ unread' = unread \cup ((Elements(notice) \ Elements(notice')) \ shown')
    BY <1>15, TrimMove
  <2>2. FateKept BY <2>1, FateKeeps
  <2>3. crossed' \subseteq Procs BY <1>0, <2>1 DEF Readers
  <2>4. shown' \subseteq Interacts BY <1>0, <2>1, PageFacts
  <2>5. unread' \subseteq Interacts BY <1>0, <2>1, NoticesFacts
  <2> QED BY <1>0, <2>1, <2>2, <2>3, <2>4, <2>5, DataKept DEF lists, counters
<1>16. CASE Fail(p) \/ Kill(p)
  <2>1. /\ UNCHANGED store /\ fate' = FateWhenFailed(p)
        /\ failed < MaxFail /\ failed' = failed + 1
        /\ shown' \subseteq shown \cup page[p]
        /\ UNCHANGED <<requests, unread, crossed>>
    BY <1>16, FailMove
  <2>2. FateKept BY <2>1, FateKeeps DEF store
  <2>3. failed' \in 0 .. MaxFail BY <1>0, <2>1, InteractAssumption
  <2>4. shown' \subseteq Interacts BY <1>0, <2>1, PageFacts
  <2> QED BY <1>0, <2>1, <2>2, <2>3, <2>4, DataKept DEF store, lists, counters
<1> QED BY <1>1, <1>2, <1>3, <1>4, <1>5, <1>6, <1>7, <1>8, <1>9, <1>10, <1>11, <1>12, <1>13,
           <1>14, <1>15, <1>16 DEF Sending, Deleting, Reading

LEMMA LStep ==
  ASSUME Base, NEW p \in Procs,
         \/ Ask(p) \/ Sending(p) \/ Deleting(p) \/ Reading(p) \/ Fail(p) \/ Kill(p)
  PROVE  LInv' /\ Others(p)
BY BeginMove, CountStatMove, SetLikedMove, SetRoughMove, ReadMove, SetDataMove, LinkMove,
   UnlinkMove, ReadOwnerMove, LinkNoticeMove, SetDeletedMove, IncrSequenceMove, FindLikeMove,
   ReadNoticeMove, TrimMove, FailMove DEF Sending, Deleting, Reading

-----------------------------------------------------------------------------
(* What has become of the interactions.                                    *)

\* A step that leaves an interaction as it is, or only tells of it.
SameInteract(i) ==
  /\ fate'[i] = fate[i] /\ rough'[i] = rough[i]
  /\ i \in onRecord' <=> i \in onRecord
  /\ \A u \in Users : i \in sent'[u] <=> i \in sent[u]
  /\ i \in received => i \in received'
  /\ i \in Told => i \in Told'

\* What two requests are about is disturbed, or is not there.
Amiss(q, f) == f = "odd" \/ (Deletes(q) /\ f = "none")

LEMMA Met ==
  ASSUME Base, FInv, NEW p \in Procs, NEW q \in Procs, p # q, id[p] = id[q], id[p] # 0
  PROVE  Amiss(q, fate[id[p]])
<1>1. /\ Sends(p) \/ Deletes(p)
      /\ Sends(q) \/ Deletes(q)
  BY BaseFacts
<1>2. SendingOK(p) /\ SendingOK(q) /\ DeletingOK(p) /\ DeletingOK(q) /\ LeaversDiffer
  BY DEF FInv
<1>3. CASE Sends(p) /\ Sends(q)
  <2>1. Numbered(p) /\ Numbered(q) BY <1>3, BaseFacts
  <2>2. ProcOK(p) /\ op[p] # "none" BY <1>3 DEF Base, IInv, RequestsOK, Sends, Kinds
  <2> QED BY <2>1, <2>2 DEF ProcOK
<1>4. CASE Sends(p) /\ Deletes(q) BY <1>2, <1>4 DEF SendingOK, DeletingOK, Amiss
<1>5. CASE Deletes(p) /\ Sends(q) BY <1>2, <1>5 DEF SendingOK, DeletingOK, Amiss
<1>6. CASE Deletes(p) /\ Deletes(q) BY <1>2, <1>6 DEF DeletingOK, LeaversDiffer, Amiss
<1> QED BY <1>1, <1>3, <1>4, <1>5, <1>6

\* Another request, about an interaction that stays as it is.
LEMMA OtherSame ==
  ASSUME Base, FInv, NEW q \in Procs, SameRequest(q), id[q] # 0 => SameInteract(id[q])
  PROVE  SendingOK(q)' /\ DeletingOK(q)'
<1>1. /\ Sends(q)' <=> Sends(q)
      /\ Deletes(q)' <=> Deletes(q)
      /\ Left(q)' = Left(q) /\ id'[q] = id[q] /\ user'[q] = user[q] /\ op'[q] = op[q]
  BY SameFacts DEF SameRequest
<1>2. CASE id[q] = 0 BY <1>1, <1>2 DEF SendingOK, DeletingOK
<1>3. CASE id[q] # 0
  <2>1. SameInteract(id[q]) /\ SendingOK(q) /\ DeletingOK(q) BY <1>3 DEF FInv
  <2>2. Sends(q) \/ Deletes(q) => user[q] \in Users BY BaseFacts, NowFacts DEF Base
  <2>3. SendingOK(q)' BY <1>1, <1>3, <2>1, <2>2 DEF SendingOK, SameInteract
  <2>4. DeletingOK(q)' BY <1>1, <1>3, <2>1, <2>2 DEF DeletingOK, SameInteract
  <2> QED BY <2>3, <2>4
<1> QED BY <1>2, <1>3

\* Another request, about an interaction that was disturbed or is not there.
LEMMA OtherOdd ==
  ASSUME Base, FInv, NEW q \in Procs, SameRequest(q), id[q] # 0,
         Amiss(q, fate'[id[q]]),
         rough[id[q]] \in Rough => rough'[id[q]] \in Rough /\ rough'[id[q]].kind = rough[id[q]].kind
  PROVE  SendingOK(q)' /\ DeletingOK(q)'
<1>1. /\ Sends(q)' <=> Sends(q)
      /\ Left(q)' = Left(q) /\ id'[q] = id[q] /\ op'[q] = op[q]
  BY SameFacts DEF SameRequest
<1>2. SendingOK(q) BY DEF FInv
<1>3. Sends(q) => ~ Deletes(q) BY BaseFacts
<1>4. SendingOK(q)' BY <1>1, <1>2, <1>3 DEF SendingOK, Amiss
<1>5. DeletingOK(q)' BY <1>1 DEF DeletingOK, Amiss
<1> QED BY <1>4, <1>5

\* An interaction that stays as it is.
LEMMA ThereSame ==
  ASSUME Base, FInv, NEW i \in Interacts, SameInteract(i)
  PROVE  ThereOK(i)'
<1>1. ThereOK(i) BY DEF FInv
<1>2. rough[i] \in Rough => rough[i].user \in Users BY DEF Rough
<1> QED BY <1>1, <1>2 DEF ThereOK, SameInteract

\* A step of p that touches no interaction but j, the one its request is about.
LEMMA FStep ==
  ASSUME Base, FInv, NEW p \in Procs, NEW j, Others(p),
         \A i \in Interacts : i # j => SameInteract(i),
         \A q \in Procs \ {p} : id[q] = j /\ j # 0 =>
             /\ Amiss(q, fate'[j])
             /\ rough[j] \in Rough => rough'[j] \in Rough /\ rough'[j].kind = rough[j].kind,
         id'[p] \in {0, j},
         j \in Interacts => ThereOK(j)',
         SendingOK(p)', DeletingOK(p)'
  PROVE  FInv'
<1>1. ASSUME NEW q \in Procs, q # p PROVE SendingOK(q)' /\ DeletingOK(q)'
  <2>1. SameRequest(q) BY <1>1 DEF Others
  <2>2. CASE id[q] = j /\ j # 0 BY <1>1, <2>1, <2>2, OtherOdd
  <2>3. CASE id[q] # j \/ j = 0
    <3>1. id[q] # 0 => SameInteract(id[q]) BY <2>3, BaseFacts
    <3> QED BY <2>1, <3>1, OtherSame
  <2> QED BY <2>2, <2>3
<1>2. \A q \in Procs : SendingOK(q)' /\ DeletingOK(q)' BY <1>1
<1>3. \A i \in Interacts : ThereOK(i)' BY ThereSame
<1>4. LeaversDiffer'
  <2> SUFFICES ASSUME NEW q \in Procs, NEW r \in Procs, q # r, Deletes(q)', Deletes(r)',
                      id'[q] = id'[r], id'[q] # 0, fate'[id'[q]] = "leaving"
               PROVE  FALSE
    BY DEF LeaversDiffer
  <2>1. CASE q # p /\ r # p
    <3>1. SameRequest(q) /\ SameRequest(r) BY <2>1 DEF Others
    <3>2. id[q] = id'[q] /\ id[r] = id'[r] BY <3>1 DEF SameRequest
    <3>3. fate[id[q]] \in {"odd", "none"} BY <3>2, Met DEF Amiss
    <3>4. id[q] \in Interacts BY <3>2, BaseFacts
    <3>5. CASE id[q] = j BY <2>1, <3>2, <3>5 DEF Amiss
    <3>6. CASE id[q] # j BY <3>2, <3>3, <3>4, <3>6 DEF SameInteract
    <3> QED BY <3>5, <3>6
  <2>2. CASE q = p /\ r # p
    <3>1. SameRequest(r) BY <2>2 DEF Others
    <3>2. id[r] = id'[r] BY <3>1 DEF SameRequest
    <3> QED BY <2>2, <3>2 DEF Amiss
  <2>3. CASE q # p /\ r = p
    <3>1. SameRequest(q) BY <2>3 DEF Others
    <3>2. id[q] = id'[q] BY <3>1 DEF SameRequest
    <3> QED BY <2>3, <3>2 DEF Amiss
  <2> QED BY <2>1, <2>2, <2>3
<1> QED BY <1>2, <1>3, <1>4 DEF FInv

\* A command that matters to no interaction.
LEMMA KeepsF ==
  ASSUME Base, FInv, NEW p \in Procs, Went(p), id'[p] = id[p], id[p] # 0 => SameInteract(id[p]),
         Now(p) \notin {"setRough", "linkRecord", "linkSent", "linkReceived",
                        "unlinkRecord", "unlinkSent"}
  PROVE  SendingOK(p)' /\ DeletingOK(p)'
<1>1. /\ Sends(p)' <=> Sends(p)
      /\ Deletes(p)' <=> Deletes(p)
      /\ op'[p] = op[p] /\ user'[p] = user[p] /\ Left(p)' = Left(p) \ {Now(p)}
  BY DEF Went, Sends, Deletes
<1>2. SendingOK(p) /\ DeletingOK(p) BY DEF FInv
<1>3. Sends(p) \/ Deletes(p) => user[p] \in Users BY BaseFacts, NowFacts DEF Base
<1>4. CASE id[p] = 0 BY <1>1, <1>4 DEF SendingOK, DeletingOK
<1>5. CASE id[p] # 0
  <2>1. \A c \in {"setRough", "linkRecord", "linkSent", "linkReceived", "unlinkRecord",
                  "unlinkSent"} : c \in Left(p)' <=> c \in Left(p)
    BY <1>1
  <2>2. SendingOK(p)' BY <1>1, <1>2, <1>3, <1>5, <2>1 DEF SendingOK, SameInteract
  <2>3. DeletingOK(p)' BY <1>1, <1>2, <1>3, <1>5, <2>1 DEF DeletingOK, SameInteract
  <2> QED BY <2>2, <2>3
<1> QED BY <1>4, <1>5

\* A command that leaves all interactions as they are.
LEMMA CalmF ==
  ASSUME Base, FInv, NEW p \in Procs, Others(p), \A i \in Interacts : SameInteract(i),
         \/ Ended(p)
         \/ /\ Went(p) /\ id'[p] = id[p]
            /\ Now(p) \notin {"setRough", "linkRecord", "linkSent", "linkReceived",
                              "unlinkRecord", "unlinkSent"}
  PROVE  FInv'
<1>1. SendingOK(p)' /\ DeletingOK(p)'
  <2>1. CASE Ended(p) BY <2>1 DEF Ended, SendingOK, DeletingOK
  <2>2. CASE /\ Went(p) /\ id'[p] = id[p]
             /\ Now(p) \notin {"setRough", "linkRecord", "linkSent", "linkReceived",
                               "unlinkRecord", "unlinkSent"}
    BY <2>2, BaseFacts, KeepsF
  <2> QED BY <2>1, <2>2
<1>2. CASE id[p] = 0
  <2>1. id'[p] \in {0, 0} BY <1>2 DEF Ended
  <2>2. 0 \notin Interacts BY InteractAssumption DEF Interacts
  <2> QED BY <1>1, <2>1, <2>2, FStep
<1>3. CASE id[p] # 0
  <2> PICK j : j = id[p] OBVIOUS
  <2>1. j \in Interacts BY <1>3, BaseFacts
  <2>2. \A q \in Procs \ {p} : id[q] = j => Amiss(q, fate'[j])
    BY <1>3, <2>1, Met DEF SameInteract
  <2>3. ThereOK(j)' BY <2>1, ThereSame
  <2>4. rough'[j] = rough[j] BY <2>1 DEF SameInteract
  <2>5. id'[p] \in {0, j} BY DEF Ended
  <2> QED BY <1>1, <2>2, <2>3, <2>4, <2>5, FStep
<1> QED BY <1>2, <1>3

\* A command that changes the interaction of the request.
LEMMA TouchF ==
  ASSUME Base, FInv, NEW p \in Procs, NEW j, j = id[p], j # 0, Others(p), Quiet(p),
         \A i \in Interacts : i # j => SameInteract(i),
         rough[j] \in Rough => rough'[j] \in Rough /\ rough'[j].kind = rough[j].kind,
         ThereOK(j)', SendingOK(p)', DeletingOK(p)'
  PROVE  FInv'
<1>1. id'[p] = j /\ fate' = fate BY DEF Quiet
<1>2. \A q \in Procs \ {p} : id[q] = j => Amiss(q, fate'[j]) BY <1>1, Met
<1> QED BY <1>1, <1>2, FStep

\* A request that is disturbed.
LEMMA FailedF ==
  ASSUME Base, FInv, NEW p \in Procs, Others(p), UNCHANGED store, fate' = FateWhenFailed(p),
         shown \subseteq shown', unread' = unread,
         Ended(p) \/ (Went(p) /\ id'[p] = id[p] /\ id[p] # 0 /\ Now(p) # "setRough")
  PROVE  FInv'
<1> PICK j : j = id[p] OBVIOUS
<1>1. \A i \in Interacts : i # j => SameInteract(i)
  BY FateFacts DEF SameInteract, Told, store, lists, Base, DataT
<1>2. CASE j = 0
  <2>1. \A i \in Interacts : SameInteract(i)
    BY <1>1, <1>2, InteractAssumption DEF Interacts
  <2>2. Ended(p) BY <1>2
  <2> QED BY <2>1, <2>2, CalmF
<1>3. CASE j # 0
  <2>1. j \in Interacts BY <1>3, BaseFacts
  <2>2. Exists(j) => fate'[j] = "odd" BY <1>3, <2>1, FateFacts DEF Base, DataT
  <2>3. ~ Exists(j) => op[p] = "uncomment" /\ fate'[j] = "none"
    BY <1>3, <2>1, BaseFacts, ExistsFate, FateFacts
  <2>4. Sends(p) => op[p] # "uncomment" BY DEF Sends, Kinds
  <2>5. ThereOK(j)' BY <2>2, <2>3 DEF ThereOK
  <2>6. rough' = rough BY DEF store
  <2>7. SendingOK(p)' /\ DeletingOK(p)'
    <3>1. CASE Ended(p) BY <3>1 DEF Ended, SendingOK, DeletingOK
    <3>2. CASE Went(p) /\ id'[p] = id[p] /\ Now(p) # "setRough"
      <4>1. DeletingOK(p)' BY <2>2, <2>3, <3>2 DEF DeletingOK
      <4>2. SendingOK(p)'
        <5> SUFFICES ASSUME Sends(p)', "setRough" \notin Left(p)'
                     PROVE  rough[j] \in Rough /\ rough[j].kind = op[p]
          BY <1>3, <2>2, <2>3, <2>4, <2>6, <3>2 DEF SendingOK, Sends, Went
        <5>1. Sends(p) BY <3>2 DEF Sends, Went
        <5>2. SendingOK(p) BY DEF FInv
        <5>4. "setRough" \notin Left(p) BY <3>2 DEF Went
        <5> QED BY <1>3, <5>1, <5>2, <5>4 DEF SendingOK
      <4> QED BY <4>1, <4>2
    <3> QED BY <3>1, <3>2
  <2>8. id'[p] \in {0, j} BY DEF Ended
  <2>9. ASSUME NEW q \in Procs \ {p}, id[q] = j PROVE Amiss(q, fate'[j])
    <3>1. CASE Exists(j) BY <2>2, <3>1 DEF Amiss
    <3>2. CASE ~ Exists(j)
      <4>1. op[q] = "uncomment" BY <1>3, <2>9, <3>2, BaseFacts
      <4> QED BY <2>3, <3>2, <4>1 DEF Amiss, Deletes
    <3> QED BY <3>1, <3>2
  <2> QED BY <1>1, <2>5, <2>6, <2>7, <2>8, <2>9, FStep
<1> QED BY <1>2, <1>3

-----------------------------------------------------------------------------
(* What each command does to the interactions.                             *)

LEMMA SetRoughF ==
  ASSUME Base, FInv, NEW p \in Procs, SetRough(p)
  PROVE  FInv'
<1> PICK j : j = id[p] OBVIOUS
<1>1. /\ Others(p) /\ Quiet(p) /\ j \in Interacts /\ j # 0
      /\ Now(p) = "setRough" /\ Sends(p) /\ Now(p) \in Left(p)
      /\ rough' = [rough EXCEPT ![j] =
                     [user |-> user[p], kind |-> op[p], is_delete |-> FALSE]]
      /\ UNCHANGED <<sequence, lists, notice, counters>>
  BY SetRoughMove
<1>2. /\ ~ Deletes(p) /\ Numbered(p) BY <1>1, BaseFacts
<1>3. SendingOK(p) BY DEF FInv
<1>4. fate[j] \in {"sending", "odd"} BY <1>1, <1>3 DEF SendingOK
<1>5. user[p] \in Users /\ op[p] \in Kinds BY <1>1, NowFacts, BaseFacts DEF Base, Sends
<1>6. rough'[j] = [user |-> user[p], kind |-> op[p], is_delete |-> FALSE]
  BY <1>1 DEF Base, IInv, StoreOK
<1>7. rough'[j] \in Rough BY <1>5, <1>6 DEF Rough
<1>8. rough[j] \notin Rough
  <2>1. Has(todo[p], "setRough") BY <1>1 DEF Has, Left, Elements
  <2>2. ProcOK(p) /\ op[p] # "none" BY <1>5 DEF Base, IInv, RequestsOK, Kinds
  <2>3. rough[j].user = NoOne BY <1>2, <2>1, <2>2 DEF ProcOK
  <2> QED BY <2>3, InteractAssumption DEF Rough
<1>9. \A i \in Interacts : i # j => SameInteract(i)
  BY <1>1 DEF SameInteract, Told, lists, Quiet, Base, IInv, StoreOK
<1>10. ThereOK(j)' BY <1>1, <1>4 DEF ThereOK, Quiet
<1>11. /\ Sends(p)' /\ ~ Deletes(p)' /\ op'[p] = op[p] /\ user'[p] = user[p] /\ id'[p] = j
       /\ Left(p)' = Left(p) \ {"setRough"} /\ fate'[j] = fate[j]
  BY <1>1, <1>2 DEF Quiet, Went, Sends, Deletes
<1>12. DeletingOK(p)' BY <1>11 DEF DeletingOK
<1>13. SendingOK(p)'
  <2>1. /\ "linkRecord" \notin Left(p)' /\ fate'[j] = "sending" => j \in onRecord'
        /\ "linkSent" \notin Left(p)' /\ fate'[j] = "sending" => j \in sent'[user'[p]]
        /\ "linkReceived" \notin Left(p)' /\ fate'[j] = "sending" => j \in received'
    BY <1>1, <1>3, <1>11 DEF SendingOK, lists
  <2> QED BY <1>4, <1>6, <1>7, <1>11, <2>1 DEF SendingOK
<1> QED BY <1>1, <1>8, <1>9, <1>10, <1>12, <1>13, TouchF

LEMMA LinkF ==
  ASSUME Base, FInv, NEW p \in Procs, Link(p)
  PROVE  FInv'
<1> PICK j : j = id[p] OBVIOUS
<1>1. /\ Others(p) /\ Quiet(p) /\ j \in Interacts /\ j # 0
      /\ Sends(p) /\ Now(p) \in Left(p) /\ user[p] \in Users
      /\ \/ /\ Now(p) = "linkRecord" /\ onRecord' = onRecord \cup {j}
            /\ UNCHANGED <<sent, received>>
         \/ /\ Now(p) = "linkSent"
            /\ sent' = [sent EXCEPT ![user[p]] = @ \cup {j}]
            /\ UNCHANGED <<onRecord, received>>
         \/ /\ Now(p) = "linkReceived" /\ received' = received \cup {j}
            /\ UNCHANGED <<onRecord, sent>>
      /\ UNCHANGED <<sequence, rough, recordData, userData, notice, counters>>
  BY LinkMove
<1>2. ~ Deletes(p) /\ ~ Idle(p) BY <1>1, BaseFacts
<1>3. SendingOK(p) BY DEF FInv
<1>4. fate[j] \in {"sending", "odd"} BY <1>1, <1>3 DEF SendingOK
<1>5. /\ \A u \in Users : sent[u] \subseteq sent'[u] /\ sent'[u] \subseteq sent[u] \cup {j}
      /\ onRecord \subseteq onRecord' /\ onRecord' \subseteq onRecord \cup {j}
      /\ received \subseteq received'
      /\ Now(p) = "linkRecord" => j \in onRecord'
      /\ Now(p) = "linkSent" => j \in sent'[user[p]]
      /\ Now(p) = "linkReceived" => j \in received'
  BY <1>1 DEF Base, IInv, StoreOK
<1>6. \A i \in Interacts : i # j => SameInteract(i)
  BY <1>1, <1>5 DEF SameInteract, Told, Quiet
<1>7. ThereOK(j)' BY <1>1, <1>4 DEF ThereOK, Quiet
<1>8. /\ Sends(p)' /\ ~ Deletes(p)' /\ op'[p] = op[p] /\ user'[p] = user[p] /\ id'[p] = j
      /\ Left(p)' = Left(p) \ {Now(p)} /\ fate'[j] = fate[j]
  BY <1>1, <1>2 DEF Quiet, Went, Sends, Deletes
<1>9. DeletingOK(p)' BY <1>8 DEF DeletingOK
<1>10. "setRough" \notin Left(p) BY <1>1, <1>2, NowFacts DEF Base
<1>11. SendingOK(p)'
  <2>1. /\ rough[j] \in Rough /\ rough[j].kind = op[p]
        /\ fate[j] = "sending" =>
             /\ ~ rough[j].is_delete
             /\ "linkRecord" \notin Left(p) => j \in onRecord
             /\ "linkSent" \notin Left(p) => j \in sent[user[p]]
             /\ "linkReceived" \notin Left(p) => j \in received
    BY <1>1, <1>3, <1>10 DEF SendingOK
  <2>2. /\ "linkRecord" \notin Left(p)' /\ fate'[j] = "sending" => j \in onRecord'
        /\ "linkSent" \notin Left(p)' /\ fate'[j] = "sending" => j \in sent'[user'[p]]
        /\ "linkReceived" \notin Left(p)' /\ fate'[j] = "sending" => j \in received'
    BY <1>1, <1>5, <1>8, <2>1
  <2> QED BY <1>1, <1>4, <1>8, <2>1, <2>2 DEF SendingOK
<1> QED BY <1>1, <1>6, <1>7, <1>9, <1>11, TouchF

LEMMA UnlinkF ==
  ASSUME Base, FInv, NEW p \in Procs, Unlink(p)
  PROVE  FInv'
<1> PICK j : j = id[p] OBVIOUS
<1>1. /\ Others(p) /\ Quiet(p) /\ j \in Interacts /\ j # 0
      /\ Deletes(p) /\ Now(p) \in Left(p) /\ user[p] \in Users
      /\ \/ Now(p) = "unlinkRecord" /\ onRecord' = onRecord \ {j} /\ UNCHANGED sent
         \/ /\ Now(p) = "unlinkSent" /\ UNCHANGED onRecord
            /\ sent' = [sent EXCEPT ![user[p]] = @ \ {j}]
      /\ UNCHANGED <<sequence, rough, recordData, userData, received, notice, counters>>
  BY UnlinkMove
<1>2. ~ Sends(p) BY <1>1, BaseFacts
<1>3. DeletingOK(p) /\ ThereOK(j) BY <1>1 DEF FInv
<1>4. fate[j] \in {"none", "leaving", "odd"} BY <1>1, <1>3 DEF DeletingOK
<1>5. /\ \A u \in Users : sent'[u] \subseteq sent[u] /\ sent[u] \subseteq sent'[u] \cup {j}
      /\ onRecord' \subseteq onRecord /\ onRecord \subseteq onRecord' \cup {j}
      /\ Now(p) = "unlinkRecord" => j \notin onRecord'
      /\ Now(p) = "unlinkSent" => j \notin sent'[user[p]]
  BY <1>1 DEF Base, IInv, StoreOK
<1>6. \A i \in Interacts : i # j => SameInteract(i)
  BY <1>1, <1>5 DEF SameInteract, Told, Quiet
<1>7. ThereOK(j)' BY <1>1, <1>3, <1>4 DEF ThereOK, Quiet, Told
<1>8. /\ ~ Sends(p)' /\ Deletes(p)' /\ op'[p] = op[p] /\ user'[p] = user[p] /\ id'[p] = j
      /\ Left(p)' = Left(p) \ {Now(p)} /\ fate'[j] = fate[j]
  BY <1>1, <1>2 DEF Quiet, Went, Sends, Deletes
<1>9. SendingOK(p)' BY <1>8 DEF SendingOK
<1>10. DeletingOK(p)'
  <2>1. fate[j] = "leaving" =>
          /\ rough[j].user = user[p] /\ rough[j].kind = KindOf[op[p]]
          /\ "unlinkRecord" \notin Left(p) => j \notin onRecord
          /\ "unlinkSent" \notin Left(p) => j \notin sent[user[p]]
    BY <1>1, <1>3 DEF DeletingOK
  <2>2. /\ "unlinkRecord" \notin Left(p)' /\ fate'[j] = "leaving" => j \notin onRecord'
        /\ "unlinkSent" \notin Left(p)' /\ fate'[j] = "leaving" => j \notin sent'[user'[p]]
    BY <1>1, <1>5, <1>8, <2>1
  <2> QED BY <1>1, <1>4, <1>8, <2>1, <2>2 DEF DeletingOK
<1> QED BY <1>1, <1>6, <1>7, <1>9, <1>10, TouchF

\* The fate of the interaction of a request that is over.
LEMMA DoneF ==
  ASSUME Base, FInv, NEW p \in Procs, NEW j, j = id[p], j # 0, Others(p), Ended(p),
         fate' = FateWhenDone(p),
         rough[j] \in Rough => rough'[j] \in Rough /\ rough'[j].kind = rough[j].kind,
         \A i \in Interacts \ {j} :
           /\ rough'[i] = rough[i]
           /\ i \in Told => i \in Told',
         UNCHANGED lists,
         ThereOK(j)'
  PROVE  FInv'
<1>1. \A i \in Interacts : i # j => SameInteract(i)
  BY FateFacts DEF SameInteract, Base, DataT, lists
<1>2. \A q \in Procs \ {p} : id[q] = j => Amiss(q, fate'[j])
  <2> SUFFICES ASSUME NEW q \in Procs \ {p}, id[q] = j PROVE Amiss(q, fate'[j]) OBVIOUS
  <2>1. Amiss(q, fate[j]) BY Met
  <2>2. FateWhenDone(p) = fate BY <2>1, FateFacts DEF Amiss
  <2> QED BY <2>1, <2>2
<1>3. SendingOK(p)' /\ DeletingOK(p)' BY DEF Ended, SendingOK, DeletingOK
<1>4. id'[p] \in {0, j} BY DEF Ended
<1> QED BY <1>1, <1>2, <1>3, <1>4, FStep

\* What the sender's fate becomes when the interaction is sent.
LEMMA SentFate ==
  ASSUME Base, FInv, NEW p \in Procs, id[p] # 0, Sends(p), fate' = FateWhenDone(p)
  PROVE  \/ fate[id[p]] = "sending" /\ fate'[id[p]] = "sent"
         \/ fate'[id[p]] = "odd"
<1>1. id[p] \in Interacts /\ ~ Deletes(p) BY BaseFacts
<1>2. SendingOK(p) BY DEF FInv
<1>3. fate[id[p]] \in {"sending", "odd"} BY <1>2 DEF SendingOK
<1> QED BY <1>1, <1>3, FateFacts DEF Base, DataT

\* What a dispatch has done when nothing was disturbed.
LEMMA SentThere ==
  ASSUME Base, FInv, NEW p \in Procs, NEW j, j = id[p], j # 0, Sends(p),
         Now(p) \in {"readOwner", "linkNotice"}, fate[j] = "sending"
  PROVE  /\ rough[j] \in Rough /\ ~ rough[j].is_delete /\ j \in onRecord
         /\ rough[j].user = user[p] /\ j \in sent[user[p]] /\ user[p] \in Users
         /\ Now(p) = "linkNotice" => j \in received
<1>1. ~ Idle(p) BY BaseFacts
<1>2. /\ "setRough" \notin Left(p) /\ "linkRecord" \notin Left(p) /\ "linkSent" \notin Left(p)
      /\ Now(p) = "linkNotice" => "linkReceived" \notin Left(p)
      /\ user[p] \in Users
  BY <1>1, NowFacts DEF Base
<1>3. SendingOK(p) BY DEF FInv
<1>4. /\ rough[j] \in Rough /\ ~ rough[j].is_delete /\ j \in onRecord /\ j \in sent[user[p]]
      /\ Now(p) = "linkNotice" => j \in received
  BY <1>2, <1>3 DEF SendingOK
<1>5. rough[j].user = user[p] BY <1>2, <1>4 DEF Base, IInv, ListedHaveDetails
<1> QED BY <1>2, <1>4, <1>5

LEMMA ReadOwnerF ==
  ASSUME Base, FInv, NEW p \in Procs, ReadOwner(p)
  PROVE  FInv'
<1> PICK j : j = id[p] OBVIOUS
<1>1. /\ Others(p) /\ UNCHANGED store /\ j # 0 /\ j \in Interacts
      /\ Now(p) = "readOwner" /\ Sends(p)
      /\ \/ Quiet(p)
         \/ /\ Ended(p) /\ fate' = FateWhenDone(p) /\ user[p] = Owner
            /\ UNCHANGED <<requests, failed, shown, unread, crossed>>
  BY ReadOwnerMove, BaseFacts
<1>2. CASE Quiet(p)
  <2>1. \A i \in Interacts : SameInteract(i)
    BY <1>1, <1>2 DEF SameInteract, Told, Quiet, store, lists
  <2>2. Went(p) /\ id'[p] = id[p] BY <1>2 DEF Quiet
  <2> QED BY <1>1, <2>1, <2>2, CalmF
<1>3. CASE /\ Ended(p) /\ fate' = FateWhenDone(p) /\ user[p] = Owner
           /\ UNCHANGED <<requests, failed, shown, unread, crossed>>
  <2>1. UNCHANGED <<rough, lists, notice, shown, unread>> BY <1>1, <1>3 DEF store
  <2>2. ThereOK(j)'
    <3>1. CASE fate[j] = "sending" /\ fate'[j] = "sent"
      <4>1. /\ rough[j] \in Rough /\ ~ rough[j].is_delete /\ j \in onRecord
            /\ rough[j].user = Owner /\ j \in sent[Owner]
        BY <1>1, <1>3, <3>1, SentThere
      <4> QED BY <2>1, <3>1, <4>1 DEF ThereOK, lists
    <3>2. CASE fate'[j] = "odd" BY <3>2 DEF ThereOK
    <3> QED BY <1>1, <1>3, <3>1, <3>2, SentFate
  <2>3. Told' = Told BY <2>1 DEF Told
  <2> QED BY <1>1, <1>3, <2>1, <2>2, <2>3, DoneF
<1> QED BY <1>1, <1>2, <1>3

LEMMA Pushed ==
  ASSUME Base, NEW i
  PROVE  Elements(<<i>> \o notice) = {i} \cup Elements(notice)
<1>1. notice \in Seq(Interacts) BY DEF Base, IInv, StoreOK
<1> DEFINE s == <<i>> \o notice
<1>2. /\ Len(notice) \in Nat /\ Len(s) = Len(notice) + 1 /\ s[1] = i
      /\ \A k \in 1 .. Len(notice) : s[k + 1] = notice[k]
  BY <1>1
<1> HIDE DEF s
<1>3. ASSUME NEW k \in 1 .. Len(s) PROVE s[k] \in {i} \cup Elements(notice)
  <2>1. CASE k = 1 BY <1>2, <2>1
  <2>2. CASE k # 1
    <3>1. k - 1 \in 1 .. Len(notice) BY <1>2, <2>2
    <3>2. s[k] = notice[k - 1] BY <1>2, <3>1
    <3> QED BY <3>1, <3>2 DEF Elements
  <2> QED BY <2>1, <2>2
<1>4. i \in Elements(s)
  <2>1. 1 \in 1 .. Len(s) BY <1>2
  <2> QED BY <1>2, <2>1 DEF Elements
<1>5. ASSUME NEW k \in 1 .. Len(notice) PROVE notice[k] \in Elements(s)
  <2>1. k + 1 \in 1 .. Len(s) /\ s[k + 1] = notice[k] BY <1>2
  <2> QED BY <2>1 DEF Elements
<1>6. Elements(s) = {i} \cup Elements(notice) BY <1>3, <1>4, <1>5 DEF Elements
<1> QED BY <1>6 DEF s

LEMMA LinkNoticeF ==
  ASSUME Base, FInv, NEW p \in Procs, LinkNotice(p)
  PROVE  FInv'
<1> PICK j : j = id[p] OBVIOUS
<1>1. /\ Others(p) /\ Ended(p) /\ fate' = FateWhenDone(p)
      /\ j # 0 /\ j \in Interacts /\ Sends(p) /\ Now(p) = "linkNotice"
      /\ notice' = <<j>> \o notice
      /\ UNCHANGED <<sequence, rough, lists, counters, requests, failed, shown, unread>>
  BY LinkNoticeMove
<1>2. Told' = Told \cup {j} BY <1>1, Pushed DEF Told
<1>3. ThereOK(j)'
  <2>1. CASE fate[j] = "sending" /\ fate'[j] = "sent"
    <3>1. /\ rough[j] \in Rough /\ ~ rough[j].is_delete /\ j \in onRecord
          /\ rough[j].user = user[p] /\ j \in sent[user[p]] /\ j \in received
      BY <1>1, <2>1, SentThere
    <3> QED BY <1>1, <1>2, <2>1, <3>1 DEF ThereOK, lists
  <2>2. CASE fate'[j] = "odd" BY <2>2 DEF ThereOK
  <2> QED BY <1>1, <2>1, <2>2, SentFate
<1> QED BY <1>1, <1>2, <1>3, DoneF

LEMMA SetDeletedF ==
  ASSUME Base, FInv, NEW p \in Procs, SetDeleted(p)
  PROVE  FInv'
<1> PICK j : j = id[p] OBVIOUS
<1>1. /\ Others(p) /\ Ended(p) /\ fate' = FateWhenDone(p)
      /\ j # 0 /\ j \in Interacts /\ Deletes(p) /\ Now(p) = "setDeleted"
      /\ rough' = [rough EXCEPT ![j].is_delete = TRUE]
      /\ UNCHANGED <<sequence, lists, notice, counters>>
      /\ UNCHANGED <<requests, failed, shown, unread, crossed>>
  BY SetDeletedMove
<1>2. DeletingOK(p) /\ ThereOK(j) /\ ~ Sends(p) /\ ~ Idle(p) BY <1>1, BaseFacts DEF FInv
<1>3. \/ fate[j] = "leaving" /\ fate'[j] = "gone"
      \/ fate'[j] \in {"none", "odd"}
  <2>1. fate[j] \in {"none", "leaving", "odd"} BY <1>1, <1>2 DEF DeletingOK
  <2> QED BY <1>1, <1>2, <2>1, FateFacts DEF Base, DataT
<1>4. /\ rough'[j] = [rough[j] EXCEPT !.is_delete = TRUE]
      /\ \A i \in Interacts \ {j} : rough'[i] = rough[i]
  BY <1>1 DEF Base, IInv, StoreOK
<1>5. rough[j] \in Rough => /\ rough'[j] \in Rough /\ rough'[j].kind = rough[j].kind
                            /\ rough'[j].user = rough[j].user /\ rough'[j].is_delete
  BY <1>4 DEF Rough
<1>6. Told' = Told BY <1>1 DEF Told
<1>7. ThereOK(j)'
  <2>1. CASE fate[j] = "leaving" /\ fate'[j] = "gone"
    <3>1. /\ rough[j] \in Rough
          /\ rough[j].user # Owner => j \in received /\ j \in Told
      BY <1>2, <2>1 DEF ThereOK
    <3>2. "unlinkRecord" \notin Left(p) /\ "unlinkSent" \notin Left(p)
      BY <1>1, <1>2, NowFacts DEF Base
    <3>3. rough[j].user = user[p] /\ j \notin onRecord /\ j \notin sent[user[p]]
      BY <1>1, <1>2, <2>1, <3>2 DEF DeletingOK
    <3> QED BY <1>1, <1>5, <1>6, <2>1, <3>1, <3>3 DEF ThereOK, lists
  <2>2. CASE fate'[j] \in {"none", "odd"} BY <2>2 DEF ThereOK
  <2> QED BY <1>3, <2>1, <2>2
<1> QED BY <1>1, <1>4, <1>5, <1>6, <1>7, DoneF

LEMMA IncrSequenceF ==
  ASSUME Base, FInv, NEW p \in Procs, IncrSequence(p)
  PROVE  FInv'
<1> PICK j : j = sequence + 1 OBVIOUS
<1>1. /\ Others(p) /\ Went(p) /\ id'[p] = j
      /\ Sends(p) /\ Now(p) = "incr" /\ Left(p) = Program[op[p]]
      /\ j \in Interacts
      /\ \E f \in {"sending", "odd"} :
           /\ fate' = [fate EXCEPT ![j] = f]
           /\ f = "sending" => \A q \in Procs : Deletes(q) => id[q] # j
      /\ UNCHANGED <<rough, lists, notice, counters>>
      /\ UNCHANGED <<page, requests, failed, shown, unread, crossed>>
  BY IncrSequenceMove
<1>2. \A i \in Interacts : i # j => SameInteract(i)
  BY <1>1 DEF SameInteract, Told, lists, Base, DataT
<1>3. /\ fate'[j] \in {"sending", "odd"}
      /\ \A q \in Procs : Deletes(q) /\ id[q] = j => fate'[j] = "odd"
  BY <1>1 DEF Base, DataT
<1>4. \A q \in Procs : id[q] = j => Amiss(q, fate'[j])
  <2> SUFFICES ASSUME NEW q \in Procs, id[q] = j PROVE Deletes(q)
    BY <1>3 DEF Amiss
  <2>1. id[q] > sequence BY BaseFacts
  <2> QED BY <2>1 DEF Base, LInv, IdsOK, Deletes
<1>5. ThereOK(j)' BY <1>3 DEF ThereOK
<1>6. /\ op'[p] = op[p] /\ op[p] \in {"like", "comment"}
      /\ Left(p)' = Program[op[p]] \ {"incr"}
      /\ ~ Deletes(p)'
  BY <1>1 DEF Went, Sends, Deletes, Kinds
<1>7. /\ "setRough" \in Left(p)' /\ "linkRecord" \in Left(p)'
      /\ "linkSent" \in Left(p)' /\ "linkReceived" \in Left(p)'
  BY <1>6 DEF Program, Dispatched
<1>8. SendingOK(p)' BY <1>1, <1>3, <1>7 DEF SendingOK
<1>9. DeletingOK(p)' BY <1>6 DEF DeletingOK
<1>10. rough'[j] = rough[j] BY <1>1
<1> QED BY <1>1, <1>2, <1>4, <1>5, <1>8, <1>9, <1>10, FStep

\* A deletion that begins, or finds what it deletes.
LEMMA LeaveF ==
  ASSUME Base, FInv, NEW p \in Procs, NEW j \in Interacts, NEW u, NEW k, Others(p),
         UNCHANGED <<rough, lists, notice, shown, unread>>,
         id'[p] = j, j # 0, user'[p] = u, Deletes(p)', k = KindOf[op'[p]],
         Exists(j), fate' = FateOnDeletion(j, u, k),
         "unlinkRecord" \in Left(p)', "unlinkSent" \in Left(p)'
  PROVE  FInv'
<1>1. \A i \in Interacts : i # j => SameInteract(i)
  BY DEF SameInteract, Told, lists, FateOnDeletion, Base, DataT
<1>2. /\ Leaves(j, u, k) => fate'[j] = "leaving"
      /\ ~ Leaves(j, u, k) => fate'[j] = "odd"
  BY DEF FateOnDeletion, Base, DataT
<1>3. \A q \in Procs \ {p} : id[q] = j => Amiss(q, fate'[j])
  <2> SUFFICES ASSUME NEW q \in Procs \ {p}, id[q] = j PROVE fate[j] # "sent"
    BY <1>2 DEF Leaves, Amiss
  <2>1. Sends(q) \/ Deletes(q) BY BaseFacts
  <2>2. SendingOK(q) /\ DeletingOK(q) BY DEF FInv
  <2> QED BY <2>1, <2>2 DEF SendingOK, DeletingOK
<1>4. ThereOK(j)'
  <2>1. CASE Leaves(j, u, k)
    <3>1. ThereOK(j) /\ fate[j] = "sent" BY <2>1 DEF FInv, Leaves
    <3>2. Told' = Told BY DEF Told
    <3> QED BY <1>2, <2>1, <3>1, <3>2 DEF ThereOK, lists
  <2>2. CASE ~ Leaves(j, u, k) BY <1>2, <2>2 DEF ThereOK
  <2> QED BY <2>1, <2>2
<1>5. ~ Sends(p)' BY DEF Sends, Deletes, Kinds
<1>6. SendingOK(p)' BY <1>5 DEF SendingOK
<1>7. DeletingOK(p)' BY <1>2 DEF DeletingOK, Leaves
<1> QED BY <1>1, <1>3, <1>4, <1>6, <1>7, FStep

LEMMA FindLikeF ==
  ASSUME Base, FInv, NEW p \in Procs, FindLike(p)
  PROVE  FInv'
<1>1. /\ Others(p) /\ UNCHANGED store /\ id[p] = 0
      /\ op[p] = "unlike" /\ Now(p) = "find" /\ Left(p) = Program["unlike"]
      /\ UNCHANGED <<requests, failed, shown, unread, crossed>>
      /\ \/ Ended(p) /\ fate' = fate
         \/ \E i \in Likes(user[p]) :
              /\ i \in 1 .. sequence /\ i \in Interacts
              /\ Went(p) /\ id'[p] = i /\ page' = page
              /\ fate' = FateOnDeletion(i, user[p], "like")
  BY FindLikeMove
<1>2. CASE Ended(p) /\ fate' = fate
  <2>1. \A i \in Interacts : SameInteract(i)
    BY <1>1, <1>2 DEF SameInteract, Told, store, lists
  <2> QED BY <1>1, <1>2, <2>1, CalmF
<1>3. ASSUME NEW i \in Interacts, i \in 1 .. sequence, Went(p), id'[p] = i,
             fate' = FateOnDeletion(i, user[p], "like")
      PROVE  FInv'
  <2>1. UNCHANGED <<rough, lists, notice, shown, unread>> BY <1>1 DEF store
  <2>2. i # 0 BY <1>3, InteractAssumption DEF Interacts
  <2>3. /\ Deletes(p)' /\ KindOf[op'[p]] = "like" /\ user'[p] = user[p]
    BY <1>1, <1>3 DEF Went, Deletes, KindOf
  <2>4. "unlinkRecord" \in Left(p)' /\ "unlinkSent" \in Left(p)'
    BY <1>1, <1>3 DEF Went, Program, Deleted
  <2> QED BY <1>1, <1>3, <2>1, <2>2, <2>3, <2>4, LeaveF DEF Exists
<1> QED BY <1>1, <1>2, <1>3

LEMMA BeginF ==
  ASSUME Base, FInv, NEW p \in Procs, Ask(p)
  PROVE  FInv'
<1>1. /\ Others(p) /\ UNCHANGED store /\ ~ Idle(p)'
      /\ Left(p)' = Program[op'[p]] /\ op'[p] \in DOMAIN Commands /\ user'[p] \in Users
      /\ UNCHANGED <<failed, shown, unread, crossed>>
      /\ \/ op'[p] # "uncomment" /\ id'[p] = 0 /\ fate' = fate
         \/ /\ op'[p] = "uncomment" /\ id'[p] \in Interacts
            /\ fate' = IF Exists(id'[p]) THEN FateOnDeletion(id'[p], user'[p], "comment")
                       ELSE fate
  BY BeginMove
<1>2. UNCHANGED <<rough, lists, notice, shown, unread>> BY <1>1 DEF store
<1>3. CASE id'[p] = 0 /\ fate' = fate
  <2>1. \A i \in Interacts : SameInteract(i)
    BY <1>2, <1>3 DEF SameInteract, Told, lists
  <2>2. SendingOK(p)' /\ DeletingOK(p)' BY <1>3 DEF SendingOK, DeletingOK
  <2>3. 0 \notin Interacts BY InteractAssumption DEF Interacts
  <2>4. PICK j : j = 0 OBVIOUS
  <2> QED BY <1>1, <1>3, <2>1, <2>2, <2>3, <2>4, FStep
<1>4. CASE /\ op'[p] = "uncomment" /\ id'[p] \in Interacts /\ Exists(id'[p])
           /\ fate' = FateOnDeletion(id'[p], user'[p], "comment")
  <2> PICK j : j = id'[p] OBVIOUS
  <2> PICK u : u = user'[p] OBVIOUS
  <2>1. j \in Interacts /\ j # 0 BY <1>4, BaseFacts, InteractAssumption DEF Interacts
  <2>2. Deletes(p)' /\ KindOf[op'[p]] = "comment" BY <1>4 DEF Deletes, KindOf
  <2>3. "unlinkRecord" \in Left(p)' /\ "unlinkSent" \in Left(p)'
    BY <1>1, <1>4 DEF Program, Deleted
  <2> QED BY <1>1, <1>2, <1>4, <2>1, <2>2, <2>3, LeaveF
<1>5. CASE op'[p] = "uncomment" /\ id'[p] \in Interacts /\ ~ Exists(id'[p]) /\ fate' = fate
  <2> PICK j : j = id'[p] OBVIOUS
  <2>1. j \in Interacts /\ fate[j] = "none" BY <1>5, ExistsFate
  <2>2. \A i \in Interacts : SameInteract(i)
    BY <1>2, <1>5 DEF SameInteract, Told, lists
  <2>3. ThereOK(j)' BY <1>5, <2>1 DEF ThereOK
  <2>4. ~ Sends(p)' BY <1>5 DEF Sends, Kinds
  <2>5. SendingOK(p)' /\ DeletingOK(p)' BY <1>5, <2>1, <2>4 DEF SendingOK, DeletingOK
  <2>6. \A q \in Procs \ {p} : id[q] = j /\ j # 0 => Amiss(q, fate'[j])
    <3> SUFFICES ASSUME NEW q \in Procs, id[q] = j, j # 0 PROVE Deletes(q)
      BY <1>5, <2>1 DEF Amiss
    <3> QED BY <1>5, BaseFacts DEF Deletes
  <2>7. rough'[j] = rough[j] BY <1>2
  <2> QED BY <1>1, <2>2, <2>3, <2>5, <2>6, <2>7, FStep
<1> QED BY <1>1, <1>3, <1>4, <1>5

LEMMA FStepAll ==
  ASSUME Base, FInv, NEW p \in Procs,
         \/ Ask(p) \/ Sending(p) \/ Deleting(p) \/ Reading(p) \/ Fail(p) \/ Kill(p)
  PROVE  FInv'
<1>1. CASE CountStat(p)
  <2>1. /\ Others(p) /\ Quiet(p) /\ UNCHANGED <<rough, lists, notice>>
        /\ Now(p) \in {"countLike", "uncountLike", "countComment", "uncountComment"}
    BY <1>1, CountStatMove
  <2>2. \A i \in Interacts : SameInteract(i) BY <2>1 DEF SameInteract, Told, Quiet, lists
  <2>3. Went(p) /\ id'[p] = id[p] BY <2>1 DEF Quiet
  <2> QED BY <2>1, <2>2, <2>3, CalmF
<1>2. CASE SetLiked(p)
  <2>1. /\ Others(p) /\ Quiet(p) /\ UNCHANGED <<rough, lists, notice>>
        /\ Now(p) \in {"addLike", "remLike"}
    BY <1>2, SetLikedMove
  <2>2. \A i \in Interacts : SameInteract(i) BY <2>1 DEF SameInteract, Told, Quiet, lists
  <2>3. Went(p) /\ id'[p] = id[p] BY <2>1 DEF Quiet
  <2> QED BY <2>1, <2>2, <2>3, CalmF
<1>3. CASE SetData(p)
  <2>1. /\ Others(p) /\ Quiet(p) /\ UNCHANGED <<rough, onRecord, sent, received, notice>>
        /\ Now(p) \in {"setRecordData", "setUserData"}
    BY <1>3, SetDataMove
  <2>2. \A i \in Interacts : SameInteract(i) BY <2>1 DEF SameInteract, Told, Quiet
  <2>3. Went(p) /\ id'[p] = id[p] BY <2>1 DEF Quiet
  <2> QED BY <2>1, <2>2, <2>3, CalmF
<1>4. CASE ReadTarget(p) \/ ReadRough(p)
  <2>1. /\ Others(p) /\ UNCHANGED store /\ Now(p) \in {"readTarget", "readRough"}
        /\ \/ Quiet(p)
           \/ /\ Ended(p) /\ fate' = FateWhenFailed(p)
              /\ UNCHANGED <<requests, failed, shown, unread, crossed>>
    BY <1>4, ReadMove
  <2>2. CASE Quiet(p)
    <3>1. \A i \in Interacts : SameInteract(i)
      BY <2>1, <2>2 DEF SameInteract, Told, Quiet, store, lists
    <3>2. Went(p) /\ id'[p] = id[p] BY <2>2 DEF Quiet
    <3> QED BY <2>1, <3>1, <3>2, CalmF
  <2>3. CASE /\ Ended(p) /\ fate' = FateWhenFailed(p)
             /\ UNCHANGED <<requests, failed, shown, unread, crossed>>
    BY <2>1, <2>3, FailedF
  <2> QED BY <2>1, <2>2, <2>3
<1>5. CASE ReadNotice(p)
  <2>1. /\ Others(p) /\ UNCHANGED store /\ id[p] = 0 /\ id'[p] = 0 /\ Now(p) = "readNotice"
        /\ Ended(p) \/ Went(p)
        /\ UNCHANGED <<fate, requests, failed, shown, unread>>
    BY <1>5, ReadNoticeMove
  <2>2. \A i \in Interacts : SameInteract(i) BY <2>1 DEF SameInteract, Told, store, lists
  <2> QED BY <2>1, <2>2, CalmF
<1>6. CASE Trim(p)
  <2>1. /\ Others(p) /\ Ended(p) /\ shown \subseteq shown'
        /\ unread' = unread \cup ((Elements(notice) \ Elements(notice')) \ shown')
        /\ UNCHANGED <<rough, lists, fate>>
    BY <1>6, TrimMove
  <2>2. \A i \in Interacts : SameInteract(i) BY <2>1 DEF SameInteract, Told, lists
  <2> QED BY <2>1, <2>2, CalmF
<1>7. CASE Fail(p) \/ Kill(p)
  <2>1. /\ Others(p) /\ UNCHANGED store /\ fate' = FateWhenFailed(p)
        /\ shown \subseteq shown' /\ unread' = unread
        /\ Ended(p) \/ (Went(p) /\ id'[p] = id[p] /\ id[p] # 0 /\ Now(p) # "setRough")
    BY <1>7, FailMove
  <2> QED BY <2>1, FailedF
<1> QED BY <1>1, <1>2, <1>3, <1>4, <1>5, <1>6, <1>7, SetRoughF, LinkF, UnlinkF, ReadOwnerF,
           LinkNoticeF, SetDeletedF, IncrSequenceF, FindLikeF, BeginF
     DEF Sending, Deleting, Reading

-----------------------------------------------------------------------------
(* How far the counters and the notices go.                                *)

\* Places that are kept, given up, made or used.
LEMMA RoomSame ==
  ASSUME NEW a, NEW S, NEW n, Room(a, S, n), NEW T, T \subseteq S
  PROVE  Room(a, T, n)
<1>1. IsFiniteSet(S) /\ a + Cardinality(S) <= n /\ a \in Int /\ n \in Int BY DEF Room
<1>2. PICK s \in Nat : s = Cardinality(S) BY <1>1, FS_CardinalityType
<1>3. IsFiniteSet(T) /\ Cardinality(T) <= s BY <1>1, <1>2, FS_Subset
<1>4. PICK t \in Nat : t = Cardinality(T) BY <1>3, FS_CardinalityType
<1>5. a + t <= n BY <1>1, <1>2, <1>3, <1>4
<1> QED BY <1>1, <1>3, <1>4, <1>5 DEF Room

LEMMA RoomLess ==
  ASSUME NEW a, NEW S, NEW n, Room(a, S, n), NEW b \in Int, b <= a
  PROVE  Room(b, S, n)
<1>1. IsFiniteSet(S) /\ a + Cardinality(S) <= n /\ a \in Int /\ n \in Int BY DEF Room
<1>2. PICK s \in Nat : s = Cardinality(S) BY <1>1, FS_CardinalityType
<1>3. b + s <= n BY <1>1, <1>2
<1> QED BY <1>1, <1>2, <1>3 DEF Room

LEMMA RoomMade ==
  ASSUME NEW a, NEW S, NEW n, Room(a, S, n), NEW p, NEW T, T \subseteq S \cup {p}
  PROVE  Room(a, T, n + 1)
<1>1. IsFiniteSet(S) /\ a + Cardinality(S) <= n /\ a \in Int /\ n \in Int BY DEF Room
<1>2. PICK s \in Nat : s = Cardinality(S) BY <1>1, FS_CardinalityType
<1>3. IsFiniteSet(S \cup {p}) /\ Cardinality(S \cup {p}) \in {s, s + 1}
  BY <1>1, <1>2, FS_AddElement
<1>4. IsFiniteSet(T) /\ Cardinality(T) <= Cardinality(S \cup {p}) BY <1>3, FS_Subset
<1>5. PICK t \in Nat : t = Cardinality(T) BY <1>4, FS_CardinalityType
<1>6. a + t <= n + 1 BY <1>1, <1>2, <1>3, <1>4, <1>5
<1> QED BY <1>1, <1>4, <1>5, <1>6 DEF Room

LEMMA RoomUsed ==
  ASSUME NEW a, NEW S, NEW n, Room(a, S, n), NEW p \in S, NEW T, T \subseteq S \ {p}
  PROVE  Room(a + 1, T, n)
<1>1. IsFiniteSet(S) /\ a + Cardinality(S) <= n /\ a \in Int /\ n \in Int BY DEF Room
<1>2. PICK s \in Nat : s = Cardinality(S) BY <1>1, FS_CardinalityType
<1>3. IsFiniteSet(S \ {p}) /\ Cardinality(S \ {p}) = s - 1 BY <1>1, <1>2, FS_RemoveElement
<1>4. IsFiniteSet(T) /\ Cardinality(T) <= Cardinality(S \ {p}) BY <1>3, FS_Subset
<1>5. PICK t \in Nat : t = Cardinality(T) BY <1>4, FS_CardinalityType
<1>6. a + 1 + t <= n BY <1>1, <1>2, <1>3, <1>4, <1>5
<1> QED BY <1>1, <1>4, <1>5, <1>6 DEF Room

\* The others wait as they did.
LEMMA Waiting ==
  ASSUME NEW p \in Procs, Others(p), NEW c
  PROVE  /\ Due(c)' \subseteq Due(c) \cup {p} /\ Pending(c)' \subseteq Pending(c) \cup {p}
         /\ p \notin Due(c)' => Due(c)' \subseteq Due(c) \ {p}
         /\ p \notin Pending(c)' => Pending(c)' \subseteq Pending(c) \ {p}
         /\ (p \in Due(c)' => p \in Due(c)) => Due(c)' \subseteq Due(c)
         /\ (p \in Pending(c)' => p \in Pending(c)) => Pending(c)' \subseteq Pending(c)
<1>1. \A q \in Procs \ {p} : Left(q)' = Left(q) BY SameFacts DEF Others
<1> QED BY <1>1 DEF Due, Pending

\* A request that goes on with, or ends after, a command that is not its first.
LEMMA Fewer ==
  ASSUME Base, NEW p \in Procs, Others(p), Ended(p) \/ (Went(p) /\ Now(p) # "incr"), NEW c
  PROVE  Due(c)' \subseteq Due(c) /\ Pending(c)' \subseteq Pending(c)
<1>1. CASE Ended(p) BY <1>1, Waiting DEF Ended, Due, Pending
<1>2. CASE Went(p) /\ Now(p) # "incr"
  <2>1. Left(p)' \subseteq Left(p) BY <1>2 DEF Went
  <2>2. Left(p)' # {} BY <1>2 DEF Went
  <2>3. ~ Idle(p) BY <2>1, <2>2, WhoseCommand DEF Base
  <2>4. "incr" \notin Left(p) BY <1>2, <2>3, NowFacts DEF Base
  <2>5. p \in Due(c)' => p \in Due(c) BY <2>1, <2>4 DEF Due
  <2>6. p \in Pending(c)' => p \in Pending(c) BY <2>1 DEF Pending
  <2> QED BY <2>5, <2>6, Waiting
<1> QED BY <1>1, <1>2

LEMMA Numbers ==
  ASSUME Base, BoundsOK
  PROVE  /\ like \in Int /\ comment \in Int /\ -like \in Int /\ -comment \in Int
         /\ Len(notice) \in Nat /\ sequence \in Nat /\ requests \in Nat
<1>1. notice \in Seq(Interacts) BY DEF Base, IInv, StoreOK
<1>2. Len(notice) \in Nat BY <1>1
<1>3. sequence \in Nat BY BaseFacts
<1>4. requests \in Nat BY InteractAssumption DEF Base, DataT
<1> QED BY <1>2, <1>3, <1>4 DEF BoundsOK, Room

LEMMA BoundsKept ==
  ASSUME Base, BoundsOK, NEW p \in Procs, Others(p),
         Ended(p) \/ (Went(p) /\ Now(p) # "incr"),
         UNCHANGED <<sequence, like, comment, requests>>,
         Len(notice') \in Nat, Len(notice') <= Len(notice)
  PROVE  BoundsOK'
<1>1. \A c : Due(c)' \subseteq Due(c) /\ Pending(c)' \subseteq Pending(c) BY Fewer
<1>2. Room(like', Due("countLike")', sequence') BY <1>1, RoomSame, Zenon DEF BoundsOK
<1>3. Room(comment', Due("countComment")', sequence') BY <1>1, RoomSame, Zenon DEF BoundsOK
<1>4. Room(Len(notice'), Due("linkNotice")', sequence')
  <2> PICK b \in Nat : b = Len(notice') OBVIOUS
  <2> PICK a \in Nat : a = Len(notice) BY Numbers
  <2>1. Room(a, Due("linkNotice"), sequence) /\ b <= a /\ b \in Int BY DEF BoundsOK
  <2>2. Room(b, Due("linkNotice"), sequence) BY <2>1, RoomLess, Zenon
  <2>3. Room(b, Due("linkNotice")', sequence) BY <1>1, <2>2, RoomSame, Zenon
  <2> QED BY <2>3
<1>5. Room(-like', Pending("uncountLike")', requests') BY <1>1, RoomSame, Zenon DEF BoundsOK
<1>6. Room(-comment', Pending("uncountComment")', requests')
  BY <1>1, RoomSame, Zenon DEF BoundsOK
<1> QED BY <1>2, <1>3, <1>4, <1>5, <1>6 DEF BoundsOK

LEMMA CountStatB ==
  ASSUME Base, BoundsOK, NEW p \in Procs, CountStat(p)
  PROVE  BoundsOK'
<1>1. /\ Others(p) /\ Quiet(p) /\ Now(p) \in Left(p)
      /\ UNCHANGED <<sequence, rough, lists, notice, liked>>
      /\ \/ Now(p) = "countLike" /\ like' = like + 1 /\ UNCHANGED comment
         \/ Now(p) = "uncountLike" /\ like' = like - 1 /\ UNCHANGED comment
         \/ Now(p) = "countComment" /\ comment' = comment + 1 /\ UNCHANGED like
         \/ Now(p) = "uncountComment" /\ comment' = comment - 1 /\ UNCHANGED like
  BY CountStatMove
<1>2. Went(p) /\ Now(p) # "incr" /\ ~ Idle(p) /\ requests' = requests
  BY <1>1, WhoseCommand DEF Base, Quiet
<1>3. \A c : Due(c)' \subseteq Due(c) /\ Pending(c)' \subseteq Pending(c) BY <1>1, <1>2, Fewer
<1>4. "incr" \notin Left(p) BY <1>2, NowFacts DEF Base
<1>5. Now(p) \notin Left(p)' BY <1>2 DEF Went
<1>6. \A c : c = Now(p) => /\ p \in Due(c) /\ Due(c)' \subseteq Due(c) \ {p}
                           /\ p \in Pending(c) /\ Pending(c)' \subseteq Pending(c) \ {p}
  <2> SUFFICES ASSUME NEW c, c = Now(p)
               PROVE  /\ p \in Due(c) /\ Due(c)' \subseteq Due(c) \ {p}
                      /\ p \in Pending(c) /\ Pending(c)' \subseteq Pending(c) \ {p}
    OBVIOUS
  <2>1. p \in Due(c) /\ p \in Pending(c) BY <1>1, <1>4 DEF Due, Pending
  <2>2. c \notin Left(p)' BY <1>5
  <2>3. p \notin Due(c)' /\ p \notin Pending(c)' BY <2>2 DEF Due, Pending
  <2> QED BY <1>1, <2>1, <2>3, Waiting
<1>7. Room(Len(notice'), Due("linkNotice")', sequence')
  BY <1>1, <1>3, RoomSame, Zenon DEF BoundsOK
<1>8. /\ Room(like, Due("countLike")', sequence) /\ Room(comment, Due("countComment")', sequence)
      /\ Room(-like, Pending("uncountLike")', requests)
      /\ Room(-comment, Pending("uncountComment")', requests)
  BY <1>3, RoomSame, Zenon DEF BoundsOK
<1>9. CASE Now(p) = "countLike" /\ like' = like + 1 /\ UNCHANGED comment
  <2>1. Room(like + 1, Due("countLike")', sequence)
    BY <1>6, <1>9, RoomUsed, Zenon DEF BoundsOK
  <2>2. Room(-(like + 1), Pending("uncountLike")', requests)
    <3>1. -(like + 1) \in Int /\ -(like + 1) <= -like BY Numbers
    <3> QED BY <1>3, <3>1, RoomSame, RoomLess, Zenon DEF BoundsOK
  <2> QED BY <1>1, <1>2, <1>7, <1>8, <1>9, <2>1, <2>2 DEF BoundsOK
<1>10. CASE Now(p) = "uncountLike" /\ like' = like - 1 /\ UNCHANGED comment
  <2>1. Room(like - 1, Due("countLike")', sequence)
    <3>1. like - 1 \in Int /\ like - 1 <= like BY Numbers
    <3> QED BY <1>3, <3>1, RoomSame, RoomLess, Zenon DEF BoundsOK
  <2>2. Room(-(like - 1), Pending("uncountLike")', requests)
    <3>1. -(like - 1) = -like + 1 BY Numbers
    <3>2. Room(-like + 1, Pending("uncountLike")', requests)
      BY <1>6, <1>10, RoomUsed, Zenon DEF BoundsOK
    <3> QED BY <3>1, <3>2
  <2> QED BY <1>1, <1>2, <1>7, <1>8, <1>10, <2>1, <2>2 DEF BoundsOK
<1>11. CASE Now(p) = "countComment" /\ comment' = comment + 1 /\ UNCHANGED like
  <2>1. Room(comment + 1, Due("countComment")', sequence)
    BY <1>6, <1>11, RoomUsed, Zenon DEF BoundsOK
  <2>2. Room(-(comment + 1), Pending("uncountComment")', requests)
    <3>1. -(comment + 1) \in Int /\ -(comment + 1) <= -comment BY Numbers
    <3> QED BY <1>3, <3>1, RoomSame, RoomLess, Zenon DEF BoundsOK
  <2> QED BY <1>1, <1>2, <1>7, <1>8, <1>11, <2>1, <2>2 DEF BoundsOK
<1>12. CASE Now(p) = "uncountComment" /\ comment' = comment - 1 /\ UNCHANGED like
  <2>1. Room(comment - 1, Due("countComment")', sequence)
    <3>1. comment - 1 \in Int /\ comment - 1 <= comment BY Numbers
    <3> QED BY <1>3, <3>1, RoomSame, RoomLess, Zenon DEF BoundsOK
  <2>2. Room(-(comment - 1), Pending("uncountComment")', requests)
    <3>1. -(comment - 1) = -comment + 1 BY Numbers
    <3>2. Room(-comment + 1, Pending("uncountComment")', requests)
      BY <1>6, <1>12, RoomUsed, Zenon DEF BoundsOK
    <3> QED BY <3>1, <3>2
  <2> QED BY <1>1, <1>2, <1>7, <1>8, <1>12, <2>1, <2>2 DEF BoundsOK
<1> QED BY <1>1, <1>9, <1>10, <1>11, <1>12

LEMMA LinkNoticeB ==
  ASSUME Base, BoundsOK, NEW p \in Procs, LinkNotice(p)
  PROVE  BoundsOK'
<1>1. /\ Others(p) /\ Ended(p) /\ Now(p) = "linkNotice" /\ Now(p) \in Left(p) /\ Sends(p)
      /\ notice' = <<id[p]>> \o notice
      /\ UNCHANGED <<sequence, rough, lists, counters, requests, failed, shown, unread>>
  BY LinkNoticeMove
<1>2. \A c : Due(c)' \subseteq Due(c) /\ Pending(c)' \subseteq Pending(c) BY <1>1, Fewer
<1>3. /\ Room(like', Due("countLike")', sequence')
      /\ Room(comment', Due("countComment")', sequence')
      /\ Room(-like', Pending("uncountLike")', requests')
      /\ Room(-comment', Pending("uncountComment")', requests')
  BY <1>1, <1>2, RoomSame, Zenon DEF BoundsOK, counters
<1>4. p \in Due("linkNotice") BY <1>1, BaseFacts, NowFacts DEF Base, Due
<1>5. p \notin Due("linkNotice")' BY <1>1 DEF Ended, Due
<1>6. Due("linkNotice")' \subseteq Due("linkNotice") \ {p} BY <1>1, <1>5, Waiting
<1>7. Room(Len(notice) + 1, Due("linkNotice")', sequence)
  <2> PICK a \in Nat : a = Len(notice) BY Numbers
  <2>1. Room(a, Due("linkNotice"), sequence) BY DEF BoundsOK
  <2>2. Room(a + 1, Due("linkNotice")', sequence) BY <1>4, <1>6, <2>1, RoomUsed, Zenon
  <2> QED BY <2>2
<1>8. Len(notice') = Len(notice) + 1
  <2>1. notice \in Seq(Interacts) BY DEF Base, IInv, StoreOK
  <2> QED BY <1>1, <2>1
<1> QED BY <1>1, <1>3, <1>7, <1>8 DEF BoundsOK

LEMMA IncrSequenceB ==
  ASSUME Base, BoundsOK, NEW p \in Procs, IncrSequence(p)
  PROVE  BoundsOK'
<1>1. /\ Others(p) /\ Went(p) /\ sequence' = sequence + 1
      /\ UNCHANGED <<rough, lists, notice, counters>> /\ requests' = requests
  BY IncrSequenceMove
<1>2. \A c : Due(c)' \subseteq Due(c) \cup {p} BY <1>1, Waiting
<1>3. \A c : p \in Pending(c)' => p \in Pending(c) BY <1>1 DEF Went, Pending
<1>4. \A c : Pending(c)' \subseteq Pending(c) BY <1>1, <1>3, Waiting
<1>5. /\ Room(like, Due("countLike")', sequence + 1)
      /\ Room(comment, Due("countComment")', sequence + 1)
  BY <1>2, RoomMade, Zenon DEF BoundsOK
<1>6. Room(Len(notice), Due("linkNotice")', sequence + 1)
  <2> PICK a \in Nat : a = Len(notice) BY Numbers
  <2>1. Room(a, Due("linkNotice"), sequence) BY DEF BoundsOK
  <2>2. Room(a, Due("linkNotice")', sequence + 1) BY <1>2, <2>1, RoomMade, Zenon
  <2> QED BY <2>2
<1>7. /\ Room(-like, Pending("uncountLike")', requests)
      /\ Room(-comment, Pending("uncountComment")', requests)
  BY <1>4, RoomSame, Zenon DEF BoundsOK
<1> QED BY <1>1, <1>5, <1>6, <1>7 DEF BoundsOK, counters

LEMMA BeginB ==
  ASSUME Base, BoundsOK, NEW p \in Procs, Ask(p)
  PROVE  BoundsOK'
<1>1. /\ Others(p) /\ UNCHANGED store /\ Left(p)' = Program[op'[p]]
      /\ op'[p] \in DOMAIN Commands /\ requests' = requests + 1
  BY BeginMove
<1>2. UNCHANGED <<sequence, notice, like, comment>> BY <1>1 DEF store, counters
<1>3. \A c \in {"countLike", "countComment", "linkNotice"} : p \notin Due(c)'
  <2>1. op'[p] \in {"like", "comment", "unlike", "uncomment", "notices"}
    BY <1>1 DEF Commands
  <2> QED BY <1>1, <2>1 DEF Due, Program, Deleted
<1>4. \A c \in {"countLike", "countComment", "linkNotice"} : Due(c)' \subseteq Due(c)
  BY <1>1, <1>3, Waiting
<1>5. \A c : Pending(c)' \subseteq Pending(c) \cup {p} BY <1>1, Waiting
<1>6. /\ Room(like, Due("countLike")', sequence) /\ Room(comment, Due("countComment")', sequence)
  BY <1>4, RoomSame, Zenon DEF BoundsOK
<1>7. Room(Len(notice), Due("linkNotice")', sequence)
  <2> PICK a \in Nat : a = Len(notice) BY Numbers
  <2>1. Room(a, Due("linkNotice"), sequence) BY DEF BoundsOK
  <2>2. Room(a, Due("linkNotice")', sequence) BY <1>4, <2>1, RoomSame, Zenon
  <2> QED BY <2>2
<1>8. /\ Room(-like, Pending("uncountLike")', requests + 1)
      /\ Room(-comment, Pending("uncountComment")', requests + 1)
  BY <1>5, RoomMade, Zenon DEF BoundsOK
<1> QED BY <1>1, <1>2, <1>6, <1>7, <1>8 DEF BoundsOK

LEMMA BoundsStep ==
  ASSUME Base, BoundsOK, NEW p \in Procs,
         \/ Ask(p) \/ Sending(p) \/ Deleting(p) \/ Reading(p) \/ Fail(p) \/ Kill(p)
  PROVE  BoundsOK'
<1>0. Len(notice) \in Nat /\ Len(notice) <= Len(notice) BY Numbers
<1>1. CASE SetLiked(p) \/ SetRough(p) \/ SetData(p) \/ Link(p) \/ Unlink(p)
  <2>1. /\ Others(p) /\ Quiet(p) /\ Now(p) # "incr"
        /\ UNCHANGED <<sequence, like, comment, notice>>
    BY <1>1, SetLikedMove, SetRoughMove, SetDataMove, LinkMove, UnlinkMove DEF counters
  <2>2. Went(p) /\ requests' = requests BY <2>1 DEF Quiet
  <2> QED BY <1>0, <2>1, <2>2, BoundsKept
<1>2. CASE ReadTarget(p) \/ ReadRough(p) \/ ReadOwner(p)
  <2>1. /\ Others(p) /\ UNCHANGED store /\ Now(p) # "incr" /\ requests' = requests
        /\ Ended(p) \/ Went(p)
    BY <1>2, ReadMove, ReadOwnerMove DEF Quiet
  <2>2. UNCHANGED <<sequence, like, comment, notice>> BY <2>1 DEF store, counters
  <2> QED BY <1>0, <2>1, <2>2, BoundsKept
<1>3. CASE SetDeleted(p)
  <2>1. /\ Others(p) /\ Ended(p) /\ requests' = requests
        /\ UNCHANGED <<sequence, like, comment, notice>>
    BY <1>3, SetDeletedMove DEF counters
  <2> QED BY <1>0, <2>1, BoundsKept
<1>4. CASE FindLike(p) \/ ReadNotice(p)
  <2>1. /\ Others(p) /\ UNCHANGED store /\ Now(p) # "incr" /\ requests' = requests
        /\ Ended(p) \/ Went(p)
    BY <1>4, FindLikeMove, ReadNoticeMove
  <2>2. UNCHANGED <<sequence, like, comment, notice>> BY <2>1 DEF store, counters
  <2> QED BY <1>0, <2>1, <2>2, BoundsKept
<1>5. CASE Trim(p)
  <2>1. /\ Others(p) /\ Ended(p) /\ requests' = requests /\ notice' = AfterPage
        /\ UNCHANGED <<sequence, like, comment>>
    BY <1>5, TrimMove DEF counters
  <2>2. Len(AfterPage) \in Nat /\ Len(AfterPage) <= Len(notice) BY AfterPageFacts DEF Base
  <2> QED BY <2>1, <2>2, BoundsKept
<1>6. CASE Fail(p) \/ Kill(p)
  <2>1. /\ Others(p) /\ UNCHANGED store /\ requests' = requests
        /\ Ended(p) \/ (Went(p) /\ id[p] # 0)
    BY <1>6, FailMove
  <2>2. UNCHANGED <<sequence, like, comment, notice>> BY <2>1 DEF store, counters
  <2>3. id[p] # 0 => Now(p) # "incr"
    <3>1. id[p] # 0 => ~ Idle(p) BY BaseFacts
    <3> QED BY <3>1 DEF Base, LInv, PlaceOK
  <2> QED BY <1>0, <2>1, <2>2, <2>3, BoundsKept
<1> QED BY <1>1, <1>2, <1>3, <1>4, <1>5, <1>6, CountStatB, LinkNoticeB, IncrSequenceB, BeginB
     DEF Sending, Deleting, Reading

\* Only what is counted off can be missed.
LEMMA MissedSame ==
  ASSUME NEW p \in Procs,
         \/ Ask(p) \/ Sending(p) \/ Deleting(p) \/ Reading(p) \/ Fail(p) \/ Kill(p)
  PROVE  CountStat(p) \/ missed' = missed
<1>1. CASE Ask(p) BY <1>1 DEF Ask, Begin
<1>2. CASE Sending(p)
  BY <1>2 DEF Sending, IncrSequence, SetLiked, SetRough, ReadTarget, SetData, Link, ReadOwner,
              LinkNotice, Done, Stop
<1>3. CASE Deleting(p) BY <1>3 DEF Deleting, FindLike, Unlink, ReadRough, SetDeleted, Done, Stop
<1>4. CASE Reading(p) BY <1>4 DEF Reading, ReadNotice, Trim
<1>5. CASE Fail(p) \/ Kill(p) BY <1>5 DEF Fail, Kill
<1> QED BY <1>1, <1>2, <1>3, <1>4, <1>5

\* A request that has begun sends nothing twice.
LEMMA GoesOrEnds ==
  ASSUME Base, NEW p \in Procs,
         \/ Sending(p) \/ Deleting(p) \/ Reading(p) \/ Fail(p) \/ Kill(p)
  PROVE  Others(p) /\ (Ended(p) \/ Went(p)) /\ requests' = requests
<1>1. CASE SetLiked(p) \/ SetRough(p) \/ SetData(p) \/ Link(p) \/ Unlink(p) \/ CountStat(p)
  BY <1>1, SetLikedMove, SetRoughMove, SetDataMove, LinkMove, UnlinkMove, CountStatMove DEF Quiet
<1>2. CASE ReadTarget(p) \/ ReadRough(p) \/ ReadOwner(p)
  BY <1>2, ReadMove, ReadOwnerMove DEF Quiet
<1>3. CASE SetDeleted(p) \/ LinkNotice(p) \/ Trim(p)
  BY <1>3, SetDeletedMove, LinkNoticeMove, TrimMove
<1>4. CASE FindLike(p) \/ ReadNotice(p) \/ IncrSequence(p)
  BY <1>4, FindLikeMove, ReadNoticeMove, IncrSequenceMove
<1>5. CASE Fail(p) \/ Kill(p) BY <1>5, FailMove
<1> QED BY <1>1, <1>2, <1>3, <1>4, <1>5 DEF Sending, Deleting, Reading

LEMMA MissedStep ==
  ASSUME Base, MissedOK, NEW p \in Procs,
         \/ Ask(p) \/ Sending(p) \/ Deleting(p) \/ Reading(p) \/ Fail(p) \/ Kill(p)
  PROVE  MissedOK'
<1> DEFINE c == "uncountComment"
<1>1. CASE Ask(p)
  <2>1. missed' = missed BY <1>1 DEF Ask, Begin
  <2>2. Others(p) /\ requests' = requests + 1 BY <1>1, BeginMove
  <2>3. Pending(c)' \subseteq Pending(c) \cup {p} BY <2>2, Waiting
  <2>4. Room(missed, Pending(c)', requests + 1) BY <2>3, RoomMade, Zenon DEF MissedOK
  <2> QED BY <2>1, <2>2, <2>4 DEF MissedOK
<1>2. CASE ~ Ask(p)
  <2>1. Others(p) /\ (Ended(p) \/ Went(p)) /\ requests' = requests BY <1>2, GoesOrEnds
  <2>2. p \in Pending(c)' => p \in Pending(c) BY <2>1 DEF Ended, Went, Pending
  <2>3. Pending(c)' \subseteq Pending(c) BY <2>1, <2>2, Waiting
  <2>4. Room(missed, Pending(c)', requests) BY <2>3, RoomSame, Zenon DEF MissedOK
  <2>5. CASE missed' = missed BY <2>1, <2>4, <2>5 DEF MissedOK
  <2>6. CASE missed' # missed
    <3>1. CountStat(p) BY <2>6, MissedSame
    <3>2. Now(p) = c /\ missed' = missed + 1 /\ Now(p) \in Left(p) /\ Went(p)
      BY <2>6, <3>1, CountStatMove DEF Quiet
    <3>3. p \in Pending(c) /\ p \notin Pending(c)' BY <3>2 DEF Pending, Went
    <3>4. Pending(c)' \subseteq Pending(c) \ {p} BY <2>1, <3>3, Waiting
    <3>5. Room(missed + 1, Pending(c)', requests) BY <3>3, <3>4, RoomUsed, Zenon DEF MissedOK
    <3>6. missed + 1 \in Nat BY DEF MissedOK
    <3> QED BY <2>1, <3>2, <3>5, <3>6 DEF MissedOK
  <2> QED BY <2>5, <2>6
<1> QED BY <1>1, <1>2
-----------------------------------------------------------------------------
(* A page that was read and not crossed is still the first.                *)

\* Only who has just read the notices comes to the trimming.
LEMMA TrimNext ==
  ASSUME Base, LInv', NEW p \in Procs, Went(p), Now(p)' = "trim"
  PROVE  Now(p) = "readNotice"
<1>1. "trim" \in Left(p) /\ "trim" # Now(p) BY DEF Went
<1>2. op[p] = "notices" /\ ~ Idle(p) BY <1>1, WhoseCommand DEF Base
<1>3. Now(p) \in Program["notices"] BY <1>2, NowFacts DEF Base
<1> QED BY <1>1, <1>3 DEF Program

LEMMA ReadStep ==
  ASSUME Base, LInv', ReadOK, NEW p \in Procs,
         \/ Ask(p) \/ Sending(p) \/ Deleting(p) \/ Reading(p) \/ Fail(p) \/ Kill(p)
  PROVE  ReadOK'
<1>1. Others(p) BY LStep
<1>2. \A q \in Procs \ {p} : Now(q)' = Now(q) /\ page'[q] = page[q]
  BY <1>1, SameFacts DEF Others, SameRequest
<1>3. Ended(p) => Now(p)' # "trim" BY DEF Ended, Now, Idle
<1>4. CASE /\ Ended(p) \/ (Went(p) /\ Now(p) # "readNotice") \/ Now(p)' # "trim"
           /\ UNCHANGED notice /\ crossed \subseteq crossed'
  <2>1. Now(p)' # "trim" BY <1>3, <1>4, TrimNext
  <2>2. FirstPage' = FirstPage BY <1>4 DEF FirstPage
  <2> QED BY <1>2, <1>4, <2>1, <2>2 DEF ReadOK
<1>5. CASE LinkNotice(p) \/ Trim(p)
  <2>1. Ended(p) /\ crossed' = crossed \cup Readers(p) BY <1>5, LinkNoticeMove, TrimMove
  <2> SUFFICES ASSUME NEW q \in Procs \ {p}, Now(q) = "trim" PROVE q \in crossed'
    BY <1>2, <1>3, <2>1 DEF ReadOK
  <2>2. ~ Idle(q) BY DEF Now
  <2>3. page[q] # {} BY <2>2 DEF Base, LInv, PlaceOK
  <2> QED BY <2>1, <2>3 DEF Readers
<1>6. CASE ReadNotice(p)
  <2>1. /\ UNCHANGED store /\ crossed' = crossed \ {p}
        /\ Ended(p) \/ page'[p] = Elements(FirstPage)
    BY <1>6, ReadNoticeMove
  <2>2. FirstPage' = FirstPage /\ Elements(FirstPage)' = Elements(FirstPage)
    BY <2>1 DEF FirstPage, Elements, store
  <2> QED BY <1>2, <1>3, <2>1, <2>2 DEF ReadOK
<1>7. CASE Ask(p)
  BY <1>4, <1>7, BeginMove DEF store
<1>8. CASE SetLiked(p) \/ SetRough(p) \/ SetData(p) \/ Link(p) \/ Unlink(p) \/ CountStat(p)
  <2>1. Quiet(p) /\ Now(p) # "readNotice" /\ UNCHANGED notice
    BY <1>8, SetLikedMove, SetRoughMove, SetDataMove, LinkMove, UnlinkMove, CountStatMove
  <2> QED BY <1>4, <2>1 DEF Quiet
<1>9. CASE ReadTarget(p) \/ ReadRough(p) \/ ReadOwner(p)
  <2>1. /\ UNCHANGED store /\ Now(p) # "readNotice" /\ crossed' = crossed
        /\ Ended(p) \/ Went(p)
    BY <1>9, ReadMove, ReadOwnerMove DEF Quiet
  <2> QED BY <1>4, <2>1 DEF store
<1>10. CASE SetDeleted(p) BY <1>4, <1>10, SetDeletedMove
<1>11. CASE FindLike(p)
  <2>1. /\ UNCHANGED store /\ Now(p) # "readNotice" /\ crossed' = crossed
        /\ Ended(p) \/ Went(p)
    BY <1>11, FindLikeMove
  <2> QED BY <1>4, <2>1 DEF store
<1>12. CASE IncrSequence(p) BY <1>4, <1>12, IncrSequenceMove
<1>13. CASE Fail(p) \/ Kill(p)
  <2>1. /\ UNCHANGED store /\ crossed' = crossed
        /\ Ended(p) \/ (Went(p) /\ id[p] # 0)
    BY <1>13, FailMove
  <2>2. id[p] # 0 => Now(p) # "readNotice"
    <3>1. id[p] # 0 => ~ Idle(p) BY BaseFacts
    <3> QED BY <3>1 DEF Base, LInv, PlaceOK
  <2> QED BY <1>4, <2>1, <2>2 DEF store
<1> QED BY <1>5, <1>6, <1>7, <1>8, <1>9, <1>10, <1>11, <1>12, <1>13
     DEF Sending, Deleting, Reading

-----------------------------------------------------------------------------
(* The counters.                                                           *)

\* A request and an interaction as they were, for what c's of M count.
SameMark(q, M) ==
  \/ id[q] = 0 /\ id'[q] = 0
  \/ /\ id'[q] = id[q] /\ op'[q] = op[q] /\ user'[q] = user[q]
     /\ \A c \in M : c \in Left(q)' <=> c \in Left(q)

SameFate(i) ==
  /\ fate'[i] = fate[i]
  /\ fate[i] \in {"sent", "leaving", "gone"} =>
       rough'[i].kind = rough[i].kind /\ rough'[i].user = rough[i].user

LEMMA OthersMarks ==
  ASSUME NEW p \in Procs, Others(p)
  PROVE  \A q \in Procs \ {p} : \A M : SameMark(q, M)
BY SameFacts DEF Others, SameRequest, SameMark

LEMMA OddStays ==
  ASSUME Base, NEW p \in Procs, NoOdd',
         \/ Ask(p) \/ Sending(p) \/ Deleting(p) \/ Reading(p) \/ Fail(p) \/ Kill(p)
  PROVE  NoOdd
<1>1. ASSUME \A i \in Interacts : fate[i] = "odd" => fate'[i] = "odd" PROVE NoOdd
  BY <1>1 DEF NoOdd
<1>2. CASE fate' = fate BY <1>1, <1>2
<1>3. CASE fate' = FateWhenFailed(p) BY <1>1, <1>3, FateFacts DEF Base, DataT
<1>4. CASE fate' = FateWhenDone(p) /\ id[p] # 0
  BY <1>1, <1>4, FateFacts DEF Base, DataT
<1>5. CASE \E i, u, k : fate' = FateOnDeletion(i, u, k)
  BY <1>1, <1>5 DEF FateOnDeletion, Leaves, Base, DataT
<1>6. CASE /\ \E f \in {"sending", "odd"} : fate' = [fate EXCEPT ![sequence + 1] = f]
           /\ sequence + 1 \in Interacts
  <2>1. fate[sequence + 1] = "none" BY <1>6, BaseFacts DEF Base, DataT
  <2> QED BY <1>1, <1>6, <2>1 DEF Base, DataT
<1>7. \/ fate' = fate \/ fate' = FateWhenFailed(p)
      \/ fate' = FateWhenDone(p) /\ id[p] # 0
      \/ \E i, u, k : fate' = FateOnDeletion(i, u, k)
      \/ /\ \E f \in {"sending", "odd"} : fate' = [fate EXCEPT ![sequence + 1] = f]
         /\ sequence + 1 \in Interacts
  <2>1. CASE Ask(p) BY <2>1, BeginMove
  <2>2. CASE FindLike(p) BY <2>2, FindLikeMove
  <2>3. CASE \/ CountStat(p) \/ SetLiked(p) \/ SetRough(p) \/ ReadTarget(p) \/ ReadRough(p)
             \/ SetData(p) \/ Link(p) \/ Unlink(p)
    BY <2>3, CountStatMove, SetLikedMove, SetRoughMove, ReadMove, SetDataMove, LinkMove,
       UnlinkMove DEF Quiet
  <2>4. CASE ReadOwner(p) \/ LinkNotice(p) \/ SetDeleted(p)
    BY <2>4, ReadOwnerMove, LinkNoticeMove, SetDeletedMove DEF Quiet
  <2>5. CASE IncrSequence(p) BY <2>5, IncrSequenceMove
  <2>6. CASE ReadNotice(p) \/ Trim(p) BY <2>6, ReadNoticeMove, TrimMove
  <2>7. CASE Fail(p) \/ Kill(p) BY <2>7, FailMove
  <2> QED BY <2>1, <2>2, <2>3, <2>4, <2>5, <2>6, <2>7 DEF Sending, Deleting, Reading
<1> QED BY <1>2, <1>3, <1>4, <1>5, <1>6, <1>7

\* What one more, or one less, makes of a tally.
LEMMA TallyCount ==
  ASSUME NEW n \in Int, NEW P, NEW A, NEW B, Tally(n, P, A, B), NEW p, p \notin A
  PROVE  Tally(n + 1, P, A \cup {p}, B)
<1>1. IsFiniteSet(P) /\ IsFiniteSet(A) /\ IsFiniteSet(B) BY DEF Tally
<1>2. PICK s \in Nat : s = Cardinality(P) BY <1>1, FS_CardinalityType
<1>3. PICK a \in Nat : a = Cardinality(A) BY <1>1, FS_CardinalityType
<1>4. PICK b \in Nat : b = Cardinality(B) BY <1>1, FS_CardinalityType
<1>5. IsFiniteSet(A \cup {p}) /\ Cardinality(A \cup {p}) = a + 1
  BY <1>1, <1>3, FS_AddElement
<1>6. n = s + a - b BY <1>2, <1>3, <1>4 DEF Tally
<1>7. n + 1 = s + (a + 1) - b BY <1>6
<1> QED BY <1>1, <1>2, <1>4, <1>5, <1>7 DEF Tally

LEMMA TallyUncount ==
  ASSUME NEW n \in Int, NEW P, NEW A, NEW B, Tally(n, P, A, B), NEW p, p \notin B
  PROVE  Tally(n - 1, P, A, B \cup {p})
<1>1. IsFiniteSet(P) /\ IsFiniteSet(A) /\ IsFiniteSet(B) BY DEF Tally
<1>2. PICK s \in Nat : s = Cardinality(P) BY <1>1, FS_CardinalityType
<1>3. PICK a \in Nat : a = Cardinality(A) BY <1>1, FS_CardinalityType
<1>4. PICK b \in Nat : b = Cardinality(B) BY <1>1, FS_CardinalityType
<1>5. IsFiniteSet(B \cup {p}) /\ Cardinality(B \cup {p}) = b + 1
  BY <1>1, <1>4, FS_AddElement
<1>6. n = s + a - b BY <1>2, <1>3, <1>4 DEF Tally
<1>7. n - 1 = s + a - (b + 1) BY <1>6
<1> QED BY <1>1, <1>2, <1>3, <1>5, <1>7 DEF Tally

LEMMA TallySent ==
  ASSUME NEW n \in Int, NEW P, NEW A, NEW B, Tally(n, P, A, B), NEW i, i \notin P, NEW p \in A
  PROVE  Tally(n, P \cup {i}, A \ {p}, B)
<1>1. IsFiniteSet(P) /\ IsFiniteSet(A) /\ IsFiniteSet(B) BY DEF Tally
<1>2. PICK s \in Nat : s = Cardinality(P) BY <1>1, FS_CardinalityType
<1>3. PICK a \in Nat : a = Cardinality(A) BY <1>1, FS_CardinalityType
<1>4. PICK b \in Nat : b = Cardinality(B) BY <1>1, FS_CardinalityType
<1>5. IsFiniteSet(P \cup {i}) /\ Cardinality(P \cup {i}) = s + 1
  BY <1>1, <1>2, FS_AddElement
<1>6. IsFiniteSet(A \ {p}) /\ Cardinality(A \ {p}) = a - 1
  BY <1>1, <1>3, FS_RemoveElement
<1>7. n = s + a - b BY <1>2, <1>3, <1>4 DEF Tally
<1>8. n = (s + 1) + (a - 1) - b BY <1>7
<1> QED BY <1>1, <1>4, <1>5, <1>6, <1>8 DEF Tally

LEMMA TallyGone ==
  ASSUME NEW n \in Int, NEW P, NEW A, NEW B, Tally(n, P, A, B), NEW i \in P, NEW p \in B
  PROVE  Tally(n, P \ {i}, A, B \ {p})
<1>1. IsFiniteSet(P) /\ IsFiniteSet(A) /\ IsFiniteSet(B) BY DEF Tally
<1>2. PICK s \in Nat : s = Cardinality(P) BY <1>1, FS_CardinalityType
<1>3. PICK a \in Nat : a = Cardinality(A) BY <1>1, FS_CardinalityType
<1>4. PICK b \in Nat : b = Cardinality(B) BY <1>1, FS_CardinalityType
<1>5. IsFiniteSet(P \ {i}) /\ Cardinality(P \ {i}) = s - 1
  BY <1>1, <1>2, FS_RemoveElement
<1>6. IsFiniteSet(B \ {p}) /\ Cardinality(B \ {p}) = b - 1
  BY <1>1, <1>4, FS_RemoveElement
<1>7. n = s + a - b BY <1>2, <1>3, <1>4 DEF Tally
<1>8. n = (s - 1) + a - (b - 1) BY <1>7
<1> QED BY <1>1, <1>3, <1>5, <1>6, <1>8 DEF Tally
-----------------------------------------------------------------------------
(* What is counted when a request goes on.                                 *)

LEMMA PresentSame ==
  ASSUME \A i \in Interacts : SameFate(i), NEW k
  PROVE  Present(k)' = Present(k)
BY DEF Present, All, SameFate

LEMMA LikesSame ==
  ASSUME \A i \in Interacts : SameFate(i), NEW u, NEW f \in {"sent", "gone"}
  PROVE  LikesOf(u, f)' = LikesOf(u, f)
BY DEF LikesOf, All, SameFate

LEMMA CountedSame ==
  ASSUME NEW c, NEW M, c \in M, \A q \in Procs : SameMark(q, M), NEW o
  PROVE  Counted(o, c)' = Counted(o, c)
BY DEF Counted, SameMark

\* The process p has counted, or is through.
LEMMA CountedMore ==
  ASSUME NEW p \in Procs, Others(p), NEW o, NEW c, op'[p] = o, id'[p] # 0, c \notin Left(p)'
  PROVE  Counted(o, c)' = Counted(o, c) \cup {p}
<1>1. \A q \in Procs \ {p} : SameMark(q, {c}) BY OthersMarks
<1> QED BY <1>1 DEF Counted, SameMark

LEMMA CountedLess ==
  ASSUME NEW p \in Procs, Others(p), NEW o, NEW c,
         op'[p] # o \/ id'[p] = 0 \/ c \in Left(p)'
  PROVE  Counted(o, c)' = Counted(o, c) \ {p}
<1>1. \A q \in Procs \ {p} : SameMark(q, {c}) BY OthersMarks
<1> QED BY <1>1 DEF Counted, SameMark

\* What only p may change is as it was, but for p.
LEMMA ButForP ==
  ASSUME NEW p \in Procs, Others(p)
  PROVE  /\ \A q \in Procs \ {p} : \A u, o, c :
              /\ q \in Counted(o, c)' <=> q \in Counted(o, c)
              /\ q \in Liking(u)' <=> q \in Liking(u)
              /\ q \in Unliked(u)' <=> q \in Unliked(u)
              /\ q \in Unliking(u)' <=> q \in Unliking(u)
              /\ Deletes(q)' <=> Deletes(q)
              /\ id'[q] = id[q]
         /\ \A u, o, c : /\ Counted(o, c) \subseteq Procs /\ Counted(o, c)' \subseteq Procs
                         /\ Liking(u) \subseteq Procs /\ Liking(u)' \subseteq Procs
                         /\ Unliked(u) \subseteq Procs /\ Unliked(u)' \subseteq Procs
                         /\ Unliking(u) \subseteq Procs /\ Unliking(u)' \subseteq Procs
<1>1. \A q \in Procs \ {p} : SameRequest(q) /\ Left(q)' = Left(q)
  BY SameFacts DEF Others
<1>2. ASSUME NEW q \in Procs \ {p}, NEW u, NEW o, NEW c
      PROVE  /\ q \in Counted(o, c)' <=> q \in Counted(o, c)
             /\ q \in Liking(u)' <=> q \in Liking(u)
             /\ q \in Unliked(u)' <=> q \in Unliked(u)
             /\ q \in Unliking(u)' <=> q \in Unliking(u)
             /\ Deletes(q)' <=> Deletes(q)
             /\ id'[q] = id[q]
  <2>1. SameRequest(q) /\ Left(q)' = Left(q) BY <1>1
  <2> QED BY <2>1 DEF Liking, Unliked, Unliking, Counted, SameRequest, Deletes
<1> QED BY <1>2 DEF Liking, Unliked, Unliking, Counted

LEMMA Unmoved ==
  ASSUME NEW p \in Procs, Others(p), NEW u, NEW o, NEW c
  PROVE  /\ (p \in Counted(o, c)' <=> p \in Counted(o, c)) => Counted(o, c)' = Counted(o, c)
         /\ (p \in Liking(u)' <=> p \in Liking(u)) => Liking(u)' = Liking(u)
         /\ (p \in Unliked(u)' <=> p \in Unliked(u)) => Unliked(u)' = Unliked(u)
         /\ (p \in Unliking(u)' <=> p \in Unliking(u)) => Unliking(u)' = Unliking(u)
<1>1. /\ \A q \in Procs \ {p} : /\ q \in Counted(o, c)' <=> q \in Counted(o, c)
                                /\ q \in Liking(u)' <=> q \in Liking(u)
                                /\ q \in Unliked(u)' <=> q \in Unliked(u)
                                /\ q \in Unliking(u)' <=> q \in Unliking(u)
      /\ Counted(o, c) \subseteq Procs /\ Counted(o, c)' \subseteq Procs
      /\ Liking(u) \subseteq Procs /\ Liking(u)' \subseteq Procs
      /\ Unliked(u) \subseteq Procs /\ Unliked(u)' \subseteq Procs
      /\ Unliking(u) \subseteq Procs /\ Unliking(u)' \subseteq Procs
  BY ButForP
<1>2. \A S \in SUBSET Procs : \A T \in SUBSET Procs :
        (\A q \in Procs \ {p} : q \in S <=> q \in T) /\ (p \in S <=> p \in T) => S = T
  OBVIOUS
<1>3. (p \in Counted(o, c)' <=> p \in Counted(o, c)) => Counted(o, c)' = Counted(o, c)
  BY <1>1, <1>2
<1>4. (p \in Liking(u)' <=> p \in Liking(u)) => Liking(u)' = Liking(u) BY <1>1, <1>2
<1>5. (p \in Unliked(u)' <=> p \in Unliked(u)) => Unliked(u)' = Unliked(u) BY <1>1, <1>2
<1>6. (p \in Unliking(u)' <=> p \in Unliking(u)) => Unliking(u)' = Unliking(u) BY <1>1, <1>2
<1> QED BY <1>3, <1>4, <1>5, <1>6

\* A request about an interaction that is not there deletes a comment.
LEMMA AbsentDeletes ==
  ASSUME Base, NEW p \in Procs, p \in Absent
  PROVE  op[p] = "uncomment" /\ id[p] # 0 /\ ~ Exists(id[p])
<1>1. id[p] # 0 /\ fate[id[p]] = "none" BY DEF Absent
<1>2. id[p] \in Interacts BY <1>1, BaseFacts
<1> QED BY <1>1, <1>2, BaseFacts, ExistsFate

LEMMA UncountedSame ==
  ASSUME Base, \A q \in Procs : SameMark(q, {"uncountComment"}),
         \A i \in Interacts : SameFate(i)
  PROVE  Uncounted' = Uncounted
<1>1. Counted("uncomment", "uncountComment")' = Counted("uncomment", "uncountComment")
  BY CountedSame
<1>2. ASSUME NEW q \in Counted("uncomment", "uncountComment")
      PROVE  q \in Absent' <=> q \in Absent
  <2>1. q \in Procs /\ id[q] # 0 /\ id'[q] = id[q] BY <1>2 DEF Counted, SameMark
  <2>2. id[q] \in Interacts BY <2>1, BaseFacts
  <2> QED BY <2>1, <2>2 DEF Absent, SameFate
<1> QED BY <1>1, <1>2 DEF Uncounted

\* Another's stay when no interaction of a request comes to be there.
LEMMA UncountedBut ==
  ASSUME NEW p \in Procs, Others(p),
         \A q \in Procs \ {p} : id[q] # 0 => (fate'[id[q]] = "none" <=> fate[id[q]] = "none")
  PROVE  /\ \A q \in Procs \ {p} : q \in Uncounted' <=> q \in Uncounted
         /\ Uncounted \subseteq Procs /\ Uncounted' \subseteq Procs
<1>1. ASSUME NEW q \in Procs \ {p} PROVE q \in Uncounted' <=> q \in Uncounted
  <2>1. /\ q \in Counted("uncomment", "uncountComment")' <=>
              q \in Counted("uncomment", "uncountComment")
        /\ id'[q] = id[q]
    BY ButForP
  <2>2. id[q] # 0 => (q \in Absent' <=> q \in Absent) BY <2>1 DEF Absent
  <2>3. q \in Counted("uncomment", "uncountComment") => id[q] # 0 BY DEF Counted
  <2> QED BY <2>1, <2>2, <2>3 DEF Uncounted
<1> QED BY <1>1, ButForP DEF Uncounted

LEMMA MarkedLikers ==
  ASSUME \A q \in Procs : SameMark(q, {"addLike", "remLike"}), NEW u
  PROVE  Liking(u)' = Liking(u) /\ Unliked(u)' = Unliked(u) /\ Unliking(u)' = Unliking(u)
<1>1. \A o : /\ Counted(o, "addLike")' = Counted(o, "addLike")
             /\ Counted(o, "remLike")' = Counted(o, "remLike")
  BY CountedSame
<1>2. \A q \in Procs : id[q] # 0 => user'[q] = user[q] BY DEF SameMark
<1>3. Liking(u)' = Liking(u) BY <1>1, <1>2 DEF Liking, Counted
<1>4. Unliked(u)' = Unliked(u) BY <1>1, <1>2 DEF Unliked, Counted
<1>5. Unliking(u)' = Unliking(u) BY DEF Unliking, SameMark
<1> QED BY <1>3, <1>4, <1>5

LEMMA LikedKept ==
  ASSUME CInv, NoOdd, \A q \in Procs : SameMark(q, {"addLike", "remLike"}),
         \A i \in Interacts : SameFate(i), liked' = liked
  PROVE  \A u \in Users : LikedOK(u)'
<1> SUFFICES ASSUME NEW u \in Users PROVE LikedOK(u)' OBVIOUS
<1>1. LikedOK(u) BY DEF CInv
<1>2. Liking(u)' = Liking(u) /\ Unliked(u)' = Unliked(u) /\ Unliking(u)' = Unliking(u)
  BY MarkedLikers
<1>3. LikesOf(u, "sent")' = LikesOf(u, "sent") /\ LikesOf(u, "gone")' = LikesOf(u, "gone")
  BY LikesSame
<1> QED BY <1>1, <1>2, <1>3 DEF LikedOK

LEMMA LeaversKept ==
  ASSUME CInv, NoOdd, \A q \in Procs : SameMark(q, {}), \A i \in Interacts : SameFate(i)
  PROVE  LeaversThere'
<1> SUFFICES ASSUME NEW i \in Interacts, fate'[i] = "leaving"
             PROVE  \E q \in Procs : Deletes(q)' /\ id'[q] = i
  BY DEF LeaversThere
<1>1. fate[i] = "leaving" BY DEF SameFate
<1>2. PICK q \in Procs : Deletes(q) /\ id[q] = i BY <1>1 DEF CInv, LeaversThere
<1>3. i # 0 BY InteractAssumption DEF Interacts
<1> QED BY <1>2, <1>3 DEF SameMark, Deletes

\* A step that changes no counter, and nothing that is counted.
Marks == {"countLike", "uncountLike", "countComment", "uncountComment", "addLike", "remLike"}

LEMMA CalmC ==
  ASSUME Base, CInv, NoOdd, \A q \in Procs : SameMark(q, Marks),
         \A i \in Interacts : SameFate(i), UNCHANGED <<liked, like, comment, missed>>
  PROVE  CInv'
<1>1. \A q \in Procs : SameMark(q, {"addLike", "remLike"}) /\ SameMark(q, {})
  BY DEF SameMark, Marks
<1>2. (\A u \in Users : LikedOK(u)') /\ LeaversThere' BY <1>1, LikedKept, LeaversKept
<1>3. \A k : Present(k)' = Present(k) BY PresentSame
<1>4. \A o : \A c \in Marks : Counted(o, c)' = Counted(o, c) BY CountedSame
<1>5. LikeTally' BY <1>3, <1>4 DEF CInv, LikeTally, Marks
<1>6. CommentTally'
  <2>1. \A q \in Procs : SameMark(q, {"uncountComment"}) BY DEF SameMark, Marks
  <2>2. Uncounted' = Uncounted BY <2>1, UncountedSame
  <2> QED BY <1>3, <1>4, <2>2 DEF CInv, CommentTally, Marks
<1> QED BY <1>2, <1>5, <1>6 DEF CInv

\* A request about a comment that is not there goes on or ends: what it counts
\* off is missed.
LEMMA AbsentC ==
  ASSUME Base, CInv, NoOdd, NEW p \in Procs, p \in Absent, Others(p),
         Ended(p) \/ (Went(p) /\ id'[p] = id[p]), \A i \in Interacts : SameFate(i),
         UNCHANGED <<liked, like>>, comment' + missed' = comment + missed
  PROVE  CInv'
<1>1. op[p] = "uncomment" /\ id[p] # 0 /\ id[p] \in Interacts /\ fate[id[p]] = "none"
  BY AbsentDeletes, BaseFacts DEF Absent
<1>2. op'[p] \in {"uncomment", "none"} /\ id'[p] \in {0, id[p]}
  BY <1>1 DEF Ended, Went
<1>3. ASSUME NEW o, NEW c, o \in {"like", "unlike", "comment"}
      PROVE  Counted(o, c)' = Counted(o, c)
  <2>1. p \notin Counted(o, c) /\ p \notin Counted(o, c)' BY <1>1, <1>2, <1>3 DEF Counted
  <2> QED BY <2>1, Unmoved
<1>4. Uncounted' = Uncounted
  <2>1. p \in Absent' \/ id'[p] = 0 BY <1>1, <1>2 DEF Absent, SameFate
  <2>2. p \notin Uncounted /\ p \notin Uncounted' BY <2>1 DEF Uncounted, Counted
  <2>3. \A q \in Procs \ {p} :
          id[q] # 0 => (fate'[id[q]] = "none" <=> fate[id[q]] = "none")
    BY BaseFacts DEF SameFate
  <2> QED BY <2>2, <2>3, UncountedBut
<1>5. \A k : Present(k)' = Present(k) BY PresentSame
<1>6. LikeTally' BY <1>3, <1>5 DEF CInv, LikeTally
<1>7. CommentTally' BY <1>3, <1>4, <1>5 DEF CInv, CommentTally
<1>8. ASSUME NEW u \in Users PROVE LikedOK(u)'
  <2>1. LikedOK(u) BY DEF CInv
  <2>2. LikesOf(u, "sent")' = LikesOf(u, "sent") /\ LikesOf(u, "gone")' = LikesOf(u, "gone")
    BY LikesSame
  <2>3. /\ p \notin Liking(u) /\ p \notin Unliked(u) /\ p \notin Unliking(u)
        /\ p \notin Liking(u)' /\ p \notin Unliked(u)' /\ p \notin Unliking(u)'
    BY <1>1, <1>2 DEF Liking, Unliked, Unliking, Counted
  <2>4. Liking(u)' = Liking(u) /\ Unliked(u)' = Unliked(u) /\ Unliking(u)' = Unliking(u)
    BY <2>3, Unmoved
  <2> QED BY <2>1, <2>2, <2>4 DEF LikedOK
<1>9. LeaversThere'
  <2> SUFFICES ASSUME NEW i \in Interacts, fate'[i] = "leaving"
               PROVE  \E q \in Procs : Deletes(q)' /\ id'[q] = i
    BY DEF LeaversThere
  <2>1. fate[i] = "leaving" BY DEF SameFate
  <2>2. PICK q \in Procs : Deletes(q) /\ id[q] = i BY <2>1 DEF CInv, LeaversThere
  <2>3. q # p BY <1>1, <2>1, <2>2
  <2> QED BY <2>2, <2>3, ButForP
<1> QED BY <1>6, <1>7, <1>8, <1>9 DEF CInv

LEMMA CountersInt ==
  ASSUME BoundsOK, MissedOK
  PROVE  like \in Int /\ comment \in Int /\ missed \in Int
BY DEF BoundsOK, MissedOK, Room

LEMMA CountStatC ==
  ASSUME Base, BoundsOK, MissedOK, CInv, NoOdd, NEW p \in Procs, CountStat(p)
  PROVE  CInv'
<1>1. /\ Others(p) /\ Quiet(p) /\ id[p] # 0 /\ Now(p) \in Left(p)
      /\ UNCHANGED <<sequence, rough, lists, notice, liked>>
      /\ \/ Now(p) = "countLike" /\ like' = like + 1 /\ UNCHANGED comment
         \/ Now(p) = "uncountLike" /\ like' = like - 1 /\ UNCHANGED comment
         \/ Now(p) = "countComment" /\ comment' = comment + 1 /\ UNCHANGED like
         \/ Now(p) = "uncountComment" /\ comment' = comment - 1 /\ UNCHANGED like
      /\ missed' = IF Now(p) = "uncountComment" /\ ~ Exists(id[p]) THEN missed + 1 ELSE missed
  BY CountStatMove
<1>2. /\ id'[p] = id[p] /\ op'[p] = op[p] /\ user'[p] = user[p]
      /\ Left(p)' = Left(p) \ {Now(p)} /\ fate' = fate
  BY <1>1 DEF Quiet, Went
<1>3. \A i \in Interacts : SameFate(i) BY <1>1, <1>2 DEF SameFate
<1>4. ASSUME NEW M, Now(p) \notin M PROVE \A q \in Procs : SameMark(q, M)
  <2>1. SameMark(p, M) BY <1>2, <1>4 DEF SameMark
  <2> QED BY <1>1, <2>1, OthersMarks
<1>5. \A q \in Procs : SameMark(q, {"addLike", "remLike"}) /\ SameMark(q, {}) BY <1>1, <1>4
<1>6. (\A u \in Users : LikedOK(u)') /\ LeaversThere'
  BY <1>1, <1>3, <1>5, LikedKept, LeaversKept
<1>7. \A k : Present(k)' = Present(k) BY <1>3, PresentSame
<1>8. ASSUME NEW o, NEW c, c # Now(p) PROVE Counted(o, c)' = Counted(o, c)
  <2>1. \A q \in Procs : SameMark(q, {c}) BY <1>4, <1>8
  <2> QED BY <2>1, CountedSame
<1>9. ASSUME NEW o, o = op[p], NEW c, c = Now(p)
      PROVE  Counted(o, c)' = Counted(o, c) \cup {p} /\ p \notin Counted(o, c)
  <2>1. op'[p] = o /\ id'[p] # 0 /\ c \notin Left(p)' BY <1>1, <1>2, <1>9
  <2>2. Counted(o, c)' = Counted(o, c) \cup {p} BY <1>1, <2>1, CountedMore
  <2>3. p \notin Counted(o, c) BY <1>1, <1>9 DEF Counted
  <2> QED BY <2>2, <2>3
<1>10. LikeTally /\ CommentTally /\ like \in Int /\ comment \in Int /\ missed \in Int
  BY CountersInt DEF CInv
<1>11. ASSUME Now(p) # "uncountComment" PROVE Uncounted' = Uncounted
  <2>1. \A q \in Procs : SameMark(q, {"uncountComment"}) BY <1>4, <1>11
  <2> QED BY <1>3, <2>1, UncountedSame
<1>12. CASE Now(p) = "countLike" /\ like' = like + 1 /\ UNCHANGED comment
  <2>1. op[p] = "like" /\ missed' = missed BY <1>1, <1>12, WhoseCommand DEF Base
  <2>2. Tally(like + 1, Present("like"), Counted("like", "countLike") \cup {p},
              Counted("unlike", "uncountLike"))
    BY <1>9, <1>10, <1>12, <2>1, TallyCount DEF LikeTally
  <2>3. LikeTally' BY <1>7, <1>8, <1>9, <1>12, <2>1, <2>2 DEF LikeTally
  <2>4. CommentTally' BY <1>7, <1>8, <1>10, <1>11, <1>12, <2>1 DEF CommentTally
  <2> QED BY <1>6, <2>3, <2>4 DEF CInv
<1>13. CASE Now(p) = "uncountLike" /\ like' = like - 1 /\ UNCHANGED comment
  <2>1. op[p] = "unlike" /\ missed' = missed BY <1>1, <1>13, WhoseCommand DEF Base
  <2>2. Tally(like - 1, Present("like"), Counted("like", "countLike"),
              Counted("unlike", "uncountLike") \cup {p})
    BY <1>9, <1>10, <1>13, <2>1, TallyUncount DEF LikeTally
  <2>3. LikeTally' BY <1>7, <1>8, <1>9, <1>13, <2>1, <2>2 DEF LikeTally
  <2>4. CommentTally' BY <1>7, <1>8, <1>10, <1>11, <1>13, <2>1 DEF CommentTally
  <2> QED BY <1>6, <2>3, <2>4 DEF CInv
<1>14. CASE Now(p) = "countComment" /\ comment' = comment + 1 /\ UNCHANGED like
  <2>1. op[p] = "comment" /\ missed' = missed BY <1>1, <1>14, WhoseCommand DEF Base
  <2>2. comment + missed \in Int /\ comment' + missed' = (comment + missed) + 1
    BY <1>10, <1>14, <2>1
  <2>3. Tally((comment + missed) + 1, Present("comment"),
              Counted("comment", "countComment") \cup {p}, Uncounted)
    BY <1>9, <1>10, <1>14, <2>1, <2>2, TallyCount DEF CommentTally
  <2>4. CommentTally' BY <1>7, <1>9, <1>11, <1>14, <2>1, <2>2, <2>3 DEF CommentTally
  <2>5. LikeTally' BY <1>7, <1>8, <1>10, <1>14 DEF LikeTally
  <2> QED BY <1>6, <2>4, <2>5 DEF CInv
<1>15. CASE /\ Now(p) = "uncountComment" /\ comment' = comment - 1 /\ UNCHANGED like
            /\ Exists(id[p])
  <2>1. op[p] = "uncomment" /\ missed' = missed BY <1>1, <1>15, WhoseCommand DEF Base
  <2>2. comment + missed \in Int /\ comment' + missed' = (comment + missed) - 1
    BY <1>10, <1>15, <2>1
  <2>3. Uncounted' = Uncounted \cup {p} /\ p \notin Uncounted
    <3>1. /\ Counted("uncomment", "uncountComment")' =
               Counted("uncomment", "uncountComment") \cup {p}
          /\ p \notin Counted("uncomment", "uncountComment")
      BY <1>9, <1>15, <2>1
    <3>2. fate[id[p]] # "none" BY <1>1, <1>15, BaseFacts, ExistsFate
    <3>3. p \notin Absent' BY <1>2, <3>2 DEF Absent
    <3>4. \A q \in Procs \ {p} : q \in Absent' <=> q \in Absent
      BY <1>1, <1>2 DEF Absent, Others, SameRequest
    <3>5. Counted("uncomment", "uncountComment") \subseteq Procs BY DEF Counted
    <3> QED BY <3>1, <3>3, <3>4, <3>5 DEF Uncounted
  <2>4. Tally((comment + missed) - 1, Present("comment"), Counted("comment", "countComment"),
              Uncounted \cup {p})
    BY <1>10, <2>2, <2>3, TallyUncount DEF CommentTally
  <2>5. CommentTally' BY <1>7, <1>8, <1>15, <2>2, <2>3, <2>4 DEF CommentTally
  <2>6. LikeTally' BY <1>7, <1>8, <1>10, <1>15 DEF LikeTally
  <2> QED BY <1>6, <2>5, <2>6 DEF CInv
<1>16. CASE /\ Now(p) = "uncountComment" /\ comment' = comment - 1 /\ UNCHANGED like
            /\ ~ Exists(id[p])
  <2>1. missed' = missed + 1 BY <1>1, <1>16
  <2>2. comment' + missed' = comment + missed BY <1>10, <1>16, <2>1
  <2>3. p \in Absent BY <1>1, <1>16, BaseFacts, ExistsFate DEF Absent
  <2>4. Went(p) BY <1>1 DEF Quiet
  <2> QED BY <1>1, <1>2, <1>3, <1>16, <2>2, <2>3, <2>4, AbsentC
<1> QED BY <1>1, <1>12, <1>13, <1>14, <1>15, <1>16

\* What else is counted stays when only p moves, and what p has counted with
\* the commands of M.
LEMMA TalliesKept ==
  ASSUME Base, CInv, NoOdd, UNCHANGED <<like, comment, missed>>,
         \A q \in Procs : SameMark(q, Marks \ {"addLike", "remLike"}),
         \A i \in Interacts : SameFate(i)
  PROVE  LikeTally' /\ CommentTally'
<1>1. \A k : Present(k)' = Present(k) BY PresentSame
<1>2. \A o : \A c \in Marks \ {"addLike", "remLike"} : Counted(o, c)' = Counted(o, c)
  BY CountedSame
<1>3. \A q \in Procs : SameMark(q, {"uncountComment"}) BY DEF SameMark, Marks
<1>4. Uncounted' = Uncounted BY <1>3, UncountedSame
<1>5. LikeTally' BY <1>1, <1>2 DEF CInv, LikeTally, Marks
<1>6. CommentTally' BY <1>1, <1>2, <1>4 DEF CInv, CommentTally, Marks
<1> QED BY <1>5, <1>6

LEMMA SetLikedC ==
  ASSUME Base, CInv, NoOdd, NEW p \in Procs, SetLiked(p), missed' = missed
  PROVE  CInv'
<1>1. /\ Others(p) /\ Quiet(p) /\ id[p] # 0 /\ Now(p) \in Left(p)
      /\ UNCHANGED <<sequence, rough, lists, notice, like, comment>>
      /\ \/ Now(p) = "addLike" /\ liked' = liked \cup {user[p]}
         \/ Now(p) = "remLike" /\ liked' = liked \ {user[p]}
  BY SetLikedMove
<1>2. /\ id'[p] = id[p] /\ op'[p] = op[p] /\ user'[p] = user[p]
      /\ Left(p)' = Left(p) \ {Now(p)} /\ fate' = fate
  BY <1>1 DEF Quiet, Went
<1>3. \A i \in Interacts : SameFate(i) BY <1>1, <1>2 DEF SameFate
<1>4. ASSUME NEW M, Now(p) \notin M PROVE \A q \in Procs : SameMark(q, M)
  <2>1. SameMark(p, M) BY <1>2, <1>4 DEF SameMark
  <2> QED BY <1>1, <2>1, OthersMarks
<1>5. /\ \A q \in Procs : SameMark(q, Marks \ {"addLike", "remLike"}) /\ SameMark(q, {})
  BY <1>1, <1>4
<1>6. LeaversThere' BY <1>3, <1>5, LeaversKept
<1>7. LikeTally' /\ CommentTally' BY <1>1, <1>3, <1>5, TalliesKept
<1>8. ASSUME NEW u \in Users PROVE LikedOK(u)'
  <2>1. LikedOK(u) BY DEF CInv
  <2>2. /\ LikesOf(u, "sent")' = LikesOf(u, "sent")
        /\ LikesOf(u, "gone")' = LikesOf(u, "gone")
    BY <1>3, LikesSame
  <2>3. /\ \A q \in Procs \ {p} : /\ q \in Liking(u)' <=> q \in Liking(u)
                                  /\ q \in Unliked(u)' <=> q \in Unliked(u)
                                  /\ q \in Unliking(u)' <=> q \in Unliking(u)
    <3>1. \A q \in Procs \ {p} : SameRequest(q) /\ Left(q)' = Left(q)
      BY <1>1, SameFacts DEF Others
    <3> QED BY <3>1 DEF Liking, Unliked, Unliking, Counted, SameRequest
  <2>4. CASE Now(p) = "addLike" /\ liked' = liked \cup {user[p]}
    <3>1. op[p] = "like" BY <1>1, <2>4, WhoseCommand DEF Base
    <3>2. p \in Liking(u)' <=> user[p] = u
      BY <1>1, <1>2, <2>4, <3>1 DEF Liking, Counted
    <3>3. p \notin Liking(u) /\ p \notin Unliked(u) /\ p \notin Unliking(u)
          /\ p \notin Unliked(u)' /\ p \notin Unliking(u)'
      BY <1>1, <1>2, <2>4, <3>1 DEF Liking, Unliked, Unliking, Counted
    <3>4. /\ Unliked(u)' = Unliked(u) /\ Unliking(u)' = Unliking(u)
      BY <2>3, <3>3 DEF Unliked, Unliking, Counted
    <3>5. CASE user[p] = u BY <2>4, <3>2, <3>5 DEF LikedOK
    <3>6. CASE user[p] # u
      <4>1. Liking(u)' = Liking(u) BY <2>3, <3>2, <3>3, <3>6 DEF Liking, Counted
      <4>2. u \in liked' <=> u \in liked BY <2>4, <3>6
      <4> QED BY <2>1, <2>2, <3>4, <4>1, <4>2 DEF LikedOK
    <3> QED BY <3>5, <3>6
  <2>5. CASE Now(p) = "remLike" /\ liked' = liked \ {user[p]}
    <3>1. op[p] = "unlike" BY <1>1, <2>5, WhoseCommand DEF Base
    <3>2. p \in Unliked(u)' <=> user[p] = u
      BY <1>1, <1>2, <2>5, <3>1 DEF Unliked, Counted
    <3>3. p \notin Liking(u) /\ p \notin Liking(u)'
      BY <1>1, <1>2, <3>1 DEF Liking, Counted
    <3>4. Liking(u)' = Liking(u) BY <2>3, <3>3 DEF Liking, Counted
    <3>5. CASE user[p] = u BY <2>5, <3>2, <3>5 DEF LikedOK
    <3>6. CASE user[p] # u
      <4>1. /\ p \notin Unliked(u) /\ p \notin Unliked(u)'
            /\ p \notin Unliking(u) /\ p \notin Unliking(u)'
        BY <1>2, <3>6 DEF Unliked, Unliking
      <4>2. Unliked(u)' = Unliked(u) /\ Unliking(u)' = Unliking(u)
        BY <2>3, <4>1 DEF Unliked, Unliking, Counted
      <4>3. u \in liked' <=> u \in liked BY <2>5, <3>6
      <4> QED BY <2>1, <2>2, <3>4, <4>2, <4>3 DEF LikedOK
    <3> QED BY <3>5, <3>6
  <2> QED BY <1>1, <2>4, <2>5
<1> QED BY <1>6, <1>7, <1>8 DEF CInv

\* An interaction that is all there: its like or comment was counted by the
\* request, and is now counted by itself.
LEMMA SentC ==
  ASSUME Base, FInv, CInv, NoOdd, NoOdd', BoundsOK, MissedOK, NEW p \in Procs, Others(p),
         Ended(p), Sends(p), id[p] # 0, Now(p) \in {"readOwner", "linkNotice"},
         fate' = FateWhenDone(p), UNCHANGED <<rough, liked, like, comment, missed>>
  PROVE  CInv'
<1> PICK j : j = id[p] OBVIOUS
<1>1. j \in Interacts /\ ~ Idle(p) /\ ~ Deletes(p) /\ j # 0 BY BaseFacts
<1>2. fate[j] = "sending" /\ fate'[j] = "sent"
  <2>1. fate'[j] # "odd" BY <1>1 DEF NoOdd
  <2> QED BY <2>1, SentFate
<1>3. \A i \in Interacts \ {j} : fate'[i] = fate[i]
  BY <1>1, FateFacts DEF Base, DataT
<1>4. /\ "countLike" \notin Left(p) /\ "addLike" \notin Left(p) /\ "countComment" \notin Left(p)
      /\ "setRough" \notin Left(p)
  BY <1>1, NowFacts DEF Base
<1>5. rough[j].kind = op[p] /\ rough[j].user = user[p]
  <2>1. SendingOK(p) BY DEF FInv
  <2>2. rough[j].kind = op[p] BY <1>1, <1>4, <2>1 DEF SendingOK
  <2>3. rough[j].user = user[p] BY <1>1, <1>2, SentThere
  <2> QED BY <2>2, <2>3
<1>6. op[p] \in {"like", "comment"} BY DEF Sends, Kinds
<1>7. \A k : /\ k = op[p] => Present(k)' = Present(k) \cup {j} /\ j \notin Present(k)
             /\ k # op[p] => Present(k)' = Present(k)
  <2> SUFFICES ASSUME NEW k
               PROVE  /\ k = op[p] => Present(k)' = Present(k) \cup {j} /\ j \notin Present(k)
                      /\ k # op[p] => Present(k)' = Present(k)
    OBVIOUS
  <2>1. \A i \in Interacts \ {j} : i \in Present(k)' <=> i \in Present(k)
    BY <1>3 DEF Present, All
  <2>2. j \notin Present(k) /\ (j \in Present(k)' <=> k = op[p])
    BY <1>1, <1>2, <1>5 DEF Present, All
  <2>3. Present(k) \subseteq Interacts /\ Present(k)' \subseteq Interacts BY DEF Present, All
  <2> QED BY <1>1, <2>1, <2>2, <2>3
<1>8. op'[p] = "none" /\ id'[p] = 0 BY DEF Ended
<1>9. \A o, c : Counted(o, c)' = Counted(o, c) \ {p} BY <1>8, CountedLess
<1>10. ASSUME NEW o, NEW c, o # op[p] PROVE Counted(o, c)' = Counted(o, c)
  <2>1. p \notin Counted(o, c) BY <1>10 DEF Counted
  <2> QED BY <1>9, <2>1
<1>11. Uncounted' = Uncounted
  <2>1. p \notin Uncounted /\ p \notin Uncounted' BY <1>6, <1>8 DEF Uncounted, Counted
  <2>2. \A i \in Interacts : fate'[i] = "none" <=> fate[i] = "none" BY <1>2, <1>3
  <2> QED BY <2>1, <2>2, UncountedBut, BaseFacts
<1>12. LikeTally' /\ CommentTally'
  <2>1. /\ LikeTally /\ CommentTally /\ like \in Int /\ comment + missed \in Int
        /\ like' = like /\ comment' = comment /\ missed' = missed
    BY CountersInt DEF CInv
  <2>2. CASE op[p] = "like"
    <3>1. p \in Counted("like", "countLike") BY <1>4, <2>2 DEF Counted
    <3>2. Tally(like, Present("like") \cup {j}, Counted("like", "countLike") \ {p},
                Counted("unlike", "uncountLike"))
      BY <1>7, <2>1, <2>2, <3>1, TallySent DEF LikeTally
    <3>3. LikeTally' BY <1>7, <1>9, <1>10, <2>1, <2>2, <3>2 DEF LikeTally
    <3>4. CommentTally' BY <1>7, <1>10, <1>11, <2>1, <2>2 DEF CommentTally
    <3> QED BY <3>3, <3>4
  <2>3. CASE op[p] = "comment"
    <3>1. p \in Counted("comment", "countComment") BY <1>4, <2>3 DEF Counted
    <3>2. Tally(comment + missed, Present("comment") \cup {j},
                Counted("comment", "countComment") \ {p}, Uncounted)
      BY <1>7, <2>1, <2>3, <3>1, TallySent DEF CommentTally
    <3>3. LikeTally' BY <1>7, <1>10, <2>1, <2>3 DEF LikeTally
    <3>4. CommentTally' BY <1>7, <1>9, <1>11, <2>1, <2>3, <3>2 DEF CommentTally
    <3> QED BY <3>3, <3>4
  <2> QED BY <1>6, <2>2, <2>3
<1>13. ASSUME NEW u \in Users PROVE LikedOK(u)'
  <2>1. LikedOK(u) BY DEF CInv
  <2>2. LikesOf(u, "gone")' = LikesOf(u, "gone")
    BY <1>2, <1>3 DEF LikesOf, All
  <2>3. LikesOf(u, "sent") \subseteq LikesOf(u, "sent")'
    BY <1>2, <1>3 DEF LikesOf, All
  <2>4. Unliked(u)' = Unliked(u) /\ Unliking(u)' = Unliking(u)
    <3>1. /\ p \notin Unliked(u) /\ p \notin Unliking(u)
          /\ p \notin Unliked(u)' /\ p \notin Unliking(u)'
      BY <1>6, <1>8 DEF Unliked, Unliking, Counted
    <3> QED BY <3>1, Unmoved
  <2>5. Liking(u)' = Liking(u) \ {p}
    <3>1. p \notin Liking(u)' BY <1>8 DEF Liking, Counted
    <3> QED BY <3>1, ButForP
  <2>6. CASE op[p] = "like" /\ user[p] = u
    <3>1. j \in LikesOf(u, "sent")' BY <1>1, <1>2, <1>5, <2>6 DEF LikesOf, All
    <3>2. p \in Liking(u) BY <1>4, <2>6 DEF Liking, Counted
    <3> QED BY <2>1, <2>2, <2>4, <3>1, <3>2 DEF LikedOK
  <2>7. CASE ~ (op[p] = "like" /\ user[p] = u)
    <3>1. LikesOf(u, "sent")' = LikesOf(u, "sent")
      BY <1>2, <1>3, <1>5, <2>7 DEF LikesOf, All
    <3>2. Liking(u)' = Liking(u) BY <2>5, <2>7 DEF Liking, Counted
    <3> QED BY <2>1, <2>2, <2>4, <3>1, <3>2 DEF LikedOK
  <2> QED BY <2>6, <2>7
<1>14. LeaversThere'
  <2> SUFFICES ASSUME NEW i \in Interacts, fate'[i] = "leaving"
               PROVE  \E q \in Procs : Deletes(q)' /\ id'[q] = i
    BY DEF LeaversThere
  <2>1. fate[i] = "leaving" BY <1>2, <1>3
  <2>2. PICK q \in Procs : Deletes(q) /\ id[q] = i BY <2>1 DEF CInv, LeaversThere
  <2>3. q # p BY <1>1, <2>2
  <2> QED BY <2>2, <2>3, ButForP
<1> QED BY <1>12, <1>13, <1>14 DEF CInv

\* An interaction that is gone: its like or comment was counted off by the
\* request, and is no longer counted by itself.
LEMMA SetDeletedC ==
  ASSUME Base, FInv, CInv, NoOdd, NoOdd', BoundsOK, MissedOK, NEW p \in Procs,
         SetDeleted(p), missed' = missed, p \notin Absent
  PROVE  CInv'
<1> PICK j : j = id[p] OBVIOUS
<1>0. /\ Others(p) /\ Ended(p) /\ fate' = FateWhenDone(p)
      /\ j # 0 /\ j \in Interacts /\ Deletes(p)
      /\ Now(p) = "setDeleted" /\ Now(p) \in Left(p)
      /\ rough' = [rough EXCEPT ![j].is_delete = TRUE]
      /\ UNCHANGED <<sequence, lists, notice, counters>>
  BY SetDeletedMove
<1>1. ~ Idle(p) /\ ~ Sends(p) BY <1>0, BaseFacts
<1>2. fate[j] = "leaving" /\ fate'[j] = "gone"
  <2>1. fate'[j] # "odd" /\ fate[j] # "odd" BY <1>0 DEF NoOdd
  <2>2. DeletingOK(p) BY DEF FInv
  <2>3. fate[j] = "leaving" BY <1>0, <2>1, <2>2 DEF DeletingOK, Absent
  <2> QED BY <1>0, <1>1, <2>3, FateFacts DEF Base, DataT
<1>3. \A i \in Interacts \ {j} : fate'[i] = fate[i]
  BY <1>0, FateFacts DEF Base, DataT
<1>4. /\ "uncountLike" \notin Left(p) /\ "remLike" \notin Left(p)
      /\ "uncountComment" \notin Left(p)
  BY <1>0, <1>1, NowFacts DEF Base
<1>5. rough[j].kind = KindOf[op[p]] /\ rough[j].user = user[p]
  <2>1. DeletingOK(p) BY DEF FInv
  <2> QED BY <1>0, <1>2, <2>1 DEF DeletingOK
<1>6. op[p] \in {"unlike", "uncomment"} BY <1>0 DEF Deletes
<1>7. \A i \in Interacts : /\ fate[i] \in {"sent", "leaving", "gone"} =>
                                rough'[i].kind = rough[i].kind /\ rough'[i].user = rough[i].user
  <2> SUFFICES ASSUME NEW i \in Interacts, fate[i] \in {"sent", "leaving", "gone"}
               PROVE  rough'[i].kind = rough[i].kind /\ rough'[i].user = rough[i].user
    OBVIOUS
  <2>1. rough[i] \in Rough BY DEF FInv, ThereOK
  <2>2. rough'[i] = rough[i] \/ rough'[i] = [rough[i] EXCEPT !.is_delete = TRUE]
    BY <1>0 DEF Base, IInv, StoreOK
  <2> QED BY <2>1, <2>2 DEF Rough
<1>8. \A k : /\ k = KindOf[op[p]] => Present(k)' = Present(k) \ {j} /\ j \in Present(k)
             /\ k # KindOf[op[p]] => Present(k)' = Present(k)
  <2> SUFFICES ASSUME NEW k
               PROVE  /\ k = KindOf[op[p]] => Present(k)' = Present(k) \ {j} /\ j \in Present(k)
                      /\ k # KindOf[op[p]] => Present(k)' = Present(k)
    OBVIOUS
  <2>1. \A i \in Interacts \ {j} : i \in Present(k)' <=> i \in Present(k)
    BY <1>3, <1>7 DEF Present, All
  <2>2. j \notin Present(k)' /\ (j \in Present(k) <=> k = KindOf[op[p]])
    BY <1>0, <1>2, <1>5 DEF Present, All
  <2>3. Present(k) \subseteq Interacts /\ Present(k)' \subseteq Interacts BY DEF Present, All
  <2> QED BY <2>1, <2>2, <2>3
<1>9. op'[p] = "none" /\ id'[p] = 0 BY <1>0 DEF Ended
<1>10. \A o, c : Counted(o, c)' = Counted(o, c) \ {p} BY <1>0, <1>9, CountedLess
<1>11. ASSUME NEW o, NEW c, o # op[p] PROVE Counted(o, c)' = Counted(o, c)
  <2>1. p \notin Counted(o, c) BY <1>11 DEF Counted
  <2> QED BY <1>10, <2>1
<1>12. UNCHANGED <<like, comment, liked, missed>> BY <1>0 DEF counters
<1>13. LikeTally' /\ CommentTally'
  <2>1. LikeTally /\ CommentTally /\ like \in Int /\ comment + missed \in Int
    BY CountersInt DEF CInv
  <2>2. \A q \in Procs \ {p} : q \in Uncounted' <=> q \in Uncounted
    <3>1. \A i \in Interacts : fate'[i] = "none" <=> fate[i] = "none" BY <1>2, <1>3
    <3> QED BY <1>0, <3>1, UncountedBut, BaseFacts
  <2>3. p \notin Uncounted' /\ Uncounted \subseteq Procs /\ Uncounted' \subseteq Procs
    BY <1>9 DEF Uncounted, Counted
  <2>4. CASE op[p] = "unlike"
    <3>1. p \in Counted("unlike", "uncountLike") BY <1>0, <1>4, <2>4 DEF Counted
    <3>2. KindOf[op[p]] = "like" BY <2>4 DEF KindOf
    <3>3. Tally(like, Present("like") \ {j}, Counted("like", "countLike"),
                Counted("unlike", "uncountLike") \ {p})
      BY <1>8, <2>1, <3>1, <3>2, TallyGone DEF LikeTally
    <3>4. p \notin Uncounted BY <2>4 DEF Uncounted, Counted
    <3>5. Uncounted' = Uncounted BY <2>2, <2>3, <3>4
    <3>6. LikeTally' BY <1>8, <1>10, <1>11, <1>12, <2>4, <3>2, <3>3 DEF LikeTally
    <3>7. CommentTally' BY <1>8, <1>11, <1>12, <2>1, <2>4, <3>2, <3>5 DEF CommentTally
    <3> QED BY <3>6, <3>7
  <2>5. CASE op[p] = "uncomment"
    <3>1. p \in Uncounted BY <1>0, <1>4, <2>5 DEF Uncounted, Counted
    <3>2. KindOf[op[p]] = "comment" BY <2>5 DEF KindOf
    <3>3. Tally(comment + missed, Present("comment") \ {j}, Counted("comment", "countComment"),
                Uncounted \ {p})
      BY <1>8, <2>1, <3>1, <3>2, TallyGone DEF CommentTally
    <3>4. Uncounted' = Uncounted \ {p} BY <2>2, <2>3
    <3>5. LikeTally' BY <1>8, <1>11, <1>12, <2>1, <2>5, <3>2 DEF LikeTally
    <3>6. CommentTally' BY <1>8, <1>11, <1>12, <2>5, <3>2, <3>3, <3>4 DEF CommentTally
    <3> QED BY <3>5, <3>6
  <2> QED BY <1>6, <2>4, <2>5
<1>14. ASSUME NEW u \in Users PROVE LikedOK(u)'
  <2>1. LikedOK(u) BY DEF CInv
  <2>2. LikesOf(u, "sent")' = LikesOf(u, "sent")
    <3>1. \A i \in Interacts \ {j} : i \in LikesOf(u, "sent")' <=> i \in LikesOf(u, "sent")
      BY <1>3, <1>7 DEF LikesOf, All
    <3>2. j \notin LikesOf(u, "sent")' /\ j \notin LikesOf(u, "sent")
      BY <1>2 DEF LikesOf, All
    <3>3. LikesOf(u, "sent") \subseteq Interacts /\ LikesOf(u, "sent")' \subseteq Interacts
      BY DEF LikesOf, All
    <3> QED BY <3>1, <3>2, <3>3
  <2>3. LikesOf(u, "gone") \subseteq LikesOf(u, "gone")'
    BY <1>2, <1>3, <1>7 DEF LikesOf, All
  <2>4. Liking(u)' = Liking(u) /\ Unliking(u)' = Unliking(u)
    <3>1. /\ p \notin Liking(u) /\ p \notin Liking(u)'
          /\ p \notin Unliking(u) /\ p \notin Unliking(u)'
      BY <1>4, <1>6, <1>9 DEF Liking, Unliking, Counted
    <3> QED BY <1>0, <3>1, Unmoved
  <2>5. CASE op[p] = "unlike" /\ user[p] = u
    <3>1. KindOf[op[p]] = "like" BY <2>5 DEF KindOf
    <3>2. j \in LikesOf(u, "gone")' BY <1>0, <1>2, <1>5, <1>7, <2>5, <3>1 DEF LikesOf, All
    <3> QED BY <1>12, <2>1, <2>2, <2>4, <3>2 DEF LikedOK
  <2>6. CASE ~ (op[p] = "unlike" /\ user[p] = u)
    <3>1. p \notin Unliked(u) /\ p \notin Unliked(u)' BY <1>9, <2>6 DEF Unliked, Counted
    <3>2. Unliked(u)' = Unliked(u) BY <1>0, <3>1, Unmoved
    <3> QED BY <1>12, <2>1, <2>2, <2>3, <2>4, <3>2 DEF LikedOK
  <2> QED BY <2>5, <2>6
<1>15. LeaversThere'
  <2> SUFFICES ASSUME NEW i \in Interacts, fate'[i] = "leaving"
               PROVE  \E q \in Procs : Deletes(q)' /\ id'[q] = i
    BY DEF LeaversThere
  <2>1. fate[i] = "leaving" /\ i # j BY <1>2, <1>3
  <2>2. PICK q \in Procs : Deletes(q) /\ id[q] = i BY <2>1 DEF CInv, LeaversThere
  <2>3. q # p BY <2>1, <2>2
  <2> QED BY <1>0, <2>2, <2>3, ButForP
<1> QED BY <1>13, <1>14, <1>15 DEF CInv

\* A request that has counted nothing yet.
LEMMA EnterTallies ==
  ASSUME CInv, NoOdd, NEW p \in Procs, Others(p), id[p] = 0,
         UNCHANGED <<like, comment, missed>>, \A k : Present(k)' = Present(k),
         \A q \in Procs \ {p} : id[q] # 0 => (fate'[id[q]] = "none" <=> fate[id[q]] = "none"),
         /\ p \notin Counted("like", "countLike")' /\ p \notin Counted("unlike", "uncountLike")'
         /\ p \notin Counted("comment", "countComment")'
         /\ p \notin Counted("uncomment", "uncountComment")'
  PROVE  LikeTally' /\ CommentTally'
<1>1. \A o, c : p \notin Counted(o, c) BY DEF Counted
<1>2. /\ Counted("like", "countLike")' = Counted("like", "countLike")
      /\ Counted("unlike", "uncountLike")' = Counted("unlike", "uncountLike")
      /\ Counted("comment", "countComment")' = Counted("comment", "countComment")
  BY <1>1, Unmoved
<1>3. Uncounted' = Uncounted
  <2>1. p \notin Uncounted /\ p \notin Uncounted' BY <1>1 DEF Uncounted
  <2> QED BY <2>1, UncountedBut
<1> QED BY <1>2, <1>3 DEF CInv, LikeTally, CommentTally

LEMMA IncrSequenceC ==
  ASSUME Base, CInv, NoOdd, NoOdd', NEW p \in Procs, IncrSequence(p), missed' = missed
  PROVE  CInv'
<1> PICK j : j = sequence + 1 OBVIOUS
<1>0. /\ Others(p) /\ Went(p) /\ id[p] = 0 /\ id'[p] = j
      /\ Sends(p) /\ Now(p) = "incr" /\ Left(p) = Program[op[p]]
      /\ j \in Interacts /\ UNCHANGED <<rough, lists, notice, counters>>
      /\ \E f \in {"sending", "odd"} :
           /\ fate' = [fate EXCEPT ![j] = f]
           /\ f = "sending" => \A q \in Procs : Deletes(q) => id[q] # j
  BY IncrSequenceMove
<1>1. /\ Others(p) /\ Went(p) /\ id[p] = 0 /\ id'[p] = j
      /\ Sends(p) /\ Now(p) = "incr" /\ Left(p) = Program[op[p]]
      /\ j \in Interacts /\ fate' = [fate EXCEPT ![j] = "sending"]
      /\ UNCHANGED <<rough, lists, notice, counters>>
      /\ \A q \in Procs : Deletes(q) => id[q] # j
  <2>1. fate'[j] # "odd" BY <1>0 DEF NoOdd
  <2> QED BY <1>0, <2>1 DEF Base, DataT
<1>2. fate[j] = "none" /\ fate'[j] = "sending" /\ \A i \in Interacts \ {j} : fate'[i] = fate[i]
  BY <1>1, BaseFacts DEF Base, DataT
<1>3. /\ op'[p] = op[p] /\ op[p] \in {"like", "comment"}
      /\ Left(p)' = Program[op[p]] \ {"incr"}
  BY <1>1 DEF Went, Sends, Kinds
<1>4. /\ op[p] = "like" => "countLike" \in Left(p)' /\ "addLike" \in Left(p)'
      /\ op[p] = "comment" => "countComment" \in Left(p)'
  BY <1>3 DEF Program
<1>5. \A k : Present(k)' = Present(k) BY <1>1, <1>2 DEF Present, All
<1>6. UNCHANGED <<like, comment, liked>> BY <1>1 DEF counters
<1>7. /\ p \notin Counted("like", "countLike")' /\ p \notin Counted("unlike", "uncountLike")'
      /\ p \notin Counted("comment", "countComment")'
      /\ p \notin Counted("uncomment", "uncountComment")'
  BY <1>3, <1>4 DEF Counted
<1>8. ASSUME NEW u \in Users PROVE LikedOK(u)'
  <2>1. LikedOK(u) BY DEF CInv
  <2>2. /\ LikesOf(u, "sent")' = LikesOf(u, "sent")
        /\ LikesOf(u, "gone")' = LikesOf(u, "gone")
    BY <1>1, <1>2 DEF LikesOf, All
  <2>3. /\ p \notin Liking(u) /\ p \notin Unliked(u) /\ p \notin Unliking(u)
        /\ p \notin Liking(u)' /\ p \notin Unliked(u)' /\ p \notin Unliking(u)'
    BY <1>1, <1>3, <1>4 DEF Liking, Unliked, Unliking, Counted
  <2>4. Liking(u)' = Liking(u) /\ Unliked(u)' = Unliked(u) /\ Unliking(u)' = Unliking(u)
    BY <1>1, <2>3, Unmoved
  <2> QED BY <1>6, <2>1, <2>2, <2>4 DEF LikedOK
<1>9. LeaversThere'
  <2> SUFFICES ASSUME NEW i \in Interacts, fate'[i] = "leaving"
               PROVE  \E q \in Procs : Deletes(q)' /\ id'[q] = i
    BY DEF LeaversThere
  <2>1. fate[i] = "leaving" /\ i # 0 BY <1>2, InteractAssumption DEF Interacts
  <2>2. PICK q \in Procs : Deletes(q) /\ id[q] = i BY <2>1 DEF CInv, LeaversThere
  <2>3. q # p BY <1>1, <2>1, <2>2
  <2> QED BY <1>1, <2>2, <2>3, ButForP
<1>10. \A q \in Procs \ {p} : id[q] # 0 => (fate'[id[q]] = "none" <=> fate[id[q]] = "none")
  <2> SUFFICES ASSUME NEW q \in Procs \ {p}, id[q] # 0, id[q] = j PROVE FALSE
    BY <1>2, BaseFacts
  <2>1. op[q] = "uncomment"
    <3>1. ~ Exists(id[q]) BY <1>1, <1>2, ExistsFate
    <3> QED BY <3>1, BaseFacts
  <2> QED BY <1>1, <2>1 DEF Deletes
<1>11. LikeTally' /\ CommentTally' BY <1>1, <1>5, <1>6, <1>7, <1>10, EnterTallies
<1> QED BY <1>8, <1>9, <1>11 DEF CInv

\* A deletion that begins, or finds what it deletes.
LEMMA LeaveC ==
  ASSUME Base, CInv, NoOdd, NoOdd', NEW p \in Procs, NEW j \in Interacts, NEW u, NEW k,
         Others(p), UNCHANGED <<rough, like, comment, liked, missed>>,
         id[p] = 0, id'[p] = j, user'[p] = u, op'[p] \in {"unlike", "uncomment"},
         k = KindOf[op'[p]], fate' = FateOnDeletion(j, u, k),
         op'[p] = "unlike" => "uncountLike" \in Left(p)' /\ "remLike" \in Left(p)',
         op'[p] = "uncomment" => "uncountComment" \in Left(p)'
  PROVE  CInv'
<1>0. j # 0 BY InteractAssumption DEF Interacts
<1>1. /\ fate[j] = "sent" /\ fate'[j] = "leaving" /\ rough[j].user = u /\ rough[j].kind = k
      /\ \A i \in Interacts \ {j} : fate'[i] = fate[i]
  <2>1. fate' = [fate EXCEPT ![j] = IF Leaves(j, u, k) THEN "leaving" ELSE "odd"]
    BY DEF FateOnDeletion
  <2>2. fate'[j] # "odd" BY DEF NoOdd
  <2>3. Leaves(j, u, k) BY <2>1, <2>2 DEF Base, DataT
  <2> QED BY <2>1, <2>3 DEF Leaves, Base, DataT
<1>2. \A c : Present(c)' = Present(c) BY <1>1 DEF Present, All
<1>3. /\ p \notin Counted("like", "countLike")' /\ p \notin Counted("unlike", "uncountLike")'
      /\ p \notin Counted("comment", "countComment")'
      /\ p \notin Counted("uncomment", "uncountComment")'
  BY DEF Counted
<1>4. ASSUME NEW v \in Users PROVE LikedOK(v)'
  <2>1. LikedOK(v) BY DEF CInv
  <2>2. LikesOf(v, "gone")' = LikesOf(v, "gone") BY <1>1 DEF LikesOf, All
  <2>3. LikesOf(v, "sent")' \subseteq LikesOf(v, "sent") BY <1>1 DEF LikesOf, All
  <2>4. Liking(v)' = Liking(v) /\ Unliked(v)' = Unliked(v)
    <3>1. /\ p \notin Liking(v) /\ p \notin Unliked(v)
          /\ p \notin Liking(v)' /\ p \notin Unliked(v)'
      BY DEF Liking, Unliked, Counted
    <3> QED BY <3>1, Unmoved
  <2>5. CASE op'[p] = "unlike" /\ u = v
    <3>1. p \in Unliking(v)' BY <1>0, <2>5 DEF Unliking
    <3> QED BY <2>1, <2>2, <2>3, <2>4, <3>1 DEF LikedOK
  <2>6. CASE ~ (op'[p] = "unlike" /\ u = v)
    <3>1. p \notin Unliking(v) /\ p \notin Unliking(v)' BY <2>6 DEF Unliking
    <3>2. Unliking(v)' = Unliking(v) BY <3>1, Unmoved
    <3>3. j \notin LikesOf(v, "sent")
      <4>1. op'[p] = "uncomment" => k = "comment" BY DEF KindOf
      <4> QED BY <1>1, <2>6, <4>1 DEF LikesOf, All
    <3>4. LikesOf(v, "sent")' = LikesOf(v, "sent") BY <1>1, <3>3 DEF LikesOf, All
    <3> QED BY <2>1, <2>2, <2>4, <3>2, <3>4 DEF LikedOK
  <2> QED BY <2>5, <2>6
<1>5. LeaversThere'
  <2> SUFFICES ASSUME NEW i \in Interacts, fate'[i] = "leaving"
               PROVE  \E q \in Procs : Deletes(q)' /\ id'[q] = i
    BY DEF LeaversThere
  <2>1. CASE i = j
    <3>1. Deletes(p)' BY DEF Deletes
    <3> QED BY <2>1, <3>1
  <2>2. CASE i # j
    <3>1. fate[i] = "leaving" /\ i # 0 BY <1>1, <2>2, InteractAssumption DEF Interacts
    <3>2. PICK q \in Procs : Deletes(q) /\ id[q] = i BY <3>1 DEF CInv, LeaversThere
    <3>3. q # p BY <3>1, <3>2
    <3> QED BY <3>2, <3>3, ButForP
  <2> QED BY <2>1, <2>2
<1>6. \A q \in Procs \ {p} : id[q] # 0 => (fate'[id[q]] = "none" <=> fate[id[q]] = "none")
  BY <1>1, BaseFacts
<1>7. LikeTally' /\ CommentTally' BY <1>2, <1>3, <1>6, EnterTallies
<1> QED BY <1>4, <1>5, <1>7 DEF CInv

\* A deletion begins of a comment that is not there.
LEMMA VainC ==
  ASSUME Base, CInv, NoOdd, NEW p \in Procs, Others(p), id[p] = 0,
         id'[p] # 0, op'[p] = "uncomment", "uncountComment" \in Left(p)',
         UNCHANGED <<fate, rough, like, comment, liked, missed>>
  PROVE  CInv'
<1>1. \A i \in Interacts : SameFate(i) BY DEF SameFate
<1>2. \A k : Present(k)' = Present(k) BY <1>1, PresentSame
<1>3. /\ p \notin Counted("like", "countLike")' /\ p \notin Counted("unlike", "uncountLike")'
      /\ p \notin Counted("comment", "countComment")'
      /\ p \notin Counted("uncomment", "uncountComment")'
  BY DEF Counted
<1>4. LikeTally' /\ CommentTally' BY <1>2, <1>3, EnterTallies
<1>5. ASSUME NEW u \in Users PROVE LikedOK(u)'
  <2>1. LikedOK(u) BY DEF CInv
  <2>2. LikesOf(u, "sent")' = LikesOf(u, "sent") /\ LikesOf(u, "gone")' = LikesOf(u, "gone")
    BY <1>1, LikesSame
  <2>3. /\ p \notin Liking(u) /\ p \notin Unliked(u) /\ p \notin Unliking(u)
        /\ p \notin Liking(u)' /\ p \notin Unliked(u)' /\ p \notin Unliking(u)'
    BY DEF Liking, Unliked, Unliking, Counted
  <2>4. Liking(u)' = Liking(u) /\ Unliked(u)' = Unliked(u) /\ Unliking(u)' = Unliking(u)
    BY <2>3, Unmoved
  <2> QED BY <2>1, <2>2, <2>4 DEF LikedOK
<1>6. LeaversThere'
  <2> SUFFICES ASSUME NEW i \in Interacts, fate[i] = "leaving"
               PROVE  \E q \in Procs : Deletes(q)' /\ id'[q] = i
    BY DEF LeaversThere
  <2>1. PICK q \in Procs : Deletes(q) /\ id[q] = i BY DEF CInv, LeaversThere
  <2>2. q # p BY <2>1, InteractAssumption DEF Interacts
  <2> QED BY <2>1, <2>2, ButForP
<1> QED BY <1>4, <1>5, <1>6 DEF CInv

\* A request that is about nothing, and stays so.
LEMMA IdleC ==
  ASSUME Base, CInv, NoOdd, NEW p \in Procs, Others(p), id[p] = 0, id'[p] = 0,
         UNCHANGED <<rough, fate, liked, like, comment, missed>>
  PROVE  CInv'
<1>1. SameMark(p, Marks) BY DEF SameMark
<1>2. \A q \in Procs : SameMark(q, Marks) BY <1>1, OthersMarks
<1>3. \A i \in Interacts : SameFate(i) BY DEF SameFate
<1> QED BY <1>2, <1>3, CalmC

\* A command that counts nothing.
LEMMA GoesC ==
  ASSUME Base, CInv, NoOdd, NEW p \in Procs, Others(p), Quiet(p), Now(p) \notin Marks,
         \A i \in Interacts : SameFate(i), UNCHANGED <<liked, like, comment, missed>>
  PROVE  CInv'
<1>1. SameMark(p, Marks) BY DEF SameMark, Quiet, Went
<1>2. \A q \in Procs : SameMark(q, Marks) BY <1>1, OthersMarks
<1> QED BY <1>2, CalmC

LEMMA FindLikeC ==
  ASSUME Base, CInv, NoOdd, NoOdd', NEW p \in Procs, FindLike(p), missed' = missed
  PROVE  CInv'
<1>1. /\ Others(p) /\ UNCHANGED store /\ id[p] = 0
      /\ op[p] = "unlike" /\ Now(p) = "find" /\ Left(p) = Program["unlike"]
      /\ \/ Ended(p) /\ fate' = fate
         \/ \E i \in Likes(user[p]) :
              /\ i \in 1 .. sequence /\ i \in Interacts
              /\ Went(p) /\ id'[p] = i /\ page' = page
              /\ fate' = FateOnDeletion(i, user[p], "like")
  BY FindLikeMove
<1>2. UNCHANGED <<rough, like, comment, liked>> BY <1>1 DEF store, counters
<1>3. CASE Ended(p) /\ fate' = fate
  <2>1. id'[p] = 0 BY <1>3 DEF Ended
  <2> QED BY <1>1, <1>2, <1>3, <2>1, IdleC
<1>4. ASSUME NEW i \in Interacts, Went(p), id'[p] = i,
             fate' = FateOnDeletion(i, user[p], "like")
      PROVE  CInv'
  <2>1. op'[p] = "unlike" /\ KindOf[op'[p]] = "like" /\ user'[p] = user[p]
    BY <1>1, <1>4 DEF Went, KindOf
  <2>2. "uncountLike" \in Left(p)' /\ "remLike" \in Left(p)'
    BY <1>1, <1>4 DEF Went, Program
  <2> QED BY <1>1, <1>2, <1>4, <2>1, <2>2, LeaveC
<1> QED BY <1>1, <1>3, <1>4

LEMMA BeginC ==
  ASSUME Base, CInv, NoOdd, NoOdd', NEW p \in Procs, Ask(p), missed' = missed
  PROVE  CInv'
<1>1. /\ Others(p) /\ UNCHANGED store /\ Idle(p)
      /\ Left(p)' = Program[op'[p]]
      /\ \/ op'[p] # "uncomment" /\ id'[p] = 0 /\ fate' = fate
         \/ /\ op'[p] = "uncomment" /\ id'[p] \in Interacts
            /\ fate' = IF Exists(id'[p]) THEN FateOnDeletion(id'[p], user'[p], "comment")
                       ELSE fate
  BY BeginMove
<1>2. UNCHANGED <<rough, like, comment, liked>> /\ id[p] = 0
  BY <1>1, BaseFacts DEF store, counters
<1>3. CASE id'[p] = 0 /\ fate' = fate BY <1>1, <1>2, <1>3, IdleC
<1>4. CASE op'[p] = "uncomment" /\ id'[p] \in Interacts
  <2> PICK j : j = id'[p] OBVIOUS
  <2> PICK u : u = user'[p] OBVIOUS
  <2>1. KindOf[op'[p]] = "comment" BY <1>4 DEF KindOf
  <2>2. "uncountComment" \in Left(p)' BY <1>1, <1>4 DEF Program
  <2>3. id'[p] # 0 BY <1>4, InteractAssumption DEF Interacts
  <2>4. CASE fate' = FateOnDeletion(j, u, "comment")
    BY <1>1, <1>2, <1>4, <2>1, <2>2, <2>4, LeaveC
  <2>5. CASE fate' = fate BY <1>1, <1>2, <1>4, <2>2, <2>3, <2>5, VainC
  <2> QED BY <1>1, <1>4, <2>3, <2>4, <2>5
<1> QED BY <1>1, <1>3, <1>4

\* A disturbed request was about nothing that is there, if nothing is odd.
LEMMA FailedC ==
  ASSUME Base, CInv, NoOdd, NoOdd', NEW p \in Procs, Others(p), fate' = FateWhenFailed(p),
         UNCHANGED store, missed' = missed, Ended(p) \/ (Went(p) /\ id'[p] = id[p] /\ id[p] # 0)
  PROVE  CInv'
<1>1. ~ Exists(id[p])
  <2> SUFFICES ASSUME Exists(id[p]) PROVE FALSE OBVIOUS
  <2>1. id[p] \in Interacts BY BaseFacts
  <2>2. fate'[id[p]] = "odd" BY <2>1, FateFacts DEF Base, DataT
  <2> QED BY <2>1, <2>2 DEF NoOdd
<1>2. fate' = fate BY <1>1, FateFacts
<1>3. UNCHANGED <<rough, liked, like, comment>> BY DEF store, counters
<1>4. CASE id[p] = 0
  <2>1. id'[p] = 0 BY <1>4 DEF Ended
  <2> QED BY <1>2, <1>3, <1>4, <2>1, IdleC
<1>5. CASE id[p] # 0
  <2>1. p \in Absent BY <1>1, <1>5, BaseFacts, ExistsFate DEF Absent
  <2>2. \A i \in Interacts : SameFate(i) BY <1>2, <1>3 DEF SameFate
  <2>3. comment' + missed' = comment + missed BY <1>3
  <2> QED BY <1>3, <2>1, <2>2, <2>3, AbsentC
<1> QED BY <1>4, <1>5

LEMMA CStep ==
  ASSUME Base, FInv, BoundsOK, MissedOK, CInv, NEW p \in Procs,
         \/ Ask(p) \/ Sending(p) \/ Deleting(p) \/ Reading(p) \/ Fail(p) \/ Kill(p)
  PROVE  CInv'
<1>7. SUFFICES ASSUME NoOdd', ~ CountStat(p) PROVE CInv'
  <2>1. CASE NoOdd' /\ CountStat(p) BY <2>1, OddStays, CountStatC
  <2> QED BY <2>1 DEF CInv
<1>0. NoOdd /\ missed' = missed BY <1>7, OddStays, MissedSame
<1>1. CASE SetRough(p)
  <2> PICK j : j = id[p] OBVIOUS
  <2>1. /\ Others(p) /\ Quiet(p) /\ j \in Interacts /\ j # 0 /\ Sends(p) /\ Now(p) = "setRough"
        /\ rough' = [rough EXCEPT ![j] =
                       [user |-> user[p], kind |-> op[p], is_delete |-> FALSE]]
        /\ UNCHANGED counters
    BY <1>1, SetRoughMove
  <2>2. fate[j] \notin {"sent", "leaving", "gone"}
    <3>1. SendingOK(p) BY DEF FInv
    <3> QED BY <2>1, <3>1 DEF SendingOK
  <2>3. \A i \in Interacts : SameFate(i)
    BY <2>1, <2>2 DEF SameFate, Quiet, Base, IInv, StoreOK
  <2>4. Now(p) \notin Marks /\ UNCHANGED <<liked, like, comment>>
    BY <2>1 DEF Marks, counters
  <2> QED BY <1>0, <2>1, <2>3, <2>4, GoesC
<1>2. CASE SetData(p) \/ Link(p) \/ Unlink(p)
  <2>1. Others(p) /\ Quiet(p) /\ UNCHANGED rough /\ UNCHANGED counters
    BY <1>2, SetDataMove, LinkMove, UnlinkMove
  <2>2. Now(p) \notin Marks BY <1>2, SetDataMove, LinkMove, UnlinkMove DEF Marks
  <2>3. \A i \in Interacts : SameFate(i) BY <2>1 DEF SameFate, Quiet
  <2> QED BY <1>0, <2>1, <2>2, <2>3, GoesC DEF counters
<1>3. CASE ReadTarget(p) \/ ReadRough(p) \/ ReadOwner(p)
  <2>1. /\ Others(p) /\ UNCHANGED store /\ id[p] # 0
        /\ Now(p) \in {"readTarget", "readRough", "readOwner"}
        /\ \/ Quiet(p)
           \/ Ended(p) /\ fate' = FateWhenFailed(p)
           \/ Ended(p) /\ fate' = FateWhenDone(p) /\ Now(p) = "readOwner" /\ Sends(p)
    BY <1>3, ReadMove, ReadOwnerMove
  <2>2. UNCHANGED <<rough, liked, like, comment>> BY <2>1 DEF store, counters
  <2>3. CASE Quiet(p)
    <3>1. Now(p) \notin Marks BY <2>1 DEF Marks
    <3>2. \A i \in Interacts : SameFate(i) BY <2>2, <2>3 DEF SameFate, Quiet
    <3> QED BY <1>0, <2>1, <2>2, <2>3, <3>1, <3>2, GoesC
  <2>4. CASE Ended(p) /\ fate' = FateWhenFailed(p) BY <1>0, <1>7, <2>1, <2>4, FailedC
  <2>5. CASE Ended(p) /\ fate' = FateWhenDone(p) /\ Now(p) = "readOwner" /\ Sends(p)
    BY <1>0, <1>7, <2>1, <2>2, <2>5, SentC
  <2> QED BY <2>1, <2>3, <2>4, <2>5
<1>4. CASE LinkNotice(p)
  <2>1. /\ Others(p) /\ Ended(p) /\ fate' = FateWhenDone(p) /\ id[p] # 0 /\ Sends(p)
        /\ Now(p) = "linkNotice" /\ UNCHANGED rough /\ UNCHANGED counters
    BY <1>4, LinkNoticeMove
  <2> QED BY <1>0, <1>7, <2>1, SentC DEF counters
<1>5. CASE ReadNotice(p) \/ Trim(p)
  <2>1. /\ Others(p) /\ id[p] = 0 /\ id'[p] = 0 /\ UNCHANGED <<fate, rough>>
        /\ UNCHANGED counters
    BY <1>5, ReadNoticeMove, TrimMove DEF Ended, store
  <2> QED BY <1>0, <2>1, IdleC DEF counters
<1>6. CASE Fail(p) \/ Kill(p)
  <2>1. /\ Others(p) /\ UNCHANGED store /\ fate' = FateWhenFailed(p)
        /\ Ended(p) \/ (Went(p) /\ id'[p] = id[p] /\ id[p] # 0)
    BY <1>6, FailMove
  <2> QED BY <1>0, <1>7, <2>1, FailedC
<1>8. CASE SetDeleted(p)
  <2>1. /\ Others(p) /\ Ended(p) /\ fate' = FateWhenDone(p) /\ id[p] # 0 /\ Deletes(p)
        /\ rough' = [rough EXCEPT ![id[p]].is_delete = TRUE] /\ UNCHANGED counters
    BY <1>8, SetDeletedMove
  <2>2. CASE p \in Absent
    <3>1. fate[id[p]] = "none" /\ ~ Sends(p) BY <2>1, <2>2, BaseFacts DEF Absent
    <3>2. fate' = fate BY <2>1, <3>1, FateFacts
    <3>3. \A i \in Interacts : SameFate(i)
      BY <2>1, <3>1, <3>2 DEF SameFate, Base, IInv, StoreOK
    <3>4. UNCHANGED <<liked, like, comment>> BY <2>1 DEF counters
    <3>5. comment' + missed' = comment + missed BY <1>0, <3>4
    <3> QED BY <1>0, <2>1, <2>2, <3>3, <3>4, <3>5, AbsentC
  <2>3. CASE p \notin Absent BY <1>0, <1>7, <1>8, <2>3, SetDeletedC
  <2> QED BY <2>2, <2>3
<1> QED BY <1>0, <1>1, <1>2, <1>3, <1>4, <1>5, <1>6, <1>7, <1>8, SetLikedC,
           IncrSequenceC, FindLikeC, BeginC DEF Sending, Deleting, Reading

-----------------------------------------------------------------------------
(* The theorems.                                                           *)

LInvs == Base /\ FInv /\ BoundsOK /\ MissedOK /\ ReadOK /\ CInv

LEMMA InitLInvs == Init => LInvs
<1> SUFFICES ASSUME Init PROVE LInvs OBVIOUS
<1>1. IInv BY InitIInv
<1>2. \A p \in Procs : /\ Idle(p) /\ todo[p] = << >> /\ id[p] = 0 /\ page[p] = {}
                       /\ ~ Sends(p) /\ ~ Deletes(p) /\ Left(p) = {} /\ Now(p) = "none"
  BY EmptySeq DEF Init, Idle, Sends, Deletes, Kinds, Left, Elements, Now
<1>3. LInv
  <2>1. \A p \in Procs : PlaceOK(p) BY <1>2 DEF PlaceOK
  <2>2. 0 \in 0 .. MaxInteracts /\ sequence = 0 BY InteractAssumption DEF Init
  <2>3. IdsOK BY <1>2, <2>2 DEF IdsOK
  <2> QED BY <2>1, <2>2, <2>3 DEF LInv, Init
<1>4. DataT
  <2>1. \A i \in Interacts : i > sequence <=> fate[i] = "none"
    BY InteractAssumption DEF Init, Interacts
  <2> QED BY <2>1, InteractAssumption DEF DataT, Init, Fates
<1>5. FInv
  <2>1. \A i \in Interacts : ThereOK(i) BY DEF ThereOK, Init
  <2>2. \A p \in Procs : SendingOK(p) /\ DeletingOK(p) BY <1>2 DEF SendingOK, DeletingOK
  <2> QED BY <1>2, <2>1, <2>2 DEF FInv, LeaversDiffer
<1>6. BoundsOK
  <2>1. \A c : Due(c) = {} /\ Pending(c) = {} BY <1>2 DEF Due, Pending
  <2>2. like = 0 /\ comment = 0 /\ requests = 0 /\ sequence = 0 /\ notice = << >> BY DEF Init
  <2>5. -like = 0 /\ -comment = 0
    <3>1. \A x \in Int : x <= 0 /\ 0 <= x => -x = 0 OBVIOUS
    <3>2. 0 \in Int /\ 0 <= 0 OBVIOUS
    <3> QED BY <2>2, <3>1, <3>2, Zenon
  <2>6. Len(notice) = 0 BY <2>2
  <2>3. -like = 0 /\ -comment = 0 /\ Len(notice) = 0 BY <2>5, <2>6
  <2>4. Room(0, {}, 0) BY FS_EmptySet DEF Room
  <2> QED BY <2>1, <2>2, <2>3, <2>4, Zenon DEF BoundsOK
<1>9. MissedOK
  <2>1. Pending("uncountComment") = {} BY <1>2 DEF Pending
  <2>2. missed = 0 /\ requests = 0 BY DEF Init
  <2>3. Room(0, {}, 0) /\ 0 \in Nat BY FS_EmptySet DEF Room
  <2> QED BY <2>1, <2>2, <2>3 DEF MissedOK
<1>7. ReadOK BY <1>2 DEF ReadOK
<1>8. CInv
  <2>1. \A i \in Interacts : fate[i] = "none" BY DEF Init
  <2>2. \A k : Present(k) = {} BY <2>1 DEF Present, All
  <2>3. \A o, c : Counted(o, c) = {} BY <1>2 DEF Counted
  <2>4. like = 0 /\ comment + missed = 0 /\ liked = {} BY DEF Init
  <2>5. Tally(0, {}, {}, {}) BY FS_EmptySet DEF Tally
  <2>6. \A u \in Users : LikesOf(u, "sent") = {} /\ Liking(u) = {}
    BY <2>1, <2>3 DEF LikesOf, All, Liking
  <2>7. \A u \in Users : LikedOK(u) BY <2>4, <2>6 DEF LikedOK
  <2>8. LeaversThere BY <2>1 DEF LeaversThere
  <2>9. Uncounted = {} BY <2>3 DEF Uncounted
  <2>10. LikeTally /\ CommentTally BY <2>2, <2>3, <2>4, <2>5, <2>9 DEF LikeTally, CommentTally
  <2> QED BY <2>7, <2>8, <2>10 DEF CInv
<1> QED BY <1>1, <1>3, <1>4, <1>5, <1>6, <1>7, <1>8, <1>9 DEF LInvs, Base

LEMMA SameInvs == LInvs /\ UNCHANGED vars => LInvs'
<1> SUFFICES ASSUME LInvs, UNCHANGED vars PROVE LInvs' OBVIOUS
<1>1. /\ UNCHANGED <<sequence, rough, recordData, userData, onRecord, sent, received, notice>>
      /\ UNCHANGED <<liked, like, comment, op, user, id, target, todo, page>>
      /\ UNCHANGED <<requests, failed, fate, missed, shown, unread, crossed>>
  BY DEF vars, store, lists, counters, request, history, notices
<1>2. IInv' BY NextIInv DEF LInvs, Base
<1>3. \A p \in Procs : SameRequest(p) BY <1>1 DEF SameRequest
<1>4. LInv'
  <2>1. \A p \in Procs : PlaceOK(p)' BY <1>3, SameFacts DEF LInvs, Base, LInv
  <2> QED BY <1>1, <2>1 DEF LInvs, Base, LInv, IdsOK
<1>5. DataT' BY <1>1 DEF LInvs, Base, DataT
<1>6. FInv'
  <2>1. \A i \in Interacts : SameInteract(i) BY <1>1 DEF SameInteract, Told
  <2>2. \A p \in Procs : SendingOK(p)' /\ DeletingOK(p)'
    BY <1>3, <2>1, OtherSame, BaseFacts DEF LInvs
  <2>3. \A i \in Interacts : ThereOK(i)' BY <2>1, ThereSame DEF LInvs
  <2>4. LeaversDiffer' BY <1>1 DEF LInvs, FInv, LeaversDiffer, Deletes
  <2> QED BY <2>2, <2>3, <2>4 DEF FInv
<1>7. BoundsOK'
  <2>1. \A p \in Procs : Left(p)' = Left(p) BY <1>3, SameFacts
  <2>2. \A c : Due(c)' = Due(c) /\ Pending(c)' = Pending(c) BY <2>1 DEF Due, Pending
  <2> QED BY <1>1, <2>2 DEF LInvs, BoundsOK
<1>10. MissedOK'
  <2>1. \A p \in Procs : Left(p)' = Left(p) BY <1>3, SameFacts
  <2>2. \A c : Pending(c)' = Pending(c) BY <2>1 DEF Pending
  <2> QED BY <1>1, <2>2 DEF LInvs, MissedOK
<1>8. ReadOK'
  <2>1. \A p \in Procs : Now(p)' = Now(p) BY <1>3, SameFacts
  <2>2. FirstPage' = FirstPage BY <1>1 DEF FirstPage
  <2> QED BY <1>1, <2>1, <2>2 DEF LInvs, ReadOK
<1>9. CInv'
  <2> SUFFICES ASSUME NoOdd' PROVE CInv' BY DEF CInv
  <2>1. NoOdd BY <1>1 DEF NoOdd
  <2>2. \A q \in Procs : SameMark(q, Marks) BY <1>3, SameFacts DEF SameRequest, SameMark
  <2>3. \A i \in Interacts : SameFate(i) BY <1>1 DEF SameFate
  <2> QED BY <1>1, <2>1, <2>2, <2>3, CalmC DEF LInvs
<1> QED BY <1>2, <1>4, <1>5, <1>6, <1>7, <1>8, <1>9, <1>10 DEF LInvs, Base

LEMMA NextLInvs == LInvs /\ [Next]_vars => LInvs'
<1> SUFFICES ASSUME LInvs, Next PROVE LInvs' BY SameInvs
<1>1. PICK p \in Procs : \/ Ask(p) \/ Sending(p) \/ Deleting(p) \/ Reading(p)
                         \/ Fail(p) \/ Kill(p)
  BY DEF Next
<1>2. Base /\ FInv /\ BoundsOK /\ MissedOK /\ ReadOK /\ CInv BY DEF LInvs
<1>3. IInv' BY <1>2, NextIInv DEF Base
<1>4. LInv' BY <1>1, <1>2, LStep
<1>5. DataT' BY <1>1, <1>2, DataStep
<1>6. FInv' BY <1>1, <1>2, FStepAll
<1>7. BoundsOK' BY <1>1, <1>2, BoundsStep
<1>8. ReadOK' BY <1>1, <1>2, <1>4, ReadStep
<1>9. CInv' BY <1>1, <1>2, CStep
<1>10. MissedOK' BY <1>1, <1>2, MissedStep
<1> QED BY <1>3, <1>4, <1>5, <1>6, <1>7, <1>8, <1>9, <1>10 DEF LInvs, Base

LEMMA LInvsType == LInvs => TypeOK
<1> SUFFICES ASSUME LInvs PROVE TypeOK OBVIOUS
<1>1. IInv /\ LInv /\ DataT /\ BoundsOK BY DEF LInvs, Base
<1>2. \A i \in Interacts : i > sequence => rough[i] = NoRough
  <2> SUFFICES ASSUME NEW i \in Interacts, i > sequence PROVE rough[i] = NoRough OBVIOUS
  <2>1. rough[i] \in Rough \cup {NoRough} /\ rough[i].user = NoOne BY <1>1 DEF IInv, StoreOK
  <2>2. rough[i] \notin Rough BY <2>1, InteractAssumption DEF Rough
  <2> QED BY <2>1, <2>2
<1>3. Len(notice) <= sequence
  <2> PICK n \in Nat : n = Len(notice) BY <1>1, Numbers DEF LInvs
  <2> PICK d \in Nat : d = Cardinality(Due("linkNotice"))
    BY <1>1, FS_CardinalityType DEF BoundsOK, Room
  <2>1. n + d <= sequence BY <1>1 DEF BoundsOK, Room
  <2>2. n <= sequence BY <2>1, BaseFacts DEF LInvs
  <2> QED BY <2>2
<1>4. like \in -MaxRequests .. MaxInteracts
  <2> PICK d \in Nat : d = Cardinality(Due("countLike"))
    BY <1>1, FS_CardinalityType DEF BoundsOK, Room
  <2> PICK e \in Nat : e = Cardinality(Pending("uncountLike"))
    BY <1>1, FS_CardinalityType DEF BoundsOK, Room
  <2>1. like \in Int /\ like + d <= sequence /\ -like + e <= requests
    BY <1>1 DEF BoundsOK, Room
  <2>2. requests \in 0 .. MaxRequests /\ sequence \in 0 .. MaxInteracts
    BY <1>1 DEF DataT, IInv, StoreOK
  <2> QED BY <2>1, <2>2, InteractAssumption
<1>5. comment \in -MaxRequests .. MaxInteracts
  <2> PICK d \in Nat : d = Cardinality(Due("countComment"))
    BY <1>1, FS_CardinalityType DEF BoundsOK, Room
  <2> PICK e \in Nat : e = Cardinality(Pending("uncountComment"))
    BY <1>1, FS_CardinalityType DEF BoundsOK, Room
  <2>1. comment \in Int /\ comment + d <= sequence /\ -comment + e <= requests
    BY <1>1 DEF BoundsOK, Room
  <2>2. requests \in 0 .. MaxRequests /\ sequence \in 0 .. MaxInteracts
    BY <1>1 DEF DataT, IInv, StoreOK
  <2> QED BY <2>1, <2>2, InteractAssumption
<1>6. \A p \in Procs : Len(todo[p]) <= 12 /\ (todo[p] = << >> <=> op[p] = "none")
  <2>1. Len(<< >>) = 0 /\ 0 <= 12 OBVIOUS
  <2> QED BY <1>1, <2>1 DEF LInv, PlaceOK, Idle
<1>7. missed \in 0 .. MaxRequests
  <2>1. missed \in Nat /\ Room(missed, Pending("uncountComment"), requests)
    BY DEF LInvs, MissedOK
  <2> PICK d \in Nat : d = Cardinality(Pending("uncountComment"))
    BY <2>1, FS_CardinalityType DEF Room
  <2>2. missed + d <= requests BY <2>1 DEF Room
  <2>3. requests \in 0 .. MaxRequests BY <1>1 DEF DataT
  <2> QED BY <2>1, <2>2, <2>3, InteractAssumption
<1> QED BY <1>1, <1>2, <1>3, <1>4, <1>5, <1>6, <1>7
        DEF TypeOK, IInv, LInv, IdsOK, DataT, StoreOK

\* Every request is at a command of its program, the counters stay between
\* minus the number of requests and the number of interactions, and the owner
\* has no more notices than there are interactions: a request counts, uncounts
\* and gives notice once at most, whatever fails (InteractApi.cc:25-71,
\* 129-152, 344-351).
THEOREM TypeOKHolds == Spec => []TypeOK
BY InitLInvs, NextLInvs, LInvsType, PTL DEF Spec

\* An undisturbed interaction is in every list it belongs to, and one taken
\* back in none but the owner's and marked as deleted, whatever becomes of the
\* other requests (InteractApi.cc:306-351, 356-373).
THEOREM SentAndGoneHolds == Spec => []SentAndGone
<1>1. LInvs => SentAndGone
  <2> SUFFICES ASSUME FInv PROVE SentAndGone BY DEF LInvs
  <2> QED BY DEF FInv, ThereOK, Told, SentAndGone
<1> QED BY <1>1, InitLInvs, NextLInvs, PTL DEF Spec

\* When no request is under way and none was disturbed, the counters are the
\* numbers of likes and comments there are, but for the comments counted off
\* by deletions of an id that was not there, one each, and the users who are
\* said to like the record are those who like it, but for one who took one of
\* several likes back: however the requests were interleaved, each counts once
\* what it sends and once what it deletes, be it there or not
\* (InteractApi.cc:31-35, 61-64, 136, 141-145).
THEOREM CountsAgreeHolds == Spec => []CountsAgree
<1>1. ASSUME LInvs, \A p \in Procs : Idle(p), NoOdd
      PROVE  /\ like = Cardinality(All("sent", "like"))
             /\ comment = Cardinality(All("sent", "comment")) - missed
             /\ \A u \in Users : LikedOK(u) /\ Liking(u) = {} /\ Unliked(u) = {}
                                /\ Unliking(u) = {}
  <2>1. \A p \in Procs : id[p] = 0 /\ ~ Deletes(p) BY <1>1, BaseFacts DEF LInvs
  <2>2. \A o, c : Counted(o, c) = {} BY <2>1 DEF Counted
  <2>3. \A i \in Interacts : fate[i] # "leaving"
    BY <1>1, <2>1 DEF LInvs, CInv, LeaversThere
  <2>4. \A k : Present(k) = All("sent", k) BY <2>3 DEF Present, All
  <2>5. /\ Tally(like, All("sent", "like"), {}, {})
        /\ Tally(comment + missed, All("sent", "comment"), {}, {})
    BY <1>1, <2>2, <2>4 DEF LInvs, CInv, LikeTally, CommentTally, Uncounted
  <2>6. ASSUME NEW n, NEW P, Tally(n, P, {}, {}) PROVE n = Cardinality(P) /\ n \in Nat
    <3> PICK m \in Nat : m = Cardinality(P) BY <2>6, FS_CardinalityType DEF Tally
    <3>1. Cardinality({}) = 0 BY FS_EmptySet
    <3>2. n = m + 0 - 0 BY <2>6, <3>1 DEF Tally
    <3> QED BY <3>2
  <2>7. like = Cardinality(All("sent", "like")) BY <2>5, <2>6
  <2>8. comment = Cardinality(All("sent", "comment")) - missed
    <3>1. comment + missed = Cardinality(All("sent", "comment")) BY <2>5, <2>6
    <3>2. comment \in Int /\ missed \in Int BY <1>1, CountersInt DEF LInvs
    <3> PICK n \in Int : n = comment + missed BY <3>2
    <3> QED BY <3>1, <3>2
  <2>9. \A u \in Users : Liking(u) = {} /\ Unliked(u) = {} /\ Unliking(u) = {}
    BY <2>1, <2>2 DEF Liking, Unliked, Unliking
  <2> QED BY <1>1, <2>7, <2>8, <2>9 DEF LInvs, CInv
<1>2. LInvs => CountsAgree
  <2> SUFFICES ASSUME LInvs, \A p \in Procs : Idle(p), NoOdd PROVE CountsAgree
    BY DEF CountsAgree, NoOdd
  <2> QED BY <1>1 DEF CountsAgree, LikedOK, LikesOf
<1> QED BY <1>2, InitLInvs, NextLInvs, PTL DEF Spec

\* No notice is trimmed unread, unless another was pushed or another reader
\* trimmed since the page was read (InteractApi.cc:174-198).
THEOREM TrimmedWereReadHolds == Spec => TrimmedWereRead
<1>1. ASSUME LInvs, NEW p \in Procs, Trim(p), p \notin crossed PROVE unread' = unread
  <2>1. /\ Now(p) = "trim" /\ notice' = AfterPage /\ shown' = shown \cup page[p]
        /\ unread' = unread \cup ((Elements(notice) \ Elements(notice')) \ shown')
    BY <1>1, TrimMove DEF LInvs
  <2>2. page[p] = Elements(FirstPage) BY <1>1, <2>1 DEF LInvs, ReadOK
  <2>3. Elements(notice) \subseteq Elements(FirstPage) \cup Elements(AfterPage)
    BY <1>1, AfterPageFacts DEF LInvs, Base
  <2> QED BY <2>1, <2>2, <2>3
<1>2. LInvs /\ [Next]_vars =>
        [\A p \in Procs : (Trim(p) /\ p \notin crossed) => unread' = unread]_vars
  BY <1>1
<1> QED BY <1>2, InitLInvs, NextLInvs, PTL DEF Spec, TrimmedWereRead
=============================================================================
