----------------------------- MODULE FollowProofs -----------------------------
(***************************************************************************)
(* For every number of users, processes, requests and failures the log of  *)
(* actions is ahead of the graph, and an edge and a counter are right once *)
(* a request has had them to itself: proofs about FollowGraph.             *)
(***************************************************************************)
EXTENDS FollowGraph, SequenceTheorems, FiniteSetTheorems, TLAPS

(***************************************************************************)
(* The inductive invariant.  What a process has yet to send says what it   *)
(* has sent: the log comes before all but isBlocked, and once it is gone   *)
(* the action is logged.                                                   *)
(***************************************************************************)
Names == {"isBlocked", "log", "addTo", "addFrom", "remTo", "remFrom", "addBlock",
          "remBlock", "readTo", "countTo", "readFrom", "countFrom"}

Has(s, c) == \E i \in 1 .. Len(s) : s[i] = c

LogLeads(s) ==
  \A i, j \in 1 .. Len(s) : s[i] = "log" /\ s[j] # "isBlocked" => i <= j

\* What is read is stored later.
Stores(s) == \A i \in 1 .. Len(s) : s[i] \in {"readTo", "readFrom"} => i < Len(s)

FitsOp(s, o) == /\ Has(s, "addTo") \/ Has(s, "addFrom") => o = "follow"
                /\ Has(s, "addBlock") => o = "block"

Logged(p) == <<op[p], target[p]>> \in actions[user[p]]

ProcOK(p) ==
  op[p] # "none" =>
    /\ op[p] \in Ops /\ user[p] \in Users /\ target[p] \in Users
    /\ todo[p] \in Seq(Names) /\ todo[p] # << >>
    /\ LogLeads(todo[p]) /\ Stores(todo[p])
    /\ FitsOp(todo[p], op[p])
    /\ ~ Has(todo[p], "log") => Logged(p)

GraphOK == /\ followTo \in [Users -> SUBSET Users]
           /\ followFrom \in [Users -> SUBSET Users]
           /\ blocked \in [Users -> SUBSET Users]
           /\ actions \in [Users -> SUBSET (Ops \X Users)]

RequestsOK == /\ op \in [Procs -> Ops \cup {"none"}]
              /\ DOMAIN user = Procs /\ DOMAIN target = Procs /\ DOMAIN todo = Procs
              /\ \A p \in Procs : ProcOK(p)

IInv == GraphOK /\ RequestsOK /\ LoggedFirst
-----------------------------------------------------------------------------
(* The commands of a request.                                              *)

LEMMA CommandsFacts ==
  ASSUME NEW o \in Ops
  PROVE  LET s == Commands[o]
         IN  /\ s \in Seq(Names) /\ s # << >>
             /\ LogLeads(s) /\ Stores(s)
             /\ FitsOp(s, o)
             /\ Has(s, "log")
<1>1. CASE o = "follow"
  <2> DEFINE s == Commands["follow"]
  <2>1. /\ s \in Seq(Names) /\ Len(s) = 8
        /\ s[1] = "isBlocked" /\ s[2] = "log" /\ s[3] = "addTo" /\ s[4] = "addFrom"
        /\ s[5] = "readTo" /\ s[6] = "countTo" /\ s[7] = "readFrom" /\ s[8] = "countFrom"
    BY DEF Commands, Recount, Names
  <2> HIDE DEF s
  <2>2. s # << >> /\ Has(s, "log") BY <2>1 DEF Has
  <2>3. LogLeads(s) /\ Stores(s) BY <2>1 DEF LogLeads, Stores
  <2>4. FitsOp(s, o) BY <1>1, <2>1 DEF FitsOp, Has
  <2> QED BY <1>1, <2>1, <2>2, <2>3, <2>4 DEF s
<1>2. CASE o = "unfollow"
  <2> DEFINE s == Commands["unfollow"]
  <2>1. /\ s \in Seq(Names) /\ Len(s) = 7
        /\ s[1] = "log" /\ s[2] = "remTo" /\ s[3] = "remFrom" /\ s[4] = "readTo"
        /\ s[5] = "countTo" /\ s[6] = "readFrom" /\ s[7] = "countFrom"
    BY DEF Commands, Recount, Names
  <2> HIDE DEF s
  <2>2. s # << >> /\ Has(s, "log") BY <2>1 DEF Has
  <2>3. LogLeads(s) /\ Stores(s) BY <2>1 DEF LogLeads, Stores
  <2>4. FitsOp(s, o) BY <1>2, <2>1 DEF FitsOp, Has
  <2> QED BY <1>2, <2>1, <2>2, <2>3, <2>4 DEF s
<1>3. CASE o = "block"
  <2> DEFINE s == Commands["block"]
  <2>1. /\ s \in Seq(Names) /\ Len(s) = 4
        /\ s[1] = "log" /\ s[2] = "remFrom"
        /\ s[3] = "remTo" /\ s[4] = "addBlock"
    BY DEF Commands, Recount, Names
  <2> HIDE DEF s
  <2>2. s # << >> /\ Has(s, "log") BY <2>1 DEF Has
  <2>3. LogLeads(s) /\ Stores(s) BY <2>1 DEF LogLeads, Stores
  <2>4. FitsOp(s, o) BY <1>3, <2>1 DEF FitsOp, Has
  <2> QED BY <1>3, <2>1, <2>2, <2>3, <2>4 DEF s
<1>4. CASE o = "unblock"
  <2> DEFINE s == Commands["unblock"]
  <2>1. /\ s \in Seq(Names) /\ Len(s) = 2
        /\ s[1] = "log"
        /\ s[2] = "remBlock"
    BY DEF Commands, Recount, Names
  <2> HIDE DEF s
  <2>2. s # << >> /\ Has(s, "log") BY <2>1 DEF Has
  <2>3. LogLeads(s) /\ Stores(s) BY <2>1 DEF LogLeads, Stores
  <2>4. FitsOp(s, o) BY <1>4, <2>1 DEF FitsOp, Has
  <2> QED BY <1>4, <2>1, <2>2, <2>3, <2>4 DEF s
<1> QED BY <1>1, <1>2, <1>3, <1>4 DEF Ops

\* What is left after the first command.
LEMMA TailFacts ==
  ASSUME NEW s \in Seq(Names), s # << >>, Len(s) # 1
  PROVE  /\ Tail(s) \in Seq(Names) /\ Tail(s) # << >>
         /\ LogLeads(s) => LogLeads(Tail(s))
         /\ Stores(s) => Stores(Tail(s))
         /\ \A o : FitsOp(s, o) => FitsOp(Tail(s), o)
         /\ Has(s, "log") => Head(s) = "log" \/ Has(Tail(s), "log")
<1>1. /\ Len(s) \in Nat \ {0, 1} /\ Tail(s) \in Seq(Names)
      /\ Len(Tail(s)) = Len(s) - 1 /\ Head(s) = s[1]
      /\ \A i \in 1 .. Len(Tail(s)) : Tail(s)[i] = s[i + 1]
  OBVIOUS
<1>2. Tail(s) # << >>
  <2>1. Len(Tail(s)) # 0 BY <1>1
  <2> QED BY <1>1, <2>1, EmptySeq
<1>3. \A c : Has(Tail(s), c) => Has(s, c)
  <2> SUFFICES ASSUME NEW c, NEW i \in 1 .. Len(Tail(s)), Tail(s)[i] = c
               PROVE  \E j \in 1 .. Len(s) : s[j] = c
    BY DEF Has
  <2> QED BY <1>1
<1>4. LogLeads(s) => LogLeads(Tail(s))
  <2> SUFFICES ASSUME LogLeads(s), NEW i \in 1 .. Len(Tail(s)), NEW j \in 1 .. Len(Tail(s)),
                      Tail(s)[i] = "log", Tail(s)[j] # "isBlocked"
               PROVE  i <= j
    BY DEF LogLeads
  <2>1. i + 1 \in 1 .. Len(s) /\ j + 1 \in 1 .. Len(s) BY <1>1
  <2>2. s[i + 1] = "log" /\ s[j + 1] # "isBlocked" BY <1>1
  <2>3. i + 1 <= j + 1 BY <2>1, <2>2 DEF LogLeads
  <2> QED BY <2>3
<1>5. Has(s, "log") => Head(s) = "log" \/ Has(Tail(s), "log")
  <2> SUFFICES ASSUME NEW i \in 1 .. Len(s), s[i] = "log", i # 1
               PROVE  \E j \in 1 .. Len(Tail(s)) : Tail(s)[j] = "log"
    BY <1>1 DEF Has
  <2>1. i - 1 \in 1 .. Len(Tail(s)) /\ Tail(s)[i - 1] = s[i] BY <1>1
  <2> QED BY <2>1
<1>6. Stores(s) => Stores(Tail(s))
  <2> SUFFICES ASSUME Stores(s), NEW i \in 1 .. Len(Tail(s)),
                      Tail(s)[i] \in {"readTo", "readFrom"}
               PROVE  i < Len(Tail(s))
    BY DEF Stores
  <2>1. i + 1 \in 1 .. Len(s) /\ s[i + 1] \in {"readTo", "readFrom"} BY <1>1
  <2>2. i + 1 < Len(s) BY <2>1 DEF Stores
  <2> QED BY <1>1, <2>2
<1> QED BY <1>1, <1>2, <1>3, <1>4, <1>5, <1>6 DEF FitsOp

\* A command that is no isBlocked is sent after the log or is it.
LEMMA AfterLog ==
  ASSUME IInv, NEW p \in Procs, ~ Idle(p), Head(todo[p]) \notin {"isBlocked", "log"}
  PROVE  Logged(p)
<1>1. /\ todo[p] \in Seq(Names) /\ todo[p] # << >> /\ LogLeads(todo[p])
      /\ ~ Has(todo[p], "log") => Logged(p)
  BY DEF IInv, RequestsOK, ProcOK, Idle
<1>2. Head(todo[p]) = todo[p][1] /\ 1 \in 1 .. Len(todo[p]) BY <1>1
<1>3. ~ Has(todo[p], "log") BY <1>1, <1>2 DEF LogLeads, Has
<1> QED BY <1>1, <1>3
-----------------------------------------------------------------------------
(* What a step does to the requests.                                       *)

LEMMA OtherRequests ==
  ASSUME IInv, NEW p \in Procs,
         /\ op' \in [Procs -> Ops \cup {"none"}]
         /\ DOMAIN user' = Procs /\ DOMAIN target' = Procs /\ DOMAIN todo' = Procs,
         \A q \in Procs \ {p} : /\ op'[q] = op[q] /\ user'[q] = user[q]
                                /\ target'[q] = target[q] /\ todo'[q] = todo[q],
         \A u \in Users : actions[u] \subseteq actions'[u],
         ProcOK(p)'
  PROVE  RequestsOK'
<1>1. ASSUME NEW q \in Procs, q # p PROVE ProcOK(q)'
  <2>1. ProcOK(q) BY DEF IInv, RequestsOK
  <2> QED BY <1>1, <2>1 DEF ProcOK, Logged
<1> QED BY <1>1 DEF RequestsOK

LEMMA ClearStep ==
  ASSUME IInv, NEW p \in Procs, Clear(p), UNCHANGED actions
  PROVE  RequestsOK'
<1>1. op'[p] = "none" BY DEF Clear, IInv, RequestsOK
<1>2. ProcOK(p)' BY <1>1 DEF ProcOK
<1> QED BY <1>2, OtherRequests DEF Clear, IInv, RequestsOK

LEMMA AdvanceStep ==
  ASSUME IInv, NEW p \in Procs, ~ Idle(p), Advance(p),
         \A u \in Users : actions[u] \subseteq actions'[u],
         Head(todo[p]) = "log" => <<op[p], target[p]>> \in actions'[user[p]]
  PROVE  RequestsOK'
<1>1. CASE Len(todo[p]) = 1
  <2>1. Clear(p) BY <1>1 DEF Advance
  <2>2. op'[p] = "none" BY <2>1 DEF Clear, IInv, RequestsOK
  <2>3. ProcOK(p)' BY <2>2 DEF ProcOK
  <2> QED BY <2>1, <2>3, OtherRequests DEF Clear, IInv, RequestsOK
<1>2. CASE Len(todo[p]) # 1
  <2>1. todo' = [todo EXCEPT ![p] = Tail(todo[p])] /\ UNCHANGED request
    BY <1>2 DEF Advance
  <2>2. /\ todo'[p] = Tail(todo[p])
        /\ \A q \in Procs \ {p} : todo'[q] = todo[q]
        /\ DOMAIN todo' = Procs
    BY <2>1 DEF IInv, RequestsOK
  <2>3. /\ op[p] # "none" /\ ProcOK(p) BY DEF IInv, RequestsOK, Idle
  <2>4. ProcOK(p)'
    <3>1. /\ todo'[p] \in Seq(Names) /\ todo'[p] # << >>
          /\ LogLeads(todo'[p]) /\ Stores(todo'[p]) /\ FitsOp(todo'[p], op[p])
          /\ Has(todo[p], "log") => Head(todo[p]) = "log" \/ Has(todo'[p], "log")
      BY <1>2, <2>2, <2>3, TailFacts DEF ProcOK
    <3>2. ~ Has(todo'[p], "log") => <<op[p], target[p]>> \in actions'[user[p]]
      BY <2>3, <3>1 DEF ProcOK, Logged
    <3> QED BY <2>1, <2>3, <3>1, <3>2 DEF ProcOK, Logged, request
  <2> QED BY <2>1, <2>2, <2>4, OtherRequests DEF request, IInv, RequestsOK
<1> QED BY <1>1, <1>2

LEMMA SendsFacts ==
  ASSUME IInv, NEW p \in Procs, NEW c, Sends(p, c)
  PROVE  /\ ~ Idle(p) /\ Head(todo[p]) = c
         /\ op[p] \in Ops /\ user[p] \in Users /\ target[p] \in Users
         /\ c \in {"addTo", "addFrom"} => op[p] = "follow"
         /\ c = "addBlock" => op[p] = "block"
<1>1. ~ Idle(p) /\ Head(todo[p]) = c /\ ProcOK(p) /\ op[p] # "none"
  BY DEF Sends, IInv, RequestsOK, Idle
<1>2. Has(todo[p], c)
  <2>1. Len(todo[p]) \in Nat \ {0} /\ todo[p][1] = c BY <1>1, EmptySeq DEF ProcOK
  <2> QED BY <2>1 DEF Has
<1> QED BY <1>1, <1>2 DEF ProcOK, FitsOp

LEMMA InitIInv == Init => IInv
BY DEF Init, IInv, GraphOK, RequestsOK, ProcOK, LoggedFirst

LEMMA BeginStep ==
  ASSUME IInv, NEW p \in Procs, NEW o \in Ops, NEW u \in Users, NEW t \in Users,
         Begin(p, o, u, t)
  PROVE  IInv'
<1>1. /\ op'[p] = o /\ user'[p] = u /\ target'[p] = t /\ todo'[p] = Commands[o]
      /\ \A q \in Procs \ {p} : /\ op'[q] = op[q] /\ user'[q] = user[q]
                                /\ target'[q] = target[q] /\ todo'[q] = todo[q]
      /\ op' \in [Procs -> Ops \cup {"none"}]
      /\ DOMAIN user' = Procs /\ DOMAIN target' = Procs /\ DOMAIN todo' = Procs
      /\ UNCHANGED <<graph, actions>>
  BY DEF Begin, IInv, RequestsOK
<1>2. ProcOK(p)' BY <1>1, CommandsFacts DEF ProcOK
<1>3. RequestsOK' BY <1>1, <1>2, OtherRequests
<1> QED BY <1>1, <1>3 DEF IInv, GraphOK, LoggedFirst, graph
-----------------------------------------------------------------------------
(* The commands.                                                           *)

\* A command that adds nothing to the graph or the log.
LEMMA QuietStep ==
  ASSUME IInv, NEW p \in Procs, RequestsOK', UNCHANGED actions,
         /\ followTo' \in [Users -> SUBSET Users]
         /\ followFrom' \in [Users -> SUBSET Users]
         /\ blocked' \in [Users -> SUBSET Users],
         \A u \in Users : /\ followTo'[u] \subseteq followTo[u]
                          /\ followFrom'[u] \subseteq followFrom[u]
                          /\ blocked'[u] \subseteq blocked[u]
  PROVE  IInv'
BY DEF IInv, GraphOK, LoggedFirst

LEMMA LogStep ==
  ASSUME IInv, NEW p \in Procs, Log(p)
  PROVE  IInv'
<1>1. ~ Idle(p) /\ op[p] \in Ops /\ user[p] \in Users /\ target[p] \in Users
  BY SendsFacts DEF Log
<1>2. /\ actions' \in [Users -> SUBSET (Ops \X Users)]
      /\ \A u \in Users : actions[u] \subseteq actions'[u]
      /\ <<op[p], target[p]>> \in actions'[user[p]]
  <2>1. <<op[p], target[p]>> \in Ops \X Users BY <1>1
  <2>2. actions' = [actions EXCEPT ![user[p]] = actions[user[p]] \cup {<<op[p], target[p]>>}]
    BY DEF Log
  <2> QED BY <1>1, <2>1, <2>2 DEF IInv, GraphOK
<1>3. RequestsOK' BY <1>1, <1>2, AdvanceStep DEF Log
<1> QED BY <1>2, <1>3 DEF Log, IInv, GraphOK, LoggedFirst, graph

LEMMA AddStep ==
  ASSUME IInv, NEW p \in Procs, AddTo(p) \/ AddFrom(p) \/ AddBlock(p)
  PROVE  IInv'
<1> DEFINE u == user[p]
           v == target[p]
<1>1. /\ ~ Idle(p) /\ u \in Users /\ v \in Users
      /\ Head(todo[p]) \notin {"isBlocked", "log"}
      /\ UNCHANGED actions /\ Advance(p)
      /\ AddTo(p) \/ AddFrom(p) => op[p] = "follow"
      /\ AddBlock(p) => op[p] = "block"
  BY SendsFacts DEF AddTo, AddFrom, AddBlock
<1>2. <<op[p], v>> \in actions[u] BY <1>1, AfterLog DEF Logged
<1>3. RequestsOK' BY <1>1, AdvanceStep
<1>4. CASE AddTo(p)
  <2>1. followTo' = [followTo EXCEPT ![u] = followTo[u] \cup {v}]
        /\ UNCHANGED <<followFrom, blocked>>
    BY <1>4 DEF AddTo
  <2> QED BY <1>1, <1>2, <1>3, <1>4, <2>1 DEF IInv, GraphOK, LoggedFirst
<1>5. CASE AddFrom(p)
  <2>1. followFrom' = [followFrom EXCEPT ![v] = followFrom[v] \cup {u}]
        /\ UNCHANGED <<followTo, blocked>>
    BY <1>5 DEF AddFrom
  <2> QED BY <1>1, <1>2, <1>3, <1>5, <2>1 DEF IInv, GraphOK, LoggedFirst
<1>6. CASE AddBlock(p)
  <2>1. blocked' = [blocked EXCEPT ![u] = blocked[u] \cup {v}]
        /\ UNCHANGED <<followTo, followFrom>>
    BY <1>6 DEF AddBlock
  <2> QED BY <1>1, <1>2, <1>3, <1>6, <2>1 DEF IInv, GraphOK, LoggedFirst
<1> QED BY <1>4, <1>5, <1>6

LEMMA RemStep ==
  ASSUME IInv, NEW p \in Procs, RemTo(p) \/ RemFrom(p) \/ RemBlock(p)
  PROVE  IInv'
<1>1. /\ ~ Idle(p) /\ UNCHANGED actions /\ Advance(p) /\ Head(todo[p]) # "log"
  BY SendsFacts DEF RemTo, RemFrom, RemBlock
<1>2. RequestsOK' BY <1>1, AdvanceStep
<1>3. CASE RemTo(p)
  <2>1. PICK w, x : followTo' = [followTo EXCEPT ![w] = @ \ {x}]
    BY <1>3 DEF RemTo
  <2>2. UNCHANGED <<followFrom, blocked>> BY <1>3 DEF RemTo
  <2> QED BY <1>1, <1>2, <2>1, <2>2, QuietStep DEF IInv, GraphOK
<1>4. CASE RemFrom(p)
  <2>1. PICK w, x : followFrom' = [followFrom EXCEPT ![w] = @ \ {x}]
    BY <1>4 DEF RemFrom
  <2>2. UNCHANGED <<followTo, blocked>> BY <1>4 DEF RemFrom
  <2> QED BY <1>1, <1>2, <2>1, <2>2, QuietStep DEF IInv, GraphOK
<1>5. CASE RemBlock(p)
  <2>1. PICK w, x : blocked' = [blocked EXCEPT ![w] = @ \ {x}]
    BY <1>5 DEF RemBlock
  <2>2. UNCHANGED <<followTo, followFrom>> BY <1>5 DEF RemBlock
  <2> QED BY <1>1, <1>2, <2>1, <2>2, QuietStep DEF IInv, GraphOK
<1> QED BY <1>3, <1>4, <1>5

\* Commands on the counters, and those that end a request.
LEMMA CountStep ==
  ASSUME IInv, NEW p \in Procs, IsBlocked(p) \/ CountTo(p) \/ CountFrom(p)
  PROVE  IInv'
<1>1. ~ Idle(p) /\ Head(todo[p]) # "log" /\ UNCHANGED <<graph, actions>>
      /\ (Clear(p) \/ Advance(p))
  BY SendsFacts DEF IsBlocked, CountTo, CountFrom
<1>2. RequestsOK' BY <1>1, ClearStep, AdvanceStep
<1> QED BY <1>1, <1>2, QuietStep DEF IInv, GraphOK, graph

LEMMA ReadSetStep ==
  ASSUME IInv, NEW p \in Procs, ReadSet(p)
  PROVE  IInv'
<1>1. /\ ~ Idle(p) /\ Head(todo[p]) \notin {"isBlocked", "log"}
      /\ todo' = [todo EXCEPT ![p] = Tail(todo[p])]
      /\ UNCHANGED <<graph, actions, request>>
  BY SendsFacts DEF ReadSet
<1>2. Logged(p) BY <1>1, AfterLog
<1>3. ProcOK(p) /\ op[p] # "none" BY <1>1 DEF IInv, RequestsOK, Idle
<1>4. Len(todo[p]) # 1
  <2>1. Len(todo[p]) \in Nat \ {0} /\ todo[p][1] \in {"readTo", "readFrom"}
    BY <1>3, EmptySeq DEF ProcOK, ReadSet, Sends
  <2> QED BY <1>3, <2>1 DEF ProcOK, Stores
<1>5. ProcOK(p)'
  BY <1>1, <1>2, <1>3, <1>4, TailFacts DEF ProcOK, Logged, request, IInv, RequestsOK
<1>6. RequestsOK' BY <1>1, <1>5, OtherRequests DEF request, IInv, RequestsOK
<1> QED BY <1>1, <1>6, QuietStep DEF IInv, GraphOK, graph

LEMMA FailStep ==
  ASSUME IInv, NEW p \in Procs, Fail(p) \/ Kill(p)
  PROVE  IInv'
<1>1. Clear(p) /\ UNCHANGED <<graph, actions>> BY DEF Fail, Kill
<1>2. RequestsOK' BY <1>1, ClearStep
<1> QED BY <1>1, <1>2, QuietStep DEF IInv, GraphOK, graph

LEMMA RecountFailsStep ==
  ASSUME IInv, NEW p \in Procs, RecountFails(p)
  PROVE  IInv'
<1>1. UNCHANGED <<graph, actions>> BY DEF RecountFails
<1>2. PICK i \in 1 .. 4 :
        /\ Sends(p, Recount[i])
        /\ \/ todo' = [todo EXCEPT ![p] = SubSeq(Recount, 3, 4)] /\ UNCHANGED request
           \/ Clear(p)
  <2>1. Len(Recount) = 4 BY DEF Recount
  <2> QED BY <2>1 DEF RecountFails
<1>3. Recount[i] \notin {"isBlocked", "log"} BY <1>2 DEF Recount
<1>4. CASE todo' = [todo EXCEPT ![p] = SubSeq(Recount, 3, 4)] /\ UNCHANGED request
  <2>1. ~ Idle(p) /\ Logged(p) BY <1>2, <1>3, AfterLog, SendsFacts
  <2>2. ProcOK(p) /\ op[p] # "none" BY <2>1 DEF IInv, RequestsOK, Idle
  <2> DEFINE s == SubSeq(Recount, 3, 4)
  <2>3. s \in Seq(Names) /\ Len(s) = 2 /\ s[1] = "readFrom" /\ s[2] = "countFrom"
    BY DEF Recount, Names
  <2>4. todo'[p] = s BY <1>4 DEF IInv, RequestsOK
  <2> HIDE DEF s
  <2>5. s # << >> /\ LogLeads(s) /\ Stores(s) /\ FitsOp(s, op[p])
    BY <2>3 DEF LogLeads, Stores, FitsOp, Has
  <2>6. ProcOK(p)'
    BY <1>1, <1>4, <2>1, <2>2, <2>3, <2>4, <2>5 DEF ProcOK, Logged, request
  <2>7. RequestsOK' BY <1>1, <1>4, <2>6, OtherRequests DEF request, IInv, RequestsOK
  <2> QED BY <1>1, <2>7, QuietStep DEF IInv, GraphOK, graph
<1>5. CASE Clear(p)
  <2>1. RequestsOK' BY <1>1, <1>5, ClearStep
  <2> QED BY <1>1, <2>1, QuietStep DEF IInv, GraphOK, graph
<1> QED BY <1>2, <1>4, <1>5

LEMMA NextIInv == IInv /\ [Next]_vars => IInv'
<1> SUFFICES ASSUME IInv, [Next]_vars PROVE IInv' OBVIOUS
<1>1. CASE UNCHANGED vars
  BY <1>1 DEF vars, graph, request, IInv, GraphOK, RequestsOK, ProcOK, Logged, LoggedFirst
<1>2. ASSUME NEW p \in Procs, NEW o \in Ops, NEW u \in Users, NEW t \in Users,
             Begin(p, o, u, t)
      PROVE  IInv'
  BY <1>2, BeginStep
<1>3. ASSUME NEW p \in Procs,
             \/ IsBlocked(p) \/ Log(p)
             \/ AddTo(p) \/ AddFrom(p) \/ RemTo(p) \/ RemFrom(p)
             \/ AddBlock(p) \/ RemBlock(p)
             \/ ReadSet(p) \/ CountTo(p) \/ CountFrom(p)
             \/ Fail(p) \/ RecountFails(p) \/ Kill(p)
      PROVE  IInv'
  BY <1>3, LogStep, AddStep, RemStep, CountStep, ReadSetStep, FailStep, RecountFailsStep
<1> QED BY <1>1, <1>2, <1>3 DEF Next

(***************************************************************************)
(* Whatever fails and however requests interleave, nobody follows, is      *)
(* followed or is blocked without the action that FollowApi logged before, *)
(* for any number of users, processes, requests and failures.              *)
(***************************************************************************)
THEOREM LoggedFirstHolds == Spec => []LoggedFirst
<1>1. IInv => LoggedFirst BY DEF IInv
<1> QED BY <1>1, InitIInv, NextIInv, PTL DEF Spec
-----------------------------------------------------------------------------
(***************************************************************************)
(* The second inductive invariant: what a request has done to the edge and *)
(* to the counters it touches, as far as it has come with its commands,    *)
(* and what is known of a part of the graph that is settled.               *)
(***************************************************************************)
Suffix(t, s) ==
  /\ Len(t) \in 1 .. Len(s)
  /\ \A i \in 1 .. Len(t) : t[i] = s[Len(s) - Len(t) + i]

Position(t, s) == Len(s) - Len(t) + 1

\* The place of the next command of p among the commands of its request.
At(p) == Position(todo[p], Commands[op[p]])

Placed == \A p \in Procs : ~ Idle(p) => Suffix(todo[p], Commands[op[p]])

FollowerOf(p) == Follower(op[p], user[p], target[p])
FolloweeOf(p) == Followee(op[p], user[p], target[p])

To(u)   == <<"to", u>>
From(u) == <<"from", u>>

EdgeOf(p) == Edge(FollowerOf(p), FolloweeOf(p))
ToOf(p)   == To(FollowerOf(p))
FromOf(p) == From(FolloweeOf(p))

\* Who disturbs a part undoubted is the only one who does.
Alone == \A p, q \in Procs : \A x \in Disturbs(p) \ doubtful[p] : x \in Disturbs(q) => q = p

SettledSure == \A p \in Procs : settled \cap Disturbs(p) \cap doubtful[p] = {}

BlocksUnsettle == \A p \in Procs : op[p] = "block" => {ToOf(p), FromOf(p)} \cap settled = {}

\* What an operation has done to the edge from u to v before command k.
EdgeDone(o, u, v, k) ==
  /\ o = "follow" => /\ k > 1 => u \notin blocked[v]
                     /\ k > 3 => v \in followTo[u]
                     /\ k > 4 => u \in followFrom[v]
  /\ o = "unfollow" => /\ k > 2 => v \notin followTo[u]
                       /\ k > 3 => u \notin followFrom[v]
  /\ o = "block" => /\ k > 2 => u \notin followFrom[v]
                    /\ k > 3 => v \notin followTo[u]

\* Where an operation begins to recount.
First(o) == IF o = "follow" THEN 5 ELSE 4

\* What p has done to the counters after j commands of the recount.
ToDone(p, u, j) == /\ j = 1 => size[p] = Cardinality(followTo[u])
                   /\ j > 1 => follow[u] = Cardinality(followTo[u])

FromDone(p, v, j) == /\ j = 3 => size[p] = Cardinality(followFrom[v])
                     /\ j > 3 => followed[v] = Cardinality(followFrom[v])

Done(p) ==
  LET o == op[p]
      u == FollowerOf(p)
      v == FolloweeOf(p)
  IN  /\ EdgeOf(p) \notin doubtful[p] => EdgeDone(o, u, v, At(p))
      /\ Counts(o) => /\ ToOf(p) \notin doubtful[p] => ToDone(p, u, At(p) - First(o))
                      /\ FromOf(p) \notin doubtful[p] => FromDone(p, v, At(p) - First(o))

DoneOK == \A p \in Procs : ~ Idle(p) => Done(p)

\* A request that has not changed what it disturbs, and may end without.
Untouched(p) == op[p] = "unblock" \/ (op[p] = "follow" /\ At(p) = 1)

Calm(x) == x \in settled /\ \A p \in Procs : x \in Disturbs(p) => Untouched(p)

EdgeRight(u, v) == /\ v \in followTo[u] <=> u \in followFrom[v]
                   /\ u \in blocked[v] => v \notin followTo[u]
ToRight(u)   == follow[u] = Cardinality(followTo[u])
FromRight(u) == followed[u] = Cardinality(followFrom[u])

SettledOK == /\ \A u, v \in Users : Calm(Edge(u, v)) => EdgeRight(u, v)
             /\ \A u \in Users : Calm(To(u)) => ToRight(u)
             /\ \A u \in Users : Calm(From(u)) => FromRight(u)

HInv == Alone /\ SettledSure /\ BlocksUnsettle /\ DoneOK /\ SettledOK
-----------------------------------------------------------------------------
(* Where a request has come to.                                            *)

LEMMA SuffixFacts ==
  ASSUME NEW s \in Seq(Names), NEW t \in Seq(Names), Suffix(t, s)
  PROVE  /\ Position(t, s) \in 1 .. Len(s)
         /\ Head(t) = s[Position(t, s)]
         /\ Len(t) = 1 <=> Position(t, s) = Len(s)
         /\ Len(t) # 1 => /\ Suffix(Tail(t), s)
                          /\ Position(Tail(t), s) = Position(t, s) + 1
<1>1. PICK n \in Nat : n = Len(s) OBVIOUS
<1>2. PICK m \in Nat : m = Len(t) OBVIOUS
<1>3. m \in 1 .. n /\ \A i \in 1 .. m : t[i] = s[n - m + i] BY <1>1, <1>2 DEF Suffix
<1>4. Head(t) = t[1] /\ 1 \in 1 .. m BY <1>2, <1>3, EmptySeq
<1>5. Position(t, s) = n - m + 1 BY <1>1, <1>2 DEF Position
<1>6. Head(t) = s[n - m + 1] BY <1>3, <1>4
<1>7. ASSUME m # 1
      PROVE  Suffix(Tail(t), s) /\ Position(Tail(t), s) = Position(t, s) + 1
  <2>1. /\ t # << >> /\ Tail(t) \in Seq(Names) /\ Len(Tail(t)) = m - 1
        /\ \A i \in 1 .. m - 1 : Tail(t)[i] = t[i + 1]
    BY <1>2, <1>3, <1>7
  <2>2. \A i \in 1 .. m - 1 : Tail(t)[i] = s[n - (m - 1) + i]
    <3> SUFFICES ASSUME NEW i \in 1 .. m - 1 PROVE Tail(t)[i] = s[n - (m - 1) + i]
      OBVIOUS
    <3>1. i + 1 \in 1 .. m /\ n - m + (i + 1) = n - (m - 1) + i BY <1>3
    <3> QED BY <1>3, <2>1, <3>1
  <2>3. m - 1 \in 1 .. n BY <1>3, <1>7
  <2> QED BY <1>1, <1>5, <2>1, <2>2, <2>3 DEF Suffix, Position
<1>8. Position(t, s) \in 1 .. Len(s) BY <1>1, <1>3, <1>5
<1>9. Head(t) = s[Position(t, s)] BY <1>5, <1>6
<1>10. Len(t) = 1 <=> Position(t, s) = Len(s)
  <2>1. m = 1 <=> n - m + 1 = n OBVIOUS
  <2> QED BY <1>1, <1>2, <1>5, <2>1, Zenon
<1>11. Len(t) # 1 => m # 1 BY <1>2
<1> QED BY <1>7, <1>8, <1>9, <1>10, <1>11

\* What an operation sends, and when.
LEMMA Table ==
  ASSUME NEW o \in Ops
  PROVE  LET s == Commands[o]
         IN  /\ s \in Seq(Names)
             /\ Len(s) = (CASE o = "follow" -> 8 [] o = "unfollow" -> 7
                            [] o = "block" -> 4 [] OTHER -> 2)
             /\ \A i \in 1 .. Len(s) :
                  /\ s[i] = "isBlocked" => o = "follow" /\ i = 1
                  /\ s[i] = "log" => i = (IF o = "follow" THEN 2 ELSE 1)
                  /\ s[i] = "addTo" => o = "follow" /\ i = 3
                  /\ s[i] = "addFrom" => o = "follow" /\ i = 4
                  /\ s[i] = "remTo" => (o = "unfollow" /\ i = 2) \/ (o = "block" /\ i = 3)
                  /\ s[i] = "remFrom" => (o = "unfollow" /\ i = 3) \/ (o = "block" /\ i = 2)
                  /\ s[i] = "addBlock" => o = "block" /\ i = 4
                  /\ s[i] = "remBlock" => o = "unblock" /\ i = 2
                  /\ s[i] = "readTo" => Counts(o) /\ i = First(o)
                  /\ s[i] = "countTo" => Counts(o) /\ i = First(o) + 1
                  /\ s[i] = "readFrom" => Counts(o) /\ i = First(o) + 2
                  /\ s[i] = "countFrom" => Counts(o) /\ i = First(o) + 3
<1>1. CASE o = "follow"
  <2> DEFINE s == Commands["follow"]
  <2>1. /\ s \in Seq(Names) /\ Len(s) = 8
        /\ s[1] = "isBlocked" /\ s[2] = "log" /\ s[3] = "addTo" /\ s[4] = "addFrom"
        /\ s[5] = "readTo" /\ s[6] = "countTo" /\ s[7] = "readFrom" /\ s[8] = "countFrom"
    BY DEF Commands, Recount, Names
  <2> HIDE DEF s
  <2>2. \A i \in 1 .. Len(s) : i \in {1, 2, 3, 4, 5, 6, 7, 8} BY <2>1
  <2> QED BY <1>1, <2>1, <2>2 DEF s, Counts, First
<1>2. CASE o = "unfollow"
  <2> DEFINE s == Commands["unfollow"]
  <2>1. /\ s \in Seq(Names) /\ Len(s) = 7
        /\ s[1] = "log" /\ s[2] = "remTo" /\ s[3] = "remFrom" /\ s[4] = "readTo"
        /\ s[5] = "countTo" /\ s[6] = "readFrom" /\ s[7] = "countFrom"
    BY DEF Commands, Recount, Names
  <2> HIDE DEF s
  <2>2. \A i \in 1 .. Len(s) : i \in {1, 2, 3, 4, 5, 6, 7} BY <2>1
  <2> QED BY <1>2, <2>1, <2>2 DEF s, Counts, First
<1>3. CASE o = "block"
  <2> DEFINE s == Commands["block"]
  <2>1. /\ s \in Seq(Names) /\ Len(s) = 4
        /\ s[1] = "log" /\ s[2] = "remFrom" /\ s[3] = "remTo" /\ s[4] = "addBlock"
    BY DEF Commands, Recount, Names
  <2> HIDE DEF s
  <2>2. \A i \in 1 .. Len(s) : i \in {1, 2, 3, 4} BY <2>1
  <2> QED BY <1>3, <2>1, <2>2 DEF s
<1>4. CASE o = "unblock"
  <2> DEFINE s == Commands["unblock"]
  <2>1. /\ s \in Seq(Names) /\ Len(s) = 2 /\ s[1] = "log" /\ s[2] = "remBlock"
    BY DEF Commands, Recount, Names
  <2> HIDE DEF s
  <2>2. \A i \in 1 .. Len(s) : i \in {1, 2} BY <2>1
  <2> QED BY <1>4, <2>1, <2>2 DEF s
<1> QED BY <1>1, <1>2, <1>3, <1>4 DEF Ops

\* Two operations are recounted after, and nothing comes after that.
LEMMA LengthFacts ==
  ASSUME NEW o \in Ops
  PROVE  /\ Len(Commands[o]) \in Nat
         /\ Counts(o) => Len(Commands[o]) = First(o) + 3
         /\ First(o) \in {4, 5} /\ (o = "follow" <=> First(o) = 5)
         /\ o = "block" => Len(Commands[o]) = 4
         /\ o = "unblock" => Len(Commands[o]) = 2
<1>1. Commands[o] \in Seq(Names) BY Table
<1>2. PICK n \in Nat : n = Len(Commands[o]) BY <1>1
<1>3. n = (CASE o = "follow" -> 8 [] o = "unfollow" -> 7 [] o = "block" -> 4 [] OTHER -> 2)
  BY <1>2, Table
<1>4. Counts(o) => n = First(o) + 3 BY <1>3 DEF Counts, First
<1>5. First(o) \in {4, 5} /\ (o = "follow" <=> First(o) = 5) BY DEF First
<1> QED BY <1>2, <1>3, <1>4, <1>5

\* A process that sends c is where its operation has it.
LEMMA SendsAt ==
  ASSUME IInv, Placed, NEW p \in Procs, NEW c, Sends(p, c)
  PROVE  LET o == op[p]
             k == At(p)
         IN  /\ ~ Idle(p) /\ o \in Ops /\ k \in 1 .. Len(Commands[o])
             /\ c = "isBlocked" => o = "follow" /\ k = 1
             /\ c = "log" => k = (IF o = "follow" THEN 2 ELSE 1)
             /\ c = "addTo" => o = "follow" /\ k = 3
             /\ c = "addFrom" => o = "follow" /\ k = 4
             /\ c = "remTo" => (o = "unfollow" /\ k = 2) \/ (o = "block" /\ k = 3)
             /\ c = "remFrom" => (o = "unfollow" /\ k = 3) \/ (o = "block" /\ k = 2)
             /\ c = "addBlock" => o = "block" /\ k = 4
             /\ c = "remBlock" => o = "unblock" /\ k = 2
             /\ c = "readTo" => Counts(o) /\ k = First(o)
             /\ c = "countTo" => Counts(o) /\ k = First(o) + 1
             /\ c = "readFrom" => Counts(o) /\ k = First(o) + 2
             /\ c = "countFrom" => Counts(o) /\ k = First(o) + 3
<1>1. ~ Idle(p) /\ op[p] \in Ops /\ todo[p] \in Seq(Names) /\ Head(todo[p]) = c
  BY DEF Sends, Idle, IInv, RequestsOK, ProcOK
<1>2. Suffix(todo[p], Commands[op[p]]) BY <1>1 DEF Placed
<1>3. Commands[op[p]] \in Seq(Names) BY <1>1, Table
<1>4. At(p) \in 1 .. Len(Commands[op[p]]) /\ c = Commands[op[p]][At(p)]
  BY <1>1, <1>2, <1>3, SuffixFacts DEF At
<1> QED BY <1>1, <1>4, Table
-----------------------------------------------------------------------------
(* What a step does to the request it serves.                              *)

RequestsT == /\ op \in [Procs -> Ops \cup {"none"}]
             /\ user \in [Procs -> Users \cup {NoOne}]
             /\ target \in [Procs -> Users \cup {NoOne}]
             /\ size \in [Procs -> 0 .. Cardinality(Users)]
             /\ doubtful \in [Procs -> SUBSET Parts]
             /\ settled \subseteq Parts
             /\ DOMAIN todo = Procs
             /\ \A p \in Procs : Idle(p) => todo[p] = << >>
             /\ \A p \in Procs : op[p] \in {"follow", "block"} => user[p] # target[p]

Same(q) == /\ op'[q] = op[q] /\ user'[q] = user[q] /\ target'[q] = target[q]
           /\ todo'[q] = todo[q] /\ size'[q] = size[q] /\ doubtful'[q] = doubtful[q]

\* A request that ends, and one that goes on.
Ends(p) == /\ Idle(p)' /\ todo'[p] = << >> /\ doubtful'[p] = {} /\ size'[p] = 0
           /\ user'[p] = NoOne /\ target'[p] = NoOne

GoesOn(p, k) == /\ op'[p] = op[p] /\ user'[p] = user[p] /\ target'[p] = target[p]
                /\ Suffix(todo'[p], Commands[op[p]])
                /\ At(p)' = k

Frame(p) == /\ RequestsT'
            /\ \A q \in Procs \ {p} : Same(q)

\* The request ends after its last command, or goes on with its next one.
Steps(p) == \/ /\ At(p) = Len(Commands[op[p]])
               /\ Ends(p)
               /\ settled' = settled \cup (Rewrites(p) \ doubtful[p])
               /\ wanted' = WantedWhenDone(p)
            \/ /\ At(p) # Len(Commands[op[p]])
               /\ GoesOn(p, At(p) + 1)
               /\ size' = size /\ doubtful' = doubtful /\ settled' = settled
               /\ wanted' = wanted

LEMMA PartsFacts ==
  ASSUME NEW p \in Procs, IInv
  PROVE  Disturbs(p) \subseteq Parts /\ Rewrites(p) \subseteq Disturbs(p)
<1>1. CASE Idle(p) BY <1>1 DEF Disturbs, Rewrites
<1>2. CASE ~ Idle(p)
  <2>1. user[p] \in Users /\ target[p] \in Users
    BY <1>2 DEF Idle, IInv, RequestsOK, ProcOK
  <2>2. FollowerOf(p) \in Users /\ FolloweeOf(p) \in Users
    BY <2>1 DEF FollowerOf, FolloweeOf, Follower, Followee
  <2>3. Disturbs(p) \subseteq {EdgeOf(p), ToOf(p), FromOf(p)}
    BY <1>2 DEF Disturbs, Touches, EdgeOf, ToOf, FromOf, To, From, FollowerOf, FolloweeOf
  <2>4. EdgeOf(p) \in Parts BY <2>2 DEF EdgeOf, Parts
  <2>5. ToOf(p) \in Parts /\ FromOf(p) \in Parts BY <2>2 DEF ToOf, FromOf, To, From, Parts
  <2> QED BY <2>3, <2>4, <2>5 DEF Rewrites
<1> QED BY <1>1, <1>2

LEMMA ClearFacts ==
  ASSUME RequestsT, NEW p \in Procs, Clear(p), settled' \subseteq Parts
  PROVE  Frame(p) /\ Ends(p)
<1>1. Ends(p) BY DEF Clear, Ends, RequestsT, Idle
<1>2. \A q \in Procs \ {p} : Same(q) BY DEF Clear, Same, RequestsT
<1>3. RequestsT'
  <2>1. /\ op' \in [Procs -> Ops \cup {"none"}]
        /\ user' \in [Procs -> Users \cup {NoOne}]
        /\ target' \in [Procs -> Users \cup {NoOne}]
        /\ doubtful' \in [Procs -> SUBSET Parts]
        /\ DOMAIN todo' = Procs
    BY DEF Clear, RequestsT
  <2>2. size' \in [Procs -> 0 .. Cardinality(Users)]
    <3>1. Cardinality(Users) \in Nat BY FollowUsersAssumption, FS_CardinalityType
    <3>2. 0 \in 0 .. Cardinality(Users) BY <3>1
    <3> QED BY <3>2 DEF Clear, RequestsT
  <2>3. \A q \in Procs : Idle(q)' => todo'[q] = << >>
    BY <1>1, <1>2 DEF Ends, Same, RequestsT, Idle
  <2>4. \A q \in Procs : op'[q] \in {"follow", "block"} => user'[q] # target'[q]
    BY <1>1, <1>2 DEF Ends, Same, RequestsT, Idle
  <2> QED BY <2>1, <2>2, <2>3, <2>4 DEF RequestsT
<1> QED BY <1>1, <1>2, <1>3 DEF Frame

\* The next command, with nothing of the request changed but what is stored
\* in size or is doubted now.
LEMMA GoOnFacts ==
  ASSUME IInv, RequestsT, Placed, NEW p \in Procs, ~ Idle(p), UNCHANGED request,
         NEW s \in Seq(Names), todo' = [todo EXCEPT ![p] = s],
         Suffix(s, Commands[op[p]]),
         size' \in [Procs -> 0 .. Cardinality(Users)],
         \A q \in Procs \ {p} : size'[q] = size[q] /\ doubtful'[q] = doubtful[q],
         doubtful' \in [Procs -> SUBSET Parts], settled' \subseteq Parts
  PROVE  Frame(p) /\ GoesOn(p, Position(s, Commands[op[p]]))
<1>1. todo'[p] = s /\ \A q \in Procs \ {p} : todo'[q] = todo[q] BY DEF RequestsT
<1>2. \A q \in Procs \ {p} : Same(q) BY <1>1 DEF Same, request
<1>3. GoesOn(p, Position(s, Commands[op[p]])) BY <1>1 DEF GoesOn, At, request
<1>4. RequestsT' BY <1>1 DEF RequestsT, request, Idle
<1> QED BY <1>2, <1>3, <1>4 DEF Frame

LEMMA AdvanceFacts ==
  ASSUME IInv, RequestsT, Placed, NEW p \in Procs, ~ Idle(p), Advance(p)
  PROVE  Frame(p) /\ Steps(p)
<1>1. /\ op[p] \in Ops /\ todo[p] \in Seq(Names) /\ todo[p] # << >>
      /\ Suffix(todo[p], Commands[op[p]])
  BY DEF Idle, IInv, RequestsOK, ProcOK, Placed
<1>2. Commands[op[p]] \in Seq(Names) BY <1>1, Table
<1>3. CASE Len(todo[p]) = 1
  <2>1. /\ Clear(p) /\ settled' = settled \cup (Rewrites(p) \ doubtful[p])
        /\ wanted' = WantedWhenDone(p)
    BY <1>3 DEF Advance
  <2>2. settled' \subseteq Parts BY <2>1, PartsFacts DEF RequestsT
  <2>3. At(p) = Len(Commands[op[p]]) BY <1>1, <1>2, <1>3, SuffixFacts DEF At
  <2> QED BY <2>1, <2>2, <2>3, ClearFacts DEF Steps
<1>4. CASE Len(todo[p]) # 1
  <2>1. /\ todo' = [todo EXCEPT ![p] = Tail(todo[p])]
        /\ UNCHANGED <<request, size, history>>
    BY <1>4 DEF Advance
  <2>2. PICK s : s = Tail(todo[p]) OBVIOUS
  <2>3. /\ s \in Seq(Names) /\ Suffix(s, Commands[op[p]])
        /\ Position(s, Commands[op[p]]) = At(p) + 1
        /\ At(p) # Len(Commands[op[p]])
    BY <1>1, <1>2, <1>4, <2>2, SuffixFacts DEF At
  <2>4. /\ size' = size /\ doubtful' = doubtful /\ settled' = settled
        /\ wanted' = wanted /\ UNCHANGED request
    BY <2>1 DEF history
  <2>5. Frame(p) /\ GoesOn(p, Position(s, Commands[op[p]]))
    BY <2>1, <2>2, <2>3, <2>4, GoOnFacts DEF RequestsT
  <2> QED BY <2>3, <2>4, <2>5 DEF Steps
<1> QED BY <1>3, <1>4

LEMMA FramePlaced ==
  ASSUME Placed, NEW p \in Procs, Frame(p), Ends(p) \/ (\E k : GoesOn(p, k))
  PROVE  Placed'
<1> SUFFICES ASSUME NEW q \in Procs, ~ Idle(q)'
             PROVE  Suffix(todo'[q], Commands[op'[q]])
  BY DEF Placed
<1>1. CASE q = p BY <1>1 DEF Ends, GoesOn
<1>2. CASE q # p
  <2>1. op'[q] = op[q] /\ todo'[q] = todo[q] BY <1>2 DEF Frame, Same
  <2> QED BY <2>1 DEF Placed, Idle
<1> QED BY <1>1, <1>2
-----------------------------------------------------------------------------
(* What the steps do to the requests, one by one.                          *)

LEMMA ReadSetFacts ==
  ASSUME IInv, RequestsT, Placed, NEW p \in Procs, ReadSet(p)
  PROVE  LET k == At(p) - First(op[p])
         IN  /\ ~ Idle(p) /\ Counts(op[p]) /\ k \in {0, 2}
             /\ Frame(p) /\ GoesOn(p, At(p) + 1)
             /\ doubtful' = doubtful /\ settled' = settled /\ wanted' = wanted
             /\ UNCHANGED <<graph, actions, counters, asked, failed>>
             /\ k = 0 => size'[p] = Cardinality(followTo[FollowerOf(p)])
             /\ k = 2 => size'[p] = Cardinality(followFrom[FolloweeOf(p)])
<1>1. /\ todo' = [todo EXCEPT ![p] = Tail(todo[p])]
      /\ UNCHANGED <<graph, actions, counters, request, asked, failed, history>>
      /\ Sends(p, "readTo") \/ Sends(p, "readFrom")
  BY DEF ReadSet
<1>2. /\ ~ Idle(p) /\ Counts(op[p]) /\ At(p) \in Nat /\ First(op[p]) \in Nat
      /\ Sends(p, "readTo") => At(p) = First(op[p])
      /\ Sends(p, "readFrom") => At(p) = First(op[p]) + 2
      /\ At(p) # Len(Commands[op[p]])
  <2>1. CASE Sends(p, "readTo") BY <2>1, SendsAt, LengthFacts DEF Sends
  <2>2. CASE Sends(p, "readFrom") BY <2>2, SendsAt, LengthFacts DEF Sends
  <2> QED BY <1>1, <2>1, <2>2
<1>3. /\ op[p] \in Ops /\ todo[p] \in Seq(Names) /\ todo[p] # << >>
      /\ Suffix(todo[p], Commands[op[p]]) /\ user[p] \in Users /\ target[p] \in Users
  BY <1>2 DEF Idle, IInv, RequestsOK, ProcOK, Placed
<1>4. FollowerOf(p) = user[p] /\ FolloweeOf(p) = target[p]
  BY <1>2 DEF FollowerOf, FolloweeOf, Follower, Followee
<1>5. PICK n : n = Cardinality(IF Sends(p, "readTo") THEN followTo[user[p]]
                                                     ELSE followFrom[target[p]])
  OBVIOUS
<1>6. size' = [size EXCEPT ![p] = n] BY <1>5 DEF ReadSet
<1>7. n \in 0 .. Cardinality(Users)
  <2>1. followTo[user[p]] \in SUBSET Users /\ followFrom[target[p]] \in SUBSET Users
    BY <1>3 DEF IInv, GraphOK
  <2>2. \A S \in SUBSET Users : Cardinality(S) \in 0 .. Cardinality(Users)
    <3> SUFFICES ASSUME NEW S \in SUBSET Users
                 PROVE  Cardinality(S) \in 0 .. Cardinality(Users)
      OBVIOUS
    <3>1. IsFiniteSet(S) /\ Cardinality(S) <= Cardinality(Users)
      BY FollowUsersAssumption, FS_Subset
    <3>2. Cardinality(S) \in Nat /\ Cardinality(Users) \in Nat
      BY <3>1, FollowUsersAssumption, FS_CardinalityType
    <3> QED BY <3>1, <3>2
  <2> QED BY <1>5, <2>1, <2>2
<1>8. Commands[op[p]] \in Seq(Names) BY <1>3, Table
<1>9. Len(todo[p]) # 1 BY <1>2, <1>3, <1>8, SuffixFacts DEF At
<1>10. PICK s : s = Tail(todo[p]) OBVIOUS
<1>11. /\ s \in Seq(Names) /\ Suffix(s, Commands[op[p]])
       /\ Position(s, Commands[op[p]]) = At(p) + 1
  BY <1>3, <1>8, <1>9, <1>10, SuffixFacts DEF At
<1>12. /\ size' \in [Procs -> 0 .. Cardinality(Users)] /\ size'[p] = n
       /\ \A q \in Procs \ {p} : size'[q] = size[q]
  BY <1>6, <1>7 DEF RequestsT
<1>13. /\ doubtful' = doubtful /\ settled' = settled /\ wanted' = wanted
       /\ UNCHANGED request
  BY <1>1 DEF history
<1>14. Frame(p) /\ GoesOn(p, At(p) + 1)
  <2>1. todo' = [todo EXCEPT ![p] = s] BY <1>1, <1>10
  <2>2. doubtful' \in [Procs -> SUBSET Parts] /\ settled' \subseteq Parts
    BY <1>13 DEF RequestsT
  <2>3. Frame(p) /\ GoesOn(p, Position(s, Commands[op[p]]))
    BY <1>2, <1>11, <1>12, <1>13, <2>1, <2>2, GoOnFacts
  <2> QED BY <1>11, <2>3
<1>15. At(p) - First(op[p]) = 0 => Sends(p, "readTo") BY <1>1, <1>2
<1>16. At(p) - First(op[p]) = 2 => ~ Sends(p, "readTo") BY <1>2
<1> QED BY <1>1, <1>2, <1>4, <1>5, <1>12, <1>13, <1>14, <1>15, <1>16

LEMMA RecountFailsFacts ==
  ASSUME IInv, RequestsT, Placed, NEW p \in Procs, RecountFails(p)
  PROVE  /\ ~ Idle(p) /\ Counts(op[p]) /\ Frame(p)
         /\ UNCHANGED <<graph, actions, counters, asked>> /\ Fails
         /\ \/ /\ At(p) - First(op[p]) \in {0, 1}
               /\ GoesOn(p, First(op[p]) + 2)
               /\ doubtful'[p] = doubtful[p] \cup {ToOf(p)}
               /\ settled' = settled \ {ToOf(p)} /\ wanted' = wanted
            \/ /\ At(p) - First(op[p]) \in {2, 3}
               /\ Ends(p)
               /\ settled' = (settled \cup (Rewrites(p) \ doubtful[p])) \ {FromOf(p)}
               /\ wanted' = WantedWhenDone(p)
<1>1. PICK i \in 1 .. Len(Recount) :
        /\ Sends(p, Recount[i])
        /\ LET list == IF i <= 2 THEN <<"to", user[p]>> ELSE <<"from", target[p]>>
           IN  IF i <= 2
                 THEN /\ todo' = [todo EXCEPT ![p] = SubSeq(Recount, 3, 4)]
                      /\ doubtful' = [doubtful EXCEPT ![p] = @ \cup {list}]
                      /\ settled' = settled \ {list}
                      /\ UNCHANGED <<request, size, wanted>>
                 ELSE /\ Clear(p)
                      /\ settled' = (settled \cup (Rewrites(p) \ doubtful[p])) \ {list}
                      /\ wanted' = WantedWhenDone(p)
  BY DEF RecountFails
<1>2. Len(Recount) = 4 /\ Recount[1] = "readTo" /\ Recount[2] = "countTo"
      /\ Recount[3] = "readFrom" /\ Recount[4] = "countFrom"
  BY DEF Recount
<1>3. /\ UNCHANGED <<graph, actions, counters, asked>> /\ Fails BY DEF RecountFails
<1>4. /\ ~ Idle(p) /\ Counts(op[p]) /\ At(p) - First(op[p]) \in {0, 1, 2, 3}
      /\ i <= 2 <=> At(p) - First(op[p]) \in {0, 1}
  <2>1. i \in {1, 2, 3, 4} BY <1>2
  <2>2. CASE i = 1 BY <1>1, <1>2, <2>2, SendsAt, LengthFacts
  <2>3. CASE i = 2 BY <1>1, <1>2, <2>3, SendsAt, LengthFacts
  <2>4. CASE i = 3 BY <1>1, <1>2, <2>4, SendsAt, LengthFacts
  <2>5. CASE i = 4 BY <1>1, <1>2, <2>5, SendsAt, LengthFacts
  <2> QED BY <2>1, <2>2, <2>3, <2>4, <2>5
<1>5. <<"to", user[p]>> = ToOf(p) /\ <<"from", target[p]>> = FromOf(p)
  BY <1>4 DEF ToOf, FromOf, To, From, FollowerOf, FolloweeOf, Follower, Followee
<1>6. op[p] \in Ops /\ user[p] \in Users /\ target[p] \in Users
  BY <1>4 DEF Idle, IInv, RequestsOK, ProcOK
<1>7. CASE i <= 2
  <2>1. PICK s : s = SubSeq(Recount, 3, 4) OBVIOUS
  <2>2. s \in Seq(Names) /\ Len(s) = 2 /\ s[1] = "readFrom" /\ s[2] = "countFrom"
    BY <2>1 DEF Recount, Names
  <2>3. Suffix(s, Commands[op[p]]) /\ Position(s, Commands[op[p]]) = First(op[p]) + 2
    <3>1. PICK c \in Seq(Names) : c = Commands[op[p]] BY <1>6, Table
    <3>2. PICK n \in Nat : n = Len(c) BY <3>1
    <3>3. n = First(op[p]) + 3 /\ First(op[p]) \in {4, 5}
      BY <1>4, <1>6, <3>1, <3>2, LengthFacts
    <3>4. c[n - 1] = "readFrom" /\ c[n] = "countFrom"
      <4>1. CASE op[p] = "follow"
        <5>1. n = 8 BY <3>3, <4>1 DEF First
        <5> QED BY <3>1, <4>1, <5>1 DEF Commands, Recount
      <4>2. CASE op[p] = "unfollow"
        <5>1. n = 7 BY <3>3, <4>2 DEF First
        <5> QED BY <3>1, <4>2, <5>1 DEF Commands, Recount
      <4> QED BY <1>4, <4>1, <4>2 DEF Counts
    <3>5. \A j \in 1 .. 2 : s[j] = c[n - 2 + j]
      <4> SUFFICES ASSUME NEW j \in 1 .. 2 PROVE s[j] = c[n - 2 + j] OBVIOUS
      <4>1. CASE j = 1
        <5>1. n - 2 + j = n - 1 BY <4>1
        <5> QED BY <2>2, <3>4, <4>1, <5>1
      <4>2. CASE j = 2
        <5>1. n - 2 + j = n BY <4>2
        <5> QED BY <2>2, <3>4, <4>2, <5>1
      <4> QED BY <4>1, <4>2
    <3> QED BY <2>2, <3>1, <3>2, <3>3, <3>5 DEF Suffix, Position
  <2>4. ToOf(p) \in Parts BY <1>5, <1>6 DEF Parts
  <2>5. /\ todo' = [todo EXCEPT ![p] = s] /\ UNCHANGED request /\ size' = size
        /\ doubtful' = [doubtful EXCEPT ![p] = doubtful[p] \cup {ToOf(p)}]
        /\ settled' = settled \ {ToOf(p)} /\ wanted' = wanted
    BY <1>1, <1>5, <1>7, <2>1
  <2>6. /\ doubtful' \in [Procs -> SUBSET Parts]
        /\ \A q \in Procs \ {p} : doubtful'[q] = doubtful[q]
        /\ doubtful'[p] = doubtful[p] \cup {ToOf(p)}
        /\ settled' \subseteq Parts
    <3>1. doubtful[p] \cup {ToOf(p)} \in SUBSET Parts BY <2>4 DEF RequestsT
    <3> QED BY <2>5, <3>1 DEF RequestsT
  <2>7. Frame(p) /\ GoesOn(p, Position(s, Commands[op[p]]))
    BY <1>4, <2>2, <2>3, <2>5, <2>6, GoOnFacts DEF RequestsT
  <2> QED BY <1>3, <1>4, <1>7, <2>3, <2>5, <2>6, <2>7
<1>8. CASE ~ (i <= 2)
  <2>1. /\ Clear(p) /\ settled' = (settled \cup (Rewrites(p) \ doubtful[p])) \ {FromOf(p)}
        /\ wanted' = WantedWhenDone(p)
    BY <1>1, <1>5, <1>8
  <2>2. settled' \subseteq Parts BY <2>1, PartsFacts DEF RequestsT
  <2>3. Frame(p) /\ Ends(p) BY <2>1, <2>2, ClearFacts
  <2> QED BY <1>3, <1>4, <1>8, <2>1, <2>3
<1> QED BY <1>7, <1>8

LEMMA FailFacts ==
  ASSUME IInv, RequestsT, NEW p \in Procs, Fail(p) \/ Kill(p)
  PROVE  /\ ~ Idle(p) /\ Frame(p) /\ Ends(p)
         /\ settled' = settled \ Disturbs(p) /\ wanted' = wanted
         /\ UNCHANGED <<graph, actions, counters, asked>> /\ Fails
<1>1. /\ ~ Idle(p) /\ Clear(p) /\ settled' = settled \ Disturbs(p) /\ Fails
      /\ wanted' = wanted
      /\ UNCHANGED <<graph, actions, counters, asked>>
  BY DEF Fail, Kill
<1>2. settled' \subseteq Parts BY <1>1 DEF RequestsT
<1> QED BY <1>1, <1>2, ClearFacts

\* What a new request shares with those that are under way.
Shared(o, u, t) == Touches(o, u, t) \cap UNION {Disturbs(q) : q \in Procs}

LEMMA BeginFacts ==
  ASSUME IInv, RequestsT, Placed, NEW p \in Procs, NEW o \in Ops,
         NEW u \in Users, NEW t \in Users, Begin(p, o, u, t)
  PROVE  /\ Idle(p) /\ ~ Idle(p)' /\ op'[p] = o /\ user'[p] = u /\ target'[p] = t
         /\ At(p)' = 1 /\ RequestsT' /\ Placed'
         /\ \A q \in Procs \ {p} : /\ op'[q] = op[q] /\ user'[q] = user[q]
                                   /\ target'[q] = target[q] /\ todo'[q] = todo[q]
         /\ size' = size
         /\ UNCHANGED <<graph, actions, counters, failed>>
         /\ Disturbs(p)' = Touches(o, u, t) /\ Disturbs(p) = {}
         /\ \A q \in Procs \ {p} : Disturbs(q)' = Disturbs(q)
         /\ doubtful'[p] = Shared(o, u, t)
         /\ \A q \in Procs \ {p} :
              doubtful'[q] = doubtful[q] \cup (Disturbs(q) \cap Touches(o, u, t))
         /\ settled' = (settled \ Shared(o, u, t))
                         \ IF o = "block" THEN Touches(o, u, t) \ {Edge(t, u)} ELSE {}
<1>1. /\ Idle(p) /\ o # "none"
      /\ op' = [op EXCEPT ![p] = o] /\ user' = [user EXCEPT ![p] = u]
      /\ target' = [target EXCEPT ![p] = t] /\ todo' = [todo EXCEPT ![p] = Commands[o]]
      /\ UNCHANGED <<graph, actions, counters, size, failed>>
      /\ MayAsk(o, u, t)
  BY DEF Begin, Ops
<1>2. /\ op'[p] = o /\ user'[p] = u /\ target'[p] = t /\ todo'[p] = Commands[o]
      /\ \A q \in Procs \ {p} : /\ op'[q] = op[q] /\ user'[q] = user[q]
                                /\ target'[q] = target[q] /\ todo'[q] = todo[q]
  BY <1>1 DEF RequestsT
<1>3. /\ doubtful' = [q \in Procs |-> IF q = p THEN Shared(o, u, t)
                        ELSE doubtful[q] \cup (Disturbs(q) \cap Touches(o, u, t))]
      /\ settled' = (settled \ Shared(o, u, t))
                      \ IF o = "block" THEN Touches(o, u, t) \ {Edge(t, u)} ELSE {}
  BY DEF Begin, Shared
<1>4. ~ Idle(p)' BY <1>1, <1>2 DEF Idle
<1>5. Disturbs(p)' = Touches(o, u, t) /\ Disturbs(p) = {}
  BY <1>1, <1>2, <1>4 DEF Disturbs, Touches
<1>6. \A q \in Procs \ {p} : Disturbs(q)' = Disturbs(q)
  BY <1>2 DEF Disturbs, Touches, Idle
<1>7. Suffix(Commands[o], Commands[o]) /\ Position(Commands[o], Commands[o]) = 1
  <2>1. PICK c \in Seq(Names) : c = Commands[o] BY Table
  <2>2. PICK n \in Nat : n = Len(c) BY <2>1
  <2>3. n # 0 BY <2>1, <2>2, CommandsFacts, EmptySeq
  <2>4. Suffix(c, c) /\ Position(c, c) = 1 BY <2>2, <2>3 DEF Suffix, Position
  <2> QED BY <2>1, <2>4
<1>8. At(p)' = 1 BY <1>2, <1>7 DEF At
<1>9. Placed'
  <2> SUFFICES ASSUME NEW q \in Procs, ~ Idle(q)'
               PROVE  Suffix(todo'[q], Commands[op'[q]])
    BY DEF Placed
  <2> QED BY <1>2, <1>7 DEF Placed, Idle
<1>10. Touches(o, u, t) \subseteq Parts
  <2>1. Touches(o, u, t) \subseteq {Edge(Follower(o, u, t), Followee(o, u, t)),
                                    <<"to", Follower(o, u, t)>>, <<"from", Followee(o, u, t)>>}
    BY DEF Touches
  <2>2. Follower(o, u, t) \in Users /\ Followee(o, u, t) \in Users BY DEF Follower, Followee
  <2> QED BY <2>1, <2>2 DEF Parts
<1>11. doubtful' \in [Procs -> SUBSET Parts] /\ settled' \subseteq Parts
  <2>1. Shared(o, u, t) \subseteq Parts BY <1>10 DEF Shared
  <2>2. \A q \in Procs : doubtful[q] \subseteq Parts BY DEF RequestsT
  <2> QED BY <1>3, <1>10, <2>1, <2>2 DEF RequestsT
<1>12. RequestsT'
  <2>1. /\ op' \in [Procs -> Ops \cup {"none"}]
        /\ user' \in [Procs -> Users \cup {NoOne}]
        /\ target' \in [Procs -> Users \cup {NoOne}]
        /\ size' \in [Procs -> 0 .. Cardinality(Users)]
        /\ DOMAIN todo' = Procs
    BY <1>1 DEF RequestsT
  <2>2. \A q \in Procs : Idle(q)' => todo'[q] = << >>
    BY <1>2, <1>4 DEF RequestsT, Idle
  <2>3. \A q \in Procs : op'[q] \in {"follow", "block"} => user'[q] # target'[q]
    BY <1>1, <1>2 DEF RequestsT, MayAsk
  <2> QED BY <1>11, <2>1, <2>2, <2>3 DEF RequestsT
<1> QED BY <1>1, <1>2, <1>3, <1>4, <1>5, <1>6, <1>8, <1>9, <1>12

-----------------------------------------------------------------------------
(* Types.                                                                  *)

StoreT == /\ \A u \in Users : followTo[u] \subseteq Users \ {u}
          /\ \A u \in Users : followFrom[u] \subseteq Users \ {u}
          /\ \A u \in Users : blocked[u] \subseteq Users \ {u}
          /\ actions \in [Users -> SUBSET (Ops \X Users)]
          /\ follow \in [Users -> 0 .. Cardinality(Users)]
          /\ followed \in [Users -> 0 .. Cardinality(Users)]

BoundsT == asked \in 0 .. MaxRequests /\ failed \in 0 .. MaxFail

TInv == StoreT /\ RequestsT /\ BoundsT /\ Placed

WantedT == wanted \subseteq Users \X Users

LEMMA TypesFollow == IInv /\ TInv /\ WantedT => TypeOK
<1> SUFFICES ASSUME IInv, TInv, WantedT PROVE TypeOK OBVIOUS
<1>1. ASSUME NEW p \in Procs PROVE Len(todo[p]) <= 8
  <2>1. CASE Idle(p)
    <3>1. todo[p] = << >> BY <2>1 DEF TInv, RequestsT
    <3>2. Len(<< >>) <= 8 OBVIOUS
    <3> QED BY <3>1, <3>2
  <2>2. CASE ~ Idle(p)
    <3>1. Suffix(todo[p], Commands[op[p]]) /\ op[p] \in Ops /\ todo[p] \in Seq(Names)
      BY <2>2 DEF TInv, Placed, Idle, IInv, RequestsOK, ProcOK
    <3>2. PICK n \in Nat : n = Len(Commands[op[p]]) BY <3>1, LengthFacts
    <3>3. PICK m \in Nat : m = Len(todo[p]) BY <3>1
    <3>4. n = (CASE op[p] = "follow" -> 8 [] op[p] = "unfollow" -> 7
                 [] op[p] = "block" -> 4 [] OTHER -> 2)
      BY <3>1, <3>2, Table
    <3>5. n <= 8 BY <3>4
    <3>6. m <= n BY <3>1, <3>2, <3>3 DEF Suffix
    <3>7. m <= 8 BY <3>5, <3>6
    <3> QED BY <3>3, <3>7
  <2> QED BY <2>1, <2>2
<1> QED BY <1>1 DEF TInv, StoreT, RequestsT, BoundsT, WantedT, TypeOK

LEMMA TypesStart == Init => TInv
<1> SUFFICES ASSUME Init PROVE TInv OBVIOUS
<1>1. Cardinality(Users) \in Nat BY FollowUsersAssumption, FS_CardinalityType
<1>2. 0 \in 0 .. Cardinality(Users) BY <1>1
<1>3. StoreT BY <1>2 DEF Init, StoreT
<1>4. RequestsT BY <1>2 DEF Init, RequestsT, Idle
<1>5. BoundsT BY FollowUsersAssumption DEF Init, BoundsT
<1>6. Placed BY DEF Init, Placed, Idle
<1> QED BY <1>3, <1>4, <1>5, <1>6 DEF TInv

LEMMA StepsPlaced ==
  ASSUME Placed, NEW p \in Procs, Frame(p), Steps(p) \/ Ends(p)
  PROVE  Placed'
BY FramePlaced DEF Steps

\* The commands that change the graph, the log or a counter.
LEMMA ChangeFacts ==
  ASSUME IInv, RequestsT, Placed, NEW p \in Procs,
         \/ Log(p) \/ AddTo(p) \/ AddFrom(p) \/ RemTo(p) \/ RemFrom(p)
         \/ AddBlock(p) \/ RemBlock(p) \/ CountTo(p) \/ CountFrom(p)
  PROVE  ~ Idle(p) /\ Frame(p) /\ Steps(p) /\ Placed' /\ UNCHANGED <<asked, failed>>
<1>1. ~ Idle(p) /\ Advance(p) /\ UNCHANGED <<asked, failed>>
  BY DEF Log, AddTo, AddFrom, RemTo, RemFrom, AddBlock, RemBlock, CountTo, CountFrom, Sends
<1>2. Frame(p) /\ Steps(p) BY <1>1, AdvanceFacts
<1> QED BY <1>1, <1>2, StepsPlaced

LEMMA IsBlockedFacts ==
  ASSUME IInv, RequestsT, Placed, NEW p \in Procs, IsBlocked(p)
  PROVE  /\ ~ Idle(p) /\ Frame(p) /\ Placed'
         /\ op[p] = "follow" /\ At(p) = 1
         /\ UNCHANGED <<graph, actions, counters, asked, failed>>
         /\ \/ Ends(p) /\ settled' = settled /\ wanted' = wanted
            \/ Steps(p) /\ user[p] \notin blocked[target[p]]
<1>1. /\ Sends(p, "isBlocked") /\ UNCHANGED <<graph, actions, counters, asked, failed>>
      /\ ~ Idle(p)
  BY DEF IsBlocked, Sends
<1>2. op[p] = "follow" /\ At(p) = 1 BY <1>1, SendsAt
<1>3. CASE user[p] \in blocked[target[p]]
  <2>1. Clear(p) /\ settled' = settled /\ wanted' = wanted BY <1>3 DEF IsBlocked
  <2>2. settled' \subseteq Parts BY <2>1 DEF RequestsT
  <2>3. Frame(p) /\ Ends(p) BY <2>1, <2>2, ClearFacts
  <2> QED BY <1>1, <1>2, <2>1, <2>3, StepsPlaced
<1>4. CASE user[p] \notin blocked[target[p]]
  <2>1. Advance(p) BY <1>4 DEF IsBlocked
  <2>2. Frame(p) /\ Steps(p) BY <1>1, <2>1, AdvanceFacts
  <2> QED BY <1>1, <1>2, <1>4, <2>2, StepsPlaced
<1> QED BY <1>3, <1>4

LEMMA ChangeT ==
  ASSUME IInv, TInv, NEW p \in Procs,
         \/ Log(p) \/ AddTo(p) \/ AddFrom(p) \/ RemTo(p) \/ RemFrom(p)
         \/ AddBlock(p) \/ RemBlock(p) \/ CountTo(p) \/ CountFrom(p)
  PROVE  TInv'
<1>1. RequestsT' /\ Placed' /\ BoundsT' /\ ~ Idle(p)
  BY ChangeFacts DEF TInv, Frame, BoundsT
<1>2. op[p] \in Ops /\ user[p] \in Users /\ target[p] \in Users
  BY <1>1 DEF Idle, IInv, RequestsOK, ProcOK
<1>3. op[p] \in {"follow", "block"} => user[p] # target[p] BY DEF TInv, RequestsT
<1>4. StoreT /\ Placed /\ RequestsT BY DEF TInv
<1>5. /\ followTo \in [Users -> SUBSET Users]
      /\ followFrom \in [Users -> SUBSET Users]
      /\ blocked \in [Users -> SUBSET Users]
  BY DEF IInv, GraphOK
<1>6. StoreT'
  <2>1. CASE Log(p)
    <3>1. actions' = [actions EXCEPT ![user[p]] = actions[user[p]] \cup {<<op[p], target[p]>>}]
          /\ UNCHANGED <<graph, counters>>
      BY <2>1 DEF Log
    <3>2. <<op[p], target[p]>> \in Ops \X Users BY <1>2
    <3>3. actions' \in [Users -> SUBSET (Ops \X Users)]
      BY <1>2, <1>4, <3>1, <3>2 DEF StoreT
    <3> QED BY <1>4, <3>1, <3>3 DEF StoreT, graph, counters
  <2>2. CASE AddTo(p)
    <3>1. followTo' = [followTo EXCEPT ![user[p]] = followTo[user[p]] \cup {target[p]}]
          /\ UNCHANGED <<followFrom, blocked, actions, counters>>
      BY <2>2 DEF AddTo
    <3>2. user[p] # target[p] BY <1>3, <1>4, <2>2, SendsAt DEF AddTo
    <3> QED BY <1>2, <1>4, <1>5, <3>1, <3>2 DEF StoreT, counters
  <2>3. CASE AddFrom(p)
    <3>1. followFrom' = [followFrom EXCEPT ![target[p]] = followFrom[target[p]] \cup {user[p]}]
          /\ UNCHANGED <<followTo, blocked, actions, counters>>
      BY <2>3 DEF AddFrom
    <3>2. user[p] # target[p] BY <1>3, <1>4, <2>3, SendsAt DEF AddFrom
    <3> QED BY <1>2, <1>4, <1>5, <3>1, <3>2 DEF StoreT, counters
  <2>4. CASE AddBlock(p)
    <3>1. blocked' = [blocked EXCEPT ![user[p]] = blocked[user[p]] \cup {target[p]}]
          /\ UNCHANGED <<followTo, followFrom, actions, counters>>
      BY <2>4 DEF AddBlock
    <3>2. user[p] # target[p] BY <1>3, <1>4, <2>4, SendsAt DEF AddBlock
    <3> QED BY <1>2, <1>4, <1>5, <3>1, <3>2 DEF StoreT, counters
  <2>5. CASE RemTo(p)
    <3>1. PICK w, x : followTo' = [followTo EXCEPT ![w] = followTo[w] \ {x}]
      BY <2>5 DEF RemTo
    <3>2. UNCHANGED <<followFrom, blocked, actions, counters>> BY <2>5 DEF RemTo
    <3> QED BY <1>4, <1>5, <3>1, <3>2 DEF StoreT, counters
  <2>6. CASE RemFrom(p)
    <3>1. PICK w, x : followFrom' = [followFrom EXCEPT ![w] = followFrom[w] \ {x}]
      BY <2>6 DEF RemFrom
    <3>2. UNCHANGED <<followTo, blocked, actions, counters>> BY <2>6 DEF RemFrom
    <3> QED BY <1>4, <1>5, <3>1, <3>2 DEF StoreT, counters
  <2>7. CASE RemBlock(p)
    <3>1. PICK w, x : blocked' = [blocked EXCEPT ![w] = blocked[w] \ {x}]
      BY <2>7 DEF RemBlock
    <3>2. UNCHANGED <<followTo, followFrom, actions, counters>> BY <2>7 DEF RemBlock
    <3> QED BY <1>4, <1>5, <3>1, <3>2 DEF StoreT, counters
  <2>8. CASE CountTo(p)
    <3>1. follow' = [follow EXCEPT ![user[p]] = size[p]]
          /\ UNCHANGED <<graph, actions, followed>>
      BY <2>8 DEF CountTo
    <3>2. size[p] \in 0 .. Cardinality(Users) BY <1>4 DEF RequestsT
    <3> QED BY <1>4, <3>1, <3>2 DEF StoreT, graph
  <2>9. CASE CountFrom(p)
    <3>1. followed' = [followed EXCEPT ![target[p]] = size[p]]
          /\ UNCHANGED <<graph, actions, follow>>
      BY <2>9 DEF CountFrom
    <3>2. size[p] \in 0 .. Cardinality(Users) BY <1>4 DEF RequestsT
    <3> QED BY <1>4, <3>1, <3>2 DEF StoreT, graph
  <2> QED BY <2>1, <2>2, <2>3, <2>4, <2>5, <2>6, <2>7, <2>8, <2>9
<1> QED BY <1>1, <1>6 DEF TInv

LEMMA StoreSame ==
  ASSUME StoreT, UNCHANGED <<graph, actions, counters>>
  PROVE  StoreT'
BY DEF StoreT, graph, counters

LEMMA TypesNext == IInv /\ TInv /\ [Next]_vars => TInv'
<1> SUFFICES ASSUME IInv, TInv, [Next]_vars PROVE TInv' OBVIOUS
<1>0. StoreT /\ RequestsT /\ Placed /\ BoundsT BY DEF TInv
<1>1. CASE UNCHANGED vars
  <2>1. StoreT' BY <1>0, <1>1, StoreSame DEF vars
  <2>2. RequestsT' BY <1>0, <1>1 DEF vars, request, history, RequestsT, Idle
  <2>3. Placed' BY <1>0, <1>1 DEF vars, request, Placed, Idle
  <2>4. BoundsT' BY <1>0, <1>1 DEF vars, BoundsT
  <2> QED BY <2>1, <2>2, <2>3, <2>4 DEF TInv
<1>2. ASSUME NEW p \in Procs, NEW o \in Ops, NEW u \in Users, NEW t \in Users,
             Begin(p, o, u, t)
      PROVE  TInv'
  <2>1. RequestsT' /\ Placed' /\ UNCHANGED <<graph, actions, counters, failed>>
    BY <1>0, <1>2, BeginFacts
  <2>2. BoundsT' BY <1>0, <1>2, FollowUsersAssumption DEF Begin, BoundsT
  <2> QED BY <1>0, <2>1, <2>2, StoreSame DEF TInv
<1>3. ASSUME NEW p \in Procs,
             \/ Log(p) \/ AddTo(p) \/ AddFrom(p) \/ RemTo(p) \/ RemFrom(p)
             \/ AddBlock(p) \/ RemBlock(p) \/ CountTo(p) \/ CountFrom(p)
      PROVE  TInv'
  BY <1>3, ChangeT
<1>4. ASSUME NEW p \in Procs, IsBlocked(p) PROVE TInv'
  <2>1. /\ RequestsT' /\ Placed'
        /\ UNCHANGED <<graph, actions, counters, asked, failed>>
    BY <1>0, <1>4, IsBlockedFacts DEF Frame
  <2> QED BY <1>0, <2>1, StoreSame DEF TInv, BoundsT
<1>5. ASSUME NEW p \in Procs, ReadSet(p) PROVE TInv'
  <2>1. /\ RequestsT' /\ Placed'
        /\ UNCHANGED <<graph, actions, counters, asked, failed>>
    BY <1>0, <1>5, ReadSetFacts, FramePlaced DEF Frame
  <2> QED BY <1>0, <2>1, StoreSame DEF TInv, BoundsT
<1>6. ASSUME NEW p \in Procs, Fail(p) \/ Kill(p) \/ RecountFails(p) PROVE TInv'
  <2>1. Frame(p) /\ Placed' /\ UNCHANGED <<graph, actions, counters, asked>> /\ Fails
    <3>1. CASE RecountFails(p) BY <1>0, <3>1, RecountFailsFacts, FramePlaced
    <3>2. CASE Fail(p) \/ Kill(p) BY <1>0, <3>2, FailFacts, FramePlaced
    <3> QED BY <1>6, <3>1, <3>2
  <2>2. BoundsT' BY <1>0, <2>1, FollowUsersAssumption DEF Fails, BoundsT
  <2> QED BY <1>0, <2>1, <2>2, StoreSame DEF TInv, Frame
<1> QED BY <1>1, <1>2, <1>3, <1>4, <1>5, <1>6 DEF Next

\* Who is wanted to follow whom changes when a request ends.
LEMMA WantedNext ==
  ASSUME IInv, [Next]_vars
  PROVE  wanted' = wanted \/ \E p \in Procs : ~ Idle(p) /\ wanted' = WantedWhenDone(p)
<1>1. CASE UNCHANGED vars BY <1>1 DEF vars, history
<1>2. ASSUME NEW p \in Procs, NEW o \in Ops, NEW u \in Users, NEW t \in Users,
             Begin(p, o, u, t)
      PROVE  wanted' = wanted
  BY <1>2 DEF Begin
<1>3. ASSUME NEW p \in Procs, ~ Idle(p), Advance(p)
      PROVE  wanted' = wanted \/ wanted' = WantedWhenDone(p)
  BY <1>3 DEF Advance, history
<1>4. ASSUME NEW p \in Procs, IsBlocked(p)
      PROVE  wanted' = wanted \/ (~ Idle(p) /\ wanted' = WantedWhenDone(p))
  BY <1>3, <1>4 DEF IsBlocked, Sends
<1>5. ASSUME NEW p \in Procs,
             \/ Log(p) \/ AddTo(p) \/ AddFrom(p) \/ RemTo(p) \/ RemFrom(p)
             \/ AddBlock(p) \/ RemBlock(p) \/ CountTo(p) \/ CountFrom(p)
      PROVE  wanted' = wanted \/ (~ Idle(p) /\ wanted' = WantedWhenDone(p))
  <2>1. ~ Idle(p) /\ Advance(p)
    BY <1>5 DEF Log, AddTo, AddFrom, RemTo, RemFrom, AddBlock, RemBlock, CountTo, CountFrom,
                Sends
  <2> QED BY <1>3, <2>1
<1>6. ASSUME NEW p \in Procs, ReadSet(p) \/ Fail(p) \/ Kill(p)
      PROVE  wanted' = wanted
  BY <1>6 DEF ReadSet, Fail, Kill, history
<1>7. ASSUME NEW p \in Procs, RecountFails(p)
      PROVE  wanted' = wanted \/ (~ Idle(p) /\ wanted' = WantedWhenDone(p))
  BY <1>7 DEF RecountFails, Sends
<1> QED BY <1>1, <1>2, <1>4, <1>5, <1>6, <1>7 DEF Next

LEMMA WantedTypes == IInv /\ WantedT /\ [Next]_vars => WantedT'
<1> SUFFICES ASSUME IInv, WantedT, [Next]_vars PROVE WantedT' OBVIOUS
<1>1. CASE wanted' = wanted BY <1>1 DEF WantedT
<1>2. ASSUME NEW p \in Procs, ~ Idle(p), wanted' = WantedWhenDone(p) PROVE WantedT'
  <2>1. user[p] \in Users /\ target[p] \in Users
    BY <1>2 DEF Idle, IInv, RequestsOK, ProcOK
  <2>2. FollowerOf(p) \in Users /\ FolloweeOf(p) \in Users
    BY <2>1 DEF FollowerOf, FolloweeOf, Follower, Followee
  <2>3. wanted' \subseteq wanted \cup {<<FollowerOf(p), FolloweeOf(p)>>}
    BY <1>2 DEF WantedWhenDone, FollowerOf, FolloweeOf
  <2> QED BY <2>2, <2>3 DEF WantedT
<1> QED BY <1>1, <1>2, WantedNext

(***************************************************************************)
(* Nobody follows or blocks himself, no counter exceeds the number of      *)
(* users, and no request has more to send than its operation: the types of *)
(* FollowApi's state hold for every number of users and failures.          *)
(***************************************************************************)
THEOREM TypeOKHolds == Spec => []TypeOK
<1>1. IInv /\ TInv /\ WantedT => TypeOK BY TypesFollow
<1>2. Init => WantedT BY DEF Init, WantedT
<1> QED BY <1>1, <1>2, InitIInv, NextIInv, TypesStart, TypesNext, WantedTypes, PTL DEF Spec
-----------------------------------------------------------------------------
(* The parts of the graph.                                                 *)

LEMMA Distinct ==
  /\ \A u, v, a, b : Edge(u, v) = Edge(a, b) <=> u = a /\ v = b
  /\ \A u, a : To(u) = To(a) <=> u = a
  /\ \A u, a : From(u) = From(a) <=> u = a
  /\ \A u, v, a : Edge(u, v) # To(a) /\ Edge(u, v) # From(a)
  /\ \A u, a : To(u) # From(a)
  /\ \A u, v : Edge(u, v)[1] = "edge" /\ To(u)[1] # "edge" /\ From(u)[1] # "edge"
<1>1. \A u, v : Edge(u, v)[1] = "edge" /\ To(u)[1] = "to" /\ From(u)[1] = "from"
  BY DEF Edge, To, From
<1>2. \A u, v : Edge(u, v)[2] = u /\ Edge(u, v)[3] = v /\ To(u)[2] = u /\ From(u)[2] = u
  BY DEF Edge, To, From
<1> QED BY <1>1, <1>2

\* What a request disturbs, and rewrites.
LEMMA DisturbsFacts ==
  ASSUME NEW p \in Procs, IInv, ~ Idle(p)
  PROVE  /\ FollowerOf(p) \in Users /\ FolloweeOf(p) \in Users /\ op[p] \in Ops
         /\ Disturbs(p) = IF op[p] = "unblock" THEN {EdgeOf(p)}
                                               ELSE {EdgeOf(p), ToOf(p), FromOf(p)}
         /\ Rewrites(p) = CASE Counts(op[p]) -> {EdgeOf(p), ToOf(p), FromOf(p)}
                            [] op[p] = "block" -> {EdgeOf(p)}
                            [] OTHER -> {}
<1>1. op[p] \in Ops /\ user[p] \in Users /\ target[p] \in Users
  BY DEF Idle, IInv, RequestsOK, ProcOK
<1>2. FollowerOf(p) \in Users /\ FolloweeOf(p) \in Users
  BY <1>1 DEF FollowerOf, FolloweeOf, Follower, Followee
<1>3. Disturbs(p) = IF op[p] = "unblock" THEN {EdgeOf(p)}
                                         ELSE {EdgeOf(p), ToOf(p), FromOf(p)}
  BY DEF Disturbs, Touches, EdgeOf, ToOf, FromOf, To, From, FollowerOf, FolloweeOf
<1>4. EdgeOf(p)[1] = "edge" /\ ToOf(p)[1] # "edge" /\ FromOf(p)[1] # "edge"
  BY Distinct DEF EdgeOf, ToOf, FromOf
<1>5. \A x : x \in Rewrites(p) <=>
               x \in Disturbs(p) /\ (Counts(op[p]) \/ (op[p] = "block" /\ x[1] = "edge"))
  BY DEF Rewrites
<1>6. CASE Counts(op[p]) BY <1>1, <1>2, <1>3, <1>5, <1>6 DEF Counts
<1>7. CASE op[p] = "block" 
  <2>1. ~ Counts(op[p]) BY <1>7 DEF Counts
  <2>2. Rewrites(p) = {EdgeOf(p)} BY <1>3, <1>4, <1>5, <1>7, <2>1
  <2> QED BY <1>1, <1>2, <1>3, <1>7, <2>1, <2>2
<1>8. CASE op[p] = "unblock" 
  <2>1. ~ Counts(op[p]) BY <1>8 DEF Counts
  <2>2. Rewrites(p) = {} BY <1>5, <1>8, <2>1
  <2> QED BY <1>1, <1>2, <1>3, <1>8, <2>1, <2>2
<1> QED BY <1>1, <1>6, <1>7, <1>8 DEF Ops, Counts

-----------------------------------------------------------------------------
(* Who disturbs what, and who doubts it.                                   *)

Books == Alone /\ SettledSure /\ BlocksUnsettle

\* How a step of p that begins nothing changes the books.
BooksStep(p) == \/ /\ Ends(p)
                   /\ settled' \subseteq settled \cup (Rewrites(p) \ doubtful[p])
                \/ /\ \E k : GoesOn(p, k)
                   /\ doubtful[p] \subseteq doubtful'[p]
                   /\ settled' \subseteq settled \ (doubtful'[p] \ doubtful[p])

LEMMA DisturbsStep ==
  ASSUME NEW p \in Procs, Frame(p), BooksStep(p)
  PROVE  /\ Disturbs(p)' = {} \/ Disturbs(p)' = Disturbs(p)
         /\ Ends(p) => Disturbs(p)' = {}
         /\ (\E k : GoesOn(p, k)) => Disturbs(p)' = Disturbs(p)
         /\ \A q \in Procs \ {p} : Disturbs(q)' = Disturbs(q) /\ doubtful'[q] = doubtful[q]
                                   /\ op'[q] = op[q] /\ ToOf(q)' = ToOf(q)
                                   /\ FromOf(q)' = FromOf(q)
<1>1. Ends(p) => Disturbs(p)' = {} BY DEF Ends, Disturbs
<1>2. (\E k : GoesOn(p, k)) => Disturbs(p)' = Disturbs(p)
  BY DEF GoesOn, Disturbs, Idle, Touches
<1>3. \A q \in Procs \ {p} : Disturbs(q)' = Disturbs(q) /\ doubtful'[q] = doubtful[q]
                             /\ op'[q] = op[q]
  BY DEF Frame, Same, Disturbs, Idle, Touches
<1>4. \A q \in Procs \ {p} : ToOf(q)' = ToOf(q) /\ FromOf(q)' = FromOf(q)
  BY DEF Frame, Same, ToOf, FromOf, FollowerOf, FolloweeOf
<1> QED BY <1>1, <1>2, <1>3, <1>4 DEF BooksStep

LEMMA BooksNext ==
  ASSUME IInv, Books, NEW p \in Procs, ~ Idle(p), Frame(p), BooksStep(p)
  PROVE  Books'
<1>1. /\ Disturbs(p)' = {} \/ Disturbs(p)' = Disturbs(p)
      /\ Ends(p) => Disturbs(p)' = {}
      /\ (\E k : GoesOn(p, k)) => Disturbs(p)' = Disturbs(p)
      /\ \A q \in Procs \ {p} : Disturbs(q)' = Disturbs(q) /\ doubtful'[q] = doubtful[q]
                                /\ op'[q] = op[q] /\ ToOf(q)' = ToOf(q)
                                /\ FromOf(q)' = FromOf(q)
  BY DisturbsStep
<1>2. Rewrites(p) \subseteq Disturbs(p) BY PartsFacts
<1>3. Disturbs(p)' # {} => doubtful[p] \subseteq doubtful'[p] BY <1>1 DEF BooksStep
<1>4. Alone'
  <2> SUFFICES ASSUME NEW q \in Procs, NEW r \in Procs,
                      NEW x \in Disturbs(q)' \ doubtful'[q], x \in Disturbs(r)'
               PROVE  r = q
    BY DEF Alone
  <2>1. x \in Disturbs(q) /\ x \in Disturbs(r) BY <1>1
  <2>2. x \notin doubtful[q] BY <1>1, <1>3
  <2> QED BY <2>1, <2>2 DEF Books, Alone
<1>5. SettledSure'
  <2> SUFFICES ASSUME NEW q \in Procs, NEW x \in settled',
                      x \in Disturbs(q)', x \in doubtful'[q]
               PROVE  FALSE
    BY DEF SettledSure
  <2>1. x \in Disturbs(q) BY <1>1
  <2>2. CASE q = p
    <3>1. /\ \E k : GoesOn(p, k)
          /\ settled' \subseteq settled \ (doubtful'[p] \ doubtful[p])
      BY <1>1, <2>2 DEF BooksStep
    <3> QED BY <2>1, <2>2, <3>1 DEF Books, SettledSure
  <2>3. CASE q # p
    <3>1. x \in doubtful[q] BY <1>1, <2>3
    <3>2. x \notin settled BY <2>1, <3>1 DEF Books, SettledSure
    <3>3. x \in Rewrites(p) \ doubtful[p] BY <3>2 DEF BooksStep
    <3> QED BY <1>2, <2>1, <2>3, <3>3 DEF Books, Alone
  <2> QED BY <2>2, <2>3
<1>6. BlocksUnsettle'
  <2> SUFFICES ASSUME NEW q \in Procs, op'[q] = "block",
                      NEW x \in {ToOf(q)', FromOf(q)'}, x \in settled'
               PROVE  FALSE
    BY DEF BlocksUnsettle
  <2>1. CASE q = p
    <3>1. \E k : GoesOn(p, k) BY <2>1 DEF BooksStep, Ends, Idle
    <3>2. op[p] = "block" /\ x \in {ToOf(p), FromOf(p)}
      BY <2>1, <3>1 DEF GoesOn, ToOf, FromOf, FollowerOf, FolloweeOf
    <3>3. x \notin settled BY <3>2 DEF Books, BlocksUnsettle
    <3>4. x \in Rewrites(p) \ doubtful[p] BY <3>3 DEF BooksStep
    <3>5. Rewrites(p) = {EdgeOf(p)} BY <3>2, DisturbsFacts DEF Counts
    <3> QED BY <3>2, <3>4, <3>5, Distinct DEF EdgeOf, ToOf, FromOf
  <2>2. CASE q # p
    <3>1. op[q] = "block" /\ x \in {ToOf(q), FromOf(q)} BY <1>1, <2>2
    <3>2. x \notin settled BY <3>1 DEF Books, BlocksUnsettle
    <3>3. x \in Rewrites(p) \ doubtful[p] BY <3>2 DEF BooksStep
    <3>4. x \in Disturbs(q)
      <4>1. ~ Idle(q) BY <3>1 DEF Idle
      <4> QED BY <3>1, <4>1, DisturbsFacts
    <3> QED BY <1>2, <2>2, <3>3, <3>4 DEF Books, Alone
  <2> QED BY <2>1, <2>2
<1> QED BY <1>4, <1>5, <1>6 DEF Books

LEMMA BooksBegin ==
  ASSUME IInv, RequestsT, Placed, Books, NEW p \in Procs, NEW o \in Ops,
         NEW u \in Users, NEW t \in Users, Begin(p, o, u, t)
  PROVE  Books'
<1> DEFINE T == Touches(o, u, t)
           S == Shared(o, u, t)
<1>1. /\ op'[p] = o /\ user'[p] = u /\ target'[p] = t
      /\ \A q \in Procs \ {p} : /\ op'[q] = op[q] /\ user'[q] = user[q]
                                /\ target'[q] = target[q]
      /\ Disturbs(p)' = T /\ Disturbs(p) = {}
      /\ \A q \in Procs \ {p} : Disturbs(q)' = Disturbs(q)
      /\ doubtful'[p] = S
      /\ \A q \in Procs \ {p} : doubtful'[q] = doubtful[q] \cup (Disturbs(q) \cap T)
      /\ settled' = (settled \ S) \ IF o = "block" THEN T \ {Edge(t, u)} ELSE {}
  BY BeginFacts
<1>2. \A q \in Procs : Disturbs(q) \cap T \subseteq S BY DEF Shared
<1> HIDE DEF T, S
<1>3. Alone'
  <2> SUFFICES ASSUME NEW q \in Procs, NEW r \in Procs,
                      NEW x \in Disturbs(q)' \ doubtful'[q], x \in Disturbs(r)'
               PROVE  r = q
    BY DEF Alone
  <2>1. CASE q = p /\ r # p BY <1>1, <1>2, <2>1
  <2>2. CASE q # p /\ r = p BY <1>1, <2>2
  <2>3. CASE q # p /\ r # p BY <1>1, <2>3 DEF Books, Alone
  <2> QED BY <2>1, <2>2, <2>3
<1>4. SettledSure'
  <2> SUFFICES ASSUME NEW q \in Procs, NEW x \in settled',
                      x \in Disturbs(q)', x \in doubtful'[q]
               PROVE  FALSE
    BY DEF SettledSure
  <2>1. x \in settled /\ x \notin S BY <1>1
  <2>2. q # p BY <1>1, <2>1
  <2>3. x \in Disturbs(q) /\ x \in doubtful[q] BY <1>1, <1>2, <2>1, <2>2
  <2> QED BY <2>1, <2>3 DEF Books, SettledSure
<1>5. BlocksUnsettle'
  <2> SUFFICES ASSUME NEW q \in Procs, op'[q] = "block",
                      NEW x \in {ToOf(q)', FromOf(q)'}, x \in settled'
               PROVE  FALSE
    BY DEF BlocksUnsettle
  <2>1. x \in settled BY <1>1
  <2>2. CASE q = p
    <3>1. x \in {To(t), From(u)}
      BY <1>1, <2>2 DEF ToOf, FromOf, FollowerOf, FolloweeOf, Follower, Followee, Counts
    <3>2. x \in T BY <1>1, <2>2, <3>1 DEF T, Touches, Follower, Followee, Counts, To, From
    <3>3. x # Edge(t, u) BY <3>1, Distinct
    <3> QED BY <1>1, <2>2, <3>2, <3>3
  <2>3. CASE q # p
    <3>1. op[q] = "block" /\ x \in {ToOf(q), FromOf(q)}
      BY <1>1, <2>3 DEF ToOf, FromOf, FollowerOf, FolloweeOf
    <3> QED BY <2>1, <3>1 DEF Books, BlocksUnsettle
  <2> QED BY <2>2, <2>3
<1> QED BY <1>3, <1>4, <1>5 DEF Books
-----------------------------------------------------------------------------
(* What a step leaves alone.                                               *)

\* The parts of the graph that p does not disturb stay as they are.
Keeps(p) ==
  /\ \A u, v \in Users : Edge(u, v) \notin Disturbs(p) =>
       /\ v \in followTo'[u] <=> v \in followTo[u]
       /\ u \in followFrom'[v] <=> u \in followFrom[v]
       /\ u \in blocked'[v] <=> u \in blocked[v]
  /\ \A u \in Users : To(u) \notin Disturbs(p) =>
       followTo'[u] = followTo[u] /\ follow'[u] = follow[u]
  /\ \A u \in Users : From(u) \notin Disturbs(p) =>
       followFrom'[u] = followFrom[u] /\ followed'[u] = followed[u]

\* Where a part is calm after a step, it was so before.
LEMMA CalmBefore ==
  ASSUME NEW p \in Procs, Frame(p), BooksStep(p), NEW x, Calm(x)', x \in settled,
         x \in Disturbs(p) => Untouched(p)
  PROVE  Calm(x)
<1> SUFFICES ASSUME NEW q \in Procs, x \in Disturbs(q) PROVE Untouched(q)
  BY DEF Calm
<1>1. CASE q = p BY <1>1
<1>2. CASE q # p
  <2>1. x \in Disturbs(q)' BY <1>2, DisturbsStep
  <2>2. Untouched(q)' BY <2>1 DEF Calm
  <2>3. Untouched(q)' <=> Untouched(q) BY <1>2 DEF Frame, Same, Untouched, At
  <2> QED BY <2>2, <2>3
<1> QED BY <1>1, <1>2

\* What others have done stays done.
LEMMA OthersDone ==
  ASSUME IInv, Books, NEW p \in Procs, Frame(p), Keeps(p), BooksStep(p),
         NEW q \in Procs, q # p, ~ Idle(q), Done(q)
  PROVE  Done(q)'
<1>1. /\ FollowerOf(q) \in Users /\ FolloweeOf(q) \in Users /\ op[q] \in Ops
      /\ EdgeOf(q) \in Disturbs(q)
      /\ Counts(op[q]) => ToOf(q) \in Disturbs(q) /\ FromOf(q) \in Disturbs(q)
  <2>1. Counts(op[q]) => op[q] # "unblock" BY DEF Counts
  <2> QED BY <2>1, DisturbsFacts
<1>2. PICK u \in Users : u = FollowerOf(q) BY <1>1
<1>3. PICK v \in Users : v = FolloweeOf(q) BY <1>1
<1>4. /\ op'[q] = op[q] /\ size'[q] = size[q] /\ doubtful'[q] = doubtful[q]
      /\ At(q)' = At(q) /\ FollowerOf(q)' = u /\ FolloweeOf(q)' = v
      /\ EdgeOf(q)' = EdgeOf(q) /\ ToOf(q)' = ToOf(q) /\ FromOf(q)' = FromOf(q)
  BY <1>2, <1>3 DEF Frame, Same, At, FollowerOf, FolloweeOf, EdgeOf, ToOf, FromOf
<1>5. \A x \in Disturbs(q) \ doubtful[q] : x \notin Disturbs(p) BY DEF Books, Alone
<1>6. EdgeOf(q) \notin doubtful[q] => EdgeDone(op[q], u, v, At(q))'
  <2> SUFFICES ASSUME EdgeOf(q) \notin doubtful[q]
               PROVE  EdgeDone(op[q], u, v, At(q))'
    OBVIOUS
  <2>1. Edge(u, v) \notin Disturbs(p) BY <1>1, <1>2, <1>3, <1>5 DEF EdgeOf
  <2>2. EdgeDone(op[q], u, v, At(q)) BY <1>2, <1>3 DEF Done
  <2> QED BY <1>4, <2>1, <2>2 DEF EdgeDone, Keeps
<1>7. Counts(op[q]) /\ ToOf(q) \notin doubtful[q] => ToDone(q, u, At(q) - First(op[q]))'
  <2> SUFFICES ASSUME Counts(op[q]), ToOf(q) \notin doubtful[q]
               PROVE  ToDone(q, u, At(q) - First(op[q]))'
    OBVIOUS
  <2>1. To(u) \notin Disturbs(p) BY <1>1, <1>2, <1>5 DEF ToOf
  <2>2. ToDone(q, u, At(q) - First(op[q])) BY <1>2 DEF Done
  <2>3. followTo'[u] = followTo[u] /\ follow'[u] = follow[u] BY <2>1 DEF Keeps
  <2> QED BY <1>4, <2>2, <2>3 DEF ToDone
<1>8. Counts(op[q]) /\ FromOf(q) \notin doubtful[q]
        => FromDone(q, v, At(q) - First(op[q]))'
  <2> SUFFICES ASSUME Counts(op[q]), FromOf(q) \notin doubtful[q]
               PROVE  FromDone(q, v, At(q) - First(op[q]))'
    OBVIOUS
  <2>1. From(v) \notin Disturbs(p) BY <1>1, <1>3, <1>5 DEF FromOf
  <2>2. FromDone(q, v, At(q) - First(op[q])) BY <1>3 DEF Done
  <2>3. followFrom'[v] = followFrom[v] /\ followed'[v] = followed[v] BY <2>1 DEF Keeps
  <2> QED BY <1>4, <2>2, <2>3 DEF FromDone
<1> QED BY <1>4, <1>6, <1>7, <1>8 DEF Done

\* What a step of p has to show: its own part of the graph.
LEMMA Combine ==
  ASSUME IInv, HInv, NEW p \in Procs, ~ Idle(p), Frame(p), Keeps(p), BooksStep(p),
         ~ Idle(p)' => Done(p)',
         NEW u \in Users, NEW v \in Users, u = FollowerOf(p), v = FolloweeOf(p),
         Calm(Edge(u, v))' => EdgeRight(u, v)',
         op[p] # "unblock" /\ Calm(To(u))' => ToRight(u)',
         op[p] # "unblock" /\ Calm(From(v))' => FromRight(v)'
  PROVE  HInv'
<1>1. Books' BY BooksNext DEF HInv, Books
<1>2. DoneOK'
  <2> SUFFICES ASSUME NEW q \in Procs, ~ Idle(q)' PROVE Done(q)' BY DEF DoneOK
  <2>1. CASE q = p BY <2>1
  <2>2. CASE q # p
    <3>1. ~ Idle(q) BY <2>2 DEF Frame, Same, Idle
    <3> QED BY <2>2, <3>1, OthersDone DEF HInv, Books, DoneOK
  <2> QED BY <2>1, <2>2
<1>3. /\ Disturbs(p) = IF op[p] = "unblock" THEN {Edge(u, v)}
                                            ELSE {Edge(u, v), To(u), From(v)}
      /\ Rewrites(p) \subseteq Disturbs(p)
  BY DisturbsFacts, PartsFacts DEF EdgeOf, ToOf, FromOf
<1>4. \A x : x \notin Disturbs(p) /\ Calm(x)' => Calm(x)
  <2> SUFFICES ASSUME NEW x, x \notin Disturbs(p), Calm(x)' PROVE Calm(x) OBVIOUS
  <2>1. x \in settled' BY DEF Calm
  <2>2. x \in settled BY <1>3, <2>1 DEF BooksStep
  <2> QED BY <2>2, CalmBefore
<1>5. SettledOK'
  <2>1. ASSUME NEW a \in Users, NEW b \in Users, Calm(Edge(a, b))'
        PROVE  EdgeRight(a, b)'
    <3>1. CASE Edge(a, b) \in Disturbs(p)
      <4>1. Edge(a, b) = Edge(u, v) BY <1>3, <3>1, Distinct
      <4>2. a = u /\ b = v BY <4>1, Distinct
      <4> QED BY <2>1, <4>2
    <3>2. CASE Edge(a, b) \notin Disturbs(p)
      <4>1. EdgeRight(a, b) BY <1>4, <2>1, <3>2 DEF HInv, SettledOK
      <4> QED BY <3>2, <4>1 DEF EdgeRight, Keeps
    <3> QED BY <3>1, <3>2
  <2>2. ASSUME NEW a \in Users, Calm(To(a))' PROVE ToRight(a)'
    <3>1. CASE To(a) \in Disturbs(p)
      <4>1. op[p] # "unblock" /\ To(a) = To(u) BY <1>3, <3>1, Distinct
      <4>2. a = u BY <4>1, Distinct
      <4> QED BY <2>2, <4>1, <4>2
    <3>2. CASE To(a) \notin Disturbs(p)
      <4>1. ToRight(a) BY <1>4, <2>2, <3>2 DEF HInv, SettledOK
      <4> QED BY <3>2, <4>1 DEF ToRight, Keeps
    <3> QED BY <3>1, <3>2
  <2>3. ASSUME NEW a \in Users, Calm(From(a))' PROVE FromRight(a)'
    <3>1. CASE From(a) \in Disturbs(p)
      <4>1. op[p] # "unblock" /\ From(a) = From(v) BY <1>3, <3>1, Distinct
      <4>2. a = v BY <4>1, Distinct
      <4> QED BY <2>3, <4>1, <4>2
    <3>2. CASE From(a) \notin Disturbs(p)
      <4>1. FromRight(a) BY <1>4, <2>3, <3>2 DEF HInv, SettledOK
      <4> QED BY <3>2, <4>1 DEF FromRight, Keeps
    <3> QED BY <3>1, <3>2
  <2> QED BY <2>1, <2>2, <2>3 DEF SettledOK
<1> QED BY <1>1, <1>2, <1>5 DEF HInv, Books

LEMMA BeginH ==
  ASSUME IInv, RequestsT, Placed, HInv, NEW p \in Procs, NEW o \in Ops,
         NEW u \in Users, NEW t \in Users, Begin(p, o, u, t)
  PROVE  HInv'
<1>1. /\ Idle(p) /\ op'[p] = o /\ At(p)' = 1
      /\ \A q \in Procs \ {p} : /\ op'[q] = op[q] /\ user'[q] = user[q]
                                /\ target'[q] = target[q] /\ todo'[q] = todo[q]
                                /\ Disturbs(q)' = Disturbs(q)
                                /\ doubtful[q] \subseteq doubtful'[q]
      /\ size' = size /\ Disturbs(p) = {}
      /\ UNCHANGED <<graph, actions, counters, failed>>
      /\ settled' \subseteq settled
  BY BeginFacts
<1>2. Books' BY BooksBegin DEF HInv, Books
<1>3. DoneOK'
  <2> SUFFICES ASSUME NEW q \in Procs, ~ Idle(q)' PROVE Done(q)' BY DEF DoneOK
  <2>1. CASE q = p
    <3>1. At(q)' = 1 /\ First(op'[q]) \in {4, 5} BY <1>1, <2>1 DEF First
    <3>2. EdgeDone(op[q], FollowerOf(q), FolloweeOf(q), At(q))' BY <3>1 DEF EdgeDone
    <3>3. ToDone(q, FollowerOf(q), At(q) - First(op[q]))' BY <3>1 DEF ToDone
    <3>4. FromDone(q, FolloweeOf(q), At(q) - First(op[q]))' BY <3>1 DEF FromDone
    <3> QED BY <3>2, <3>3, <3>4 DEF Done
  <2>2. CASE q # p
    <3>1. ~ Idle(q) BY <1>1, <2>2 DEF Idle
    <3>2. Done(q) BY <3>1 DEF HInv, DoneOK
    <3>3. /\ EdgeOf(q)' = EdgeOf(q) /\ ToOf(q)' = ToOf(q) /\ FromOf(q)' = FromOf(q)
          /\ FollowerOf(q)' = FollowerOf(q) /\ FolloweeOf(q)' = FolloweeOf(q)
          /\ op'[q] = op[q] /\ At(q)' = At(q) /\ doubtful[q] \subseteq doubtful'[q]
      BY <1>1, <2>2 DEF EdgeOf, ToOf, FromOf, FollowerOf, FolloweeOf, At
    <3>4. UNCHANGED <<followTo, followFrom, blocked, follow, followed, size>>
      BY <1>1 DEF graph, counters
    <3> QED BY <3>2, <3>3, <3>4 DEF Done, EdgeDone, ToDone, FromDone
  <2> QED BY <2>1, <2>2
<1>4. \A x : Calm(x)' => Calm(x)
  <2> SUFFICES ASSUME NEW x, Calm(x)', NEW q \in Procs, x \in Disturbs(q)
               PROVE  x \in settled /\ Untouched(q)
    BY <1>1 DEF Calm
  <2>1. q # p BY <1>1
  <2>2. Untouched(q)' <=> Untouched(q) BY <1>1, <2>1 DEF Untouched, At
  <2> QED BY <1>1, <2>1, <2>2 DEF Calm
<1>5. SettledOK'
  BY <1>1, <1>4 DEF HInv, SettledOK, EdgeRight, ToRight, FromRight, graph, counters
<1> QED BY <1>2, <1>3, <1>5 DEF HInv, Books
-----------------------------------------------------------------------------
(* The steps.                                                              *)

\* A command that has the effect its operation needs.
LEMMA StepsH ==
  ASSUME IInv, HInv, RequestsT, Placed, NEW p \in Procs, ~ Idle(p),
         Frame(p), Steps(p), Keeps(p),
         NEW o \in Ops, NEW k \in Nat, o = op[p], k = At(p),
         NEW u \in Users, NEW v \in Users, u = FollowerOf(p), v = FolloweeOf(p),
         Edge(u, v) \notin doubtful[p] => EdgeDone(o, u, v, k + 1)',
         Counts(o) /\ To(u) \notin doubtful[p] => ToDone(p, u, k + 1 - First(o))',
         Counts(o) /\ From(v) \notin doubtful[p] => FromDone(p, v, k + 1 - First(o))',
         o = "unblock" /\ EdgeRight(u, v) => EdgeRight(u, v)'
  PROVE  HInv'
<1>1. BooksStep(p) BY DEF Steps, BooksStep
<1>2. EdgeOf(p) = Edge(u, v) /\ ToOf(p) = To(u) /\ FromOf(p) = From(v)
  BY DEF EdgeOf, ToOf, FromOf
<1>3. PICK n \in Nat : /\ n = Len(Commands[o])
                       /\ Counts(o) => n = First(o) + 3
                       /\ First(o) \in {4, 5} /\ (o = "follow" <=> First(o) = 5)
                       /\ o = "block" => n = 4
                       /\ o = "unblock" => n = 2
  BY LengthFacts
<1>4. k \in 1 .. n
  <2>1. Suffix(todo[p], Commands[o]) /\ todo[p] \in Seq(Names) /\ Commands[o] \in Seq(Names)
    BY Table DEF Placed, IInv, RequestsOK, ProcOK, Idle
  <2> QED BY <1>3, <2>1, SuffixFacts DEF At
<1>5. CASE GoesOn(p, k + 1) /\ ~ Ends(p)
  <2>1. /\ size' = size /\ doubtful' = doubtful /\ settled' = settled
    BY <1>5 DEF Steps
  <2>2. /\ op'[p] = o /\ At(p)' = k + 1 /\ FollowerOf(p)' = u /\ FolloweeOf(p)' = v
        /\ EdgeOf(p)' = Edge(u, v) /\ ToOf(p)' = To(u) /\ FromOf(p)' = From(v)
    BY <1>5 DEF GoesOn, FollowerOf, FolloweeOf, EdgeOf, ToOf, FromOf
  <2>3. Done(p)'
    <3>0. At(p)' - First(op'[p]) = k + 1 - First(o) BY <1>3, <2>2
    <3>1. EdgeOf(p)' \notin doubtful'[p] => EdgeDone(op[p], FollowerOf(p), FolloweeOf(p), At(p))'
      <4>1. EdgeDone(op[p], FollowerOf(p), FolloweeOf(p), At(p))'
              <=> EdgeDone(o, u, v, k + 1)'
        BY <2>2 DEF EdgeDone
      <4> QED BY <2>1, <2>2, <4>1
    <3>2. Counts(o) /\ ToOf(p)' \notin doubtful'[p]
            => ToDone(p, FollowerOf(p), At(p) - First(op[p]))'
      <4>1. ToDone(p, FollowerOf(p), At(p) - First(op[p]))'
              <=> ToDone(p, u, k + 1 - First(o))'
        BY <2>2, <3>0 DEF ToDone
      <4> QED BY <2>1, <2>2, <4>1
    <3>3. Counts(o) /\ FromOf(p)' \notin doubtful'[p]
            => FromDone(p, FolloweeOf(p), At(p) - First(op[p]))'
      <4>1. FromDone(p, FolloweeOf(p), At(p) - First(op[p]))'
              <=> FromDone(p, v, k + 1 - First(o))'
        BY <2>2, <3>0 DEF FromDone
      <4> QED BY <2>1, <2>2, <4>1
    <3> QED BY <2>2, <3>1, <3>2, <3>3 DEF Done
  <2>4. \A x \in Disturbs(p) : Calm(x)' => o = "unblock"
    <3> SUFFICES ASSUME NEW x \in Disturbs(p), Calm(x)' PROVE o = "unblock" OBVIOUS
    <3>1. x \in Disturbs(p)' BY <1>1, <1>5, DisturbsStep
    <3>2. Untouched(p)' BY <3>1 DEF Calm
    <3> QED BY <1>4, <2>2, <3>2 DEF Untouched
  <2>5. /\ Edge(u, v) \in Disturbs(p)
        /\ o # "unblock" => To(u) \in Disturbs(p) /\ From(v) \in Disturbs(p)
    BY <1>2, DisturbsFacts
  <2>6. Calm(Edge(u, v))' => EdgeRight(u, v)'
    <3> SUFFICES ASSUME Calm(Edge(u, v))' PROVE EdgeRight(u, v)' OBVIOUS
    <3>1. o = "unblock" BY <2>4, <2>5
    <3>2. Edge(u, v) \in settled BY <2>1 DEF Calm
    <3>3. Calm(Edge(u, v)) BY <1>1, <3>1, <3>2, CalmBefore DEF Untouched
    <3>4. EdgeRight(u, v) BY <3>3 DEF HInv, SettledOK
    <3> QED BY <3>1, <3>4
  <2> QED BY <1>1, <2>3, <2>4, <2>5, <2>6, Combine
<1>6. CASE Ends(p)
  <2>1. k = n /\ settled' = settled \cup (Rewrites(p) \ doubtful[p])
    <3>1. ~ (\E j : GoesOn(p, j)) BY <1>6 DEF Ends, GoesOn, Idle
    <3> QED BY <1>3, <3>1 DEF Steps
  <2>2. /\ Disturbs(p) = IF o = "unblock" THEN {Edge(u, v)} ELSE {Edge(u, v), To(u), From(v)}
        /\ Rewrites(p) = CASE Counts(o) -> {Edge(u, v), To(u), From(v)}
                           [] o = "block" -> {Edge(u, v)}
                           [] OTHER -> {}
    BY <1>2, DisturbsFacts
  <2>3. ~ (~ Idle(p)') BY <1>6 DEF Ends
  <2>4. \A x \in Disturbs(p) : Calm(x)' => x \notin doubtful[p]
    <3> SUFFICES ASSUME NEW x \in Disturbs(p), Calm(x)' PROVE x \notin doubtful[p]
      OBVIOUS
    <3>1. x \in settled \/ x \notin doubtful[p] BY <2>1 DEF Calm
    <3> QED BY <3>1 DEF HInv, SettledSure
  <2>5. Calm(Edge(u, v))' => EdgeRight(u, v)'
    <3> SUFFICES ASSUME Calm(Edge(u, v))' PROVE EdgeRight(u, v)' OBVIOUS
    <3>1. Edge(u, v) \notin doubtful[p] BY <2>2, <2>4
    <3>2. EdgeDone(o, u, v, k + 1)' BY <3>1
    <3>3. CASE o = "unblock"
      <4>1. ~ Counts(o) BY <3>3 DEF Counts
      <4>2. Rewrites(p) = {} BY <2>2, <3>3, <4>1
      <4>3. Edge(u, v) \in settled BY <2>1, <4>2 DEF Calm
      <4>4. Calm(Edge(u, v)) BY <1>1, <3>3, <4>3, CalmBefore DEF Untouched
      <4> QED BY <3>3, <4>4 DEF HInv, SettledOK
    <3>4. CASE o = "follow"
      <4>1. Counts(o) /\ First(o) = 5 BY <3>4 DEF Counts, First
      <4>2. k = 8 BY <1>3, <2>1, <4>1
      <4> QED BY <4>2, <3>2, <3>4, <4>1 DEF EdgeDone, EdgeRight
    <3>5. CASE o = "unfollow"
      <4>1. Counts(o) /\ First(o) = 4 BY <3>5 DEF Counts, First
      <4>2. k = 7 BY <1>3, <2>1, <4>1
      <4> QED BY <4>2, <3>2, <3>5, <4>1 DEF EdgeDone, EdgeRight
    <3>6. CASE o = "block"
      <4>1. n = 4 BY <1>3, <3>6
      <4> QED BY <2>1, <3>2, <3>6, <4>1 DEF EdgeDone, EdgeRight
    <3> QED BY <3>3, <3>4, <3>5, <3>6 DEF Ops
  <2>6. o # "unblock" /\ (Calm(To(u))' \/ Calm(From(v))') => Counts(o)
    <3> SUFFICES ASSUME o # "unblock", Calm(To(u))' \/ Calm(From(v))', ~ Counts(o)
                 PROVE  FALSE
      OBVIOUS
    <3>1. o = "block" BY DEF Ops, Counts
    <3>2. Rewrites(p) = {Edge(u, v)} BY <2>2, <3>1 DEF Counts
    <3>3. To(u) \in settled \/ From(v) \in settled BY <2>1, <3>2, Distinct DEF Calm
    <3> QED BY <1>2, <3>1, <3>3 DEF HInv, BlocksUnsettle
  <2>7. o # "unblock" /\ Calm(To(u))' => ToRight(u)'
    <3> SUFFICES ASSUME o # "unblock", Calm(To(u))' PROVE ToRight(u)' OBVIOUS
    <3>1. Counts(o) /\ To(u) \notin doubtful[p] BY <2>2, <2>4, <2>6
    <3>2. ToDone(p, u, k + 1 - First(o))' BY <3>1
    <3>3. k + 1 - First(o) > 1 BY <1>3, <2>1, <3>1
    <3> QED BY <3>2, <3>3 DEF ToDone, ToRight
  <2>8. o # "unblock" /\ Calm(From(v))' => FromRight(v)'
    <3> SUFFICES ASSUME o # "unblock", Calm(From(v))' PROVE FromRight(v)' OBVIOUS
    <3>1. Counts(o) /\ From(v) \notin doubtful[p] BY <2>2, <2>4, <2>6
    <3>2. FromDone(p, v, k + 1 - First(o))' BY <3>1
    <3>3. k + 1 - First(o) > 3 BY <1>3, <2>1, <3>1
    <3> QED BY <3>2, <3>3 DEF FromDone, FromRight
  <2> QED BY <1>1, <2>3, <2>5, <2>7, <2>8, Combine
<1> QED BY <1>5, <1>6 DEF Steps

\* What is known of the request of p.
Known(p, o, k, u, v) ==
  /\ o = op[p] /\ k = At(p) /\ u = FollowerOf(p) /\ v = FolloweeOf(p)
  /\ IF Counts(o) THEN u = user[p] /\ v = target[p] ELSE u = target[p] /\ v = user[p]
  /\ Edge(u, v) \in Disturbs(p)
  /\ o # "unblock" => To(u) \in Disturbs(p) /\ From(v) \in Disturbs(p)
  /\ Edge(u, v) \notin doubtful[p] => EdgeDone(o, u, v, k)
  /\ Counts(o) /\ To(u) \notin doubtful[p] => ToDone(p, u, k - First(o))
  /\ Counts(o) /\ From(v) \notin doubtful[p] => FromDone(p, v, k - First(o))
  /\ First(o) \in {4, 5} /\ (o = "follow" <=> First(o) = 5)

LEMMA KnownFacts ==
  ASSUME IInv, TInv, HInv, NEW p \in Procs, ~ Idle(p)
  PROVE  \E o \in Ops, k \in Nat, u \in Users, v \in Users : Known(p, o, k, u, v)
<1>1. PICK o \in Ops : o = op[p] BY DisturbsFacts
<1>2. PICK u \in Users : u = FollowerOf(p) BY DisturbsFacts
<1>3. PICK v \in Users : v = FolloweeOf(p) BY DisturbsFacts
<1>4. At(p) \in Nat
  <2>1. /\ Suffix(todo[p], Commands[o]) /\ todo[p] \in Seq(Names)
        /\ Commands[o] \in Seq(Names)
    BY <1>1, Table DEF TInv, Placed, IInv, RequestsOK, ProcOK, Idle
  <2>2. At(p) \in 1 .. Len(Commands[o]) BY <1>1, <2>1, SuffixFacts DEF At
  <2> QED BY <2>2
<1>5. PICK k \in Nat : k = At(p) BY <1>4
<1>6. EdgeOf(p) = Edge(u, v) /\ ToOf(p) = To(u) /\ FromOf(p) = From(v)
  BY <1>2, <1>3 DEF EdgeOf, ToOf, FromOf
<1>7. /\ Edge(u, v) \in Disturbs(p)
      /\ o # "unblock" => To(u) \in Disturbs(p) /\ From(v) \in Disturbs(p)
  BY <1>1, <1>6, DisturbsFacts
<1>8. Done(p) BY DEF HInv, DoneOK
<1>9. /\ Edge(u, v) \notin doubtful[p] => EdgeDone(o, u, v, k)
      /\ Counts(o) /\ To(u) \notin doubtful[p] => ToDone(p, u, k - First(o))
      /\ Counts(o) /\ From(v) \notin doubtful[p] => FromDone(p, v, k - First(o))
  BY <1>1, <1>2, <1>3, <1>5, <1>6, <1>8 DEF Done
<1>10. IF Counts(o) THEN u = user[p] /\ v = target[p] ELSE u = target[p] /\ v = user[p]
  BY <1>1, <1>2, <1>3 DEF FollowerOf, FolloweeOf, Follower, Followee
<1>11. First(o) \in {4, 5} /\ (o = "follow" <=> First(o) = 5) BY LengthFacts
<1>12. Known(p, o, k, u, v)
  BY <1>1, <1>2, <1>3, <1>5, <1>7, <1>9, <1>10, <1>11 DEF Known
<1> QED BY <1>12

LEMMA LogH ==
  ASSUME IInv, TInv, HInv, NEW p \in Procs, Log(p)
  PROVE  HInv'
<1>1. /\ ~ Idle(p) /\ Frame(p) /\ Steps(p) /\ RequestsT /\ Placed
      /\ followTo \in [Users -> SUBSET Users] /\ followFrom \in [Users -> SUBSET Users]
      /\ blocked \in [Users -> SUBSET Users]
      /\ DOMAIN follow = Users /\ DOMAIN followed = Users
  BY ChangeFacts DEF TInv, StoreT, IInv, GraphOK
<1>2. PICK o \in Ops, k \in Nat, u \in Users, v \in Users : Known(p, o, k, u, v)
  BY <1>1, KnownFacts
<1>3. UNCHANGED <<graph, counters>> BY DEF Log
<1>4. k = (IF o = "follow" THEN 2 ELSE 1) BY <1>1, <1>2, SendsAt DEF Log, Known
<1>9. Keeps(p)
  BY <1>1, <1>2, <1>3, <1>4 DEF Keeps, Known, graph, counters
<1>10. EdgeDone(o, u, v, k) => EdgeDone(o, u, v, k + 1)'
  BY <1>1, <1>3, <1>4 DEF EdgeDone, graph, counters
<1>11. Counts(o) /\ ToDone(p, u, k - First(o)) => ToDone(p, u, k + 1 - First(o))'
  BY <1>1, <1>2, <1>3, <1>4, SMTT(20) DEF ToDone, graph, counters, Known
<1>12. Counts(o) /\ FromDone(p, v, k - First(o)) => FromDone(p, v, k + 1 - First(o))'
  BY <1>1, <1>2, <1>3, <1>4, SMTT(20) DEF FromDone, graph, counters, Known
<1>13. o = "unblock" /\ EdgeRight(u, v) => EdgeRight(u, v)'
  BY <1>1, <1>2, <1>3, <1>4 DEF EdgeRight, graph, counters
<1> QED BY <1>1, <1>2, <1>9, <1>10, <1>11, <1>12, <1>13, StepsH DEF Known

LEMMA AddToH ==
  ASSUME IInv, TInv, HInv, NEW p \in Procs, AddTo(p)
  PROVE  HInv'
<1>1. /\ ~ Idle(p) /\ Frame(p) /\ Steps(p) /\ RequestsT /\ Placed
      /\ followTo \in [Users -> SUBSET Users] /\ followFrom \in [Users -> SUBSET Users]
      /\ blocked \in [Users -> SUBSET Users]
      /\ DOMAIN follow = Users /\ DOMAIN followed = Users
  BY ChangeFacts DEF TInv, StoreT, IInv, GraphOK
<1>2. PICK o \in Ops, k \in Nat, u \in Users, v \in Users : Known(p, o, k, u, v)
  BY <1>1, KnownFacts
<1>3. o = "follow" /\ k = 3 /\ Counts(o) /\ u = user[p] /\ v = target[p]
  BY <1>1, <1>2, SendsAt DEF AddTo, Known, Counts
<1>4. /\ followTo' = [followTo EXCEPT ![u] = followTo[u] \cup {v}]
      /\ UNCHANGED <<followFrom, blocked, follow, followed>>
  BY <1>3 DEF AddTo, counters
<1>9. Keeps(p)
  BY <1>1, <1>2, <1>3, <1>4 DEF Keeps, Known
<1>10. EdgeDone(o, u, v, k) => EdgeDone(o, u, v, k + 1)'
  BY <1>1, <1>3, <1>4 DEF EdgeDone
<1>11. Counts(o) /\ ToDone(p, u, k - First(o)) => ToDone(p, u, k + 1 - First(o))'
  BY <1>1, <1>2, <1>3, <1>4, SMTT(20) DEF ToDone, Known
<1>12. Counts(o) /\ FromDone(p, v, k - First(o)) => FromDone(p, v, k + 1 - First(o))'
  BY <1>1, <1>2, <1>3, <1>4, SMTT(20) DEF FromDone, Known
<1>13. o = "unblock" /\ EdgeRight(u, v) => EdgeRight(u, v)'
  BY <1>1, <1>2, <1>3, <1>4 DEF EdgeRight
<1> QED BY <1>1, <1>2, <1>9, <1>10, <1>11, <1>12, <1>13, StepsH DEF Known

LEMMA AddFromH ==
  ASSUME IInv, TInv, HInv, NEW p \in Procs, AddFrom(p)
  PROVE  HInv'
<1>1. /\ ~ Idle(p) /\ Frame(p) /\ Steps(p) /\ RequestsT /\ Placed
      /\ followTo \in [Users -> SUBSET Users] /\ followFrom \in [Users -> SUBSET Users]
      /\ blocked \in [Users -> SUBSET Users]
      /\ DOMAIN follow = Users /\ DOMAIN followed = Users
  BY ChangeFacts DEF TInv, StoreT, IInv, GraphOK
<1>2. PICK o \in Ops, k \in Nat, u \in Users, v \in Users : Known(p, o, k, u, v)
  BY <1>1, KnownFacts
<1>3. o = "follow" /\ k = 4 /\ Counts(o) /\ u = user[p] /\ v = target[p]
  BY <1>1, <1>2, SendsAt DEF AddFrom, Known, Counts
<1>4. /\ followFrom' = [followFrom EXCEPT ![v] = followFrom[v] \cup {u}]
      /\ UNCHANGED <<followTo, blocked, follow, followed>>
  BY <1>3 DEF AddFrom, counters
<1>9. Keeps(p)
  BY <1>1, <1>2, <1>3, <1>4 DEF Keeps, Known
<1>10. EdgeDone(o, u, v, k) => EdgeDone(o, u, v, k + 1)'
  BY <1>1, <1>3, <1>4 DEF EdgeDone
<1>11. Counts(o) /\ ToDone(p, u, k - First(o)) => ToDone(p, u, k + 1 - First(o))'
  BY <1>1, <1>2, <1>3, <1>4, SMTT(20) DEF ToDone, Known
<1>12. Counts(o) /\ FromDone(p, v, k - First(o)) => FromDone(p, v, k + 1 - First(o))'
  BY <1>1, <1>2, <1>3, <1>4, SMTT(20) DEF FromDone, Known
<1>13. o = "unblock" /\ EdgeRight(u, v) => EdgeRight(u, v)'
  BY <1>1, <1>2, <1>3, <1>4 DEF EdgeRight
<1> QED BY <1>1, <1>2, <1>9, <1>10, <1>11, <1>12, <1>13, StepsH DEF Known

LEMMA RemToH ==
  ASSUME IInv, TInv, HInv, NEW p \in Procs, RemTo(p)
  PROVE  HInv'
<1>1. /\ ~ Idle(p) /\ Frame(p) /\ Steps(p) /\ RequestsT /\ Placed
      /\ followTo \in [Users -> SUBSET Users] /\ followFrom \in [Users -> SUBSET Users]
      /\ blocked \in [Users -> SUBSET Users]
      /\ DOMAIN follow = Users /\ DOMAIN followed = Users
  BY ChangeFacts DEF TInv, StoreT, IInv, GraphOK
<1>2. PICK o \in Ops, k \in Nat, u \in Users, v \in Users : Known(p, o, k, u, v)
  BY <1>1, KnownFacts
<1>3. (o = "unfollow" /\ k = 2) \/ (o = "block" /\ k = 3)
  BY <1>1, <1>2, SendsAt DEF RemTo, Known
<1>4. /\ followTo' = [followTo EXCEPT ![u] = followTo[u] \ {v}]
      /\ UNCHANGED <<followFrom, blocked, follow, followed>>
  BY <1>2 DEF RemTo, counters, Known, FollowerOf, FolloweeOf
<1>9. Keeps(p)
  BY <1>1, <1>2, <1>3, <1>4 DEF Keeps, Known
<1>10. EdgeDone(o, u, v, k) => EdgeDone(o, u, v, k + 1)'
  BY <1>1, <1>3, <1>4 DEF EdgeDone
<1>11. Counts(o) /\ ToDone(p, u, k - First(o)) => ToDone(p, u, k + 1 - First(o))'
  BY <1>1, <1>2, <1>3, <1>4, SMTT(20) DEF ToDone, Known
<1>12. Counts(o) /\ FromDone(p, v, k - First(o)) => FromDone(p, v, k + 1 - First(o))'
  BY <1>1, <1>2, <1>3, <1>4, SMTT(20) DEF FromDone, Known
<1>13. o = "unblock" /\ EdgeRight(u, v) => EdgeRight(u, v)'
  BY <1>1, <1>2, <1>3, <1>4 DEF EdgeRight
<1> QED BY <1>1, <1>2, <1>9, <1>10, <1>11, <1>12, <1>13, StepsH DEF Known

LEMMA RemFromH ==
  ASSUME IInv, TInv, HInv, NEW p \in Procs, RemFrom(p)
  PROVE  HInv'
<1>1. /\ ~ Idle(p) /\ Frame(p) /\ Steps(p) /\ RequestsT /\ Placed
      /\ followTo \in [Users -> SUBSET Users] /\ followFrom \in [Users -> SUBSET Users]
      /\ blocked \in [Users -> SUBSET Users]
      /\ DOMAIN follow = Users /\ DOMAIN followed = Users
  BY ChangeFacts DEF TInv, StoreT, IInv, GraphOK
<1>2. PICK o \in Ops, k \in Nat, u \in Users, v \in Users : Known(p, o, k, u, v)
  BY <1>1, KnownFacts
<1>3. (o = "unfollow" /\ k = 3) \/ (o = "block" /\ k = 2)
  BY <1>1, <1>2, SendsAt DEF RemFrom, Known
<1>4. /\ followFrom' = [followFrom EXCEPT ![v] = followFrom[v] \ {u}]
      /\ UNCHANGED <<followTo, blocked, follow, followed>>
  BY <1>2 DEF RemFrom, counters, Known, FollowerOf, FolloweeOf
<1>9. Keeps(p)
  BY <1>1, <1>2, <1>3, <1>4 DEF Keeps, Known
<1>10. EdgeDone(o, u, v, k) => EdgeDone(o, u, v, k + 1)'
  BY <1>1, <1>3, <1>4 DEF EdgeDone
<1>11. Counts(o) /\ ToDone(p, u, k - First(o)) => ToDone(p, u, k + 1 - First(o))'
  BY <1>1, <1>2, <1>3, <1>4, SMTT(20) DEF ToDone, Known
<1>12. Counts(o) /\ FromDone(p, v, k - First(o)) => FromDone(p, v, k + 1 - First(o))'
  BY <1>1, <1>2, <1>3, <1>4, SMTT(20) DEF FromDone, Known
<1>13. o = "unblock" /\ EdgeRight(u, v) => EdgeRight(u, v)'
  BY <1>1, <1>2, <1>3, <1>4 DEF EdgeRight
<1> QED BY <1>1, <1>2, <1>9, <1>10, <1>11, <1>12, <1>13, StepsH DEF Known

LEMMA AddBlockH ==
  ASSUME IInv, TInv, HInv, NEW p \in Procs, AddBlock(p)
  PROVE  HInv'
<1>1. /\ ~ Idle(p) /\ Frame(p) /\ Steps(p) /\ RequestsT /\ Placed
      /\ followTo \in [Users -> SUBSET Users] /\ followFrom \in [Users -> SUBSET Users]
      /\ blocked \in [Users -> SUBSET Users]
      /\ DOMAIN follow = Users /\ DOMAIN followed = Users
  BY ChangeFacts DEF TInv, StoreT, IInv, GraphOK
<1>2. PICK o \in Ops, k \in Nat, u \in Users, v \in Users : Known(p, o, k, u, v)
  BY <1>1, KnownFacts
<1>3. o = "block" /\ k = 4 /\ ~ Counts(o) /\ u = target[p] /\ v = user[p]
  BY <1>1, <1>2, SendsAt DEF AddBlock, Known, Counts
<1>4. /\ blocked' = [blocked EXCEPT ![v] = blocked[v] \cup {u}]
      /\ UNCHANGED <<followTo, followFrom, follow, followed>>
  BY <1>3 DEF AddBlock, counters
<1>9. Keeps(p)
  BY <1>1, <1>2, <1>3, <1>4 DEF Keeps, Known
<1>10. EdgeDone(o, u, v, k) => EdgeDone(o, u, v, k + 1)'
  BY <1>1, <1>3, <1>4 DEF EdgeDone
<1>11. Counts(o) /\ ToDone(p, u, k - First(o)) => ToDone(p, u, k + 1 - First(o))'
  BY <1>1, <1>2, <1>3, <1>4, SMTT(20) DEF ToDone, Known
<1>12. Counts(o) /\ FromDone(p, v, k - First(o)) => FromDone(p, v, k + 1 - First(o))'
  BY <1>1, <1>2, <1>3, <1>4, SMTT(20) DEF FromDone, Known
<1>13. o = "unblock" /\ EdgeRight(u, v) => EdgeRight(u, v)'
  BY <1>1, <1>2, <1>3, <1>4 DEF EdgeRight
<1> QED BY <1>1, <1>2, <1>9, <1>10, <1>11, <1>12, <1>13, StepsH DEF Known

LEMMA RemBlockH ==
  ASSUME IInv, TInv, HInv, NEW p \in Procs, RemBlock(p)
  PROVE  HInv'
<1>1. /\ ~ Idle(p) /\ Frame(p) /\ Steps(p) /\ RequestsT /\ Placed
      /\ followTo \in [Users -> SUBSET Users] /\ followFrom \in [Users -> SUBSET Users]
      /\ blocked \in [Users -> SUBSET Users]
      /\ DOMAIN follow = Users /\ DOMAIN followed = Users
  BY ChangeFacts DEF TInv, StoreT, IInv, GraphOK
<1>2. PICK o \in Ops, k \in Nat, u \in Users, v \in Users : Known(p, o, k, u, v)
  BY <1>1, KnownFacts
<1>3. o = "unblock" /\ k = 2 /\ ~ Counts(o) /\ u = target[p] /\ v = user[p]
  BY <1>1, <1>2, SendsAt DEF RemBlock, Known, Counts
<1>4. /\ blocked' = [blocked EXCEPT ![v] = blocked[v] \ {u}]
      /\ UNCHANGED <<followTo, followFrom, follow, followed>>
  BY <1>3 DEF RemBlock, counters
<1>9. Keeps(p)
  BY <1>1, <1>2, <1>3, <1>4 DEF Keeps, Known
<1>10. EdgeDone(o, u, v, k) => EdgeDone(o, u, v, k + 1)'
  BY <1>1, <1>3, <1>4 DEF EdgeDone
<1>11. Counts(o) /\ ToDone(p, u, k - First(o)) => ToDone(p, u, k + 1 - First(o))'
  BY <1>1, <1>2, <1>3, <1>4, SMTT(20) DEF ToDone, Known
<1>12. Counts(o) /\ FromDone(p, v, k - First(o)) => FromDone(p, v, k + 1 - First(o))'
  BY <1>1, <1>2, <1>3, <1>4, SMTT(20) DEF FromDone, Known
<1>13. o = "unblock" /\ EdgeRight(u, v) => EdgeRight(u, v)'
  BY <1>1, <1>2, <1>3, <1>4 DEF EdgeRight
<1> QED BY <1>1, <1>2, <1>9, <1>10, <1>11, <1>12, <1>13, StepsH DEF Known

LEMMA CountToH ==
  ASSUME IInv, TInv, HInv, NEW p \in Procs, CountTo(p)
  PROVE  HInv'
<1>1. /\ ~ Idle(p) /\ Frame(p) /\ Steps(p) /\ RequestsT /\ Placed
      /\ followTo \in [Users -> SUBSET Users] /\ followFrom \in [Users -> SUBSET Users]
      /\ blocked \in [Users -> SUBSET Users]
      /\ DOMAIN follow = Users /\ DOMAIN followed = Users
  BY ChangeFacts DEF TInv, StoreT, IInv, GraphOK
<1>2. PICK o \in Ops, k \in Nat, u \in Users, v \in Users : Known(p, o, k, u, v)
  BY <1>1, KnownFacts
<1>3. /\ Counts(o) /\ o # "unblock" /\ o # "block" /\ k = First(o) + 1
      /\ First(o) \in {4, 5} /\ (o = "follow" <=> First(o) = 5)
      /\ u = user[p] /\ v = target[p]
  BY <1>1, <1>2, SendsAt DEF CountTo, Known, Counts
<1>4. /\ follow' = [follow EXCEPT ![u] = size[p]]
      /\ UNCHANGED <<followTo, followFrom, blocked, followed>>
  BY <1>3 DEF CountTo, graph
<1>9. Keeps(p)
  BY <1>1, <1>2, <1>3, <1>4 DEF Keeps, Known
<1>10. EdgeDone(o, u, v, k) => EdgeDone(o, u, v, k + 1)'
  BY <1>1, <1>3, <1>4 DEF EdgeDone
<1>11. Counts(o) /\ ToDone(p, u, k - First(o)) => ToDone(p, u, k + 1 - First(o))'
  BY <1>1, <1>2, <1>3, <1>4, SMTT(20) DEF ToDone, Known
<1>12. Counts(o) /\ FromDone(p, v, k - First(o)) => FromDone(p, v, k + 1 - First(o))'
  BY <1>1, <1>2, <1>3, <1>4, SMTT(20) DEF FromDone, Known
<1>13. o = "unblock" /\ EdgeRight(u, v) => EdgeRight(u, v)'
  BY <1>1, <1>2, <1>3, <1>4 DEF EdgeRight
<1> QED BY <1>1, <1>2, <1>9, <1>10, <1>11, <1>12, <1>13, StepsH DEF Known

LEMMA CountFromH ==
  ASSUME IInv, TInv, HInv, NEW p \in Procs, CountFrom(p)
  PROVE  HInv'
<1>1. /\ ~ Idle(p) /\ Frame(p) /\ Steps(p) /\ RequestsT /\ Placed
      /\ followTo \in [Users -> SUBSET Users] /\ followFrom \in [Users -> SUBSET Users]
      /\ blocked \in [Users -> SUBSET Users]
      /\ DOMAIN follow = Users /\ DOMAIN followed = Users
  BY ChangeFacts DEF TInv, StoreT, IInv, GraphOK
<1>2. PICK o \in Ops, k \in Nat, u \in Users, v \in Users : Known(p, o, k, u, v)
  BY <1>1, KnownFacts
<1>3. /\ Counts(o) /\ o # "unblock" /\ o # "block" /\ k = First(o) + 3
      /\ First(o) \in {4, 5} /\ (o = "follow" <=> First(o) = 5)
      /\ u = user[p] /\ v = target[p]
  BY <1>1, <1>2, SendsAt DEF CountFrom, Known, Counts
<1>4. /\ followed' = [followed EXCEPT ![v] = size[p]]
      /\ UNCHANGED <<followTo, followFrom, blocked, follow>>
  BY <1>3 DEF CountFrom, graph
<1>9. Keeps(p)
  BY <1>1, <1>2, <1>3, <1>4 DEF Keeps, Known
<1>10. EdgeDone(o, u, v, k) => EdgeDone(o, u, v, k + 1)'
  BY <1>1, <1>3, <1>4 DEF EdgeDone
<1>11. Counts(o) /\ ToDone(p, u, k - First(o)) => ToDone(p, u, k + 1 - First(o))'
  BY <1>1, <1>2, <1>3, <1>4, SMTT(20) DEF ToDone, Known
<1>12. Counts(o) /\ FromDone(p, v, k - First(o)) => FromDone(p, v, k + 1 - First(o))'
  BY <1>1, <1>2, <1>3, <1>4, SMTT(20) DEF FromDone, Known
<1>13. o = "unblock" /\ EdgeRight(u, v) => EdgeRight(u, v)'
  BY <1>1, <1>2, <1>3, <1>4 DEF EdgeRight
<1> QED BY <1>1, <1>2, <1>9, <1>10, <1>11, <1>12, <1>13, StepsH DEF Known

\* The graph stays as it is.
LEMMA GraphSame ==
  ASSUME NEW p \in Procs, UNCHANGED <<graph, counters>>
  PROVE  /\ Keeps(p)
         /\ \A o, u, v, k : EdgeDone(o, u, v, k) <=> EdgeDone(o, u, v, k)'
         /\ \A u, v : EdgeRight(u, v) <=> EdgeRight(u, v)'
         /\ \A u : (ToRight(u) <=> ToRight(u)') /\ (FromRight(u) <=> FromRight(u)')
BY DEF Keeps, EdgeDone, EdgeRight, ToRight, FromRight, graph, counters

LEMMA IsBlockedH ==
  ASSUME IInv, TInv, HInv, NEW p \in Procs, IsBlocked(p)
  PROVE  HInv'
<1>1. /\ ~ Idle(p) /\ Frame(p) /\ RequestsT /\ Placed /\ op[p] = "follow" /\ At(p) = 1
      /\ UNCHANGED <<graph, counters>>
      /\ \/ Ends(p) /\ settled' = settled
         \/ Steps(p) /\ user[p] \notin blocked[target[p]]
  BY IsBlockedFacts DEF TInv
<1>2. PICK o \in Ops, k \in Nat, u \in Users, v \in Users : Known(p, o, k, u, v)
  BY <1>1, KnownFacts
<1>3. /\ o = "follow" /\ k = 1 /\ u = user[p] /\ v = target[p] /\ Counts(o)
      /\ First(o) = 5
  BY <1>1, <1>2 DEF Known, Counts
<1>4. Keeps(p) BY <1>1, GraphSame
<1>5. CASE Ends(p) /\ settled' = settled
  <2>1. BooksStep(p) /\ Idle(p)' BY <1>5 DEF BooksStep, Ends
  <2>2. \A x : Calm(x)' => Calm(x)
    <3> SUFFICES ASSUME NEW x, Calm(x)' PROVE Calm(x) OBVIOUS
    <3>1. x \in settled BY <1>5 DEF Calm
    <3> QED BY <1>1, <2>1, <3>1, CalmBefore DEF Untouched
  <2>3. Calm(Edge(u, v))' => EdgeRight(u, v)'
    BY <1>1, <2>2, GraphSame DEF HInv, SettledOK
  <2>4. Calm(To(u))' => ToRight(u)'
    BY <1>1, <2>2, GraphSame DEF HInv, SettledOK
  <2>5. Calm(From(v))' => FromRight(v)'
    BY <1>1, <2>2, GraphSame DEF HInv, SettledOK
  <2> QED BY <1>1, <1>2, <1>4, <2>1, <2>3, <2>4, <2>5, Combine DEF Known
<1>6. CASE Steps(p) /\ user[p] \notin blocked[target[p]]
  <2>1. EdgeDone(o, u, v, k + 1)' BY <1>1, <1>3, <1>6 DEF EdgeDone, graph
  <2>2. ToDone(p, u, k + 1 - First(o))' BY <1>3 DEF ToDone
  <2>3. FromDone(p, v, k + 1 - First(o))' BY <1>3 DEF FromDone
  <2> QED BY <1>1, <1>2, <1>3, <1>4, <1>6, <2>1, <2>2, <2>3, StepsH DEF Known
<1> QED BY <1>1, <1>5, <1>6

LEMMA ReadSetH ==
  ASSUME IInv, TInv, HInv, NEW p \in Procs, ReadSet(p)
  PROVE  HInv'
<1>1. /\ ~ Idle(p) /\ Counts(op[p]) /\ At(p) - First(op[p]) \in {0, 2}
      /\ Frame(p) /\ GoesOn(p, At(p) + 1) /\ doubtful' = doubtful /\ settled' = settled
      /\ UNCHANGED <<graph, counters>>
      /\ At(p) - First(op[p]) = 0 => size'[p] = Cardinality(followTo[FollowerOf(p)])
      /\ At(p) - First(op[p]) = 2 => size'[p] = Cardinality(followFrom[FolloweeOf(p)])
  BY ReadSetFacts DEF TInv
<1>2. PICK o \in Ops, k \in Nat, u \in Users, v \in Users : Known(p, o, k, u, v)
  BY <1>1, KnownFacts
<1>3. /\ o \in {"follow", "unfollow"} /\ Counts(o) /\ k - First(o) \in {0, 2}
      /\ First(o) \in {4, 5} /\ (o = "follow" <=> First(o) = 5)
      /\ k - First(o) = 0 => size'[p] = Cardinality(followTo[u])
      /\ k - First(o) = 2 => size'[p] = Cardinality(followFrom[v])
      /\ GoesOn(p, k + 1) /\ ~ Idle(p)'
  BY <1>1, <1>2 DEF Known, Counts, GoesOn, Idle
<1>4. Keeps(p) /\ BooksStep(p) BY <1>1, GraphSame DEF BooksStep
<1>5. /\ op'[p] = o /\ At(p)' = k + 1 /\ FollowerOf(p)' = u /\ FolloweeOf(p)' = v
      /\ EdgeOf(p)' = Edge(u, v) /\ ToOf(p)' = To(u) /\ FromOf(p)' = From(v)
  BY <1>2, <1>3 DEF GoesOn, Known, FollowerOf, FolloweeOf, EdgeOf, ToOf, FromOf
<1>6. Done(p)'
  <2>1. Edge(u, v) \notin doubtful'[p] => EdgeDone(o, u, v, k + 1)'
    <3>1. EdgeDone(o, u, v, k) => EdgeDone(o, u, v, k + 1)'
      BY <1>1, <1>3 DEF EdgeDone, graph
    <3> QED BY <1>1, <1>2, <3>1 DEF Known
  <2>2. To(u) \notin doubtful'[p] => ToDone(p, u, k + 1 - First(o))'
    <3>1. ToDone(p, u, k - First(o)) => ToDone(p, u, k + 1 - First(o))'
      BY <1>1, <1>3 DEF ToDone, graph, counters
    <3> QED BY <1>1, <1>2, <1>3, <3>1 DEF Known
  <2>3. From(v) \notin doubtful'[p] => FromDone(p, v, k + 1 - First(o))'
    <3>1. FromDone(p, v, k - First(o)) => FromDone(p, v, k + 1 - First(o))'
      BY <1>1, <1>3 DEF FromDone, graph, counters
    <3> QED BY <1>1, <1>2, <1>3, <3>1 DEF Known
  <2>4. At(p)' - First(op'[p]) = k + 1 - First(o) BY <1>3, <1>5
  <2> QED BY <1>5, <2>1, <2>2, <2>3, <2>4 DEF Done
<1>7. \A x \in Disturbs(p) : ~ Calm(x)'
  <2> SUFFICES ASSUME NEW x \in Disturbs(p), Calm(x)' PROVE FALSE OBVIOUS
  <2>1. Untouched(p)' BY <1>1, <1>4, DisturbsStep DEF Calm
  <2> QED BY <1>3, <1>5, <2>1 DEF Untouched
<1> QED BY <1>1, <1>2, <1>4, <1>6, <1>7, Combine DEF Known

LEMMA RecountFailsH ==
  ASSUME IInv, TInv, HInv, NEW p \in Procs, RecountFails(p)
  PROVE  HInv'
<1>1. /\ ~ Idle(p) /\ Counts(op[p]) /\ Frame(p)
      /\ UNCHANGED <<graph, counters>>
      /\ \/ /\ At(p) - First(op[p]) \in {0, 1}
            /\ GoesOn(p, First(op[p]) + 2)
            /\ doubtful'[p] = doubtful[p] \cup {ToOf(p)}
            /\ settled' = settled \ {ToOf(p)}
         \/ /\ At(p) - First(op[p]) \in {2, 3}
            /\ Ends(p)
            /\ settled' = (settled \cup (Rewrites(p) \ doubtful[p])) \ {FromOf(p)}
  BY RecountFailsFacts DEF TInv
<1>2. PICK o \in Ops, k \in Nat, u \in Users, v \in Users : Known(p, o, k, u, v)
  BY <1>1, KnownFacts
<1>3. /\ o \in {"follow", "unfollow"} /\ Counts(o) /\ k - First(o) \in {0, 1, 2, 3}
      /\ First(o) \in {4, 5} /\ (o = "follow" <=> First(o) = 5)
  BY <1>1, <1>2 DEF Known, Counts
<1>4. Keeps(p) BY <1>1, GraphSame
<1>5. EdgeOf(p) = Edge(u, v) /\ ToOf(p) = To(u) /\ FromOf(p) = From(v)
  BY <1>2 DEF Known, EdgeOf, ToOf, FromOf
<1>6. CASE /\ k - First(o) \in {0, 1} /\ GoesOn(p, First(o) + 2)
           /\ doubtful'[p] = doubtful[p] \cup {To(u)}
           /\ settled' = settled \ {To(u)}
  <2>1. BooksStep(p) BY <1>6 DEF BooksStep
  <2>2. /\ op'[p] = o /\ At(p)' = First(o) + 2 /\ FollowerOf(p)' = u /\ FolloweeOf(p)' = v
        /\ EdgeOf(p)' = Edge(u, v) /\ ToOf(p)' = To(u) /\ FromOf(p)' = From(v)
    BY <1>2, <1>6 DEF GoesOn, Known, FollowerOf, FolloweeOf, EdgeOf, ToOf, FromOf
  <2>3. At(p)' - First(op'[p]) = 2 BY <1>3, <2>2
  <2>4. Edge(u, v) \notin doubtful'[p] => EdgeDone(o, u, v, First(o) + 2)'
    <3>1. EdgeDone(o, u, v, k) => EdgeDone(o, u, v, First(o) + 2)'
      BY <1>1, <1>3 DEF EdgeDone, graph
    <3> QED BY <1>2, <1>6, <3>1 DEF Known
  <2>5. FromDone(p, v, 2)' BY DEF FromDone
  <2>6. Done(p)' BY <1>6, <2>2, <2>3, <2>4, <2>5 DEF Done
  <2>7. \A x \in Disturbs(p) : ~ Calm(x)'
    <3> SUFFICES ASSUME NEW x \in Disturbs(p), Calm(x)' PROVE FALSE OBVIOUS
    <3>1. Untouched(p)' BY <1>1, <1>6, <2>1, DisturbsStep DEF Calm
    <3> QED BY <1>3, <2>2, <3>1 DEF Untouched
  <2> QED BY <1>1, <1>2, <1>4, <2>1, <2>6, <2>7, Combine DEF Known
<1>7. CASE /\ k - First(o) \in {2, 3} /\ Ends(p)
           /\ settled' = (settled \cup (Rewrites(p) \ doubtful[p])) \ {From(v)}
  <2>1. BooksStep(p) /\ Idle(p)' BY <1>7 DEF BooksStep, Ends
  <2>2. \A x \in Disturbs(p) : Calm(x)' => x \notin doubtful[p]
    <3> SUFFICES ASSUME NEW x \in Disturbs(p), Calm(x)' PROVE x \notin doubtful[p]
      OBVIOUS
    <3>1. x \in settled \/ x \notin doubtful[p] BY <1>7 DEF Calm
    <3> QED BY <3>1 DEF HInv, SettledSure
  <2>3. Calm(Edge(u, v))' => EdgeRight(u, v)'
    <3> SUFFICES ASSUME Calm(Edge(u, v))' PROVE EdgeRight(u, v)' OBVIOUS
    <3>1. EdgeDone(o, u, v, k) BY <1>2, <2>2 DEF Known
    <3>2. EdgeRight(u, v) BY <1>3, <1>7, <3>1 DEF EdgeDone, EdgeRight
    <3> QED BY <1>1, <3>2, GraphSame
  <2>4. Calm(To(u))' => ToRight(u)'
    <3> SUFFICES ASSUME Calm(To(u))' PROVE ToRight(u)' OBVIOUS
    <3>1. To(u) \in Disturbs(p) BY <1>2, <1>3 DEF Known
    <3>2. ToDone(p, u, k - First(o)) BY <1>2, <1>3, <2>2, <3>1 DEF Known
    <3>3. ToRight(u) BY <1>7, <3>2 DEF ToDone, ToRight
    <3> QED BY <1>1, <3>3, GraphSame
  <2>5. ~ Calm(From(v))' BY <1>7 DEF Calm
  <2> QED BY <1>1, <1>2, <1>4, <2>1, <2>3, <2>4, <2>5, Combine DEF Known
<1> QED BY <1>1, <1>2, <1>5, <1>6, <1>7 DEF Known

LEMMA FailH ==
  ASSUME IInv, TInv, HInv, NEW p \in Procs, Fail(p) \/ Kill(p)
  PROVE  HInv'
<1>1. /\ ~ Idle(p) /\ Frame(p) /\ Ends(p) /\ settled' = settled \ Disturbs(p)
      /\ UNCHANGED <<graph, counters>>
  BY FailFacts DEF TInv
<1>2. PICK o \in Ops, k \in Nat, u \in Users, v \in Users : Known(p, o, k, u, v)
  BY <1>1, KnownFacts
<1>3. Keeps(p) /\ BooksStep(p) /\ Idle(p)' BY <1>1, GraphSame DEF BooksStep, Ends
<1>4. \A x \in Disturbs(p) : ~ Calm(x)' BY <1>1 DEF Calm
<1> QED BY <1>1, <1>2, <1>3, <1>4, Combine DEF Known

LEMMA InitH == Init => HInv
<1> SUFFICES ASSUME Init PROVE HInv OBVIOUS
<1>1. \A p \in Procs : Idle(p) /\ op[p] = "none" /\ Disturbs(p) = {}
  BY DEF Init, Idle, Disturbs
<1>2. Alone /\ SettledSure /\ BlocksUnsettle /\ DoneOK
  BY <1>1 DEF Alone, SettledSure, BlocksUnsettle, DoneOK
<1>3. SettledOK
  <2>1. \A u \in Users : followTo[u] = {} /\ followFrom[u] = {} /\ blocked[u] = {}
                         /\ follow[u] = 0 /\ followed[u] = 0
    BY DEF Init
  <2> QED BY <2>1, FS_EmptySet DEF SettledOK, EdgeRight, ToRight, FromRight
<1> QED BY <1>2, <1>3 DEF HInv

LEMMA NextH == IInv /\ TInv /\ HInv /\ [Next]_vars => HInv'
<1> SUFFICES ASSUME IInv, TInv, HInv, [Next]_vars PROVE HInv' OBVIOUS
<1>1. CASE UNCHANGED vars
  <2>1. /\ UNCHANGED <<graph, counters, op, user, target, todo, size, doubtful, settled>>
    BY <1>1 DEF vars, request, history
  <2>2. \A p \in Procs : /\ Disturbs(p)' = Disturbs(p) /\ Done(p)' = Done(p)
                         /\ Untouched(p)' = Untouched(p) /\ Idle(p)' = Idle(p)
                         /\ ToOf(p)' = ToOf(p) /\ FromOf(p)' = FromOf(p)
    BY <2>1 DEF graph, counters, Disturbs, Touches, Idle, Done, Untouched, At, EdgeOf, ToOf,
                FromOf, FollowerOf, FolloweeOf, EdgeDone, ToDone, FromDone
  <2>3. \A x : Calm(x)' <=> Calm(x) BY <2>1, <2>2 DEF Calm
  <2>4. Alone' /\ SettledSure' /\ BlocksUnsettle' /\ DoneOK'
    BY <2>1, <2>2 DEF HInv, Alone, SettledSure, BlocksUnsettle, DoneOK
  <2>5. SettledOK'
    BY <2>1, <2>3 DEF HInv, SettledOK, EdgeRight, ToRight, FromRight, graph, counters
  <2> QED BY <2>4, <2>5 DEF HInv
<1>2. ASSUME NEW p \in Procs, NEW o \in Ops, NEW u \in Users, NEW t \in Users,
             Begin(p, o, u, t)
      PROVE  HInv'
  BY <1>2, BeginH DEF TInv
<1>3. ASSUME NEW p \in Procs,
             \/ IsBlocked(p) \/ Log(p)
             \/ AddTo(p) \/ AddFrom(p) \/ RemTo(p) \/ RemFrom(p)
             \/ AddBlock(p) \/ RemBlock(p)
             \/ ReadSet(p) \/ CountTo(p) \/ CountFrom(p)
             \/ Fail(p) \/ RecountFails(p) \/ Kill(p)
      PROVE  HInv'
  BY <1>3, IsBlockedH, LogH, AddToH, AddFromH, RemToH, RemFromH, AddBlockH, RemBlockH,
     ReadSetH, CountToH, CountFromH, FailH, RecountFailsH
<1> QED BY <1>1, <1>2, <1>3 DEF Next

\* A part that nobody disturbs is calm when it is settled.
LEMMA AtRestCalm == \A x : x \in settled /\ AtRest(x) => Calm(x)
BY DEF AtRest, Calm

-----------------------------------------------------------------------------
(* What was asked for.                                                     *)

Asked == \A u, v \in Users :
           Calm(Edge(u, v)) => (v \in followTo[u] <=> <<u, v>> \in wanted)

\* A step that is no request's first.
Step(p) == \/ IsBlocked(p) \/ Log(p)
           \/ AddTo(p) \/ AddFrom(p) \/ RemTo(p) \/ RemFrom(p)
           \/ AddBlock(p) \/ RemBlock(p)
           \/ ReadSet(p) \/ CountTo(p) \/ CountFrom(p)
           \/ Fail(p) \/ RecountFails(p) \/ Kill(p)

\* How a request goes on, ends as asked for, or ends without.
Continues(p) == wanted' = wanted /\ \E k \in Nat : k # 1 /\ GoesOn(p, k)
Completes(p) == /\ Ends(p) /\ wanted' = WantedWhenDone(p)
                /\ op[p] # "unblock" => At(p) > 3
GivesUp(p)   == /\ Ends(p) /\ wanted' = wanted
                /\ \/ settled' = settled /\ Untouched(p)
                   \/ settled' = settled \ Disturbs(p)

LEMMA StepsTurn ==
  ASSUME IInv, TInv, NEW p \in Procs, ~ Idle(p), Steps(p)
  PROVE  BooksStep(p) /\ (Continues(p) \/ Completes(p))
<1>1. op[p] \in Ops /\ todo[p] \in Seq(Names) /\ Suffix(todo[p], Commands[op[p]])
  BY DEF TInv, Placed, Idle, IInv, RequestsOK, ProcOK
<1>2. Commands[op[p]] \in Seq(Names) BY <1>1, Table
<1>3. PICK k : k = At(p) OBVIOUS
<1>4. k \in Nat /\ k # 0 BY <1>1, <1>2, <1>3, SuffixFacts DEF At
<1>5. BooksStep(p) BY DEF Steps, BooksStep
<1>6. CASE GoesOn(p, k + 1) /\ wanted' = wanted
  <2>1. k + 1 \in Nat /\ k + 1 # 1 BY <1>4
  <2> QED BY <1>5, <1>6, <2>1 DEF Continues
<1>7. CASE k = Len(Commands[op[p]]) /\ Ends(p) /\ wanted' = WantedWhenDone(p)
  <2>1. op[p] # "unblock" => k > 3
    <3>1. PICK n \in Nat : /\ n = Len(Commands[op[p]])
                           /\ Counts(op[p]) => n = First(op[p]) + 3
                           /\ First(op[p]) \in {4, 5}
                           /\ op[p] = "block" => n = 4
      BY <1>1, LengthFacts
    <3>2. k = n BY <1>7, <3>1
    <3>3. CASE op[p] = "block"
      <4>1. n = 4 BY <3>1, <3>3
      <4> QED BY <3>2, <4>1
    <3>4. CASE Counts(op[p])
      <4>1. n = First(op[p]) + 3 /\ First(op[p]) \in {4, 5} BY <3>1, <3>4
      <4>2. n > 3 BY <4>1
      <4> QED BY <3>2, <4>2
    <3>5. op[p] = "unblock" \/ op[p] = "block" \/ Counts(op[p]) BY <1>1 DEF Counts, Ops
    <3> QED BY <3>3, <3>4, <3>5
  <2> QED BY <1>3, <1>5, <1>7, <2>1 DEF Completes
<1> QED BY <1>3, <1>6, <1>7 DEF Steps

\* Who follows changes only where a request adds or removes, and that is never its end.
LEMMA StepFacts ==
  ASSUME IInv, TInv, NEW p \in Procs, Step(p)
  PROVE  /\ ~ Idle(p) /\ Frame(p) /\ BooksStep(p)
         /\ Continues(p) \/ Completes(p) \/ GivesUp(p)
         /\ \/ followTo' = followTo
            \/ /\ Continues(p) /\ op[p] # "unblock"
               /\ \A a, b \in Users : a # FollowerOf(p) \/ b # FolloweeOf(p) =>
                    (b \in followTo'[a] <=> b \in followTo[a])
<1>0. RequestsT /\ Placed BY DEF TInv
<1>1. CASE AddTo(p) \/ RemTo(p)
  <2>1. ~ Idle(p) /\ Frame(p) /\ Steps(p) BY <1>0, <1>1, ChangeFacts
  <2>2. BooksStep(p) BY <2>1, StepsTurn
  <2>3. PICK o \in Ops, k \in Nat : o = op[p] /\ k = At(p)
    <3>1. op[p] \in Ops BY <2>1 DEF Idle, IInv, RequestsOK, ProcOK
    <3>2. At(p) = 2 \/ At(p) = 3 BY <1>0, <1>1, SendsAt DEF AddTo, RemTo
    <3> QED BY <3>1, <3>2
  <2>4. (o = "follow" /\ k = 3) \/ (o = "unfollow" /\ k = 2) \/ (o = "block" /\ k = 3)
    BY <1>0, <1>1, <2>3, SendsAt DEF AddTo, RemTo
  <2>5. k # Len(Commands[o]) BY <2>4, Table
  <2>6. GoesOn(p, k + 1) /\ wanted' = wanted BY <2>1, <2>3, <2>5 DEF Steps
  <2>7. Continues(p)
    <3>1. k + 1 \in Nat /\ k + 1 # 1 BY <2>4
    <3> QED BY <2>6, <3>1 DEF Continues
  <2>8. followTo \in [Users -> SUBSET Users] BY DEF IInv, GraphOK
  <2>9. \/ followTo' = [followTo EXCEPT ![FollowerOf(p)] =
                                      followTo[FollowerOf(p)] \cup {FolloweeOf(p)}]
        \/ followTo' = [followTo EXCEPT ![FollowerOf(p)] =
                                      followTo[FollowerOf(p)] \ {FolloweeOf(p)}]
    <3>1. CASE AddTo(p)
      <4>1. op[p] = "follow" BY <1>0, <3>1, SendsAt DEF AddTo
      <4> QED BY <3>1, <4>1 DEF AddTo, FollowerOf, FolloweeOf, Follower, Followee, Counts
    <3>2. CASE RemTo(p) BY <3>2 DEF RemTo, FollowerOf, FolloweeOf
    <3> QED BY <1>1, <3>1, <3>2
  <2>10. \A a, b \in Users : a # FollowerOf(p) \/ b # FolloweeOf(p) =>
           (b \in followTo'[a] <=> b \in followTo[a])
    BY <2>8, <2>9
  <2> QED BY <2>1, <2>2, <2>3, <2>4, <2>7, <2>10
<1>2. CASE \/ Log(p) \/ AddFrom(p) \/ RemFrom(p) \/ AddBlock(p) \/ RemBlock(p)
           \/ CountTo(p) \/ CountFrom(p)
  <2>1. ~ Idle(p) /\ Frame(p) /\ Steps(p) BY <1>0, <1>2, ChangeFacts
  <2>2. followTo' = followTo
    BY <1>2 DEF Log, AddFrom, RemFrom, AddBlock, RemBlock, CountTo, CountFrom, graph
  <2> QED BY <2>1, <2>2, StepsTurn
<1>3. CASE IsBlocked(p)
  <2>1. /\ ~ Idle(p) /\ Frame(p) /\ followTo' = followTo /\ Untouched(p)
        /\ \/ Ends(p) /\ settled' = settled /\ wanted' = wanted
           \/ Steps(p)
    BY <1>0, <1>3, IsBlockedFacts DEF graph, Untouched
  <2>2. CASE Ends(p) /\ settled' = settled /\ wanted' = wanted
    BY <2>1, <2>2 DEF BooksStep, GivesUp
  <2>3. CASE Steps(p) BY <2>1, <2>3, StepsTurn
  <2> QED BY <2>1, <2>2, <2>3
<1>4. CASE ReadSet(p)
  <2>1. /\ ~ Idle(p) /\ Frame(p) /\ followTo' = followTo
        /\ GoesOn(p, At(p) + 1) /\ Counts(op[p]) /\ At(p) - First(op[p]) \in {0, 2}
        /\ doubtful' = doubtful /\ settled' = settled /\ wanted' = wanted
    BY <1>0, <1>4, ReadSetFacts DEF graph
  <2>2. At(p) + 1 \in Nat /\ At(p) + 1 # 1
    <3>1. Sends(p, "readTo") \/ Sends(p, "readFrom") BY <1>4 DEF ReadSet
    <3>2. At(p) = First(op[p]) \/ At(p) = First(op[p]) + 2 BY <1>0, <3>1, SendsAt
    <3>3. First(op[p]) \in {4, 5} BY DEF First
    <3> QED BY <3>2, <3>3
  <2> QED BY <2>1, <2>2 DEF BooksStep, Continues
<1>5. CASE RecountFails(p)
  <2>1. /\ ~ Idle(p) /\ Counts(op[p]) /\ Frame(p) /\ followTo' = followTo
        /\ \/ /\ GoesOn(p, First(op[p]) + 2)
              /\ doubtful'[p] = doubtful[p] \cup {ToOf(p)}
              /\ settled' = settled \ {ToOf(p)} /\ wanted' = wanted
           \/ /\ At(p) - First(op[p]) \in {2, 3} /\ Ends(p)
              /\ settled' = (settled \cup (Rewrites(p) \ doubtful[p])) \ {FromOf(p)}
              /\ wanted' = WantedWhenDone(p)
    BY <1>0, <1>5, RecountFailsFacts DEF graph
  <2>2. First(op[p]) \in {4, 5} BY DEF First
  <2>3. CASE /\ GoesOn(p, First(op[p]) + 2)
             /\ doubtful'[p] = doubtful[p] \cup {ToOf(p)}
             /\ settled' = settled \ {ToOf(p)} /\ wanted' = wanted
    <3>1. First(op[p]) + 2 \in Nat /\ First(op[p]) + 2 # 1 BY <2>2
    <3> QED BY <2>1, <2>3, <3>1 DEF BooksStep, Continues
  <2>4. CASE /\ At(p) - First(op[p]) \in {2, 3} /\ Ends(p)
             /\ settled' = (settled \cup (Rewrites(p) \ doubtful[p])) \ {FromOf(p)}
             /\ wanted' = WantedWhenDone(p)
    <3>1. At(p) \in Nat
      <4>1. /\ op[p] \in Ops /\ todo[p] \in Seq(Names)
            /\ Suffix(todo[p], Commands[op[p]])
        BY <1>0, <2>1 DEF Placed, Idle, IInv, RequestsOK, ProcOK
      <4>2. Commands[op[p]] \in Seq(Names) BY <4>1, Table
      <4>3. At(p) \in 1 .. Len(Commands[op[p]]) BY <4>1, <4>2, SuffixFacts DEF At
      <4> QED BY <4>3
    <3>2. At(p) > 3 BY <2>2, <2>4, <3>1
    <3> QED BY <2>1, <2>4, <3>2 DEF BooksStep, Completes
  <2> QED BY <2>1, <2>3, <2>4
<1>6. CASE Fail(p) \/ Kill(p)
  <2>1. /\ ~ Idle(p) /\ Frame(p) /\ Ends(p) /\ followTo' = followTo
        /\ settled' = settled \ Disturbs(p) /\ wanted' = wanted
    BY <1>0, <1>6, FailFacts DEF graph
  <2> QED BY <2>1 DEF BooksStep, GivesUp
<1> QED BY <1>1, <1>2, <1>3, <1>4, <1>5, <1>6 DEF Step

\* The edge of the request that takes the step.
LEMMA AskedOwn ==
  ASSUME IInv, TInv, HInv, Asked, NEW p \in Procs, Step(p),
         NEW u \in Users, NEW v \in Users, u = FollowerOf(p), v = FolloweeOf(p),
         Calm(Edge(u, v))'
  PROVE  v \in followTo'[u] <=> <<u, v>> \in wanted'
<1>1. /\ ~ Idle(p) /\ Frame(p) /\ BooksStep(p)
      /\ Continues(p) \/ Completes(p) \/ GivesUp(p)
      /\ followTo' = followTo \/ (Continues(p) /\ op[p] # "unblock")
  BY StepFacts
<1>2. /\ EdgeOf(p) = Edge(u, v) /\ Edge(u, v) \in Disturbs(p) /\ op[p] \in Ops
      /\ op[p] = "unblock" => Rewrites(p) = {}
  <2>1. EdgeOf(p) = Edge(u, v) BY DEF EdgeOf
  <2>2. op[p] = "unblock" => ~ Counts(op[p]) BY DEF Counts
  <2> QED BY <1>1, <2>1, <2>2, DisturbsFacts
<1>3. Edge(u, v) \in settled' BY DEF Calm
<1>4. ASSUME op[p] = "unblock" \/ (settled' = settled /\ Untouched(p)), followTo' = followTo,
             <<u, v>> \in wanted' <=> <<u, v>> \in wanted
      PROVE  v \in followTo'[u] <=> <<u, v>> \in wanted'
  <2>1. Untouched(p) BY <1>4 DEF Untouched
  <2>2. Edge(u, v) \in settled BY <1>1, <1>2, <1>3, <1>4 DEF BooksStep
  <2>3. Calm(Edge(u, v)) BY <1>1, <2>1, <2>2, CalmBefore
  <2> QED BY <1>4, <2>3 DEF Asked
<1>5. CASE Continues(p)
  <2>1. PICK k : k # 1 /\ GoesOn(p, k) BY <1>5 DEF Continues
  <2>2. Edge(u, v) \in Disturbs(p)' BY <1>1, <1>2, <2>1, DisturbsStep
  <2>3. Untouched(p)' BY <2>2 DEF Calm
  <2>4. op[p] = "unblock" BY <2>1, <2>3 DEF Untouched, GoesOn
  <2> QED BY <1>1, <1>4, <1>5, <2>4 DEF Continues
<1>6. CASE GivesUp(p)
  <2>1. settled' = settled /\ Untouched(p) BY <1>2, <1>3, <1>6 DEF GivesUp
  <2>2. followTo' = followTo
    <3>1. ~ Continues(p) BY <1>1, <1>6 DEF GivesUp, Continues, Ends, GoesOn, Idle
    <3> QED BY <1>1, <3>1
  <2> QED BY <1>4, <1>6, <2>1, <2>2 DEF GivesUp
<1>7. CASE Completes(p)
  <2>1. followTo' = followTo
    <3>1. ~ Continues(p) BY <1>1, <1>7 DEF Completes, Continues, Ends, GoesOn, Idle
    <3> QED BY <1>1, <3>1
  <2>2. wanted' = WantedWhenDone(p) /\ (op[p] # "unblock" => At(p) > 3)
    BY <1>7 DEF Completes
  <2>3. CASE op[p] = "unblock"
    <3>1. wanted' = wanted BY <2>2, <2>3 DEF WantedWhenDone
    <3> QED BY <1>4, <2>1, <2>3, <3>1
  <2>4. CASE op[p] # "unblock"
    <3>1. Edge(u, v) \notin doubtful[p]
      <4>1. CASE Edge(u, v) \in settled BY <1>2, <4>1 DEF HInv, SettledSure
      <4>2. CASE Edge(u, v) \notin settled
        <5>1. ~ (\E k : GoesOn(p, k)) BY <1>1, <1>7 DEF Completes, Ends, GoesOn, Idle
        <5> QED BY <1>1, <1>3, <4>2, <5>1 DEF BooksStep
      <4> QED BY <4>1, <4>2
    <3>2. EdgeDone(op[p], u, v, At(p)) BY <1>1, <1>2, <3>1 DEF HInv, DoneOK, Done
    <3>3. CASE op[p] = "follow"
      <4>1. v \in followTo[u] BY <2>2, <3>2, <3>3 DEF EdgeDone
      <4>2. <<u, v>> \in wanted'
        BY <2>2, <3>3 DEF WantedWhenDone, FollowerOf, FolloweeOf
      <4> QED BY <2>1, <4>1, <4>2
    <3>4. CASE op[p] \in {"unfollow", "block"}
      <4>1. v \notin followTo[u]
        <5>1. At(p) > 3 => At(p) > 2
          <6>1. At(p) \in Nat BY <1>1, KnownFacts DEF Known
          <6> QED BY <6>1
        <5> QED BY <2>2, <2>4, <3>2, <3>4, <5>1 DEF EdgeDone
      <4>2. <<u, v>> \notin wanted'
        BY <2>2, <3>4 DEF WantedWhenDone, FollowerOf, FolloweeOf
      <4> QED BY <2>1, <4>1, <4>2
    <3> QED BY <1>2, <2>4, <3>3, <3>4 DEF Ops
  <2> QED BY <2>3, <2>4
<1> QED BY <1>1, <1>5, <1>6, <1>7

\* The edges of others.
LEMMA AskedStep ==
  ASSUME IInv, TInv, HInv, Asked, NEW p \in Procs, Step(p)
  PROVE  Asked'
<1> SUFFICES ASSUME NEW a \in Users, NEW b \in Users, Calm(Edge(a, b))'
             PROVE  b \in followTo'[a] <=> <<a, b>> \in wanted'
  BY DEF Asked
<1>1. /\ ~ Idle(p) /\ Frame(p) /\ BooksStep(p)
      /\ Continues(p) \/ Completes(p) \/ GivesUp(p)
      /\ \A c, d \in Users : c # FollowerOf(p) \/ d # FolloweeOf(p) =>
           (d \in followTo'[c] <=> d \in followTo[c])
  BY StepFacts
<1>2. CASE a = FollowerOf(p) /\ b = FolloweeOf(p) BY <1>2, AskedOwn
<1>3. CASE ~ (a = FollowerOf(p) /\ b = FolloweeOf(p))
  <2>1. b \in followTo'[a] <=> b \in followTo[a] BY <1>1, <1>3
  <2>2. <<a, b>> \in wanted' <=> <<a, b>> \in wanted
    <3>1. <<a, b>> # <<FollowerOf(p), FolloweeOf(p)>> BY <1>3
    <3>2. wanted' = wanted \/ wanted' = WantedWhenDone(p)
      BY <1>1 DEF Continues, Completes, GivesUp
    <3>3. \/ wanted' = wanted
          \/ wanted' = wanted \cup {<<FollowerOf(p), FolloweeOf(p)>>}
          \/ wanted' = wanted \ {<<FollowerOf(p), FolloweeOf(p)>>}
      BY <3>2 DEF WantedWhenDone, FollowerOf, FolloweeOf
    <3> QED BY <3>1, <3>3
  <2>3. Edge(a, b) \notin Disturbs(p)
    <3>1. Edge(a, b) # EdgeOf(p) BY <1>3, Distinct DEF EdgeOf
    <3>2. Edge(a, b) # ToOf(p) /\ Edge(a, b) # FromOf(p) BY Distinct DEF ToOf, FromOf
    <3> QED BY <1>1, <3>1, <3>2, DisturbsFacts
  <2>4. Calm(Edge(a, b))
    <3>1. Edge(a, b) \in settled' BY DEF Calm
    <3>2. Edge(a, b) \in settled BY <1>1, <2>3, <3>1, PartsFacts DEF BooksStep
    <3> QED BY <1>1, <2>3, <3>2, CalmBefore
  <2> QED BY <2>1, <2>2, <2>4 DEF Asked
<1> QED BY <1>2, <1>3

LEMMA AskedBegin ==
  ASSUME IInv, RequestsT, Placed, Asked, NEW p \in Procs, NEW o \in Ops,
         NEW u \in Users, NEW t \in Users, Begin(p, o, u, t)
  PROVE  Asked'
<1>1. /\ followTo' = followTo /\ wanted' = wanted
      /\ \A q \in Procs \ {p} : /\ op'[q] = op[q] /\ todo'[q] = todo[q]
                                /\ Disturbs(q)' = Disturbs(q)
      /\ Disturbs(p) = {} /\ settled' \subseteq settled
  BY BeginFacts DEF Begin, graph
<1>2. \A x : Calm(x)' => Calm(x)
  <2> SUFFICES ASSUME NEW x, Calm(x)', NEW q \in Procs, x \in Disturbs(q)
               PROVE  x \in settled /\ Untouched(q)
    BY <1>1 DEF Calm
  <2>1. q # p BY <1>1
  <2>2. Untouched(q)' <=> Untouched(q) BY <1>1, <2>1 DEF Untouched, At
  <2> QED BY <1>1, <2>1, <2>2 DEF Calm
<1> QED BY <1>1, <1>2 DEF Asked

LEMMA InitAsked == Init => Asked
BY DEF Init, Asked

LEMMA NextAsked == IInv /\ TInv /\ HInv /\ Asked /\ [Next]_vars => Asked'
<1> SUFFICES ASSUME IInv, TInv, HInv, Asked, [Next]_vars PROVE Asked' OBVIOUS
<1>1. CASE UNCHANGED vars
  <2>1. UNCHANGED <<followTo, op, user, target, todo, settled, wanted>>
    BY <1>1 DEF vars, request, history, graph
  <2>2. \A p \in Procs : Disturbs(p)' = Disturbs(p) /\ Untouched(p)' = Untouched(p)
    BY <2>1 DEF Disturbs, Touches, Idle, Untouched, At
  <2>3. \A x : Calm(x)' <=> Calm(x) BY <2>1, <2>2 DEF Calm
  <2> QED BY <2>1, <2>3 DEF Asked
<1>2. ASSUME NEW p \in Procs, NEW o \in Ops, NEW u \in Users, NEW t \in Users,
             Begin(p, o, u, t)
      PROVE  Asked'
  BY <1>2, AskedBegin DEF TInv
<1>3. ASSUME NEW p \in Procs, Step(p) PROVE Asked' BY <1>3, AskedStep
<1> QED BY <1>1, <1>2, <1>3 DEF Next, Step

(***************************************************************************)
(* An edge is in both lists, or in neither, as the last request of         *)
(* FollowApi on it asked, and no blocked user is in them, as soon as that  *)
(* request has run with no other beside it on the edge, whatever had       *)
(* failed or met there before, for any number of users, processes,         *)
(* requests and failures.                                                  *)
(***************************************************************************)
THEOREM EdgesSettleHolds == Spec => []EdgesSettle
<1>1. HInv /\ Asked => EdgesSettle
  BY AtRestCalm DEF HInv, SettledOK, Asked, EdgesSettle, EdgeRight
<1> QED BY <1>1, InitIInv, NextIInv, TypesStart, TypesNext, InitH, NextH, InitAsked, NextAsked,
           PTL DEF Spec

(***************************************************************************)
(* The counters of StatisticApi are the sizes of the lists they count once *)
(* a follow or unfollow has recounted them undisturbed: no count that was  *)
(* lost or stored late before it outlives that.                            *)
(***************************************************************************)
THEOREM CountsSettleHolds == Spec => []CountsSettle
<1>1. HInv => CountsSettle
  BY AtRestCalm DEF HInv, SettledOK, CountsSettle, ToRight, FromRight, To, From
<1> QED BY <1>1, InitIInv, NextIInv, TypesStart, TypesNext, InitH, NextH, PTL DEF Spec
=============================================================================
