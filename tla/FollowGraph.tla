----------------------------- MODULE FollowGraph -----------------------------
(***************************************************************************)
(* The follow graph of common/app/FollowApi.cc, with the two counters that *)
(* common/app/StatisticApi.cc keeps of it.  Every request is a process of  *)
(* its own (a CGI program) and changes the graph by several Redis commands *)
(* on one connection each, with no lock and no transaction: a command is a *)
(* step here, and the requests interleave.  A command fails when its       *)
(* connection is not made in time; a process may be killed between two.    *)
(*                                                                         *)
(* doubtful, settled and wanted are history: see the end of the module.    *)
(***************************************************************************)
EXTENDS Naturals, Sequences, FiniteSets

CONSTANTS Users, NoOne,
          Procs,        \* the processes that serve requests
          MaxRequests,  \* how many requests are made
          MaxFail       \* how many commands fail and processes are killed

ASSUME FollowUsersAssumption == /\ NoOne \notin Users /\ IsFiniteSet(Users)
                                /\ MaxRequests \in Nat /\ MaxFail \in Nat

VARIABLES followTo, followFrom, blocked,  \* the sets ft_, ff_ and fb_ of a user
          actions,                        \* what the list fa_ of a user has
          follow, followed,               \* the counters in stat_u_
          op, user, target,               \* the request a process serves
          todo,                           \* the commands it has yet to send
          size,                           \* the size of the set it has read
          asked, failed,
          doubtful, settled, wanted

graph    == <<followTo, followFrom, blocked>>
counters == <<follow, followed>>
request  == <<op, user, target>>
history  == <<doubtful, settled, wanted>>
vars == <<graph, actions, counters, request, todo, size, asked, failed, history>>

\* The commands an operation sends, in their order.
Recount == <<"readTo", "countTo", "readFrom", "countFrom">>

\* Slip: the action is logged once the edge is there.
CommandsLogLate == [follow   |-> <<"isBlocked", "addTo", "addFrom", "log">> \o Recount,
                    unfollow |-> <<"remTo", "remFrom", "log">> \o Recount,
                    block    |-> <<"remFrom", "remTo", "addBlock", "log">>,
                    unblock  |-> <<"remBlock", "log">>]

Commands == [follow   |-> <<"isBlocked", "log", "addTo", "addFrom">> \o Recount,
             unfollow |-> <<"log", "remTo", "remFrom">> \o Recount,
             block    |-> <<"log", "remFrom", "remTo", "addBlock">>,
             unblock  |-> <<"log", "remBlock">>]

Ops == {"follow", "unfollow", "block", "unblock"}

\* What a request may disturb: an edge, who a user follows, who follows him.
Edge(u, v) == <<"edge", u, v>>
Parts == {Edge(u, v) : u \in Users, v \in Users}
           \cup {"to", "from"} \X Users

TypeOK == /\ \A u \in Users : followTo[u] \subseteq Users \ {u}
          /\ \A u \in Users : followFrom[u] \subseteq Users \ {u}
          /\ \A u \in Users : blocked[u] \subseteq Users \ {u}
          /\ actions \in [Users -> SUBSET (Ops \X Users)]
          /\ follow \in [Users -> 0 .. Cardinality(Users)]
          /\ followed \in [Users -> 0 .. Cardinality(Users)]
          /\ op \in [Procs -> Ops \cup {"none"}]
          /\ user \in [Procs -> Users \cup {NoOne}]
          /\ target \in [Procs -> Users \cup {NoOne}]
          /\ \A p \in Procs : Len(todo[p]) <= 8
          /\ size \in [Procs -> 0 .. Cardinality(Users)]
          /\ asked \in 0 .. MaxRequests
          /\ failed \in 0 .. MaxFail
          /\ doubtful \in [Procs -> SUBSET Parts]
          /\ settled \subseteq Parts
          /\ wanted \subseteq Users \X Users

Init == /\ followTo = [u \in Users |-> {}]
        /\ followFrom = [u \in Users |-> {}]
        /\ blocked = [u \in Users |-> {}]
        /\ actions = [u \in Users |-> {}]
        /\ follow = [u \in Users |-> 0]
        /\ followed = [u \in Users |-> 0]
        /\ op = [p \in Procs |-> "none"]
        /\ user = [p \in Procs |-> NoOne]
        /\ target = [p \in Procs |-> NoOne]
        /\ todo = [p \in Procs |-> << >>]
        /\ size = [p \in Procs |-> 0]
        /\ asked = 0
        /\ failed = 0
        /\ doubtful = [p \in Procs |-> {}]
        /\ settled = Parts
        /\ wanted = {}
-----------------------------------------------------------------------------
(* A request.                                                              *)

Idle(p) == op[p] = "none"
Counts(o) == o \in {"follow", "unfollow"}

Follower(o, u, t) == IF Counts(o) THEN u ELSE t
Followee(o, u, t) == IF Counts(o) THEN t ELSE u

Touches(o, u, t) ==
  LET a == Follower(o, u, t)
      b == Followee(o, u, t)
  IN  {Edge(a, b)} \cup IF o = "unblock" THEN {} ELSE {<<"to", a>>, <<"from", b>>}

Disturbs(p) == IF Idle(p) THEN {} ELSE Touches(op[p], user[p], target[p])

\* A follow or unfollow rewrites all it touches; a block does not recount.
Rewrites(p) == {x \in Disturbs(p) : Counts(op[p]) \/ (op[p] = "block" /\ x[1] = "edge")}

\* Slip: anybody may be asked for.
MayAskAnyone(o, u, t) == u \in Users /\ t \in Users

\* Users neither follow nor block themselves.
MayAsk(o, u, t) == o \in {"follow", "block"} => u # t

Begin(p, o, u, t) ==
  /\ Idle(p)
  /\ asked < MaxRequests
  /\ MayAsk(o, u, t)
  /\ asked' = asked + 1
  /\ op' = [op EXCEPT ![p] = o]
  /\ user' = [user EXCEPT ![p] = u]
  /\ target' = [target EXCEPT ![p] = t]
  /\ todo' = [todo EXCEPT ![p] = Commands[o]]
  /\ LET mine == Touches(o, u, t)
         shared == mine \cap UNION {Disturbs(q) : q \in Procs}
     IN  /\ doubtful' = [q \in Procs |-> IF q = p THEN shared
                                         ELSE doubtful[q] \cup (Disturbs(q) \cap mine)]
         /\ settled' = (settled \ shared)
                         \ IF o = "block" THEN mine \ {Edge(t, u)} ELSE {}
  /\ UNCHANGED <<graph, actions, counters, size, failed, wanted>>

Clear(p) == /\ op' = [op EXCEPT ![p] = "none"]
            /\ user' = [user EXCEPT ![p] = NoOne]
            /\ target' = [target EXCEPT ![p] = NoOne]
            /\ todo' = [todo EXCEPT ![p] = << >>]
            /\ size' = [size EXCEPT ![p] = 0]
            /\ doubtful' = [doubtful EXCEPT ![p] = {}]

\* Who is to follow whom, once p has done what it was asked for.
WantedWhenDone(p) ==
  LET pair == <<Follower(op[p], user[p], target[p]), Followee(op[p], user[p], target[p])>>
  IN  CASE op[p] = "follow" -> wanted \cup {pair}
        [] op[p] \in {"unfollow", "block"} -> wanted \ {pair}
        [] OTHER -> wanted

\* The request goes on with its next command, or ends.
Advance(p) ==
  IF Len(todo[p]) = 1
    THEN /\ Clear(p)
         /\ settled' = settled \cup (Rewrites(p) \ doubtful[p])
         /\ wanted' = WantedWhenDone(p)
    ELSE /\ todo' = [todo EXCEPT ![p] = Tail(@)]
         /\ UNCHANGED <<request, size, history>>

Sends(p, c) == ~ Idle(p) /\ Head(todo[p]) = c
-----------------------------------------------------------------------------
(* The commands.                                                           *)

\* A user the target has blocked is turned away.
IsBlocked(p) ==
  /\ Sends(p, "isBlocked")
  /\ IF user[p] \in blocked[target[p]]
       THEN Clear(p) /\ UNCHANGED <<settled, wanted>>
       ELSE Advance(p)
  /\ UNCHANGED <<graph, actions, counters, asked, failed>>

\* AddFollowAction
Log(p) == /\ Sends(p, "log")
          /\ actions' = [actions EXCEPT ![user[p]] = @ \cup {<<op[p], target[p]>>}]
          /\ Advance(p)
          /\ UNCHANGED <<graph, counters, asked, failed>>

AddTo(p) == /\ Sends(p, "addTo")
            /\ followTo' = [followTo EXCEPT ![user[p]] = @ \cup {target[p]}]
            /\ Advance(p)
            /\ UNCHANGED <<followFrom, blocked, actions, counters, asked, failed>>

AddFrom(p) == /\ Sends(p, "addFrom")
              /\ followFrom' = [followFrom EXCEPT ![target[p]] = @ \cup {user[p]}]
              /\ Advance(p)
              /\ UNCHANGED <<followTo, blocked, actions, counters, asked, failed>>

\* Slip: block takes the user's own edge away, as unfollow does.
RemToOwn(p) == /\ Sends(p, "remTo")
               /\ followTo' = [followTo EXCEPT ![user[p]] = @ \ {target[p]}]
               /\ Advance(p)
               /\ UNCHANGED <<followFrom, blocked, actions, counters, asked, failed>>

\* unfollow takes the user's own edge away, block the edge towards the user.
RemTo(p) == /\ Sends(p, "remTo")
            /\ followTo' = [followTo EXCEPT
                              ![Follower(op[p], user[p], target[p])] =
                                @ \ {Followee(op[p], user[p], target[p])}]
            /\ Advance(p)
            /\ UNCHANGED <<followFrom, blocked, actions, counters, asked, failed>>

RemFrom(p) == /\ Sends(p, "remFrom")
              /\ followFrom' = [followFrom EXCEPT
                                  ![Followee(op[p], user[p], target[p])] =
                                    @ \ {Follower(op[p], user[p], target[p])}]
              /\ Advance(p)
              /\ UNCHANGED <<followTo, blocked, actions, counters, asked, failed>>

AddBlock(p) == /\ Sends(p, "addBlock")
               /\ blocked' = [blocked EXCEPT ![user[p]] = @ \cup {target[p]}]
               /\ Advance(p)
               /\ UNCHANGED <<followTo, followFrom, actions, counters, asked, failed>>

RemBlock(p) == /\ Sends(p, "remBlock")
               /\ blocked' = [blocked EXCEPT ![user[p]] = @ \ {target[p]}]
               /\ Advance(p)
               /\ UNCHANGED <<followTo, followFrom, actions, counters, asked, failed>>

\* Slip: both recounts read the set of those the user follows.
ReadSetOfUser(p) == /\ Sends(p, "readTo") \/ Sends(p, "readFrom")
                    /\ size' = [size EXCEPT ![p] = Cardinality(followTo[user[p]])]
                    /\ todo' = [todo EXCEPT ![p] = Tail(@)]
                    /\ UNCHANGED <<graph, actions, counters, request, asked, failed, history>>

\* UpdateUserFollow and UpdateUserFollowed read a set, and store its size later.
ReadSet(p) == /\ Sends(p, "readTo") \/ Sends(p, "readFrom")
              /\ size' = [size EXCEPT ![p] =
                            Cardinality(IF Sends(p, "readTo") THEN followTo[user[p]]
                                                              ELSE followFrom[target[p]])]
              /\ todo' = [todo EXCEPT ![p] = Tail(@)]
              /\ UNCHANGED <<graph, actions, counters, request, asked, failed, history>>

CountTo(p) == /\ Sends(p, "countTo")
              /\ follow' = [follow EXCEPT ![user[p]] = size[p]]
              /\ Advance(p)
              /\ UNCHANGED <<graph, actions, followed, asked, failed>>

CountFrom(p) == /\ Sends(p, "countFrom")
                /\ followed' = [followed EXCEPT ![target[p]] = size[p]]
                /\ Advance(p)
                /\ UNCHANGED <<graph, actions, follow, asked, failed>>
-----------------------------------------------------------------------------
(* Failures.                                                               *)

Fails == failed < MaxFail /\ failed' = failed + 1

\* A command on the graph fails: the request returns kCgiCodeSystemError.
Fail(p) == /\ ~ Idle(p)
           /\ \A i \in 1 .. Len(Recount) : ~ Sends(p, Recount[i])
           /\ Fails
           /\ Clear(p)
           /\ settled' = settled \ Disturbs(p)
           /\ UNCHANGED <<graph, actions, counters, asked, wanted>>

\* A recount fails: FollowApi ignores it, and does the other one.
RecountFails(p) ==
  /\ \E i \in 1 .. Len(Recount) :
       /\ Sends(p, Recount[i])
       /\ LET list == IF i <= 2 THEN <<"to", user[p]>> ELSE <<"from", target[p]>>
          IN  IF i <= 2
                THEN /\ todo' = [todo EXCEPT ![p] = SubSeq(Recount, 3, 4)]
                     /\ doubtful' = [doubtful EXCEPT ![p] = @ \cup {list}]
                     /\ settled' = settled \ {list}
                     /\ UNCHANGED <<request, size, wanted>>
                ELSE /\ Clear(p)
                     /\ settled' = (settled \cup (Rewrites(p) \ doubtful[p])) \ {list}
                     /\ wanted' = WantedWhenDone(p)
  /\ Fails
  /\ UNCHANGED <<graph, actions, counters, asked>>

Kill(p) == /\ ~ Idle(p)
           /\ Fails
           /\ Clear(p)
           /\ settled' = settled \ Disturbs(p)
           /\ UNCHANGED <<graph, actions, counters, asked, wanted>>

Next == \E p \in Procs :
          \/ \E o \in Ops, u \in Users, t \in Users : Begin(p, o, u, t)
          \/ IsBlocked(p) \/ Log(p)
          \/ AddTo(p) \/ AddFrom(p) \/ RemTo(p) \/ RemFrom(p)
          \/ AddBlock(p) \/ RemBlock(p)
          \/ ReadSet(p) \/ CountTo(p) \/ CountFrom(p)
          \/ Fail(p) \/ RecountFails(p) \/ Kill(p)

Spec == Init /\ [][Next]_vars
-----------------------------------------------------------------------------
(* A part of the graph is settled when the last request that touched it    *)
(* ran to its end with no other request on that part beside it, however    *)
(* many had failed, been killed or met each other there before.  wanted is *)
(* who is to follow whom by the requests that ran to their end: the last   *)
(* of them on a pair says whether its first follows its second.            *)

AtRest(x) == \A p \in Procs : x \notin Disturbs(p)

(***************************************************************************)
(* A settled edge is as the last request asked for it, in both lists, and  *)
(* nobody is followed by a user he has blocked: a request repeated after a *)
(* failure repairs what the failed one left half done.                     *)
(***************************************************************************)
EdgesSettle ==
  \A u, v \in Users :
    Edge(u, v) \in settled /\ AtRest(Edge(u, v))
      => /\ v \in followTo[u] <=> <<u, v>> \in wanted
         /\ u \in followFrom[v] <=> <<u, v>> \in wanted
         /\ u \in blocked[v] => v \notin followTo[u]

(***************************************************************************)
(* A settled counter is the size of its set: it is computed anew by every  *)
(* follow and unfollow, so that a count one request lost or stored late    *)
(* is right again after the next.                                          *)
(***************************************************************************)
CountsSettle ==
  \A u \in Users :
    /\ <<"to", u>> \in settled /\ AtRest(<<"to", u>>)
         => follow[u] = Cardinality(followTo[u])
    /\ <<"from", u>> \in settled /\ AtRest(<<"from", u>>)
         => followed[u] = Cardinality(followFrom[u])

(***************************************************************************)
(* Nobody follows, is followed or is blocked but by an action in the log,  *)
(* whatever failed: the log is written first.                              *)
(***************************************************************************)
LoggedFirst ==
  \A u, v \in Users :
    /\ v \in followTo[u] \/ u \in followFrom[v] => <<"follow", v>> \in actions[u]
    /\ v \in blocked[u] => <<"block", v>> \in actions[u]

(***************************************************************************)
(* What the test BlockTest says: a user who is blocked does not follow the *)
(* one who blocked him, once no request is under way.                      *)
(***************************************************************************)
BlockedDoNotFollow ==
  (\A p \in Procs : Idle(p)) => \A u, v \in Users : u \in blocked[v] => v \notin followTo[u]
=============================================================================
