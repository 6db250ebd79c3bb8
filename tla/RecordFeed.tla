----------------------------- MODULE RecordFeed -----------------------------
(***************************************************************************)
(* Records and the lists they are shown in: cgi/lib/Record.cc and          *)
(* common/app/RecordApi.cc on the side of the requests, service/record on  *)
(* the side of the dispatch.  A request is a CGI process that sends Redis  *)
(* commands one by one; a new record is handed to the dispatch service,    *)
(* which forks one worker for it, and the worker pushes the record's id to *)
(* the author's home list, to the active list of every follower, and to    *)
(* the list of recent records.  A deleted record is only marked; whoever   *)
(* reads a page that has it takes its id off that list.                    *)
(*                                                                         *)
(* A Redis command is a step.  The followers are those of FollowGraph      *)
(* (followFrom), and change at any time.  Answers, and the view counters   *)
(* that are raised with them, are left out.                                *)
(*                                                                         *)
(* lost, steady, cleaned, drift, overlapped and intent are history.        *)
(***************************************************************************)
EXTENDS Integers, Sequences, FiniteSets

CONSTANTS Users, NoOne,
          Procs,        \* the processes that serve requests
          PageCount,    \* page_count_: how many ids a page has
          Pages,        \* the pages that are asked for
          MaxRecords,   \* how many records are created
          MaxRequests,  \* how many requests are made, changes of followers too
          MaxFail       \* how many commands fail and processes are killed

ASSUME FeedUsersAssumption == /\ NoOne \notin Users
                              /\ IsFiniteSet(Users) /\ IsFiniteSet(Procs)
ASSUME FeedPageAssumption == PageCount \in Nat \ {0} /\ Pages \subseteq Nat \ {0}
ASSUME FeedBoundsAssumption == /\ MaxRecords \in Nat /\ MaxRequests \in Nat
                               /\ MaxFail \in Nat

Ids == 1 .. MaxRecords
Record == [pub : BOOLEAN, del : BOOLEAN]
NoRecord == [pub |-> FALSE]

Home(u) == <<"home", u>>
Active(u) == <<"active", u>>
Recent == <<"recent", NoOne>>
Keys == {Home(u) : u \in Users} \cup {Active(u) : u \in Users} \cup {Recent}

VARIABLES seq,              \* the last id that was created
          rec, owner,       \* the record of an id, and its author
          list,             \* the ids in each list, newest first
          count,            \* the field "record" of the user's statistics
          followers,        \* who follows a user
          req, todo,        \* the request a process serves, its next commands
          copy, ids,        \* the record, or the ids of a page, it has read
          wpc, wtodo,       \* a worker's step; the users it has yet to push to
          asked, failed,
          lost, steady, cleaned, drift, overlapped, intent

store    == <<seq, rec, owner, list, count>>
worker   == <<wpc, wtodo>>
local    == <<req, todo, copy, ids>>
history  == <<lost, steady, cleaned, drift, overlapped, intent>>
vars == <<store, followers, local, worker, asked, failed, history>>

NoRequest == [op |-> "none"]

\* Slip: the record is handed to the service before it is stored.
CommandsSendFirst == [create  |-> <<"incr", "send", "set", "count">>,
                      delete  |-> <<"uncount", "get", "mark">>,
                      publish |-> <<"get", "show">>,
                      page    |-> <<"range", "mget", "clean">>]

\* The commands an operation sends, in their order; clean is one for each id.
Commands == [create  |-> <<"incr", "set", "send", "count">>,
             delete  |-> <<"uncount", "get", "mark">>,
             publish |-> <<"get", "show">>,
             page    |-> <<"range", "mget", "clean">>]

Requests == [op : {"create"}, user : Users, pub : BOOLEAN, id : {0} \cup Ids]
              \cup [op : {"delete"}, user : Users, id : Ids]
              \cup [op : {"publish"}, id : Ids, pub : BOOLEAN]
              \cup [op : {"page"}, key : Keys, page : Pages]

TypeOK == /\ seq \in 0 .. MaxRecords
          /\ rec \in [Ids -> Record \cup {NoRecord}]
          /\ owner \in [Ids -> Users \cup {NoOne}]
          /\ \A r \in Ids : rec[r] # NoRecord => r <= seq /\ owner[r] \in Users
          /\ DOMAIN list = Keys
          /\ \A k \in Keys : list[k] \in Seq({r \in 1 .. seq : rec[r] # NoRecord})
          /\ count \in [Users -> Int]
          /\ \A u \in Users : followers[u] \subseteq Users \ {u}
          /\ req \in [Procs -> Requests \cup {NoRequest}]
          /\ \A p \in Procs : Len(todo[p]) <= 4
          /\ copy \in [Procs -> Record \cup {NoRecord}]
          /\ ids \in [Procs -> SUBSET Ids]
          /\ wpc \in [Ids -> {"none", "get", "home", "followers", "active",
                              "recent", "done"}]
          /\ wtodo \in [Ids -> SUBSET Users]
          /\ asked \in 0 .. MaxRequests
          /\ failed \in 0 .. MaxFail
          /\ lost \in [Ids -> SUBSET Keys]
          /\ steady \in [Ids -> SUBSET Users]
          /\ cleaned \subseteq Keys \X Ids
          /\ drift \in [Users -> Int]
          /\ overlapped \subseteq Ids
          /\ intent \in [Ids -> Record \cup {NoRecord}]

Init == /\ seq = 0
        /\ rec = [r \in Ids |-> NoRecord]
        /\ owner = [r \in Ids |-> NoOne]
        /\ list = [k \in Keys |-> << >>]
        /\ count = [u \in Users |-> 0]
        /\ followers \in [Users -> SUBSET Users]
        /\ \A u \in Users : u \notin followers[u]
        /\ req = [p \in Procs |-> NoRequest]
        /\ todo = [p \in Procs |-> << >>]
        /\ copy = [p \in Procs |-> NoRecord]
        /\ ids = [p \in Procs |-> {}]
        /\ wpc = [r \in Ids |-> "none"]
        /\ wtodo = [r \in Ids |-> {}]
        /\ asked = 0
        /\ failed = 0
        /\ lost = [r \in Ids |-> {}]
        /\ steady = [r \in Ids |-> {}]
        /\ cleaned = {}
        /\ drift = [u \in Users |-> 0]
        /\ overlapped = {}
        /\ intent = [r \in Ids |-> NoRecord]
-----------------------------------------------------------------------------
(* Requests.                                                               *)

Idle(p) == req[p] = NoRequest
Sends(p, c) == ~ Idle(p) /\ Head(todo[p]) = c
Changes(q, r) == q.op \in {"delete", "publish"} /\ q.id = r

Creating == {p \in Procs : Sends(p, "incr")}

\* Only the number of records is bounded: any id may be asked for by anybody.
MayAsk(q) == q.op = "create" => q.id = 0 /\ seq + Cardinality(Creating) < MaxRecords

Begin(p, q) ==
  /\ Idle(p)
  /\ asked < MaxRequests
  /\ MayAsk(q)
  /\ asked' = asked + 1
  /\ req' = [req EXCEPT ![p] = q]
  /\ todo' = [todo EXCEPT ![p] = Commands[q.op]]
  /\ overlapped' = overlapped \cup {r \in Ids : /\ Changes(q, r)
                                                /\ \E o \in Procs : Changes(req[o], r)}
  /\ UNCHANGED <<store, followers, copy, ids, worker, failed, lost, steady,
                 cleaned, drift, intent>>

Clear(p) == /\ req' = [req EXCEPT ![p] = NoRequest]
            /\ todo' = [todo EXCEPT ![p] = << >>]
            /\ copy' = [copy EXCEPT ![p] = NoRecord]
            /\ ids' = [ids EXCEPT ![p] = {}]

\* The request goes on with its next command, or ends.
Advance(p) == IF Len(todo[p]) = 1
                THEN Clear(p)
                ELSE todo' = [todo EXCEPT ![p] = Tail(@)] /\ UNCHANGED <<req, copy, ids>>
-----------------------------------------------------------------------------
(* Create, Delete and AltPrivate.                                          *)

\* CreateRecordId
Incr(p) == /\ Sends(p, "incr")
           /\ seq' = seq + 1
           /\ owner' = [owner EXCEPT ![seq + 1] = req[p].user]
           /\ req' = [req EXCEPT ![p].id = seq + 1]
           /\ todo' = [todo EXCEPT ![p] = Tail(@)]
           /\ UNCHANGED <<rec, list, count, followers, copy, ids, worker, asked,
                          failed, history>>

SetRec(p, r, value) == /\ rec' = [rec EXCEPT ![r] = value]
                       /\ Advance(p)
                       /\ UNCHANGED <<seq, owner, list, count, followers, worker,
                                      asked, failed, lost, cleaned, overlapped>>

Set(p) == LET r == req[p].id
              new == [pub |-> req[p].pub, del |-> FALSE]
          IN  /\ Sends(p, "set")
              /\ SetRec(p, r, new)
              /\ UNCHANGED drift
              /\ intent' = [intent EXCEPT ![r] = new]
              /\ steady' = [steady EXCEPT ![r] = followers[owner[r]]]

\* Slip: a call that seems to have failed is made again.
SendAgain(p) == /\ Sends(p, "send")
                /\ wpc' = [wpc EXCEPT ![req[p].id] = "get"]
                /\ Advance(p) \/ UNCHANGED local
                /\ UNCHANGED <<store, followers, wtodo, asked, failed, history>>

\* The service forks a worker for the record.
Send(p) == /\ Sends(p, "send")
           /\ wpc' = [wpc EXCEPT ![req[p].id] = "get"]
           /\ Advance(p)
           /\ UNCHANGED <<store, followers, wtodo, asked, failed, history>>

\* Slip: DelRecord adds one too.
CountUp(p) == /\ Sends(p, "count") \/ Sends(p, "uncount")
              /\ count' = [count EXCEPT ![req[p].user] = @ + 1]
              /\ Advance(p)
              /\ UNCHANGED <<seq, rec, owner, list, followers, worker, asked,
                             failed, history>>

\* AddRecord counts the record, DelRecord takes it off again.
Count(p) == /\ Sends(p, "count") \/ Sends(p, "uncount")
            /\ count' = [count EXCEPT ![req[p].user] =
                           IF Sends(p, "count") THEN @ + 1 ELSE @ - 1]
            /\ Advance(p)
            /\ UNCHANGED <<seq, rec, owner, list, followers, worker, asked, failed,
                           history>>

\* A record that is not there ends the request.
Get(p) == LET r == req[p].id
          IN  /\ Sends(p, "get")
              /\ IF rec[r] = NoRecord
                   THEN Clear(p)
                   ELSE /\ copy' = [copy EXCEPT ![p] = rec[r]]
                        /\ todo' = [todo EXCEPT ![p] = Tail(@)]
                        /\ UNCHANGED <<req, ids>>
              /\ drift' = IF rec[r] = NoRecord /\ req[p].op = "delete"
                             THEN [drift EXCEPT ![req[p].user] = @ - 1] ELSE drift
              /\ UNCHANGED <<store, followers, worker, asked, failed, lost, steady,
                             cleaned, overlapped, intent>>

\* RecordApi::Del writes the record it has read back, marked.
Mark(p) == LET r == req[p].id
               takes == [u \in Users |-> IF u = owner[r] /\ ~ rec[r].del THEN 1 ELSE 0]
           IN  /\ Sends(p, "mark")
               /\ SetRec(p, r, [copy[p] EXCEPT !.del = TRUE])
               /\ intent' = [intent EXCEPT ![r].del = TRUE]
               /\ drift' = [u \in Users |-> drift[u] + takes[u] - IF u = req[p].user THEN 1 ELSE 0]
               /\ UNCHANGED steady

\* SetRecordPublic
Show(p) == LET r == req[p].id
           IN  /\ Sends(p, "show")
               /\ SetRec(p, r, [copy[p] EXCEPT !.pub = req[p].pub])
               /\ intent' = [intent EXCEPT ![r].pub = req[p].pub]
               /\ UNCHANGED <<steady, drift>>
-----------------------------------------------------------------------------
(* A page of a list.                                                       *)

Page(s, n) == {s[i] : i \in ((n - 1) * PageCount + 1 .. n * PageCount) \cap DOMAIN s}

\* LRANGE; an empty page ends the request.
RangePage(p) == LET page == Page(list[req[p].key], req[p].page)
                IN  /\ Sends(p, "range")
                    /\ IF page = {}
                         THEN Clear(p)
                         ELSE /\ ids' = [ids EXCEPT ![p] = page]
                              /\ todo' = [todo EXCEPT ![p] = Tail(@)]
                              /\ UNCHANGED <<req, copy>>
                    /\ UNCHANGED <<store, followers, worker, asked, failed, history>>

\* Slip: private records are taken off the list with the deleted ones.
MgetHidden(p) == LET gone == {r \in ids[p] : rec[r].del \/ ~ rec[r].pub}
                 IN  /\ Sends(p, "mget")
                     /\ IF gone = {}
                          THEN Clear(p)
                          ELSE /\ ids' = [ids EXCEPT ![p] = gone]
                               /\ todo' = [todo EXCEPT ![p] = Tail(@)]
                               /\ UNCHANGED <<req, copy>>
                     /\ UNCHANGED <<store, followers, worker, asked, failed, history>>

\* MGET; the deleted ones are to be taken off the list.
Mget(p) == LET gone == {r \in ids[p] : rec[r].del}
           IN  /\ Sends(p, "mget")
               /\ IF gone = {}
                    THEN Clear(p)
                    ELSE /\ ids' = [ids EXCEPT ![p] = gone]
                         /\ todo' = [todo EXCEPT ![p] = Tail(@)]
                         /\ UNCHANGED <<req, copy>>
               /\ UNCHANGED <<store, followers, worker, asked, failed, history>>

NextClean(p, r) == IF ids[p] = {r}
                     THEN Clear(p)
                     ELSE ids' = [ids EXCEPT ![p] = @ \ {r}] /\ UNCHANGED <<req, todo, copy>>

\* LREM with a count of 0: every occurrence goes.
Without(s, r) ==
  LET kept[n \in 0 .. Len(s)] ==
        IF n = 0 THEN << >>
        ELSE IF s[n] = r THEN kept[n - 1] ELSE Append(kept[n - 1], s[n])
  IN  kept[Len(s)]

\* DelListItems: LREM of one id after the other.
Clean(p) == /\ Sends(p, "clean")
            /\ \E r \in ids[p] :
                 LET k == req[p].key
                 IN  /\ list' = [list EXCEPT ![k] = Without(@, r)]
                     /\ cleaned' = cleaned \cup {<<k, r>>}
                     /\ NextClean(p, r)
            /\ UNCHANGED <<seq, rec, owner, count, followers, worker, asked, failed,
                           lost, steady, drift, overlapped, intent>>
-----------------------------------------------------------------------------
(* The worker of record r: RecordWorker::Add.                              *)

WGoTo(r, l) == wpc' = [wpc EXCEPT ![r] = l]

Push(r, k) == list' = [list EXCEPT ![k] = <<r>> \o @]

WGet(r) == /\ wpc[r] = "get"
           /\ WGoTo(r, "home")
           /\ UNCHANGED <<store, followers, local, wtodo, asked, failed, history>>

LinkToHome(r) == /\ wpc[r] = "home"
                 /\ Push(r, Home(owner[r]))
                 /\ WGoTo(r, "followers")
                 /\ UNCHANGED <<seq, rec, owner, count, followers, local, wtodo,
                                asked, failed, history>>

\* GetFollowFrom; the author's own active list is one of them.
ReadFollowers(r) == /\ wpc[r] = "followers"
                    /\ wtodo' = [wtodo EXCEPT ![r] = followers[owner[r]] \cup {owner[r]}]
                    /\ WGoTo(r, "active")
                    /\ UNCHANGED <<store, followers, local, asked, failed, history>>

\* One user of the set is done, and the next one's turn comes.
Pushed(r, u) == /\ wtodo' = [wtodo EXCEPT ![r] = @ \ {u}]
                /\ WGoTo(r, IF wtodo[r] = {u} THEN "recent" ELSE "active")

LinkToActive(r) == /\ wpc[r] = "active"
                   /\ \E u \in wtodo[r] : Push(r, Active(u)) /\ Pushed(r, u)
                   /\ UNCHANGED <<seq, rec, owner, count, followers, local, asked,
                                  failed, history>>

LinkToRecent(r) == /\ wpc[r] = "recent"
                   /\ Push(r, Recent)
                   /\ WGoTo(r, "done")
                   /\ UNCHANGED <<seq, rec, owner, count, followers, local, wtodo,
                                  asked, failed, history>>
-----------------------------------------------------------------------------
(* Followers, failures.                                                    *)

\* FollowApi, in another process; its commands on ff_ are atomic.
FollowersChange(u, v) ==
  /\ u # v
  /\ asked < MaxRequests
  /\ asked' = asked + 1
  /\ followers' = [followers EXCEPT ![u] = IF v \in @ THEN @ \ {v} ELSE @ \cup {v}]
  /\ steady' = [r \in Ids |-> IF owner[r] = u /\ wpc[r] \in {"none", "get", "home", "followers"}
                              THEN steady[r] \ {v} ELSE steady[r]]
  /\ UNCHANGED <<store, local, worker, failed, lost, cleaned, drift, overlapped,
                 intent>>

Fails == failed < MaxFail /\ failed' = failed + 1

Ignored == {"send", "count", "uncount"}

\* A command fails: the request ends with kCgiCodeSystemError, or goes on.
Fail(p) == /\ ~ Idle(p) /\ ~ Sends(p, "clean")
           /\ Fails
           /\ IF Head(todo[p]) \in Ignored THEN Advance(p) ELSE Clear(p)
           /\ UNCHANGED <<store, followers, worker, asked, history>>

CleanFails(p) == /\ Sends(p, "clean")
                 /\ Fails
                 /\ \E r \in ids[p] : NextClean(p, r)
                 /\ UNCHANGED <<store, followers, worker, asked, history>>

Kill(p) == /\ ~ Idle(p)
           /\ Fails
           /\ Clear(p)
           /\ UNCHANGED <<store, followers, worker, asked, history>>

Actives(S) == {Active(u) : u \in S}

\* The lists worker r has not pushed to yet.
Remaining(r) == CASE wpc[r] \in {"get", "home"} -> Keys
                  [] wpc[r] = "followers" -> Actives(Users) \cup {Recent}
                  [] wpc[r] = "active" -> Actives(wtodo[r]) \cup {Recent}
                  [] OTHER -> {Recent}

Loses(r, S) == /\ Fails
               /\ lost' = [lost EXCEPT ![r] = @ \cup S]
               /\ UNCHANGED <<store, followers, local, asked, steady, cleaned,
                              drift, overlapped, intent>>

\* A worker that cannot read the record stops; other failures cost one list,
\* or the active lists, and the dispatch goes on.
WFail(r) == \/ /\ wpc[r] = "get"
               /\ Loses(r, Keys) /\ WGoTo(r, "done") /\ UNCHANGED wtodo
            \/ /\ wpc[r] = "home"
               /\ Loses(r, {Home(owner[r])}) /\ WGoTo(r, "followers") /\ UNCHANGED wtodo
            \/ /\ wpc[r] = "followers"
               /\ Loses(r, Actives(Users)) /\ WGoTo(r, "recent") /\ UNCHANGED wtodo
            \/ /\ wpc[r] = "active"
               /\ \E u \in wtodo[r] : Loses(r, {Active(u)}) /\ Pushed(r, u)
            \/ /\ wpc[r] = "recent"
               /\ Loses(r, {Recent}) /\ WGoTo(r, "done") /\ UNCHANGED wtodo

WKill(r) == /\ wpc[r] \notin {"none", "done"}
            /\ Loses(r, Remaining(r))
            /\ WGoTo(r, "done")
            /\ UNCHANGED wtodo

Next == \/ \E p \in Procs :
             \/ \E q \in Requests : Begin(p, q)
             \/ Incr(p) \/ Set(p) \/ Send(p) \/ Count(p)
             \/ Get(p) \/ Mark(p) \/ Show(p)
             \/ RangePage(p) \/ Mget(p) \/ Clean(p)
             \/ Fail(p) \/ CleanFails(p) \/ Kill(p)
        \/ \E r \in Ids :
             \/ WGet(r) \/ LinkToHome(r) \/ ReadFollowers(r) \/ LinkToActive(r)
             \/ LinkToRecent(r) \/ WFail(r) \/ WKill(r)
        \/ \E u, v \in Users : FollowersChange(u, v)

Spec == Init /\ [][Next]_vars
-----------------------------------------------------------------------------
Has(k, r) == \E i \in DOMAIN list[k] : list[k][i] = r

Due(r) == {Home(owner[r]), Recent} \cup Actives(steady[r] \cup {owner[r]})

(***************************************************************************)
(* A dispatched record that was not deleted is in its author's lists,      *)
(* in the recent list, and in the active list of everybody who followed    *)
(* the author from the moment it was stored until the worker asked; a push *)
(* that failed costs that list only, and no reader takes it off again.     *)
(***************************************************************************)
FeedComplete ==
  \A r \in Ids : wpc[r] = "done" /\ ~ intent[r].del
                   => \A k \in Due(r) \ lost[r] : Has(k, r)

(***************************************************************************)
(* A list gets a record once: no id is in it twice, and one that was taken *)
(* off because the record is deleted does not come back, however readers,  *)
(* the deletion and the worker that is still pushing meet.                 *)
(***************************************************************************)
PushedOnce ==
  \A k \in Keys, r \in Ids :
    Cardinality({i \in DOMAIN list[k] : list[k][i] = r})
      + (IF <<k, r>> \in cleaned THEN 1 ELSE 0) <= 1

(***************************************************************************)
(* A record is as its author has asked: deleted records stay deleted, and  *)
(* the last change of visibility counts, unless two requests to change it  *)
(* ran at once, each of which writes back all it has read.                 *)
(***************************************************************************)
RecordAsAsked ==
  \A r \in Ids \ overlapped : rec[r] = intent[r]

Live(u) == {r \in Ids : owner[r] = u /\ rec[r] # NoRecord /\ ~ rec[r].del}

(***************************************************************************)
(* When no request is under way a user's record count is the number of his *)
(* records, off by one for every command that failed or process that was   *)
(* killed, and by his drift: too low by one for each deletion of his that  *)
(* removed no record of his (it was deleted before, or is not there, or is *)
(* another's), too high by one for each that another user removed.         *)
(***************************************************************************)
CountBounded ==
  overlapped = {} /\ (\A p \in Procs : Idle(p)) =>
    \A u \in Users : count[u] - Cardinality(Live(u)) - drift[u] \in -failed .. failed
=============================================================================
