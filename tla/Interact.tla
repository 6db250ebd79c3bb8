------------------------------- MODULE Interact -------------------------------
(***************************************************************************)
(* The likes and comments of one record, as common/app/InteractApi.cc      *)
(* keeps them: counted (common/app/StatisticApi.cc), stored, and linked to *)
(* the record, to the user who sent them and to the owner, who is also     *)
(* given notice.  A request is a process that sends its Redis commands one *)
(* by one, with no lock: each is a step, may fail, and the process may be  *)
(* killed before it.  Some failures end the request, others are passed     *)
(* over.                                                                   *)
(*                                                                         *)
(* The lists but the notices are sets: an id is pushed to each at most     *)
(* once, and their order is nobody's concern here.  A read that can only   *)
(* end the request counts as part of the command after it, which ends it   *)
(* alike.  fate, missed, shown, unread and crossed are history.            *)
(***************************************************************************)
EXTENDS Integers, Sequences, FiniteSets

CONSTANTS Users, Owner,  \* the owner of the record is one of the users
          NoOne,
          Procs,
          PageCount,     \* how many notices a page has
          MaxInteracts,  \* how many interactions are created
          MaxRequests,   \* how many requests are made
          MaxFail        \* how many commands fail and processes are killed

ASSUME InteractAssumption == /\ Owner \in Users /\ NoOne \notin Users
                             /\ PageCount \in Nat \ {0}
                             /\ MaxInteracts \in Nat
                             /\ MaxRequests \in Nat
                             /\ MaxFail \in Nat

VARIABLES sequence,         \* the number of the last interaction
          rough,            \* what is stored of an interaction
          recordData, userData,        \* those whose details are stored
          onRecord, sent, received,    \* the lists ri_, usi_ and uri_
          notice,           \* the list uni_ of the owner
          liked,            \* the users in rll_
          like, comment,    \* the counters of the record
          op, user,         \* the request a process serves, and for whom
          id, target,       \* its interaction; the one a comment answers
          todo,             \* the commands it has yet to send
          page,             \* the notices it has read
          requests, failed,
          fate, missed, shown, unread, crossed

lists    == <<recordData, userData, onRecord, sent, received>>
counters == <<liked, like, comment>>
store    == <<sequence, rough, lists, notice, counters>>
request  == <<op, user, id, target, todo, page>>
notices  == <<shown, unread, crossed>>
history  == <<fate, missed, notices>>
vars == <<store, request, requests, failed, history>>

Interacts == 1 .. MaxInteracts

\* Slip: an interaction is linked to the record before its details are stored.
DispatchLinkFirst == <<"setRough", "readTarget", "linkRecord", "setRecordData",
                       "setUserData", "linkSent", "readOwner", "linkReceived", "linkNotice">>

\* The commands of a dispatch, of a deletion and of each request.
Dispatch == <<"setRough", "readTarget", "setRecordData", "linkRecord",
              "setUserData", "linkSent", "readOwner", "linkReceived", "linkNotice">>

\* Slip: only the record's list is cleaned.
DeletionOfLink == <<"unlinkRecord", "readRough", "setDeleted">>

Deletion == <<"unlinkRecord", "unlinkSent", "readRough", "setDeleted">>

\* Slip: the like is counted off before it is looked for.
UndoCountFirst == <<"uncountLike", "find", "remLike">>

Undo == <<"find", "uncountLike", "remLike">>

Commands == [like      |-> <<"incr", "countLike", "addLike">> \o Dispatch,
             comment   |-> <<"incr", "countComment">> \o Dispatch,
             unlike    |-> Undo \o Deletion,
             uncomment |-> <<"uncountComment">> \o Deletion,
             notices   |-> <<"readNotice", "trim">>]

\* Commands whose failure the request passes over.
PassedOver == {"countLike", "addLike", "countComment", "linkSent", "linkReceived",
               "linkNotice", "uncountLike", "remLike", "uncountComment",
               "unlinkRecord", "unlinkSent", "setDeleted", "trim"}

Kinds == {"like", "comment"}
Rough == [user : Users, kind : Kinds, is_delete : BOOLEAN]
NoRough == [user |-> NoOne]
Fates == {"none", "sending", "sent", "leaving", "gone", "odd"}

TypeOK == /\ sequence \in 0 .. MaxInteracts
          /\ rough \in [Interacts -> Rough \cup {NoRough}]
          /\ \A i \in Interacts : i > sequence => rough[i] = NoRough
          /\ recordData \subseteq Interacts /\ userData \subseteq Interacts
          /\ onRecord \subseteq Interacts /\ received \subseteq Interacts
          /\ sent \in [Users -> SUBSET Interacts]
          /\ notice \in Seq(Interacts) /\ Len(notice) <= sequence
          /\ liked \subseteq Users
          /\ like \in -MaxRequests .. MaxInteracts
          /\ comment \in -MaxRequests .. MaxInteracts
          /\ op \in [Procs -> DOMAIN Commands \cup {"none"}]
          /\ user \in [Procs -> Users \cup {NoOne}]
          /\ id \in [Procs -> 0 .. MaxInteracts]
          /\ target \in [Procs -> 0 .. MaxInteracts]
          /\ \A p \in Procs : id[p] > sequence => op[p] = "uncomment"
          /\ \A p \in Procs : Len(todo[p]) <= 12 /\ (todo[p] = << >> <=> op[p] = "none")
          /\ page \in [Procs -> SUBSET Interacts]
          /\ requests \in 0 .. MaxRequests
          /\ failed \in 0 .. MaxFail
          /\ fate \in [Interacts -> Fates]
          /\ missed \in 0 .. MaxRequests
          /\ shown \subseteq Interacts /\ unread \subseteq Interacts
          /\ crossed \subseteq Procs

Init == /\ sequence = 0
        /\ rough = [i \in Interacts |-> NoRough]
        /\ recordData = {} /\ userData = {}
        /\ onRecord = {} /\ received = {}
        /\ sent = [u \in Users |-> {}]
        /\ notice = << >>
        /\ liked = {} /\ like = 0 /\ comment = 0
        /\ op = [p \in Procs |-> "none"]
        /\ user = [p \in Procs |-> NoOne]
        /\ id = [p \in Procs |-> 0]
        /\ target = [p \in Procs |-> 0]
        /\ todo = [p \in Procs |-> << >>]
        /\ page = [p \in Procs |-> {}]
        /\ requests = 0 /\ failed = 0
        /\ fate = [i \in Interacts |-> "none"] /\ missed = 0
        /\ shown = {} /\ unread = {} /\ crossed = {}
-----------------------------------------------------------------------------
(* A request, and what becomes of the interaction it is about.             *)

Idle(p) == op[p] = "none"
Sends(p) == op[p] \in Kinds
Deletes(p) == op[p] \in {"unlike", "uncomment"}

\* Clients send any id: an interaction may not have it, or not have it yet.
Exists(i) == i \in 1 .. sequence

\* A deletion by the sender, of an interaction that is all there, once.
Leaves(i, u, k) == /\ fate[i] = "sent"
                   /\ rough[i].user = u /\ rough[i].kind = k

FateOnDeletion(i, u, k) ==
  [fate EXCEPT ![i] = IF Leaves(i, u, k) THEN "leaving" ELSE "odd"]

FateWhenDone(p) ==
  IF Sends(p) /\ fate[id[p]] = "sending" THEN [fate EXCEPT ![id[p]] = "sent"]
  ELSE IF Deletes(p) /\ id[p] # 0 /\ fate[id[p]] = "leaving"
    THEN [fate EXCEPT ![id[p]] = "gone"]
  ELSE fate

\* One whose number is deleted before it is given.
FateWhenNumbered(i) ==
  [fate EXCEPT ![i] = IF \E p \in Procs : Deletes(p) /\ id[p] = i THEN "odd" ELSE "sending"]

FateWhenFailed(p) ==
  IF (Sends(p) \/ Deletes(p)) /\ Exists(id[p]) THEN [fate EXCEPT ![id[p]] = "odd"] ELSE fate

\* i is the comment to delete, t the interaction a comment answers, if any.
Begin(p, o, u, i, t) ==
  /\ Idle(p)
  /\ requests < MaxRequests
  /\ o = "uncomment" <=> i # 0
  /\ o # "comment" => t = 0
  /\ o = "notices" => u = Owner
  /\ requests' = requests + 1
  /\ op' = [op EXCEPT ![p] = o]
  /\ user' = [user EXCEPT ![p] = u]
  /\ id' = [id EXCEPT ![p] = i]
  /\ target' = [target EXCEPT ![p] = t]
  /\ todo' = [todo EXCEPT ![p] = Commands[o]]
  /\ fate' = IF Exists(i) THEN FateOnDeletion(i, u, "comment") ELSE fate
  /\ UNCHANGED <<store, page, failed, missed, notices>>

Clear(p) == /\ op' = [op EXCEPT ![p] = "none"]
            /\ user' = [user EXCEPT ![p] = NoOne]
            /\ id' = [id EXCEPT ![p] = 0]
            /\ target' = [target EXCEPT ![p] = 0]
            /\ todo' = [todo EXCEPT ![p] = << >>]
            /\ page' = [page EXCEPT ![p] = {}]

\* The request goes on with its next command.
GoOn(p) == /\ todo' = [todo EXCEPT ![p] = Tail(@)]
           /\ UNCHANGED <<op, user, target>>

At(p, c) == ~ Idle(p) /\ Head(todo[p]) = c

\* The last command of a request, or one after which it goes on.
Advance(p) ==
  IF Len(todo[p]) = 1
    THEN Clear(p) /\ fate' = FateWhenDone(p)
    ELSE GoOn(p) /\ UNCHANGED <<id, page, fate>>

Done(p) == Advance(p) /\ UNCHANGED <<requests, failed, missed, notices>>
-----------------------------------------------------------------------------
(* Likes and comments: Like, Comment, DispatchInteract.                    *)

\* Slip: the number is not stored.
NextSequenceLost == sequence

NextSequence == sequence + 1

IncrSequence(p) ==
  /\ At(p, "incr")
  /\ sequence < MaxInteracts
  /\ sequence' = NextSequence
  /\ id' = [id EXCEPT ![p] = sequence + 1]
  /\ fate' = FateWhenNumbered(sequence + 1)
  /\ GoOn(p)
  /\ UNCHANGED <<rough, lists, notice, counters, page, requests, failed, missed, notices>>

\* HINCRBY on the statistics of the record: a comment is counted off before
\* anything is looked up, whatever the id.
CountStat(p) ==
  /\ \/ At(p, "countLike") /\ like' = like + 1 /\ UNCHANGED comment
     \/ At(p, "uncountLike") /\ like' = like - 1 /\ UNCHANGED comment
     \/ At(p, "countComment") /\ comment' = comment + 1 /\ UNCHANGED like
     \/ At(p, "uncountComment") /\ comment' = comment - 1 /\ UNCHANGED like
  /\ missed' = IF At(p, "uncountComment") /\ ~ Exists(id[p]) THEN missed + 1 ELSE missed
  /\ Advance(p)
  /\ UNCHANGED <<requests, failed, notices>>
  /\ UNCHANGED <<sequence, rough, lists, notice, liked>>

SetLiked(p) ==
  /\ \/ At(p, "addLike") /\ liked' = liked \cup {user[p]}
     \/ At(p, "remLike") /\ liked' = liked \ {user[p]}
  /\ Done(p)
  /\ UNCHANGED <<sequence, rough, lists, notice, like, comment>>

SetRough(p) ==
  /\ At(p, "setRough")
  /\ rough' = [rough EXCEPT ![id[p]] =
                 [user |-> user[p], kind |-> op[p], is_delete |-> FALSE]]
  /\ Done(p)
  /\ UNCHANGED <<sequence, lists, notice, counters>>

\* A request that is over, with what it was about left as it is.
Stop(p) == /\ Clear(p)
           /\ fate' = FateWhenFailed(p)
           /\ UNCHANGED <<requests, failed, missed, notices>>

\* What a comment answers must be there.
ReadTarget(p) ==
  /\ At(p, "readTarget")
  /\ IF target[p] = 0 \/ rough[target[p]] # NoRough THEN Done(p) ELSE Stop(p)
  /\ UNCHANGED store

SetData(p) ==
  /\ \/ At(p, "setRecordData") /\ recordData' = recordData \cup {id[p]} /\ UNCHANGED userData
     \/ At(p, "setUserData") /\ userData' = userData \cup {id[p]} /\ UNCHANGED recordData
  /\ Done(p)
  /\ UNCHANGED <<sequence, rough, onRecord, sent, received, notice, counters>>

Link(p) ==
  /\ \/ /\ At(p, "linkRecord")
        /\ onRecord' = onRecord \cup {id[p]}
        /\ UNCHANGED <<sent, received>>
     \/ /\ At(p, "linkSent")
        /\ sent' = [sent EXCEPT ![user[p]] = @ \cup {id[p]}]
        /\ UNCHANGED <<onRecord, received>>
     \/ /\ At(p, "linkReceived")
        /\ received' = received \cup {id[p]}
        /\ UNCHANGED <<onRecord, sent>>
  /\ Done(p)
  /\ UNCHANGED <<sequence, rough, recordData, userData, notice, counters>>

\* The owner is told of what others do, and of that only.
ReadOwner(p) ==
  /\ At(p, "readOwner")
  /\ IF user[p] = Owner THEN Clear(p) /\ fate' = FateWhenDone(p) ELSE Advance(p)
  /\ UNCHANGED <<store, requests, failed, missed, notices>>

\* The others who have read a page and not trimmed it yet.
Readers(p) == {q \in Procs \ {p} : page[q] # {}}

LinkNotice(p) ==
  /\ At(p, "linkNotice")
  /\ notice' = <<id[p]>> \o notice
  /\ crossed' = crossed \cup Readers(p)
  /\ Advance(p)
  /\ UNCHANGED <<sequence, rough, lists, counters, requests, failed, missed, shown, unread>>
-----------------------------------------------------------------------------
(* Deletions: Unlike, Uncomment, DelInteract.                              *)

Likes(u) == {i \in onRecord \cap recordData : rough[i].user = u /\ rough[i].kind = "like"}

\* One of the likes: the one whose key comes last as a string.
FindLike(p) ==
  /\ At(p, "find")
  /\ \/ /\ Likes(user[p]) = {}
        /\ Clear(p) /\ UNCHANGED fate
     \/ \E i \in Likes(user[p]) :
          /\ id' = [id EXCEPT ![p] = i]
          /\ fate' = FateOnDeletion(i, user[p], "like")
          /\ GoOn(p) /\ UNCHANGED page
  /\ UNCHANGED <<store, requests, failed, missed, notices>>

Unlink(p) ==
  /\ \/ /\ At(p, "unlinkRecord")
        /\ onRecord' = onRecord \ {id[p]} /\ UNCHANGED sent
     \/ /\ At(p, "unlinkSent")
        /\ sent' = [sent EXCEPT ![user[p]] = @ \ {id[p]}] /\ UNCHANGED onRecord
  /\ Done(p)
  /\ UNCHANGED <<sequence, rough, recordData, userData, received, notice, counters>>

ReadRough(p) ==
  /\ At(p, "readRough")
  /\ IF rough[id[p]] # NoRough THEN Done(p) ELSE Stop(p)
  /\ UNCHANGED store

SetDeleted(p) ==
  /\ At(p, "setDeleted")
  /\ rough' = [rough EXCEPT ![id[p]].is_delete = TRUE]
  /\ Done(p)
  /\ UNCHANGED <<sequence, lists, notice, counters>>
-----------------------------------------------------------------------------
(* The owner's notices: a page is read, and trimmed by its length.         *)

Elements(s) == {s[k] : k \in 1 .. Len(s)}
FirstPage == SubSeq(notice, 1, IF Len(notice) < PageCount THEN Len(notice) ELSE PageCount)

\* Slip: one notice too many is trimmed.
AfterPageTooFar == SubSeq(notice, PageCount + 2, Len(notice))

AfterPage == SubSeq(notice, PageCount + 1, Len(notice))

ReadNotice(p) ==
  /\ At(p, "readNotice")
  /\ \/ notice = << >> /\ Clear(p)
     \/ /\ notice # << >>
        /\ page' = [page EXCEPT ![p] = Elements(FirstPage)]
        /\ GoOn(p) /\ UNCHANGED id
  /\ crossed' = crossed \ {p}
  /\ UNCHANGED <<store, requests, failed, fate, missed, shown, unread>>

Trim(p) ==
  /\ At(p, "trim")
  /\ notice' = AfterPage
  /\ shown' = shown \cup page[p]
  /\ unread' = unread \cup ((Elements(notice) \ Elements(notice')) \ shown')
  /\ crossed' = crossed \cup Readers(p)
  /\ Clear(p)
  /\ UNCHANGED <<sequence, rough, lists, counters, requests, failed, fate, missed>>

\* A command fails before it takes effect.
Fail(p) ==
  /\ ~ Idle(p)
  /\ failed < MaxFail
  /\ failed' = failed + 1
  /\ IF Head(todo[p]) \in PassedOver /\ Len(todo[p]) > 1
       THEN GoOn(p) /\ UNCHANGED <<id, page>>
       ELSE Clear(p)
  /\ fate' = FateWhenFailed(p)
  /\ shown' = IF At(p, "trim") THEN shown \cup page[p] ELSE shown
  /\ UNCHANGED <<store, requests, missed, unread, crossed>>

Kill(p) ==
  /\ ~ Idle(p)
  /\ failed < MaxFail
  /\ failed' = failed + 1
  /\ Clear(p)
  /\ fate' = FateWhenFailed(p)
  /\ UNCHANGED <<store, requests, missed, notices>>

Sending(p) == \/ IncrSequence(p) \/ CountStat(p) \/ SetLiked(p) \/ SetRough(p)
              \/ ReadTarget(p) \/ SetData(p) \/ Link(p) \/ ReadOwner(p) \/ LinkNotice(p)
Deleting(p) == FindLike(p) \/ Unlink(p) \/ ReadRough(p) \/ SetDeleted(p)
Reading(p) == ReadNotice(p) \/ Trim(p)

\* The ids are the client's: nothing makes sure that they exist.
Ask(p) == \E o \in DOMAIN Commands, u \in Users, i, t \in 0 .. MaxInteracts : Begin(p, o, u, i, t)

Next == \E p \in Procs : Ask(p) \/ Sending(p) \/ Deleting(p) \/ Reading(p) \/ Fail(p) \/ Kill(p)

Spec == Init /\ [][Next]_vars
-----------------------------------------------------------------------------
(* Properties.                                                             *)

\* Whatever fails and in whatever order, a list never shows an interaction
\* whose details are not stored, or one that is another's: the details go
\* first (InteractApi.cc:295-351).
ListedHaveDetails ==
  /\ onRecord \subseteq recordData
  /\ \A u \in Users : /\ sent[u] \subseteq userData
                      /\ \A i \in sent[u] : rough[i].user = u
  /\ received \cup Elements(notice) \subseteq userData
  /\ \A i \in received \cup Elements(notice) : rough[i].user # Owner

\* An interaction whose request went through undisturbed is in every list it
\* belongs to, and one its sender took back is in none but the owner's and
\* marked as deleted (InteractApi.cc:306-351, 356-373).  Disturbed are those
\* a command failed for, and those deleted twice, by another, or before they
\* were all there, if only by an id sent too early.
SentAndGone ==
  \A i \in Interacts :
    /\ fate[i] = "sent" => /\ i \in onRecord /\ i \in sent[rough[i].user]
                           /\ ~ rough[i].is_delete
    /\ fate[i] = "gone" => /\ i \notin onRecord /\ i \notin sent[rough[i].user]
                           /\ rough[i].is_delete
    /\ fate[i] \in {"sent", "leaving", "gone"} /\ rough[i].user # Owner
         => /\ i \in received
            /\ i \in Elements(notice) \cup shown \cup unread

All(f, k) == {i \in Interacts : fate[i] = f /\ rough[i].kind = k}

\* When no request is under way and none was disturbed, the counters are the
\* numbers of likes and comments there are, but for the comments counted off
\* by deletions of an id that was not there, one each: a deletion lowers the
\* counter before it looks anything up (InteractApi.cc:141-145), whatever the
\* id a client sends (ParseCgiReq.cc:109-114).  The users who are said to
\* like the record are those who have a like on it, but for one who took one
\* of several back (InteractApi.cc:31-35, 61-64, 136).
CountsAgree ==
  ((\A p \in Procs : Idle(p)) /\ \A i \in Interacts : fate[i] # "odd") =>
    /\ like = Cardinality(All("sent", "like"))
    /\ comment = Cardinality(All("sent", "comment")) - missed
    /\ \A u \in Users :
         LET mine(f) == {i \in All(f, "like") : rough[i].user = u}
         IN  /\ u \in liked => mine("sent") # {}
             /\ mine("sent") # {} => (u \in liked \/ mine("gone") # {})

\* A notice is trimmed when it was read (InteractApi.cc:195), page by page,
\* unless another was pushed, or another reader trimmed, between the reading
\* and the trimming: the list is cut by position (InteractApi.cc:174-198).
TrimmedWereRead ==
  [][\A p \in Procs : (Trim(p) /\ p \notin crossed) => unread' = unread]_vars
=============================================================================
