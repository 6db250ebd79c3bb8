------------------------------- MODULE Imque -------------------------------
(***************************************************************************)
(* The lock-free FIFO of common/msgque/queue/queue_impl.hh: a linked list  *)
(* of blocks in shared memory, whose head and tail words are advanced by   *)
(* compare-and-swap and whose blocks are kept alive by reference counts.   *)
(* Every access to shared memory is a step of its own; the processes that  *)
(* share the memory interleave freely, and any of them may be killed       *)
(* between two steps.                                                      *)
(*                                                                         *)
(* The allocator is used through allocate, dup and release, each one step  *)
(* here (dup and undup are compare-and-swap loops on one word).            *)
(*                                                                         *)
(* The variables linked, hpos and tpos are history: linked is the list of  *)
(* the nodes in the order they were linked, the first sentinel included,   *)
(* and hpos and tpos are the places in it of the head and the tail.        *)
(***************************************************************************)
EXTENDS Naturals, Sequences, FiniteSets

CONSTANTS Procs,        \* the processes that map the shared memory
          Blocks,       \* the blocks the allocator can hand out
          Versions,     \* how many values a descriptor's version takes: 2^10
          MaxEnq,       \* how many enqueues are started (bounds the model)
          MaxCrash,     \* how many processes may be killed
          END,          \* Node::END, and "no descriptor"
          JUNK          \* a word the allocator wrote over Node::next

\* A memory descriptor: VariableAllocatorAux::Descriptor.
Md == [blk : Blocks, ver : 0 .. Versions - 1]

ASSUME ProcsAssumption == /\ IsFiniteSet(Procs)
                          /\ Procs \cap {"head", "tail", "data"} = {}
ASSUME WordsAssumption == END \notin Md /\ JUNK \notin Md /\ END # JUNK
\* No block is allocated often enough for its version to come round again.
ASSUME VersionsAssumption == /\ Versions \in Nat
                             /\ MaxEnq \in Nat
                             /\ MaxEnq + 1 < Versions

VARIABLES ver, ref,     \* the allocator's node of a block: version, refcount
          next, data,   \* the queue's node in a block: next word, contents
          head, tail,   \* the header's words
          overflowed,   \* the header's overflowed_count
          op, pc,       \* the call a process is in, and the step it is at
          new,          \* the node it enqueues
          cur, nxt,     \* md of its NodeRef, and the next word it copied
          buf,          \* the message it enqueues, or has dequeued
          sent,         \* how many enqueues have started; names the messages
          linked, hpos, tpos,
          mark,         \* history: how many were dequeued when p's call began
          dead          \* the processes that were killed

memory  == <<ver, ref, next, data>>
header  == <<head, tail, overflowed>>
locals  == <<op, pc, new, cur, nxt, buf>>
history == <<linked, hpos, tpos>>
vars    == <<memory, header, locals, sent, history, mark, dead>>

Labels == {"idle", "overflow", "fill", "share", "read", "dup", "copy",
           "help", "dropHelp", "link", "swing", "take", "drop",
           "again", "leave", "collect", "free"}

TypeOK == /\ ver \in [Blocks -> 0 .. Versions - 1]
          /\ ref \in [Blocks -> Nat]
          /\ next \in [Blocks -> Md \cup {END, JUNK}]
          /\ data \in [Blocks -> 0 .. MaxEnq]
          /\ head \in Md
          /\ tail \in Md
          /\ overflowed \in Nat
          /\ op \in [Procs -> {"none", "enq", "deq", "peek"}]
          /\ pc \in [Procs -> Labels]
          /\ new \in [Procs -> Md \cup {END}]
          /\ cur \in [Procs -> Md \cup {END}]
          /\ nxt \in [Procs -> Md \cup {END}]
          /\ buf \in [Procs -> 0 .. MaxEnq]
          /\ sent \in 0 .. MaxEnq
          /\ linked \in Seq(Md)
          /\ hpos \in 1 .. Len(linked)
          /\ tpos \in 1 .. Len(linked)
          /\ mark \in [Procs -> Nat]
          /\ dead \subseteq Procs
-----------------------------------------------------------------------------
(* The allocator, as the queue sees it.                                    *)

Current(m) == ver[m.blk] = m.ver

NextVersion(v) == IF v + 1 = Versions THEN 0 ELSE v + 1

\* Slip: the version of the descriptor is not compared.
CanDupAnyVersion(m) == ref[m.blk] > 0

\* VariableAllocator::dup of one reference: refused on a block released since.
CanDup(m) == Current(m) /\ ref[m.blk] > 0

Dup(m, n) == ref' = [ref EXCEPT ![m.blk] = @ + n]

(***************************************************************************)
(* FixedAllocator::release.  The last reference gives the block back: the  *)
(* allocator then writes its own link over the first word of the block.    *)
(***************************************************************************)
Release(m) ==
  /\ ref' = [ref EXCEPT ![m.blk] = IF @ = 0 THEN 0 ELSE @ - 1]
  /\ next' = IF ref[m.blk] \in {0, 1} THEN [next EXCEPT ![m.blk] = JUNK]
                                      ELSE next
  /\ UNCHANGED <<ver, data>>
-----------------------------------------------------------------------------
\* QueueImpl::init: the sentinel is referenced by head and by tail.
Init == /\ \E b \in Blocks :
             /\ ver = [c \in Blocks |-> IF c = b THEN 1 ELSE 0]
             /\ ref = [c \in Blocks |-> IF c = b THEN 2 ELSE 0]
             /\ next = [c \in Blocks |-> IF c = b THEN END ELSE JUNK]
             /\ head = [blk |-> b, ver |-> 1]
        /\ data = [b \in Blocks |-> 0]
        /\ tail = head
        /\ overflowed = 0
        /\ op = [p \in Procs |-> "none"]
        /\ pc = [p \in Procs |-> "idle"]
        /\ new = [p \in Procs |-> END]
        /\ cur = [p \in Procs |-> END]
        /\ nxt = [p \in Procs |-> END]
        /\ buf = [p \in Procs |-> 0]
        /\ sent = 0
        /\ linked = <<head>>
        /\ hpos = 1
        /\ tpos = 1
        /\ mark = [p \in Procs |-> 0]
        /\ dead = {}

GoTo(p, l) == pc' = [pc EXCEPT ![p] = l]

Begin(p, o, l) == /\ pc[p] = "idle"
                  /\ op' = [op EXCEPT ![p] = o]
                  /\ GoTo(p, l)

Finish(p) == /\ op' = [op EXCEPT ![p] = "none"]
             /\ GoTo(p, "idle")
             /\ new' = [new EXCEPT ![p] = END]
             /\ cur' = [cur EXCEPT ![p] = END]
             /\ nxt' = [nxt EXCEPT ![p] = END]
             /\ buf' = [buf EXCEPT ![p] = 0]
             /\ mark' = [mark EXCEPT ![p] = 0]
-----------------------------------------------------------------------------
(* enqv                                                                    *)

\* A free block is found.
Allocate(p) == /\ Begin(p, "enq", "fill")
               /\ sent < MaxEnq
               /\ sent' = sent + 1
               /\ \E b \in Blocks :
                    /\ ref[b] = 0
                    /\ ver' = [ver EXCEPT ![b] = NextVersion(@)]
                    /\ ref' = [ref EXCEPT ![b] = 1]
                    /\ new' = [new EXCEPT ![p] =
                                 [blk |-> b, ver |-> NextVersion(ver[b])]]
               \* the message is known to the caller from the start
               /\ buf' = [buf EXCEPT ![p] = sent + 1]
               /\ UNCHANGED <<next, data, header, cur, nxt, history, mark, dead>>

\* None is, or the optimistic search gave up after RETRY_LIMIT attempts.
AllocateFails(p) == /\ Begin(p, "enq", "overflow")
                    /\ sent < MaxEnq
                    /\ sent' = sent + 1
                    /\ buf' = [buf EXCEPT ![p] = sent + 1]
                    /\ UNCHANGED <<memory, header, new, cur, nxt, history, mark, dead>>

\* The failure is counted and enqv returns false.
Overflow(p) == /\ pc[p] = "overflow"
               /\ overflowed' = overflowed + 1
               /\ Finish(p)
               /\ UNCHANGED <<memory, head, tail, sent, history, dead>>

\* Slip: node->next is left as the allocator had it.
FillKeepsNext(p) == /\ pc[p] = "fill"
                    /\ data' = [data EXCEPT ![new[p].blk] = buf[p]]
                    /\ GoTo(p, "share")
                    /\ UNCHANGED <<ver, ref, next, header, op, new, cur, nxt,
                                   buf, sent, history, mark, dead>>

\* The node is written; no other process can reach it yet.
Fill(p) == /\ pc[p] = "fill"
           /\ next' = [next EXCEPT ![new[p].blk] = END]
           /\ data' = [data EXCEPT ![new[p].blk] = buf[p]]
           /\ GoTo(p, "share")
           /\ UNCHANGED <<ver, ref, header, op, new, cur, nxt, buf, sent,
                          history, mark, dead>>

\* Slip: only one of the two references is counted.
ShareOnce(p) == /\ pc[p] = "share"
                /\ Dup(new[p], 1)
                /\ GoTo(p, "read")
                /\ UNCHANGED <<ver, next, data, header, op, new, cur, nxt, buf,
                               sent, history, mark, dead>>

\* The references head and tail will have are counted in advance.
Share(p) == /\ pc[p] = "share"
            /\ Dup(new[p], 2)
            /\ GoTo(p, "read")
            /\ UNCHANGED <<ver, next, data, header, op, new, cur, nxt, buf,
                           sent, history, mark, dead>>
-----------------------------------------------------------------------------
(* NodeRef and tryMoveNext, which enqImpl, deqImpl and isEmpty share       *)

\* The word a loop follows: tail for enqImpl, head for deqImpl and isEmpty.
Place(p) == IF op[p] = "enq" THEN tail ELSE head

BeginRead(p) == /\ \E o \in {"deq", "peek"} : Begin(p, o, "dup")
                /\ cur' = [cur EXCEPT ![p] = head]
                /\ mark' = [mark EXCEPT ![p] = hpos - 1]
                /\ UNCHANGED <<memory, header, new, nxt, buf, sent, history,
                               dead>>

ReadPlace(p) == /\ pc[p] = "read"
                /\ cur' = [cur EXCEPT ![p] = Place(p)]
                /\ GoTo(p, "dup")
                /\ UNCHANGED <<memory, header, op, new, nxt, buf, sent,
                               history, mark, dead>>

\* The NodeRef is made, or the block has been released and the loop goes on.
DupCur(p) == /\ pc[p] = "dup"
             /\ \/ /\ CanDup(cur[p])
                   /\ Dup(cur[p], 1)
                   /\ GoTo(p, "copy")
                   /\ UNCHANGED cur
                \/ /\ ~ CanDup(cur[p])
                   /\ GoTo(p, "read")
                   /\ cur' = [cur EXCEPT ![p] = END]
                   /\ UNCHANGED ref
             /\ UNCHANGED <<ver, next, data, header, op, new, nxt, buf, sent,
                            history, mark, dead>>

AfterCopy(o, n) == CASE o = "enq" -> IF n = END THEN "link" ELSE "help"
                     [] o = "deq" -> IF n = END THEN "leave" ELSE "take"
                     [] OTHER     -> "leave"

\* node_copy: what the next word says decides what is tried.
Copy(p) == /\ pc[p] = "copy"
           /\ LET n == next[cur[p].blk]
              IN  /\ nxt' = [nxt EXCEPT ![p] = n]
                  /\ GoTo(p, AfterCopy(op[p], n))
           /\ UNCHANGED <<memory, header, op, new, cur, buf, sent, history,
                          mark, dead>>

\* The NodeRef dies and the loop goes round.
Again(p) == /\ pc[p] = "again"
            /\ Release(cur[p])
            /\ cur' = [cur EXCEPT ![p] = END]
            /\ nxt' = [nxt EXCEPT ![p] = END]
            /\ GoTo(p, "read")
            /\ UNCHANGED <<header, op, new, buf, sent, history, mark, dead>>

\* After a successful tryMoveNext: the reference the word had is released.
Drop(p) == /\ pc[p] \in {"drop", "dropHelp"}
           /\ Release(cur[p])
           /\ GoTo(p, IF pc[p] = "drop" THEN "leave" ELSE "again")
           /\ UNCHANGED <<header, op, new, cur, nxt, buf, sent, history, mark, dead>>

\* The NodeRef dies and the call ends; a deq with a node has yet to read it.
Leave(p) == /\ pc[p] = "leave"
            /\ Release(cur[p])
            /\ IF op[p] = "deq" /\ nxt[p] # END
                 THEN /\ GoTo(p, "collect")
                      /\ cur' = [cur EXCEPT ![p] = END]
                      /\ UNCHANGED <<op, new, nxt, buf, mark>>
                 ELSE Finish(p)
            /\ UNCHANGED <<header, sent, history, dead>>
-----------------------------------------------------------------------------
(* enqImpl                                                                 *)

\* Slip: the tail is stored, not compared and swapped.
HelpStores(p) == /\ pc[p] = "help"
                 /\ tail' = nxt[p]
                 /\ tpos' = CHOOSE i \in 1 .. Len(linked) : linked[i] = nxt[p]
                 /\ GoTo(p, "dropHelp")
                 /\ UNCHANGED <<memory, head, overflowed, op, new, cur, nxt,
                                buf, sent, linked, hpos, mark, dead>>

\* Slip: the enqueuer waits for the process that linked the node instead.
HelpNobody(p) == /\ pc[p] = "help"
                 /\ GoTo(p, "again")
                 /\ UNCHANGED <<memory, header, op, new, cur, nxt, buf, sent,
                                history, mark, dead>>

\* The tail lags: it is moved one node on, if nobody has done so.
Help(p) == /\ pc[p] = "help"
           /\ IF tail = cur[p]
                THEN /\ tail' = nxt[p]
                     /\ tpos' = tpos + 1
                     /\ GoTo(p, "dropHelp")
                ELSE /\ GoTo(p, "again")
                     /\ UNCHANGED <<tail, tpos>>
           /\ UNCHANGED <<memory, head, overflowed, op, new, cur, nxt, buf,
                          sent, linked, hpos, mark, dead>>

\* Slip: the next word is stored, whatever another enqueuer put there.
LinkStores(p) == /\ pc[p] = "link"
                 /\ next' = [next EXCEPT ![cur[p].blk] = new[p]]
                 /\ linked' = Append(linked, new[p])
                 /\ GoTo(p, "swing")
                 /\ UNCHANGED <<ver, ref, data, header, op, new, cur, nxt, buf,
                                sent, hpos, tpos, mark, dead>>

\* The new node is linked after the last one: the enqueue takes effect.
Link(p) == /\ pc[p] = "link"
           /\ IF next[cur[p].blk] = END
                THEN /\ next' = [next EXCEPT ![cur[p].blk] = new[p]]
                     /\ linked' = Append(linked, new[p])
                     /\ GoTo(p, "swing")
                ELSE /\ GoTo(p, "again")
                     /\ UNCHANGED <<next, linked>>
           /\ UNCHANGED <<ver, ref, data, header, op, new, cur, nxt, buf,
                          sent, hpos, tpos, mark, dead>>

\* The tail is moved to the new node, unless another process has helped.
Swing(p) == /\ pc[p] = "swing"
            /\ IF tail = cur[p]
                 THEN /\ tail' = new[p]
                      /\ tpos' = tpos + 1
                      /\ GoTo(p, "drop")
                 ELSE /\ GoTo(p, "leave")
                      /\ UNCHANGED <<tail, tpos>>
            /\ UNCHANGED <<memory, head, overflowed, op, new, cur, nxt, buf,
                           sent, linked, hpos, mark, dead>>
-----------------------------------------------------------------------------
(* deqImpl and deq                                                         *)

\* Slip: the head is stored, so that two processes take one message.
TakeStores(p) == /\ pc[p] = "take"
                 /\ head' = nxt[p]
                 /\ hpos' = CHOOSE i \in 1 .. Len(linked) : linked[i] = nxt[p]
                 /\ GoTo(p, "drop")
                 /\ UNCHANGED <<memory, tail, overflowed, op, new, cur, nxt,
                                buf, sent, linked, tpos, mark, dead>>

\* The head is moved one node on: the dequeue takes effect.
Take(p) == /\ pc[p] = "take"
           /\ IF head = cur[p]
                THEN /\ head' = nxt[p]
                     /\ hpos' = hpos + 1
                     /\ GoTo(p, "drop")
                ELSE /\ GoTo(p, "again")
                     /\ UNCHANGED <<head, hpos>>
           /\ UNCHANGED <<memory, tail, overflowed, op, new, cur, nxt, buf,
                          sent, linked, tpos, mark, dead>>

\* buf.assign from the node that became the sentinel.
Collect(p) == /\ pc[p] = "collect"
              /\ buf' = [buf EXCEPT ![p] = data[nxt[p].blk]]
              /\ GoTo(p, "free")
              /\ UNCHANGED <<memory, header, op, new, cur, nxt, sent, history,
                             mark, dead>>

\* Slip: deq returns without releasing.
FreeNothing(p) == /\ pc[p] = "free"
                  /\ Finish(p)
                  /\ UNCHANGED <<memory, header, sent, history, dead>>

\* The reference allocate gave the node is released, and deq returns.
Free(p) == /\ pc[p] = "free"
           /\ Release(nxt[p])
           /\ Finish(p)
           /\ UNCHANGED <<header, sent, history, dead>>
-----------------------------------------------------------------------------
\* resetOverflowedCount
ResetOverflowed(p) == /\ pc[p] = "idle"
                      /\ overflowed' = 0
                      /\ UNCHANGED <<memory, head, tail, locals, sent, history,
                                     mark, dead>>

\* A process is killed between two steps and never runs again.
Crash(p) == /\ Cardinality(dead) < MaxCrash
            /\ dead' = dead \cup {p}
            /\ UNCHANGED <<memory, header, locals, sent, history, mark>>

\* The steps of a call that has begun.
Step(p) == \/ Overflow(p) \/ Fill(p) \/ Share(p)
           \/ ReadPlace(p) \/ DupCur(p) \/ Copy(p)
           \/ Again(p) \/ Drop(p) \/ Leave(p)
           \/ Help(p) \/ Link(p) \/ Swing(p)
           \/ Take(p) \/ Collect(p) \/ Free(p)

Begins(p) == Allocate(p) \/ AllocateFails(p) \/ BeginRead(p)

Next == \E p \in Procs \ dead :
          Step(p) \/ Begins(p) \/ ResetOverflowed(p) \/ Crash(p)

Spec == Init /\ [][Next]_vars

\* The kernel runs every live process again and again.
FairSpec == Spec /\ \A p \in Procs : WF_vars(p \notin dead /\ Step(p))
-----------------------------------------------------------------------------
(* The references.                                                         *)

Last == Len(linked)

\* md is at place i of the list, or after it.
LinkedFrom(i, m) == \E j \in i .. Last : linked[j] = m

\* p has a NodeRef for cur[p].
Holds(p) == pc[p] \in {"copy", "help", "dropHelp", "link", "swing", "take",
                       "drop", "again", "leave"}

\* p owns a node it has not linked yet.
Owns(p) == op[p] = "enq" /\ new[p] # END /\ pc[p] \notin {"swing", "drop", "leave"}

\* p took the node nxt[p] off the queue and has to free it.
Took(p) == /\ op[p] = "deq"
           /\ nxt[p] # END
           /\ pc[p] \in {"drop", "leave", "collect", "free"}

\* p moved the head (the tail) off cur[p] and has to release that reference.
DropsHead(p) == op[p] = "deq" /\ pc[p] = "drop"
DropsTail(p) == op[p] = "enq" /\ pc[p] \in {"drop", "dropHelp"}

Shared(p) == Owns(p) /\ pc[p] \notin {"fill", "share"}

(***************************************************************************)
(* Who has a reference to the block md describes: the word head, or the    *)
(* process about to release for it; the word tail likewise; whoever is to  *)
(* free the contents (the enqueuer, the queue, then the dequeuer); and     *)
(* every process with a NodeRef.  A node is counted for head and for tail  *)
(* before they reach it.                                                   *)
(***************************************************************************)
HeadRef(m) == \/ LinkedFrom(hpos, m)
              \/ \E p \in Procs : DropsHead(p) /\ cur[p] = m
              \/ \E p \in Procs : Shared(p) /\ new[p] = m

TailRef(m) == \/ LinkedFrom(tpos, m)
              \/ \E p \in Procs : DropsTail(p) /\ cur[p] = m
              \/ \E p \in Procs : Shared(p) /\ new[p] = m

DataRef(m) == \/ LinkedFrom(hpos + 1, m)
              \/ \E p \in Procs : Took(p) /\ nxt[p] = m
              \/ \E p \in Procs : Owns(p) /\ new[p] = m

Holders(m) == {p \in Procs : Holds(p) /\ cur[p] = m}

References(m) == Holders(m) \cup {t \in {"head", "tail", "data"} :
                                    \/ t = "head" /\ HeadRef(m)
                                    \/ t = "tail" /\ TailRef(m)
                                    \/ t = "data" /\ DataRef(m)}

(***************************************************************************)
(* The count of a block is exactly the number of its references: a block   *)
(* is neither freed while somebody can reach it, nor kept when nobody can. *)
(* This is the bookkeeping of dup(sentinel), dup(new_tail, 2), NodeRef and *)
(* tryMoveNext, which no assertion of the code checks.                     *)
(***************************************************************************)
RefsCounted ==
  \A m \in Md : Current(m) => ref[m.blk] = Cardinality(References(m))

(***************************************************************************)
(* A descriptor somebody has a reference for is not stale: the version it  *)
(* carries is the block's, so the assertion of VariableAllocator::undup    *)
(* holds at every release and no node is read after its block was reused.  *)
(***************************************************************************)
HeldAreCurrent ==
  \A m \in Md : References(m) # {} => Current(m)

(***************************************************************************)
(* The list: from the older of the head and the tail to the last node the  *)
(* next words lead along the nodes in the order they were linked; the tail *)
(* lags by one node at most, and the head passes it by one at most.        *)
(***************************************************************************)
ChainOK == /\ head = linked[hpos]
           /\ tail = linked[tpos]
           /\ hpos <= tpos + 1
           /\ Last <= tpos + 1
           /\ \A m \in Md : \A i \in 1 .. Last :
                linked[i] = m /\ References(m) # {} =>
                  next[m.blk] = IF i = Last THEN END ELSE linked[i + 1]

Live == Procs \ dead

(***************************************************************************)
(* When no call is under way and nobody was killed, the blocks in use are  *)
(* the waiting messages and one sentinel.  A process killed in a call      *)
(* costs two blocks at most, for ever: the code has no recovery.           *)
(***************************************************************************)
LeakBounded == (\A p \in Live : pc[p] = "idle") =>
                 LET used == {b \in Blocks : ref[b] > 0}
                     backlog == Last - hpos
                 IN  Cardinality(used) <= backlog + 1 + 2 * Cardinality(dead)
-----------------------------------------------------------------------------
(* The queue Imque implements.                                             *)

\* What the caller of each process has asked, or been answered.
Call(p) ==
  CASE op[p] = "none" -> [kind |-> "idle"]
    [] op[p] = "enq" -> IF Owns(p) \/ pc[p] = "overflow"
                          THEN [kind |-> "enq", msg |-> buf[p]]
                          ELSE [kind |-> "enqueued"]
    [] op[p] = "deq" -> IF Took(p)
                          THEN [kind |-> "dequeued",
                                msg |-> IF pc[p] = "free" THEN buf[p]
                                        ELSE data[nxt[p].blk]]
                          ELSE IF pc[p] = "leave"
                                 THEN [kind |-> "dequeued", msg |-> 0]
                                 ELSE [kind |-> "deq"]
    [] op[p] = "peek" -> IF pc[p] = "leave"
                           THEN [kind |-> "peeked", empty |-> nxt[p] = END]
                           ELSE [kind |-> "peek", mark |-> mark[p]]

CallOfEach == [p \in Procs |-> Call(p)]

\* The messages in the nodes after the sentinel.
Waiting == [i \in 1 .. Last - hpos |-> data[linked[hpos + i].blk]]

Fifo == INSTANCE FifoQueue WITH
          queue <- Waiting,
          taken <- hpos - 1,
          drops <- overflowed,
          call  <- CallOfEach

(***************************************************************************)
(* However the steps of the processes interleave, and whoever is killed,   *)
(* the queue behaves as one FIFO whose operations are atomic: no message   *)
(* is lost, duplicated or reordered, deq fails only on an empty queue, and *)
(* a message is read only as it was written.                               *)
(***************************************************************************)
ImplementsFifo == Fifo!FifoSpec

(***************************************************************************)
(* Every call ends: a loop goes round only because another process moved   *)
(* on, and a process that was killed holds nobody up.                      *)
(***************************************************************************)
CallsEnd == \A p \in Procs : pc[p] # "idle" ~> pc[p] = "idle" \/ p \in dead
=============================================================================
