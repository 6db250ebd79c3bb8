------------------------- MODULE VariableAllocator -------------------------
(***************************************************************************)
(* The lock-free first-fit allocator of                                    *)
(* common/msgque/allocator/variable_allocator.hh.  The free chunks form a  *)
(* list of nodes in the order of their addresses; a block is carved off    *)
(* the end of a free node, and a released block is added to the node       *)
(* before it, or linked after it.  Neighbours are joined by whoever passes *)
(* them, in three compare-and-swaps.                                       *)
(*                                                                         *)
(* Every fetch and compare-and-swap of a node's 64-bit word is a step, and *)
(* so is every plain write of releaseImpl to a field that dup reads.       *)
(* dupNew is modelled in FixedAllocator, its only caller.                  *)
(*                                                                         *)
(* held and issued are history: how many chunks are allocated at a place,  *)
(* and how often a descriptor was handed out.                              *)
(***************************************************************************)
EXTENDS Naturals, FiniteSets

CONSTANTS Procs,        \* the processes that map the shared memory
          NodeCount,    \* node_count_; the free list ends with this index
          Versions,     \* how many values a version takes: 2^10
          RetryLimit, LightRetryLimit,
          Needs,        \* how many chunks clients ask for
          MaxAlloc,     \* how many calls of allocate are made
          MaxDups,      \* how many calls of dup are made
          MaxCrash,     \* how many processes may be killed
          StaleDups     \* whether dup is tried on released descriptors too

ASSUME NodeCountAssumption == NodeCount \in Nat /\ NodeCount > 2
ASSUME NeedsAssumption == Needs \subseteq Nat \ {0}
ASSUME LimitsAssumption == /\ Versions \in Nat \ {0, 1}
                           /\ RetryLimit \in Nat /\ LightRetryLimit \in Nat
                           /\ MaxAlloc \in Nat /\ MaxDups \in Nat

Index == 0 .. NodeCount - 1
Chunks == 1 .. NodeCount - 1
Desc == [idx : Chunks, ver : 0 .. Versions - 1]

\* VariableAllocatorAux::Node; next is the reference count of an allocated block.
Node == [ver : 0 .. Versions - 1, next : 0 .. NodeCount + MaxDups,
         count : 0 .. NodeCount, status : SUBSET {"head", "tail"}]

VARIABLES nodes,        \* the nodes_ array
          pc, md,       \* a call's step, and the descriptor it is about
          need, fast,   \* the chunks it asks for; whether it is a lightRelease
          retry, pred, curr,    \* findCandidate: attempts left, two snapshots
          refs,         \* the references the clients hold
          allocs, dups, \* how many calls were made
          held, issued,
          dead          \* the processes that were killed

regs == <<md, need, fast, retry, pred, curr>>
vars == <<nodes, pc, regs, refs, allocs, dups, held, issued, dead>>

Labels == {"idle", "start", "next", "check", "markHead", "markTail", "join",
           "carve", "label", "link", "raise", "insert", "lower", "clear"}

NONE == [idx |-> 0, ver |-> 0]
Blank == [ver |-> 0, next |-> 0, count |-> 0, status |-> {}]
NoSnapshot == [idx |-> 0, node |-> Blank]

TypeOK == /\ nodes \in [Index -> Node]
          /\ pc \in [Procs -> Labels]
          /\ md \in [Procs -> Desc \cup {NONE}]
          /\ need \in [Procs -> {0} \cup Needs]
          /\ fast \in [Procs -> BOOLEAN]
          /\ retry \in [Procs -> 0 .. RetryLimit + LightRetryLimit]
          /\ pred \in [Procs -> [idx : Index, node : Node]]
          /\ curr \in [Procs -> [idx : Index, node : Node]]
          /\ refs \in [Desc -> Nat]
          /\ allocs \in 0 .. MaxAlloc
          /\ dups \in 0 .. MaxDups
          /\ held \in [Chunks -> 0 .. NodeCount]
          /\ issued \in [Desc -> Nat]
          /\ dead \subseteq Procs

Init == /\ nodes = [i \in Index |->
                      CASE i = 0 -> [Blank EXCEPT !.next = 1]
                        [] i = 1 -> [Blank EXCEPT !.next = NodeCount,
                                                  !.count = NodeCount - 1]
                        [] OTHER -> Blank]
        /\ pc = [p \in Procs |-> "idle"]
        /\ md = [p \in Procs |-> NONE]
        /\ need = [p \in Procs |-> 0]
        /\ fast = [p \in Procs |-> FALSE]
        /\ retry = [p \in Procs |-> 0]
        /\ pred = [p \in Procs |-> NoSnapshot]
        /\ curr = [p \in Procs |-> NoSnapshot]
        /\ refs = [d \in Desc |-> 0]
        /\ allocs = 0
        /\ dups = 0
        /\ held = [i \in Chunks |-> 0]
        /\ issued = [d \in Desc |-> 0]
        /\ dead = {}
-----------------------------------------------------------------------------
(* Nodes.                                                                  *)

NextVer(v) == (v + 1) % Versions

\* Slip: the version stays when only the count changes.
ChangeCountOnly(node, count) == [node EXCEPT !.count = count]

ChangeNext(node, next)     == [node EXCEPT !.ver = NextVer(@), !.next = next]
ChangeCount(node, count)   == [node EXCEPT !.ver = NextVer(@), !.count = count]
ChangeStatus(node, status) == [node EXCEPT !.ver = NextVer(@), !.status = status]

\* The version becomes the tail's, plus one.
Join(node, tail) ==
  [ver    |-> NextVer(tail.ver),
   next   |-> tail.next,
   count  |-> node.count + tail.count,
   status |-> (node.status \ {"head"}) \cup (tail.status \ {"tail"})]

\* The free node ends where its successor begins.
Joinable(s) == s.node.next = s.idx + s.node.count

GoTo(p, l) == pc' = [pc EXCEPT ![p] = l]

Fetch(i) == [idx |-> i, node |-> nodes[i]]

Unmodified(s) == nodes[s.idx] = s.node

Swap(s, new) == nodes' = [nodes EXCEPT ![s.idx] = new]

Finish(p) == /\ GoTo(p, "idle")
             /\ md' = [md EXCEPT ![p] = NONE]
             /\ need' = [need EXCEPT ![p] = 0]
             /\ fast' = [fast EXCEPT ![p] = FALSE]
             /\ retry' = [retry EXCEPT ![p] = 0]
             /\ pred' = [pred EXCEPT ![p] = NoSnapshot]
             /\ curr' = [curr EXCEPT ![p] = NoSnapshot]

\* allocate returns 0, or a release returns false and the block stays allocated.
Fail(p) == /\ Finish(p)
           /\ refs' = IF md[p] = NONE THEN refs
                                      ELSE [refs EXCEPT ![md[p]] = 1]

\* findCandidate begins, with the attempts the call is allowed.
Search(p, attempts) == /\ retry' = [retry EXCEPT ![p] = attempts]
                       /\ pred' = [pred EXCEPT ![p] = NoSnapshot]
                       /\ curr' = [curr EXCEPT ![p] = NoSnapshot]
                       /\ GoTo(p, "start")
-----------------------------------------------------------------------------
(* findCandidate                                                           *)

\* It starts again from the first node, while attempts are left.
Restart(p) == IF retry[p] = 0
                THEN Fail(p)
                ELSE Search(p, retry[p] - 1) /\ UNCHANGED <<md, need, fast, refs>>

IsEnoughChunk(p, s) == s.node.status = {} /\ s.node.count > need[p]

\* Slip: any node before the block will do.
IsBefore(p, s) == s.idx < md[p].idx
IsPredecessor(p, s) == md[p].idx < s.node.next

IsNeighbor(p, s) == md[p].idx = s.idx + s.node.count

\* The callback is asked about snapshot s; it is passed by, or taken.
Visit(p, s) ==
  \/ /\ md[p] = NONE /\ IsEnoughChunk(p, s)
     /\ GoTo(p, "carve")
     /\ curr' = [curr EXCEPT ![p] = s]
     /\ pred' = [pred EXCEPT ![p] = NoSnapshot]
     /\ UNCHANGED <<md, need, fast, retry, refs>>
  \/ /\ md[p] # NONE /\ IsPredecessor(p, s)
     /\ GoTo(p, IF IsNeighbor(p, s) THEN "raise" ELSE "link")
     /\ curr' = [curr EXCEPT ![p] = s]
     /\ pred' = [pred EXCEPT ![p] = NoSnapshot]
     /\ UNCHANGED <<md, need, fast, retry, refs>>
  \/ /\ IF md[p] = NONE THEN ~ IsEnoughChunk(p, s) ELSE ~ IsPredecessor(p, s)
     /\ IF s.node.next = NodeCount
          THEN Fail(p)
          ELSE /\ pred' = [pred EXCEPT ![p] = s]
               /\ curr' = [curr EXCEPT ![p] = NoSnapshot]
               /\ GoTo(p, "next")
               /\ UNCHANGED <<md, need, fast, retry, refs>>

\* joinNodesIfNeed has nothing to join, or a pair that was marked.
JoinOrVisit(p, first, second) ==
  IF "head" \in first.node.status /\ "tail" \in second.node.status
    THEN /\ GoTo(p, "join")
         /\ pred' = [pred EXCEPT ![p] = first]
         /\ curr' = [curr EXCEPT ![p] = second]
         /\ UNCHANGED <<md, need, fast, retry, refs>>
    ELSE Visit(p, second)

Start(p) == /\ pc[p] = "start"
            /\ pred' = [pred EXCEPT ![p] = Fetch(0)]
            /\ GoTo(p, "next")
            /\ UNCHANGED <<nodes, md, need, fast, retry, curr, refs, allocs,
                           dups, held, issued, dead>>

FetchNext(p) == /\ pc[p] = "next"
                /\ curr' = [curr EXCEPT ![p] = Fetch(pred[p].node.next)]
                /\ GoTo(p, "check")
                /\ UNCHANGED <<nodes, md, need, fast, retry, pred, refs, allocs,
                               dups, held, issued, dead>>

\* The two snapshots are consistent if the first is still what it was.
Check(p) ==
  /\ pc[p] = "check"
  /\ IF \/ ~ Unmodified(pred[p])
        \/ "head" \notin pred[p].node.status /\ "tail" \in curr[p].node.status
       THEN Restart(p)
       ELSE IF Joinable(pred[p])
              THEN GoTo(p, "markHead") /\ UNCHANGED <<regs, refs>>
              ELSE JoinOrVisit(p, pred[p], curr[p])
  /\ UNCHANGED <<nodes, allocs, dups, held, issued, dead>>

MarkHead(p) ==
  /\ pc[p] = "markHead"
  /\ LET new == ChangeStatus(pred[p].node, pred[p].node.status \cup {"head"})
     IN  IF Unmodified(pred[p])
           THEN /\ Swap(pred[p], new)
                /\ pred' = [pred EXCEPT ![p].node = new]
                /\ GoTo(p, "markTail")
                /\ UNCHANGED <<md, need, fast, retry, curr, refs>>
           ELSE Restart(p) /\ UNCHANGED nodes
  /\ UNCHANGED <<allocs, dups, held, issued, dead>>

MarkTail(p) ==
  /\ pc[p] = "markTail"
  /\ LET new == ChangeStatus(curr[p].node, curr[p].node.status \cup {"tail"})
     IN  IF Unmodified(curr[p])
           THEN /\ Swap(curr[p], new)
                /\ JoinOrVisit(p, pred[p], [curr[p] EXCEPT !.node = new])
           ELSE Restart(p) /\ UNCHANGED nodes
  /\ UNCHANGED <<allocs, dups, held, issued, dead>>

\* Slip: the joined node is stored, not compared and swapped.
JoinStores(p) ==
  /\ pc[p] = "join"
  /\ LET new == Join(pred[p].node, curr[p].node)
     IN  /\ Swap(pred[p], new)
         /\ Visit(p, [pred[p] EXCEPT !.node = new])
  /\ UNCHANGED <<allocs, dups, held, issued, dead>>

JoinNodes(p) ==
  /\ pc[p] = "join"
  /\ LET new == Join(pred[p].node, curr[p].node)
     IN  IF Unmodified(pred[p])
           THEN /\ Swap(pred[p], new)
                /\ Visit(p, [pred[p] EXCEPT !.node = new])
           ELSE Restart(p) /\ UNCHANGED nodes
  /\ UNCHANGED <<allocs, dups, held, issued, dead>>
-----------------------------------------------------------------------------
(* allocate                                                                *)

Allocate(p, n) == /\ pc[p] = "idle"
                  /\ allocs < MaxAlloc
                  /\ allocs' = allocs + 1
                  /\ need' = [need EXCEPT ![p] = n]
                  /\ Search(p, RetryLimit)
                  /\ UNCHANGED <<nodes, md, fast, refs, dups, held, issued, dead>>

\* Slip: a failed compare-and-swap is tried again with the same snapshot.
CarveSpins(p) ==
  /\ pc[p] = "carve" /\ Unmodified(curr[p])
  /\ LET left == curr[p].node.count - need[p]
         i == curr[p].idx + left
     IN  /\ Swap(curr[p], ChangeCount(curr[p].node, left))
         /\ held' = [held EXCEPT ![i] = need[p]]
         /\ md' = [md EXCEPT ![p] = [idx |-> i, ver |-> NextVer(nodes[i].ver)]]
         /\ GoTo(p, "label")
  /\ UNCHANGED <<need, fast, retry, pred, curr, refs, allocs, dups, issued, dead>>

\* The block is taken off the end of the free node, or the call starts over.
Carve(p) ==
  /\ pc[p] = "carve"
  /\ LET left == curr[p].node.count - need[p]
         i == curr[p].idx + left
     IN  IF Unmodified(curr[p])
           THEN /\ Swap(curr[p], ChangeCount(curr[p].node, left))
                /\ held' = [held EXCEPT ![i] = need[p]]
                /\ md' = [md EXCEPT ![p] = [idx |-> i, ver |-> NextVer(nodes[i].ver)]]
                /\ GoTo(p, "label")
                /\ UNCHANGED <<need, fast, retry, pred, curr>>
           ELSE /\ Search(p, RetryLimit)
                /\ UNCHANGED <<nodes, held, md, need, fast>>
  /\ UNCHANGED <<refs, allocs, dups, issued, dead>>

\* The block's own node is written; nobody has its descriptor yet.
Label(p) ==
  /\ pc[p] = "label"
  /\ nodes' = [nodes EXCEPT ![md[p].idx].ver = NextVer(@),
                            ![md[p].idx].count = need[p],
                            ![md[p].idx].next = 1]
  /\ refs' = [refs EXCEPT ![md[p]] = @ + 1]
  /\ issued' = [issued EXCEPT ![md[p]] = @ + 1]
  /\ Finish(p)
  /\ UNCHANGED <<allocs, dups, held, dead>>
-----------------------------------------------------------------------------
(* dup, release and lightRelease                                           *)

\* dup refuses a descriptor whose node has another version or no reference.
DupSucceeds(d) == nodes[d.idx].ver = d.ver /\ nodes[d.idx].next # 0

Dup(p, d) == /\ pc[p] = "idle"
             /\ dups < MaxDups
             /\ StaleDups \/ refs[d] > 0
             /\ DupSucceeds(d)
             /\ dups' = dups + 1
             /\ nodes' = [nodes EXCEPT ![d.idx].next = @ + 1]
             /\ refs' = [refs EXCEPT ![d] = @ + 1]
             /\ UNCHANGED <<pc, regs, allocs, held, issued, dead>>

\* Slip: undup takes one off a count that is zero already.
ReleaseBelowZero(p, d, light) ==
  /\ pc[p] = "idle"
  /\ refs[d] > 0
  /\ refs' = [refs EXCEPT ![d] = @ - 1]
  /\ nodes' = [nodes EXCEPT ![d.idx].next = @ - 1]
  /\ md' = [md EXCEPT ![p] = d]
  /\ fast' = [fast EXCEPT ![p] = light]
  /\ Search(p, IF light THEN LightRetryLimit ELSE RetryLimit)
  /\ UNCHANGED <<need, allocs, dups, held, issued, dead>>

\* Slip: undup says that the last reference is gone when one is left.
ReleaseEarly(p, d, light) ==
  /\ pc[p] = "idle"
  /\ refs[d] > 0
  /\ refs' = [refs EXCEPT ![d] = @ - 1]
  /\ nodes' = [nodes EXCEPT ![d.idx].next = IF @ = 0 THEN 0 ELSE @ - 1]
  /\ IF nodes[d.idx].next > 2
       THEN UNCHANGED <<pc, regs>>
       ELSE /\ md' = [md EXCEPT ![p] = d]
            /\ fast' = [fast EXCEPT ![p] = light]
            /\ Search(p, IF light THEN LightRetryLimit ELSE RetryLimit)
            /\ UNCHANGED need
  /\ UNCHANGED <<allocs, dups, held, issued, dead>>

\* undup, and the search for the node before the block if it was the last.
Release(p, d, light) ==
  /\ pc[p] = "idle"
  /\ refs[d] > 0
  /\ refs' = [refs EXCEPT ![d] = @ - 1]
  /\ nodes' = [nodes EXCEPT ![d.idx].next = IF @ = 0 THEN 0 ELSE @ - 1]
  /\ IF nodes[d.idx].next > 1
       THEN UNCHANGED <<pc, regs>>
       ELSE /\ md' = [md EXCEPT ![p] = d]
            /\ fast' = [fast EXCEPT ![p] = light]
            /\ Search(p, IF light THEN LightRetryLimit ELSE RetryLimit)
            /\ UNCHANGED need
  /\ UNCHANGED <<allocs, dups, held, issued, dead>>

\* Not beside the free node before it: the block is to be linked after it.
Link(p) == /\ pc[p] = "link"
           /\ nodes' = [nodes EXCEPT ![md[p].idx].next = curr[p].node.next,
                                     ![md[p].idx].status = {}]
           /\ GoTo(p, "raise")
           /\ UNCHANGED <<regs, refs, allocs, dups, held, issued, dead>>


Raise(p) == /\ pc[p] = "raise"
            /\ nodes' = [nodes EXCEPT ![md[p].idx].ver = NextVer(@)]
            /\ GoTo(p, "insert")
            /\ UNCHANGED <<regs, refs, allocs, dups, held, issued, dead>>

\* Slip: the node before the block is stored, not compared and swapped.
InsertStores(p) ==
  /\ pc[p] = "insert"
  /\ LET i == md[p].idx
     IN  Swap(curr[p], IF IsNeighbor(p, curr[p])
                         THEN ChangeCount(curr[p].node, curr[p].node.count + nodes[i].count)
                         ELSE ChangeNext(curr[p].node, i))
  /\ held' = [held EXCEPT ![md[p].idx] = 0]
  /\ Finish(p)
  /\ UNCHANGED <<refs, allocs, dups, issued, dead>>

\* The block joins the free node before it, or the list.
Insert(p) ==
  /\ pc[p] = "insert"
  /\ LET i == md[p].idx
         new == IF IsNeighbor(p, curr[p])
                  THEN ChangeCount(curr[p].node, curr[p].node.count + nodes[i].count)
                  ELSE ChangeNext(curr[p].node, i)
     IN  IF Unmodified(curr[p])
           THEN /\ Swap(curr[p], new)
                /\ held' = [held EXCEPT ![i] = 0]
                /\ Finish(p)
           ELSE GoTo(p, "lower") /\ UNCHANGED <<nodes, held, regs>>
  /\ UNCHANGED <<refs, allocs, dups, issued, dead>>

\* Another process changed that node: the block's own is put back as it was.
Lower(p) == /\ pc[p] = "lower"
            /\ nodes' = [nodes EXCEPT ![md[p].idx].ver = (@ + Versions - 1) % Versions]
            /\ GoTo(p, "clear")
            /\ UNCHANGED <<regs, refs, allocs, dups, held, issued, dead>>

\* Slip: the next word written by Link is left where the count was.
ClearNothing(p) == /\ pc[p] = "clear"
                   /\ IF fast[p] THEN Fail(p)
                                 ELSE /\ Search(p, RetryLimit)
                                      /\ UNCHANGED <<md, need, fast, refs>>
                   /\ UNCHANGED <<nodes, allocs, dups, held, issued, dead>>

\* release searches again; lightRelease gives up, and the caller has the block.
Clear(p) == /\ pc[p] = "clear"
            /\ nodes' = [nodes EXCEPT ![md[p].idx].next = 0]
            /\ IF fast[p] THEN Fail(p)
                          ELSE Search(p, RetryLimit) /\ UNCHANGED <<md, need, fast, refs>>
            /\ UNCHANGED <<allocs, dups, held, issued, dead>>
-----------------------------------------------------------------------------
Crash(p) == /\ Cardinality(dead) < MaxCrash
            /\ dead' = dead \cup {p}
            /\ UNCHANGED <<nodes, pc, regs, refs, allocs, dups, held, issued>>

Step(p) == \/ Start(p) \/ FetchNext(p) \/ Check(p)
           \/ MarkHead(p) \/ MarkTail(p) \/ JoinNodes(p)
           \/ Carve(p) \/ Label(p)
           \/ Link(p) \/ Raise(p) \/ Insert(p) \/ Lower(p) \/ Clear(p)

Begins(p) == \/ \E n \in Needs : Allocate(p, n)
             \/ \E d \in Desc : \/ Dup(p, d) /\ issued[d] > 0
                                \/ \E light \in BOOLEAN : Release(p, d, light)

Next == \E p \in Procs \ dead : Step(p) \/ Begins(p) \/ Crash(p)

Spec == Init /\ [][Next]_vars

FairSpec == Spec /\ \A p \in Procs : WF_vars(p \notin dead /\ Step(p))
-----------------------------------------------------------------------------
\* The nodes on the free list: the least set the links lead along, from the first.
Closed(ns, S) == ns[0].next \in S /\ \A i \in S \cap Index : ns[i].next \in S

ListFrom(ns) ==
  LET sets == {S \in SUBSET (1 .. NodeCount) : Closed(ns, S)}
  IN  {j \in 1 .. NodeCount : \A S \in sets : j \in S}

OnList == ListFrom(nodes)

Extent(i, n) == i .. i + n - 1

(***************************************************************************)
(* The free nodes and the allocated blocks share out the chunks: no chunk  *)
(* is allocated twice, none is free and allocated, none is lost, whatever  *)
(* joins, carvings and releases meet, and whoever is killed. It holds as   *)
(* long as no word of a node comes back while a process is about to        *)
(* replace it (NoWordReturns, see VariableProofs); in schedules as long as *)
(* the one of MCStaleJoin one does, because a join sets a version back.    *)
(***************************************************************************)
Partition ==
  LET free == OnList \cap Chunks
  IN  \A c \in Chunks :
        Cardinality({i \in free : c \in Extent(i, nodes[i].count)})
          + Cardinality({i \in Chunks : c \in Extent(i, held[i])}) = 1

\* The free list is in the order of the addresses and ends with node_count_.
Sorted == /\ NodeCount \in OnList
          /\ \A i \in OnList \cap Index : nodes[i].next > i /\ nodes[i].count > 0

(***************************************************************************)
(* Every assertion that a search, a join or a release evaluates holds at   *)
(* the step that evaluates it, of snapshots that may be old:               *)
(*   273  a search goes on from a node that has a successor;               *)
(*   280  a node fetched after an unmodified one can be joined with its    *)
(*        successor if it is marked for that;                              *)
(*   303  so can the first of a marked pair;                               *)
(*   338  the node found ends before the block, up to the insertion;       *)
(*   341  the block's node bears the version of its descriptor and         *)
(*   342  no reference, next to the node found or not: Link comes after    *)
(*        the two lines, and a neighbour goes straight on to Raise;        *)
(*   201  undup finds the version of the descriptor it was given.          *)
(* A process that was killed evaluates none.                               *)
(***************************************************************************)
ChecksBlock(p) == \/ pc[p] = "link"
                  \/ pc[p] = "raise" /\ IsNeighbor(p, curr[p])

AssertionsHold ==
  /\ \A p \in Procs \ dead :
       /\ pc[p] = "next" => pred[p].node.next # NodeCount
       /\ pc[p] = "check" /\ Unmodified(pred[p]) /\ "head" \in curr[p].node.status
            => Joinable(curr[p])
       /\ pc[p] = "join" => Joinable(pred[p])
       /\ pc[p] \in {"link", "raise", "insert"}
            => md[p].idx >= curr[p].idx + curr[p].node.count
       /\ ChecksBlock(p) => /\ nodes[md[p].idx].ver = md[p].ver
                            /\ nodes[md[p].idx].next = 0
  /\ \A d \in Desc : refs[d] > 0 => nodes[d.idx].ver = d.ver

(***************************************************************************)
(* The count of a block is the references that all clients together have,  *)
(* so the block is given back by the last of them and by nobody else; only *)
(* a lightRelease that failed leaves one reference, its caller's, that is  *)
(* not counted.  Clients dup what they hold a reference of: a dup of       *)
(* another descriptor may be counted on a released block (see RefsAreLive).*)
(***************************************************************************)
ReferencesCounted ==
  \A d \in Desc :
    refs[d] > 0 => /\ nodes[d.idx].ver = d.ver
                   /\ \/ nodes[d.idx].next = refs[d]
                      \/ nodes[d.idx].next = 0 /\ refs[d] = 1

(***************************************************************************)
(* A reference is to a block that is allocated and not being released:     *)
(* what variable_allocator.hh:162 and queue_impl.hh:41 say of a dup that   *)
(* succeeds.  The code does not keep it, see ReleasedRefused.              *)
(***************************************************************************)
Live(d) == /\ held[d.idx] > 0
           /\ nodes[d.idx].ver = d.ver
           /\ \A p \in Procs : md[p].idx # d.idx

RefsAreLive == \A d \in Desc : refs[d] > 0 => Live(d)


\* No descriptor is handed out twice (while the versions have not wrapped).
FreshDescriptors == \A d \in Desc : issued[d] <= 1

(***************************************************************************)
(* No word comes back to a process that has a snapshot of it and will yet  *)
(* compare the two: what a version is for.                                 *)
(***************************************************************************)
PredAwaits == {"next", "check", "markHead", "markTail", "join"}
CurrAwaits == {"markTail", "carve", "link", "raise", "insert"}

WordReturns ==
  \E p \in Procs \ dead :
    \/ /\ pc[p] \in PredAwaits /\ pred'[p] = pred[p]
       /\ ~ Unmodified(pred[p]) /\ Unmodified(pred[p])'
    \/ /\ pc[p] \in CurrAwaits /\ curr'[p] = curr[p]
       /\ ~ Unmodified(curr[p]) /\ Unmodified(curr[p])'

NoWordReturns == [][~ WordReturns]_vars

\* Every call ends: it searches again only because another process moved on.
CallsEnd == \A p \in Procs : pc[p] # "idle" ~> pc[p] = "idle" \/ p \in dead
=============================================================================
