--------------------------- MODULE FixedAllocator ---------------------------
(***************************************************************************)
(* The size-class cache of common/msgque/allocator/fixed_allocator.hh: a   *)
(* lock-free stack of released blocks per size class, over the variable    *)
(* allocator.  Every access to the shared super block and to the first     *)
(* word of a block is a step; the processes interleave, and any of them    *)
(* may be killed between two steps.                                        *)
(*                                                                         *)
(* Of the variable allocator, allocate, dup, dupNew, undup and a release   *)
(* are one step each; VariableAllocator models what happens inside.        *)
(* Sizes are in chunks, so BLOCK_SIZE_START is 1.                          *)
(*                                                                         *)
(* issued and cache are history: the descriptors handed out so far, and    *)
(* the stack of each class, newest first.                                  *)
(***************************************************************************)
EXTENDS Naturals, Sequences, FiniteSets

CONSTANTS Procs,        \* the processes that map the shared memory
          Blocks,       \* the places where the variable allocator has blocks
          Versions,     \* how many values a descriptor's version takes: 2^10
          WordSize,     \* how many values a counter takes: 2^32
          SuperBlockCount,
          Sizes,        \* the sizes that clients ask for
          MaxAlloc,     \* how many calls of allocate are made
          MaxRefs,      \* how many references clients hold at once
          MaxCrash,     \* how many processes may be killed
          END,          \* Block::END, and "no descriptor"
          JUNK          \* a word a client wrote

Md == [blk : Blocks, ver : 0 .. Versions - 1]
Classes == 1 .. SuperBlockCount

ASSUME FixedSetsAssumption == IsFiniteSet(Procs) /\ IsFiniteSet(Blocks)
ASSUME FixedWordsAssumption == END \notin Md /\ JUNK \notin Md /\ END # JUNK
ASSUME FixedSizesAssumption == /\ SuperBlockCount \in Nat \ {0}
                               /\ Sizes \subseteq Nat \ {0}
                               /\ WordSize \in Nat \ {0}
\* A counter that counts blocks never has to wrap.
ASSUME FixedCountsAssumption == Cardinality(Blocks) < WordSize
\* A block's version moves twice at most while the cache and the base pass it on.
ASSUME FixedVersionsAssumption == /\ Versions \in Nat
                                  /\ MaxAlloc \in Nat
                                  /\ 2 * MaxAlloc + 1 < Versions

VARIABLES ver, ref, size,   \* the variable allocator's node of a block
          inBase,           \* the blocks the variable allocator has free
          word,             \* the first word of a block: Block::next
          head, used, free, \* the super blocks
          pc, k, md,        \* a call's step, super block and descriptor
          seen, link, seenUsed,   \* the words it has read
          out,              \* the references the clients hold
          allocs,           \* how many calls of allocate were made
          issued, cache,
          dead              \* the processes that were killed

base   == <<ver, ref, size, inBase>>
supers == <<head, used, free>>
regs   == <<k, md, seen, link, seenUsed>>
vars   == <<base, word, supers, pc, regs, out, allocs, issued, cache, dead>>

Labels == {"idle", "popHead", "popNext", "popCas", "popUsed", "popFree",
           "dupNew", "base", "baseUsed", "largeBase", "readUsed", "readFree",
           "light", "lightUsed", "push", "pushLink", "pushCas", "pushUsed",
           "pushFree", "noSuperBlock"}

Counter == 0 .. WordSize - 1

TypeOK == /\ ver \in [Blocks -> 0 .. Versions - 1]
          /\ ref \in [Blocks -> Nat]
          /\ size \in [Blocks -> Nat]
          /\ inBase \subseteq Blocks
          /\ word \in [Blocks -> Md \cup {END, JUNK}]
          /\ head \in [Classes -> Md \cup {END}]
          /\ used \in [Classes -> Counter]
          /\ free \in [Classes -> Counter]
          /\ pc \in [Procs -> Labels]
          /\ k \in [Procs -> Nat]
          /\ md \in [Procs -> Md \cup {END}]
          /\ seen \in [Procs -> Md \cup {END}]
          /\ seenUsed \in [Procs -> Counter]
          /\ link \in [Procs -> Md \cup {END, JUNK}]
          /\ out \in [Md -> Nat]
          /\ allocs \in 0 .. MaxAlloc
          /\ issued \subseteq Md
          /\ cache \in [Classes -> Seq(Md)]
          /\ dead \subseteq Procs
-----------------------------------------------------------------------------
Init == /\ ver = [b \in Blocks |-> 0]
        /\ ref = [b \in Blocks |-> 0]
        /\ size = [b \in Blocks |-> 0]
        /\ inBase = Blocks
        /\ word = [b \in Blocks |-> JUNK]
        /\ head = [c \in Classes |-> END]
        /\ used = [c \in Classes |-> 0]
        /\ free = [c \in Classes |-> 0]
        /\ pc = [p \in Procs |-> "idle"]
        /\ k = [p \in Procs |-> 0]
        /\ md = [p \in Procs |-> END]
        /\ seen = [p \in Procs |-> END]
        /\ link = [p \in Procs |-> END]
        /\ seenUsed = [p \in Procs |-> 0]
        /\ out = [m \in Md |-> 0]
        /\ allocs = 0
        /\ issued = {}
        /\ cache = [c \in Classes |-> << >>]
        /\ dead = {}

\* The first super block whose blocks are large enough, were there enough of them.
SuperBlockId(n) ==
  CHOOSE id \in 1 .. n : 2 ^ (id - 1) >= n /\ (id > 1 => 2 ^ (id - 2) < n)

BlockSize(id) == 2 ^ (id - 1)
BlockSizeLast == BlockSize(SuperBlockCount)

\* What the powers of two have to do with it, for the provers, which do not
\* know: each class has the block size it is found by, and a size has a class
\* up to BLOCK_SIZE_LAST and none beyond.
ASSUME FixedClassesAssumption ==
  /\ \A c \in Classes : BlockSize(c) \in Nat /\ SuperBlockId(BlockSize(c)) = c
  /\ \A n \in Sizes : IF n > BlockSizeLast
                         THEN SuperBlockId(n) \in Nat /\ SuperBlockId(n) > SuperBlockCount
                         ELSE SuperBlockId(n) \in Classes

GoTo(p, l) == pc' = [pc EXCEPT ![p] = l]

Add(counter, c) == counter' = [counter EXCEPT ![c] = (@ + 1) % WordSize]
Sub(counter, c) == counter' = [counter EXCEPT ![c] = (@ + WordSize - 1) % WordSize]

Idle(p) == /\ GoTo(p, "idle")
           /\ k' = [k EXCEPT ![p] = 0]
           /\ md' = [md EXCEPT ![p] = END]
           /\ seen' = [seen EXCEPT ![p] = END]
           /\ link' = [link EXCEPT ![p] = END]
           /\ seenUsed' = [seenUsed EXCEPT ![p] = 0]

\* allocate returns m to a client.
HandOut(p, m) == /\ out' = [out EXCEPT ![m] = @ + 1]
                 /\ Idle(p)

Current(m) == ver[m.blk] = m.ver

\* The descriptor of block b after its version is raised.
Raised(b) == [blk |-> b, ver |-> ver[b] + 1]
-----------------------------------------------------------------------------
(* allocate                                                                *)

Allocate(p, n) == /\ pc[p] = "idle"
                  /\ allocs < MaxAlloc
                  /\ allocs' = allocs + 1
                  /\ IF n > BlockSizeLast
                       THEN GoTo(p, "largeBase") /\ k' = [k EXCEPT ![p] = n]
                       ELSE /\ GoTo(p, "popHead")
                            /\ k' = [k EXCEPT ![p] = SuperBlockId(n)]
                  /\ UNCHANGED <<base, word, supers, md, seen, link, seenUsed, out,
                                 issued, cache, dead>>

PopHead(p) == /\ pc[p] = "popHead"
              /\ seen' = [seen EXCEPT ![p] = head[k[p]]]
              /\ GoTo(p, IF head[k[p]] = END THEN "base" ELSE "popNext")
              /\ UNCHANGED <<base, word, supers, k, md, link, seenUsed, out,
                             allocs, issued, cache, dead>>

\* The block may have been handed out since: the word is then the client's.
PopNext(p) == /\ pc[p] = "popNext"
              /\ link' = [link EXCEPT ![p] = word[seen[p].blk]]
              /\ GoTo(p, "popCas")
              /\ UNCHANGED <<base, word, supers, k, md, seen, seenUsed, out,
                             allocs, issued, cache, dead>>

\* Slip: the head is stored, not compared and swapped.
PopStores(p) == /\ pc[p] = "popCas"
                /\ head' = [head EXCEPT ![k[p]] = link[p]]
                /\ cache' = [cache EXCEPT ![k[p]] = IF @ = << >> THEN @ ELSE Tail(@)]
                /\ md' = [md EXCEPT ![p] = seen[p]]
                /\ GoTo(p, "popUsed")
                /\ UNCHANGED <<base, word, used, free, k, seen, link, seenUsed,
                               out, allocs, issued, dead>>

PopCas(p) == /\ pc[p] = "popCas"
             /\ IF head[k[p]] = seen[p]
                  THEN /\ head' = [head EXCEPT ![k[p]] = link[p]]
                       /\ cache' = [cache EXCEPT ![k[p]] = Tail(@)]
                       /\ md' = [md EXCEPT ![p] = seen[p]]
                       /\ GoTo(p, "popUsed")
                  ELSE GoTo(p, "popHead") /\ UNCHANGED <<head, cache, md>>
             /\ UNCHANGED <<base, word, used, free, k, seen, link, seenUsed, out,
                            allocs, issued, dead>>

PopUsed(p) == /\ pc[p] = "popUsed"
              /\ Add(used, k[p])
              /\ GoTo(p, "popFree")
              /\ UNCHANGED <<base, word, head, free, regs, out, allocs, issued,
                             cache, dead>>

\* Slip: a block taken from the cache is still counted as free.
PopFreeNothing(p) == /\ pc[p] = "popFree"
                     /\ GoTo(p, "dupNew")
                     /\ UNCHANGED <<base, word, supers, regs, out, allocs,
                                    issued, cache, dead>>

PopFree(p) == /\ pc[p] = "popFree"
              /\ Sub(free, k[p])
              /\ GoTo(p, "dupNew")
              /\ UNCHANGED <<base, word, head, used, regs, out, allocs, issued,
                             cache, dead>>

\* Slip: the block is handed out under the descriptor it had.
DupOld(p) == /\ pc[p] = "dupNew"
             /\ ref' = [ref EXCEPT ![md[p].blk] = 1]
             /\ issued' = issued \cup {md[p]}
             /\ HandOut(p, md[p])
             /\ UNCHANGED <<ver, size, inBase, word, supers, allocs, cache, dead>>

\* VariableAllocator::dupNew: the cached block gets a new descriptor.
DupNew(p) == /\ pc[p] = "dupNew"
             /\ LET b == md[p].blk
                IN  /\ ver' = [ver EXCEPT ![b] = @ + 1]
                    /\ ref' = [ref EXCEPT ![b] = 1]
                    /\ issued' = issued \cup {Raised(b)}
                    /\ HandOut(p, Raised(b))
             /\ UNCHANGED <<size, inBase, word, supers, allocs, cache, dead>>

\* VariableAllocator::allocate finds a place for n chunks.
BaseBlock(p, b, n) == /\ b \in inBase
                      /\ inBase' = inBase \ {b}
                      /\ ver' = [ver EXCEPT ![b] = @ + 1]
                      /\ ref' = [ref EXCEPT ![b] = 1]
                      /\ size' = [size EXCEPT ![b] = n]
                      /\ issued' = issued \cup {Raised(b)}

\* The cache is empty.
BaseAllocate(p) == /\ pc[p] = "base"
                   /\ \E b \in Blocks : /\ BaseBlock(p, b, BlockSize(k[p]))
                                        /\ md' = [md EXCEPT ![p] = Raised(b)]
                   /\ GoTo(p, "baseUsed")
                   /\ UNCHANGED <<word, supers, k, seen, link, seenUsed, out,
                                  allocs, cache, dead>>

BaseUsed(p) == /\ pc[p] = "baseUsed"
               /\ Add(used, k[p])
               /\ HandOut(p, md[p])
               /\ UNCHANGED <<base, word, head, free, allocs, issued, cache, dead>>

\* A request beyond BLOCK_SIZE_LAST goes to the variable allocator.
LargeAllocate(p) == /\ pc[p] = "largeBase"
                    /\ \E b \in Blocks : /\ BaseBlock(p, b, k[p])
                                         /\ HandOut(p, Raised(b))
                    /\ UNCHANGED <<word, supers, allocs, cache, dead>>

\* Out of memory, or out of retries.
AllocateFails(p) == /\ pc[p] \in {"base", "largeBase"}
                    /\ Idle(p)
                    /\ UNCHANGED <<base, word, supers, out, allocs, issued,
                                   cache, dead>>
-----------------------------------------------------------------------------
(* release                                                                 *)

\* Slip: whoever releases puts the block back, whether others hold it or not.
ReleaseShared(p, m) ==
  /\ pc[p] = "idle"
  /\ out[m] > 0
  /\ out' = [out EXCEPT ![m] = @ - 1]
  /\ ref' = [ref EXCEPT ![m.blk] = @ - 1]
  /\ SuperBlockId(size[m.blk]) \in Classes
  /\ k' = [k EXCEPT ![p] = SuperBlockId(size[m.blk])]
  /\ md' = [md EXCEPT ![p] = m]
  /\ GoTo(p, "readUsed")
  /\ UNCHANGED <<ver, size, inBase, word, supers, seen, link, seenUsed, allocs,
                 issued, cache, dead>>

\* undup: only the one who takes the count to zero goes on.
Release(p, m) ==
  /\ pc[p] = "idle"
  /\ out[m] > 0
  /\ out' = [out EXCEPT ![m] = @ - 1]
  /\ ref' = [ref EXCEPT ![m.blk] = @ - 1]
  /\ IF ref[m.blk] > 1
       THEN UNCHANGED <<pc, k, md>>
       ELSE LET id == SuperBlockId(size[m.blk])
            IN  /\ k' = [k EXCEPT ![p] = id]
                /\ md' = [md EXCEPT ![p] = m]
                /\ GoTo(p, IF id > SuperBlockCount THEN "noSuperBlock" ELSE "readUsed")
  /\ UNCHANGED <<ver, size, inBase, word, supers, seen, link, seenUsed, allocs,
                 issued, cache, dead>>

ReadUsed(p) == /\ pc[p] = "readUsed"
               /\ seenUsed' = [seenUsed EXCEPT ![p] = used[k[p]]]
               /\ GoTo(p, "readFree")
               /\ UNCHANGED <<base, word, supers, k, md, seen, link, out,
                              allocs, issued, cache, dead>>

\* Enough blocks are cached, or this one is to be cached too.
ReadFree(p) == /\ pc[p] = "readFree"
               /\ GoTo(p, IF seenUsed[p] < free[k[p]] THEN "light" ELSE "push")
               /\ UNCHANGED <<base, word, supers, regs, out, allocs, issued,
                              cache, dead>>

\* Slip: after a successful lightRelease the block is cached all the same.
LightFallsThrough(p) == /\ pc[p] = "light"
                        /\ inBase' = inBase \cup {md[p].blk}
                        /\ GoTo(p, "push")
                        /\ UNCHANGED <<ver, ref, size, word, supers, regs, out,
                                       allocs, issued, cache, dead>>

\* lightRelease: the variable allocator takes the block, or is too busy.
Light(p) == /\ pc[p] = "light"
            /\ \/ /\ ver' = [ver EXCEPT ![md[p].blk] = @ + 1]
                  /\ inBase' = inBase \cup {md[p].blk}
                  /\ GoTo(p, "lightUsed")
               \/ /\ GoTo(p, "push")
                  /\ UNCHANGED <<ver, inBase>>
            /\ UNCHANGED <<ref, size, word, supers, regs, out, allocs, issued,
                           cache, dead>>

LightUsed(p) == /\ pc[p] = "lightUsed"
                /\ Sub(used, k[p])
                /\ Idle(p)
                /\ UNCHANGED <<base, word, head, free, out, allocs, issued,
                               cache, dead>>

Push(p) == /\ pc[p] = "push"
           /\ seen' = [seen EXCEPT ![p] = head[k[p]]]
           /\ GoTo(p, "pushLink")
           /\ UNCHANGED <<base, word, supers, k, md, link, seenUsed, out, allocs,
                          issued, cache, dead>>

PushLink(p) == /\ pc[p] = "pushLink"
               /\ word' = [word EXCEPT ![md[p].blk] = seen[p]]
               /\ GoTo(p, "pushCas")
               /\ UNCHANGED <<base, supers, regs, out, allocs, issued, cache, dead>>

\* Slip: the head is read once, before the loop.
PushReadsOnce(p) == /\ pc[p] = "pushCas"
                    /\ head[k[p]] = seen[p]
                    /\ head' = [head EXCEPT ![k[p]] = md[p]]
                    /\ cache' = [cache EXCEPT ![k[p]] = <<md[p]>> \o @]
                    /\ GoTo(p, "pushUsed")
                    /\ UNCHANGED <<base, word, used, free, regs, out, allocs,
                                   issued, dead>>

PushCas(p) == /\ pc[p] = "pushCas"
              /\ IF head[k[p]] = seen[p]
                   THEN /\ head' = [head EXCEPT ![k[p]] = md[p]]
                        /\ cache' = [cache EXCEPT ![k[p]] = <<md[p]>> \o @]
                        /\ GoTo(p, "pushUsed")
                   ELSE GoTo(p, "push") /\ UNCHANGED <<head, cache>>
              /\ UNCHANGED <<base, word, used, free, regs, out, allocs, issued,
                             dead>>

PushUsed(p) == /\ pc[p] = "pushUsed"
               /\ Sub(used, k[p])
               /\ GoTo(p, "pushFree")
               /\ UNCHANGED <<base, word, head, free, regs, out, allocs, issued,
                              cache, dead>>

PushFree(p) == /\ pc[p] = "pushFree"
               /\ Add(free, k[p])
               /\ Idle(p)
               /\ UNCHANGED <<base, word, head, used, out, allocs, issued,
                              cache, dead>>
-----------------------------------------------------------------------------
(* The clients.                                                            *)

\* dup, of any descriptor ever handed out; refused when it was released.
DupMd(p, m) == /\ pc[p] = "idle"
               /\ Current(m) /\ ref[m.blk] > 0
               /\ ref[m.blk] < MaxRefs
               /\ ref' = [ref EXCEPT ![m.blk] = @ + 1]
               /\ out' = [out EXCEPT ![m] = @ + 1]
               /\ UNCHANGED <<ver, size, inBase, word, supers, pc, regs, allocs,
                              issued, cache, dead>>

\* A client, or the owner of a block laid over this place, writes its memory.
WriteBlock(b) == /\ ref[b] > 0 \/ b \in inBase
                 /\ word[b] # JUNK
                 /\ word' = [word EXCEPT ![b] = JUNK]
                 /\ UNCHANGED <<base, supers, pc, regs, out, allocs, issued,
                                cache, dead>>

Crash(p) == /\ Cardinality(dead) < MaxCrash
            /\ dead' = dead \cup {p}
            /\ UNCHANGED <<base, word, supers, pc, regs, out, allocs, issued, cache>>

Step(p) == \/ PopHead(p) \/ PopNext(p) \/ PopCas(p) \/ PopUsed(p) \/ PopFree(p)
           \/ DupNew(p) \/ BaseAllocate(p) \/ BaseUsed(p) \/ LargeAllocate(p)
           \/ AllocateFails(p)
           \/ ReadUsed(p) \/ ReadFree(p) \/ Light(p) \/ LightUsed(p)
           \/ Push(p) \/ PushLink(p) \/ PushCas(p) \/ PushUsed(p) \/ PushFree(p)

Begins(p) == \/ \E n \in Sizes : Allocate(p, n)
             \/ \E m \in issued : Release(p, m) \/ DupMd(p, m)

Next == \/ \E p \in Procs \ dead : Step(p) \/ Begins(p) \/ Crash(p)
        \/ \E b \in Blocks : WriteBlock(b)

Spec == Init /\ [][Next]_vars

FairSpec == Spec /\ \A p \in Procs : WF_vars(p \notin dead /\ Step(p))
-----------------------------------------------------------------------------
\* p has taken the block of md[p] out of a cache, or has yet to put it back.
InHand(p) == pc[p] \in {"popUsed", "popFree", "dupNew", "readUsed", "readFree",
                        "light", "push", "pushLink", "pushCas", "noSuperBlock"}

Cached(c) == {cache[c][i] : i \in 1 .. Len(cache[c])}

\* Where block b is, each place under a name of its own.
Places(b) ==
  {<<"base", x>> : x \in inBase \cap {b}}
    \cup {<<"clients", x>> : x \in {c \in {b} : ref[c] > 0}}
    \cup {<<"cache", x>> : x \in {y \in Classes \X (1 .. Cardinality(Blocks)) :
                                 /\ y[2] <= Len(cache[y[1]])
                                 /\ cache[y[1]][y[2]].blk = b}}
    \cup {<<"hand", x>> : x \in {p \in Procs : InHand(p) /\ md[p].blk = b}}

(***************************************************************************)
(* A block is in exactly one place: free in the variable allocator, held   *)
(* by clients, in the cache of its own size class, or in the hand of one   *)
(* process.  Nothing is lent twice, and nothing is lost but what a killed  *)
(* process had in hand.                                                    *)
(***************************************************************************)
OnePlace == \A b \in Blocks : Cardinality(Places(b)) = 1

(***************************************************************************)
(* The head word and the next words lead along the cached blocks and end:  *)
(* a pop that was overtaken by others never installs a stale next word.    *)
(* Cached blocks have the descriptor under which they were released, no    *)
(* reference, and the size of their class.                                 *)
(***************************************************************************)
CacheOK ==
  \A c \in Classes :
    LET s == cache[c]
    IN  /\ head[c] = IF s = << >> THEN END ELSE s[1]
        /\ \A i \in 1 .. Len(s) :
             /\ word[s[i].blk] = IF i = Len(s) THEN END ELSE s[i + 1]
             /\ Current(s[i])
             /\ ref[s[i].blk] = 0
             /\ size[s[i].blk] = BlockSize(c)

(***************************************************************************)
(* The counters, which are updated apart from the stack and may lag behind *)
(* it or wrap below zero, are right again whenever no call is under way.   *)
(***************************************************************************)
CountersAtRest ==
  dead = {} /\ (\A p \in Procs : pc[p] = "idle") =>
    \A c \in Classes :
      /\ free[c] = Len(cache[c])
      /\ used[c] = Cardinality({b \in Blocks : ref[b] > 0 /\ size[b] = BlockSize(c)})

(***************************************************************************)
(* The comment above the class: a request beyond BLOCK_SIZE_LAST is left   *)
(* to the variable allocator, so that no release of such a block looks for *)
(* a super block.                                                          *)
(***************************************************************************)
LargeAreDelegated == \A p \in Procs : pc[p] # "noSuperBlock"

Pool == INSTANCE BlockPool WITH
          count <- [m \in Md |-> IF m \in issued /\ Current(m) THEN ref[m.blk] ELSE 0]

(***************************************************************************)
(* The queue's view: a descriptor handed out is fresh, its block is nobody *)
(* else's, and stays so until the last reference is released.              *)
(***************************************************************************)
ImplementsPool == Pool!PoolSpec

\* Every call ends: a loop goes round only because another process moved on.
\* A release that fails its assertion goes no further.
CallsEnd == \A p \in Procs :
  pc[p] # "idle" ~> pc[p] \in {"idle", "noSuperBlock"} \/ p \in dead
=============================================================================
