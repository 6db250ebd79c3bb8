----------------------------- MODULE FixedProofs -----------------------------
(***************************************************************************)
(* The block cache neither loses a block nor lends one twice, and is the   *)
(* pool of blocks the queue takes it for, for every number of processes,   *)
(* blocks, classes and calls: proofs about FixedAllocator.                 *)
(***************************************************************************)
EXTENDS FixedAllocator, Integers, FiniteSetTheorems, SequenceTheorems, TLAPS

(***************************************************************************)
(* The inductive invariant.  Where a call is.                              *)
(***************************************************************************)
Popping == {"popUsed", "popFree", "dupNew"}
Releasing == {"readUsed", "readFree", "light"}
Pushing == {"push", "pushLink", "pushCas"}
Allocating == {"popHead", "popNext", "popCas", "base", "largeBase"} \cup Popping
InClass == Labels \ {"idle", "largeBase", "noSuperBlock"}

LargeSizes == {n \in Sizes : n > BlockSizeLast}

InCache(b) == \E c \in Classes : \E i \in 1 .. Len(cache[c]) : cache[c][i].blk = b
Hands(b) == {p \in Procs : InHand(p) /\ md[p].blk = b}

KOK(p) == /\ pc[p] \in InClass => k[p] \in Classes
          /\ pc[p] = "largeBase" => k[p] \in LargeSizes

\* A block in hand is nowhere else, and has the version it was released under.
HandOK(p) ==
  InHand(p) =>
    /\ md[p] \in Md
    /\ Current(md[p])
    /\ ref[md[p].blk] = 0
    /\ md[p].blk \notin inBase
    /\ ~ InCache(md[p].blk)
    /\ pc[p] # "noSuperBlock" => size[md[p].blk] = BlockSize(k[p])
    /\ pc[p] = "pushCas" => word[md[p].blk] = seen[p]

\* A block whose first descriptor allocate has yet to return is counted.
FreshOK(p) ==
  pc[p] = "baseUsed" =>
    /\ md[p] \in issued
    /\ Current(md[p])
    /\ out[md[p]] < ref[md[p].blk]

\* m was in a cache, is not, and never will be in one again.
Gone(m) == \/ ver[m.blk] > m.ver
           \/ \E q \in Procs : pc[q] \in Popping /\ md[q] = m

\* An overtaken pop fails; one that was not has read the next word of the head.
SeenOK(p) ==
  pc[p] \in {"popNext", "popCas"} =>
    /\ seen[p] \in Md
    /\ Gone(seen[p]) \/ ( /\ seen[p] \in Cached(k[p])
                          /\ pc[p] = "popCas" => link[p] = word[seen[p].blk] )

ProcsOK == \A p \in Procs : KOK(p) /\ HandOK(p) /\ FreshOK(p) /\ SeenOK(p)

Alone == /\ \A p, q \in Procs :
              InHand(p) /\ InHand(q) /\ md[p].blk = md[q].blk => p = q
         /\ \A p, q \in Procs :
              pc[p] = "baseUsed" /\ pc[q] = "baseUsed" /\ md[p] = md[q] => p = q

PlacesOK ==
  /\ \A b \in inBase : ref[b] = 0 /\ ~ InCache(b)
  /\ \A c, d \in Classes : \A i \in 1 .. Len(cache[c]) : \A j \in 1 .. Len(cache[d]) :
       cache[c][i].blk = cache[d][j].blk => c = d /\ i = j
  /\ \A b \in Blocks : b \in inBase \/ ref[b] > 0 \/ InCache(b) \/ Hands(b) # {}

CountsOK ==
  /\ \A m \in Md : out[m] > 0 => /\ m \in issued
                                 /\ Current(m)
                                 /\ out[m] <= ref[m.blk]
  /\ \A m \in issued : m.ver <= ver[m.blk]
  /\ \A b \in Blocks : ref[b] > 0 =>
       size[b] \in {BlockSize(c) : c \in Classes} \cup LargeSizes

(***************************************************************************)
(* Versions: an allocation raises that of its block once, and its release  *)
(* once more.                                                              *)
(***************************************************************************)
Allocated == {p \in Procs : pc[p] \in Allocating}
Ended == allocs - Cardinality(Allocated)
Busy(b) == ref[b] > 0 \/ \E p \in Procs : pc[p] \in Releasing /\ md[p].blk = b

VersionsOK == /\ Cardinality(Allocated) <= allocs
              /\ \A b \in Blocks : ver[b] <= 2 * Ended
                                   /\ (Busy(b) => ver[b] + 1 <= 2 * Ended)

IInv == /\ TypeOK
        /\ ProcsOK
        /\ Alone
        /\ PlacesOK
        /\ CountsOK
        /\ VersionsOK
        /\ CacheOK
-----------------------------------------------------------------------------
(* Small facts.                                                            *)

LEMMA CounterWraps ==
  ASSUME NEW x \in Nat PROVE x % WordSize \in Counter
<1>1. WordSize \in Nat \ {0} BY FixedSizesAssumption
<1> QED BY <1>1 DEF Counter

LEMMA CountersType ==
  ASSUME NEW f \in [Classes -> Counter], NEW c \in Classes
  PROVE  /\ [f EXCEPT ![c] = (@ + 1) % WordSize] \in [Classes -> Counter]
         /\ [f EXCEPT ![c] = (@ + WordSize - 1) % WordSize] \in [Classes -> Counter]
<1>1. f[c] \in Counter OBVIOUS
<1>2. f[c] + 1 \in Nat /\ f[c] + WordSize - 1 \in Nat
  BY <1>1, FixedSizesAssumption DEF Counter
<1>3. (f[c] + 1) % WordSize \in Counter /\ (f[c] + WordSize - 1) % WordSize \in Counter
  BY <1>2, CounterWraps
<1> QED BY <1>3

LEMMA CurrentUnique ==
  ASSUME NEW m \in Md, NEW n \in Md, Current(m), Current(n), m.blk = n.blk
  PROVE  m = n
BY DEF Current, Md

LEMMA AllocatedFacts ==
  ASSUME TypeOK, VersionsOK
  PROVE  /\ IsFiniteSet(Allocated) /\ Cardinality(Allocated) \in Nat
         /\ allocs \in Nat /\ Ended \in Nat /\ Ended <= allocs
<1>1. IsFiniteSet(Allocated) /\ Cardinality(Allocated) \in Nat
  BY FixedSetsAssumption, FS_Subset, FS_CardinalityType DEF Allocated
<1>2. allocs \in Nat BY FixedVersionsAssumption DEF TypeOK
<1> QED BY <1>1, <1>2 DEF VersionsOK, Ended

\* Before an allocation ends there is a version left for its block.
LEMMA VersionLeft ==
  ASSUME TypeOK, VersionsOK, NEW p \in Allocated, NEW b \in Blocks
  PROVE  /\ ver[b] + 1 \in 0 .. Versions - 1
         /\ Raised(b) \in Md /\ Raised(b).blk = b /\ Raised(b).ver = ver[b] + 1
<1>1. Cardinality(Allocated) # 0 BY AllocatedFacts, FS_EmptySet
<1>2. Ended + 1 <= allocs /\ ver[b] <= 2 * Ended
  BY <1>1, AllocatedFacts DEF Ended, VersionsOK
<1>3. allocs <= MaxAlloc /\ ver[b] \in Nat BY FixedVersionsAssumption DEF TypeOK
<1>4. ver[b] + 1 \in 0 .. Versions - 1
  BY <1>2, <1>3, AllocatedFacts, FixedVersionsAssumption
<1> QED BY <1>4 DEF Raised, Md

\* The same when a block that was released is given back.
LEMMA VersionLeftToRelease ==
  ASSUME TypeOK, VersionsOK, NEW b \in Blocks, Busy(b)
  PROVE  ver[b] + 1 \in 0 .. Versions - 1
<1>1. ver[b] + 1 <= 2 * Ended BY DEF VersionsOK
<1>2. allocs <= MaxAlloc /\ ver[b] \in Nat BY FixedVersionsAssumption DEF TypeOK
<1> QED BY <1>1, <1>2, AllocatedFacts, FixedVersionsAssumption
-----------------------------------------------------------------------------
(* Versions, step by step.                                                 *)

LEMMA VersionsKept ==
  ASSUME TypeOK, VersionsOK, Allocated' = Allocated, allocs' = allocs,
         \A b \in Blocks : \/ ver'[b] = ver[b] /\ (Busy(b)' => Busy(b))
                           \/ ver'[b] = ver[b] + 1 /\ Busy(b) /\ ~ Busy(b)'
  PROVE  VersionsOK'
<1>1. Ended' = Ended BY DEF Ended
<1>2. \A b \in Blocks : ver[b] \in Nat BY FixedVersionsAssumption DEF TypeOK
<1> QED BY <1>1, <1>2, AllocatedFacts DEF VersionsOK

LEMMA VersionsBegin ==
  ASSUME TypeOK, VersionsOK, NEW p, p \notin Allocated, Allocated' = Allocated \cup {p},
         allocs' = allocs + 1,
         \A b \in Blocks : ver'[b] = ver[b] /\ (Busy(b)' => Busy(b))
  PROVE  VersionsOK'
<1>1. Cardinality(Allocated') = Cardinality(Allocated) + 1
  BY AllocatedFacts, FS_AddElement
<1>2. Ended' = Ended BY <1>1, AllocatedFacts DEF Ended
<1> QED BY <1>1, <1>2, AllocatedFacts DEF VersionsOK

LEMMA VersionsEnd ==
  ASSUME TypeOK, VersionsOK, NEW p \in Allocated, Allocated' = Allocated \ {p},
         allocs' = allocs,
         \A b \in Blocks : ver'[b] = ver[b] \/ ver'[b] = ver[b] + 1
  PROVE  VersionsOK'
<1>1. Cardinality(Allocated') = Cardinality(Allocated) - 1
  BY AllocatedFacts, FS_RemoveElement
<1>2. Ended' = Ended + 1 BY <1>1, AllocatedFacts DEF Ended
<1>3. \A b \in Blocks : ver[b] \in Nat BY FixedVersionsAssumption DEF TypeOK
<1>4. Cardinality(Allocated') <= allocs' BY <1>1, AllocatedFacts DEF VersionsOK
<1>5. ASSUME NEW b \in Blocks PROVE ver'[b] + 1 <= 2 * Ended'
  <2>1. ver[b] <= 2 * Ended BY DEF VersionsOK
  <2>2. 2 * Ended' = 2 * Ended + 2 BY <1>2, AllocatedFacts
  <2> QED BY <1>3, <2>1, <2>2, AllocatedFacts
<1>6. \A b \in Blocks : ver'[b] \in Nat /\ Ended' \in Nat BY <1>2, <1>3, AllocatedFacts
<1> QED BY <1>4, <1>5, <1>6 DEF VersionsOK
-----------------------------------------------------------------------------
(* What the steps have in common.                                          *)

\* Only the registers of p change.
OthersKept(p) == \A q \in Procs : q # p =>
  /\ pc'[q] = pc[q] /\ k'[q] = k[q] /\ md'[q] = md[q]
  /\ seen'[q] = seen[q] /\ link'[q] = link[q]

LEMMA CachedBlocks ==
  ASSUME TypeOK, NEW c \in Classes
  PROVE  /\ cache[c] \in Seq(Md) /\ Len(cache[c]) \in Nat
         /\ \A i \in 1 .. Len(cache[c]) : cache[c][i] \in Md /\ cache[c][i].blk \in Blocks
         /\ \A m \in Cached(c) : m \in Md /\ InCache(m.blk)
<1>1. cache[c] \in Seq(Md) BY DEF TypeOK
<1>2. Len(cache[c]) \in Nat /\ \A i \in 1 .. Len(cache[c]) : cache[c][i] \in Md
  BY <1>1, LenProperties, ElementOfSeq
<1> QED BY <1>1, <1>2 DEF Cached, InCache, Md

\* A block in hand is nowhere else.
LEMMA HandFacts ==
  ASSUME IInv, NEW p \in Procs, InHand(p)
  PROVE  /\ md[p] \in Md /\ md[p].blk \in Blocks /\ Current(md[p])
         /\ ref[md[p].blk] = 0 /\ md[p].blk \notin inBase /\ ~ InCache(md[p].blk)
         /\ pc[p] # "noSuperBlock" => size[md[p].blk] = BlockSize(k[p])
         /\ \A q \in Procs : q # p /\ InHand(q) => md[q].blk # md[p].blk
BY DEF IInv, ProcsOK, HandOK, Alone, Md

\* A pop of a block that is gone from the cache fails.
LEMMA GoneNotCached ==
  ASSUME IInv, NEW m \in Md, Gone(m), NEW c \in Classes, m \in Cached(c)
  PROVE  FALSE
<1>1. Current(m) /\ ver[m.blk] \in Nat /\ m.ver \in Nat
  <2>1. TypeOK /\ CacheOK BY DEF IInv
  <2>2. PICK i \in 1 .. Len(cache[c]) : m = cache[c][i] BY DEF Cached
  <2>3. Current(m) BY <2>1, <2>2 DEF CacheOK
  <2>4. m.blk \in Blocks /\ m.ver \in Nat BY FixedVersionsAssumption DEF Md
  <2>5. ver[m.blk] \in Nat BY <2>1, <2>4, FixedVersionsAssumption DEF TypeOK
  <2> QED BY <2>3, <2>4, <2>5
<1>2. InCache(m.blk) BY CachedBlocks DEF IInv
<1>3. ~ (ver[m.blk] > m.ver) BY <1>1 DEF Current
<1>4. PICK q \in Procs : pc[q] \in Popping /\ md[q] = m BY <1>3 DEF Gone
<1>5. InHand(q) BY <1>4 DEF InHand, Popping
<1> QED BY <1>2, <1>4, <1>5, HandFacts

\* What is gone remains so while versions grow and a popped block stays in hand
\* until it is raised.
LEMMA GoneStays ==
  ASSUME IInv, NEW m \in Md, Gone(m),
         \A b \in Blocks : ver'[b] \in Nat /\ ver'[b] >= ver[b],
         \A q \in Procs : pc[q] \in Popping =>
            \/ pc'[q] \in Popping /\ md'[q] = md[q]
            \/ ver'[md[q].blk] > ver[md[q].blk]
  PROVE  Gone(m)'
<1>0. TypeOK /\ m.blk \in Blocks /\ ver[m.blk] \in Nat /\ m.ver \in Nat
  <2>1. TypeOK BY DEF IInv
  <2>2. m.blk \in Blocks /\ m.ver \in Nat BY FixedVersionsAssumption DEF Md
  <2> QED BY <2>1, <2>2, FixedVersionsAssumption DEF TypeOK
<1>1. CASE ver[m.blk] > m.ver BY <1>0, <1>1 DEF Gone
<1>2. CASE \E q \in Procs : pc[q] \in Popping /\ md[q] = m
  <2>1. PICK q \in Procs : pc[q] \in Popping /\ md[q] = m BY <1>2
  <2>2. InHand(q) BY <2>1 DEF InHand, Popping
  <2>3. ver[m.blk] = m.ver BY <2>1, <2>2, HandFacts DEF Current
  <2> QED BY <1>0, <2>1, <2>3 DEF Gone
<1> QED BY <1>1, <1>2 DEF Gone

(***************************************************************************)
(* A step that changes nothing but the registers of p, and leaves the      *)
(* block it has in hand there.                                             *)
(***************************************************************************)
LEMMA LocalStep ==
  ASSUME IInv, NEW p \in Procs, OthersKept(p),
         UNCHANGED <<base, word, head, out, issued, cache>>,
         TypeOK', VersionsOK', KOK(p)', SeenOK(p)',
         pc[p] # "baseUsed", pc'[p] # "baseUsed",
         InHand(p)' <=> InHand(p),
         InHand(p) => /\ md'[p] = md[p]
                      /\ pc'[p] # "noSuperBlock" => pc[p] # "noSuperBlock" /\ k'[p] = k[p]
                      /\ pc'[p] = "pushCas" => word[md[p].blk] = seen'[p],
         pc[p] \in Popping => pc'[p] \in Popping
  PROVE  IInv'
<1>0. /\ ver' = ver /\ ref' = ref /\ size' = size /\ inBase' = inBase
      /\ TypeOK /\ \A b \in Blocks : ver[b] \in Nat
  BY FixedVersionsAssumption DEF base, IInv, TypeOK
<1>1. \A b : InCache(b)' <=> InCache(b) BY DEF InCache
<1>2. \A m : Current(m)' <=> Current(m) BY <1>0 DEF Current
<1>3. \A c : Cached(c)' = Cached(c) BY DEF Cached
<1>4. \A q \in Procs : (InHand(q)' <=> InHand(q)) /\ (InHand(q) => md'[q] = md[q])
  BY DEF OthersKept, InHand
<1>5. ASSUME NEW m \in Md, Gone(m) PROVE Gone(m)'
  <2>1. \A q \in Procs : pc[q] \in Popping => pc'[q] \in Popping /\ md'[q] = md[q]
    BY DEF OthersKept, InHand, Popping
  <2> QED BY <1>0, <1>5, <2>1, GoneStays
<1>6. ProcsOK'
  <2>1. ASSUME NEW q \in Procs, q # p PROVE (KOK(q) /\ HandOK(q) /\ FreshOK(q))'
    BY <1>0, <1>1, <1>2, <2>1 DEF OthersKept, IInv, ProcsOK, KOK, HandOK, FreshOK, InHand
  <2>2. ASSUME NEW q \in Procs, q # p PROVE SeenOK(q)'
    BY <1>0, <1>3, <1>5, <2>2 DEF OthersKept, IInv, ProcsOK, SeenOK
  <2>3. HandOK(p)'
    BY <1>0, <1>1, <1>2 DEF IInv, ProcsOK, HandOK
  <2>4. FreshOK(p)' BY DEF FreshOK
  <2> QED BY <2>1, <2>2, <2>3, <2>4 DEF ProcsOK
<1>7. Alone' BY <1>4 DEF IInv, Alone, OthersKept
<1>8. PlacesOK'
  <2>1. \A b \in Blocks : Hands(b)' = Hands(b) BY <1>4 DEF Hands
  <2> QED BY <1>0, <1>1, <2>1 DEF IInv, PlacesOK
<1>9. CountsOK' BY <1>0, <1>2 DEF IInv, CountsOK
<1>10. CacheOK' BY <1>0, <1>2 DEF IInv, CacheOK
<1> QED BY <1>6, <1>7, <1>8, <1>9, <1>10 DEF IInv
-----------------------------------------------------------------------------
(* The steps that change no more than a call's registers and the counters. *)

\* Of these, those in the middle of a call.
LEMMA MidCallVersions ==
  ASSUME IInv, NEW p \in Procs, OthersKept(p), UNCHANGED <<base, allocs>>,
         pc'[p] \in Allocating <=> pc[p] \in Allocating,
         pc'[p] \in Releasing => pc[p] \in Releasing /\ md'[p] = md[p]
  PROVE  VersionsOK'
<1>1. Allocated' = Allocated BY DEF Allocated, OthersKept
<1>2. \A b \in Blocks : Busy(b)' => Busy(b) BY DEF Busy, base, OthersKept
<1> QED BY <1>1, <1>2, VersionsKept DEF IInv, base

LEMMA AllocateStep ==
  ASSUME IInv, NEW p \in Procs, NEW n \in Sizes, Allocate(p, n) PROVE IInv'
<1> USE DEF Allocate, GoTo
<1>0. TypeOK BY DEF IInv
<1>1. OthersKept(p) BY <1>0 DEF TypeOK, OthersKept
<1>2. /\ pc[p] = "idle" /\ pc'[p] \in {"popHead", "largeBase"}
      /\ pc'[p] = "popHead" => k'[p] \in Classes
      /\ pc'[p] = "largeBase" => k'[p] \in LargeSizes
  BY <1>0, FixedClassesAssumption DEF TypeOK, LargeSizes
<1>3. k'[p] \in Nat
  <2>1. Classes \subseteq Nat BY FixedSizesAssumption DEF Classes
  <2>2. LargeSizes \subseteq Nat BY FixedSizesAssumption DEF LargeSizes
  <2> QED BY <1>2, <2>1, <2>2
<1>4. TypeOK'
  <2>1. k' \in [Procs -> Nat] BY <1>0, <1>3 DEF TypeOK
  <2>2. pc' \in [Procs -> Labels] BY <1>0 DEF TypeOK, Labels
  <2>3. allocs' \in 0 .. MaxAlloc BY <1>0, FixedVersionsAssumption DEF TypeOK
  <2> QED BY <1>0, <2>1, <2>2, <2>3 DEF TypeOK, base, supers
<1>5. VersionsOK'
  <2>1. p \notin Allocated /\ Allocated' = Allocated \cup {p}
    BY <1>1, <1>2 DEF Allocated, Allocating, OthersKept, Popping
  <2>2. \A b \in Blocks : Busy(b)' => Busy(b)
    BY <1>1, <1>2 DEF Busy, base, OthersKept, Releasing
  <2> QED BY <1>0, <2>1, <2>2, VersionsBegin DEF IInv, base
<1>6. KOK(p)' BY <1>2 DEF KOK, InClass
<1>7. SeenOK(p)' BY <1>2 DEF SeenOK
<1>8. ~ InHand(p) /\ ~ InHand(p)' BY <1>2 DEF InHand
<1> QED BY <1>1, <1>2, <1>4, <1>5, <1>6, <1>7, <1>8, LocalStep DEF supers, Popping

LEMMA AllocateFailsStep ==
  ASSUME IInv, NEW p \in Procs, AllocateFails(p) PROVE IInv'
<1> USE DEF AllocateFails, Idle, GoTo
<1>0. TypeOK BY DEF IInv
<1>1. OthersKept(p) BY <1>0 DEF TypeOK, OthersKept
<1>2. pc[p] \in {"base", "largeBase"} /\ pc'[p] = "idle" BY <1>0 DEF TypeOK
<1>4. TypeOK' BY <1>0, FixedSizesAssumption DEF TypeOK, base, supers, Labels, Counter
<1>5. VersionsOK'
  <2>1. p \in Allocated /\ Allocated' = Allocated \ {p}
    BY <1>1, <1>2 DEF Allocated, Allocating, OthersKept, Popping
  <2> QED BY <1>0, <2>1, VersionsEnd DEF IInv, base
<1>6. KOK(p)' /\ SeenOK(p)' BY <1>2 DEF KOK, SeenOK, InClass
<1>8. ~ InHand(p) /\ ~ InHand(p)' BY <1>2 DEF InHand
<1> QED BY <1>1, <1>2, <1>4, <1>5, <1>6, <1>8, LocalStep DEF supers, Popping

\* A cache is empty, or its head is its first block.
LEMMA HeadFacts ==
  ASSUME IInv, NEW c \in Classes
  PROVE  /\ cache[c] = << >> <=> head[c] = END
         /\ head[c] # END => /\ Len(cache[c]) \in Nat \ {0} /\ 1 \in 1 .. Len(cache[c])
                             /\ head[c] = cache[c][1]
                             /\ head[c] \in Md /\ head[c] \in Cached(c)
<1>1. cache[c] \in Seq(Md) BY DEF IInv, TypeOK
<1>2. head[c] = IF cache[c] = << >> THEN END ELSE cache[c][1] BY DEF IInv, CacheOK
<1>3. ASSUME cache[c] # << >>
      PROVE  /\ Len(cache[c]) \in Nat \ {0} /\ 1 \in 1 .. Len(cache[c])
             /\ cache[c][1] \in Md /\ cache[c][1] \in Cached(c)
  <2>1. Len(cache[c]) \in Nat \ {0} BY <1>1, <1>3, EmptySeq, LenProperties
  <2>2. 1 \in 1 .. Len(cache[c]) BY <2>1
  <2> QED BY <1>1, <2>1, <2>2, ElementOfSeq DEF Cached
<1> QED BY <1>2, <1>3, FixedWordsAssumption

LEMMA PopHeadStep ==
  ASSUME IInv, NEW p \in Procs, PopHead(p) PROVE IInv'
<1> USE DEF PopHead, GoTo
<1>0. TypeOK /\ KOK(p) BY DEF IInv, ProcsOK
<1>1. OthersKept(p) BY <1>0 DEF TypeOK, OthersKept
<1>2. /\ pc[p] = "popHead" /\ k[p] \in Classes /\ k'[p] = k[p] /\ seen'[p] = head[k[p]]
      /\ pc'[p] = IF head[k[p]] = END THEN "base" ELSE "popNext"
  BY <1>0 DEF TypeOK, KOK, InClass, Labels
<1>4. TypeOK'
  <2>1. head[k[p]] \in Md \cup {END} BY <1>0, <1>2 DEF TypeOK
  <2> QED BY <1>0, <1>2, <2>1 DEF TypeOK, base, supers, Labels
<1>5. VersionsOK'
  BY <1>1, <1>2, MidCallVersions DEF Allocating, Releasing
<1>6. KOK(p)' BY <1>2 DEF KOK, InClass, Labels
<1>7. SeenOK(p)' BY <1>2, HeadFacts DEF SeenOK, Cached
<1>8. ~ InHand(p) /\ ~ InHand(p)' BY <1>2 DEF InHand
<1> QED BY <1>1, <1>2, <1>4, <1>5, <1>6, <1>7, <1>8, LocalStep DEF supers, Popping

LEMMA PopNextStep ==
  ASSUME IInv, NEW p \in Procs, PopNext(p) PROVE IInv'
<1> USE DEF PopNext, GoTo
<1>0. TypeOK /\ KOK(p) /\ SeenOK(p) BY DEF IInv, ProcsOK
<1>1. OthersKept(p) BY <1>0 DEF TypeOK, OthersKept
<1>2. /\ pc[p] = "popNext" /\ k[p] \in Classes /\ k'[p] = k[p] /\ seen'[p] = seen[p]
      /\ pc'[p] = "popCas" /\ seen[p] \in Md /\ link'[p] = word[seen[p].blk]
  BY <1>0 DEF TypeOK, KOK, SeenOK, InClass, Labels
<1>4. TypeOK'
  <2>1. word[seen[p].blk] \in Md \cup {END, JUNK} BY <1>0, <1>2 DEF TypeOK, Md
  <2> QED BY <1>0, <1>2, <2>1 DEF TypeOK, base, supers, Labels
<1>5. VersionsOK'
  BY <1>1, <1>2, MidCallVersions DEF Allocating, Releasing
<1>6. KOK(p)' BY <1>2 DEF KOK, InClass, Labels
<1>7. SeenOK(p)'
  <2>1. Gone(seen[p]) => Gone(seen[p])'
    BY <1>1, <1>2 DEF Gone, OthersKept, Popping, base
  <2>2. seen[p] \in Cached(k[p]) => seen[p] \in Cached(k[p])' BY DEF Cached
  <2> QED BY <1>0, <1>2, <2>1, <2>2 DEF SeenOK, Cached
<1>8. ~ InHand(p) /\ ~ InHand(p)' BY <1>2 DEF InHand
<1> QED BY <1>1, <1>2, <1>4, <1>5, <1>6, <1>7, <1>8, LocalStep DEF supers, Popping

\* The steps between taking a block out and putting one back.
LEMMA HandStep ==
  ASSUME IInv, NEW p \in Procs, NEW l \in Labels, GoTo(p, l), OthersKept(p),
         UNCHANGED <<base, word, head, out, issued, cache, allocs>>,
         k'[p] = k[p], md'[p] = md[p], TypeOK',
         \/ pc[p] \in Popping /\ l \in Popping
         \/ pc[p] \in (Releasing \cup Pushing) \ {"push"} /\ l \in Pushing \ {"pushCas"}
         \/ pc[p] = "push" /\ l = "pushLink"
         \/ pc[p] \in Releasing /\ l \in Releasing
  PROVE  IInv'
<1>0. TypeOK /\ KOK(p) BY DEF IInv, ProcsOK
<1>1. pc'[p] = l /\ pc[p] \in InClass /\ pc'[p] \in InClass
  BY <1>0 DEF GoTo, TypeOK, Popping, Releasing, Pushing, InClass, Labels
<1>2. VersionsOK' BY <1>1, MidCallVersions DEF Allocating, Releasing, Popping, Pushing
<1>3. KOK(p)' BY <1>0, <1>1 DEF KOK, InClass
<1>4. SeenOK(p)' BY <1>1 DEF SeenOK, Popping, Releasing, Pushing
<1>5. InHand(p) /\ InHand(p)' BY <1>1 DEF InHand, Popping, Releasing, Pushing
<1> QED BY <1>1, <1>2, <1>3, <1>4, <1>5, LocalStep
        DEF Popping, Releasing, Pushing

\* The last steps of a call, which has no block in hand.
LEMMA LastStep ==
  ASSUME IInv, NEW p \in Procs, NEW l \in {"idle", "pushFree"}, pc'[p] = l, OthersKept(p),
         UNCHANGED <<base, word, head, out, issued, cache, allocs>>,
         pc[p] \in {"lightUsed", "pushUsed", "pushFree"}, l # "idle" => k'[p] = k[p], TypeOK'
  PROVE  IInv'
<1>0. TypeOK /\ KOK(p) BY DEF IInv, ProcsOK
<1>2. VersionsOK' BY MidCallVersions DEF Allocating, Releasing, Popping
<1>3. KOK(p)' BY <1>0 DEF KOK, InClass, Labels
<1>4. SeenOK(p)' BY DEF SeenOK
<1>5. ~ InHand(p) /\ ~ InHand(p)' BY DEF InHand
<1> QED BY <1>2, <1>3, <1>4, <1>5, LocalStep DEF Popping

LEMMA CounterSteps ==
  ASSUME IInv, NEW p \in Procs,
         \/ PopUsed(p) \/ PopFree(p) \/ ReadUsed(p) \/ ReadFree(p) \/ LightUsed(p)
         \/ Push(p) \/ PushUsed(p) \/ PushFree(p)
  PROVE  IInv'
<1> USE DEF GoTo
<1>0. TypeOK /\ KOK(p) BY DEF IInv, ProcsOK
<1>k. pc[p] \in InClass => k[p] \in Classes BY <1>0 DEF KOK
<1>1. CASE PopUsed(p)
  <2>1. OthersKept(p) BY <1>0, <1>1 DEF PopUsed, TypeOK, OthersKept, regs
  <2>2. k[p] \in Classes BY <1>k, <1>1 DEF PopUsed, InClass, Labels
  <2>3. used' \in [Classes -> Counter]
    BY <1>0, <1>1, <2>2, CountersType DEF PopUsed, Add, TypeOK
  <2>4. TypeOK' BY <1>0, <1>1, <2>3 DEF PopUsed, TypeOK, base, regs, Labels
  <2> QED BY <1>1, <2>1, <2>4, HandStep DEF PopUsed, regs, Popping, Labels
<1>2. CASE PopFree(p)
  <2>1. OthersKept(p) BY <1>0, <1>2 DEF PopFree, TypeOK, OthersKept, regs
  <2>2. k[p] \in Classes BY <1>k, <1>2 DEF PopFree, InClass, Labels
  <2>3. free' \in [Classes -> Counter]
    BY <1>0, <1>2, <2>2, CountersType DEF PopFree, Sub, TypeOK
  <2>4. TypeOK' BY <1>0, <1>2, <2>3 DEF PopFree, TypeOK, base, regs, Labels
  <2> QED BY <1>2, <2>1, <2>4, HandStep DEF PopFree, regs, Popping, Labels
<1>3. CASE ReadUsed(p)
  <2>1. OthersKept(p) BY <1>0, <1>3 DEF ReadUsed, TypeOK, OthersKept
  <2>2. k[p] \in Classes BY <1>k, <1>3 DEF ReadUsed, InClass, Labels
  <2>3. seenUsed' \in [Procs -> Counter] BY <1>0, <1>3, <2>2 DEF ReadUsed, TypeOK
  <2>4. TypeOK' BY <1>0, <1>3, <2>3 DEF ReadUsed, TypeOK, base, supers, Labels
  <2> QED BY <1>3, <2>1, <2>4, HandStep DEF ReadUsed, supers, Releasing, Labels
<1>4. CASE ReadFree(p)
  <2>1. OthersKept(p) BY <1>0, <1>4 DEF ReadFree, TypeOK, OthersKept, regs
  <2>2. PICK l \in {"light", "push"} : pc' = [pc EXCEPT ![p] = l] BY <1>4 DEF ReadFree
  <2>4. TypeOK' BY <1>0, <1>4, <2>2 DEF ReadFree, TypeOK, base, supers, regs, Labels
  <2> QED BY <1>4, <2>1, <2>2, <2>4, HandStep
          DEF ReadFree, supers, regs, Releasing, Pushing, Labels
<1>5. CASE LightUsed(p)
  <2> USE DEF LightUsed, Idle
  <2>1. OthersKept(p) BY <1>0, <1>5 DEF TypeOK, OthersKept
  <2>2. k[p] \in Classes BY <1>k, <1>5 DEF InClass, Labels
  <2>3. used' \in [Classes -> Counter] BY <1>0, <1>5, <2>2, CountersType DEF Sub, TypeOK
  <2>4. TypeOK' BY <1>0, <1>5, <2>3, FixedSizesAssumption DEF TypeOK, base, Labels, Counter
  <2>5. pc'[p] = "idle" BY <1>0, <1>5 DEF TypeOK
  <2> QED BY <1>5, <2>1, <2>4, <2>5, LastStep
<1>6. CASE Push(p)
  <2> USE DEF Push
  <2>1. OthersKept(p) BY <1>0, <1>6 DEF TypeOK, OthersKept
  <2>2. k[p] \in Classes BY <1>k, <1>6 DEF InClass, Labels
  <2>3. seen' \in [Procs -> Md \cup {END}] BY <1>0, <1>6, <2>2 DEF TypeOK
  <2>4. TypeOK' BY <1>0, <1>6, <2>3 DEF TypeOK, base, supers, Labels
  <2> QED BY <1>6, <2>1, <2>4, HandStep DEF supers, Pushing, Labels
<1>7. CASE PushUsed(p)
  <2> USE DEF PushUsed
  <2>1. OthersKept(p) BY <1>0, <1>7 DEF TypeOK, OthersKept, regs
  <2>2. k[p] \in Classes BY <1>k, <1>7 DEF InClass, Labels
  <2>3. used' \in [Classes -> Counter] BY <1>0, <1>7, <2>2, CountersType DEF Sub, TypeOK
  <2>4. TypeOK' BY <1>0, <1>7, <2>3 DEF TypeOK, base, regs, Labels
  <2>5. pc'[p] = "pushFree" /\ k'[p] = k[p] BY <1>0, <1>7 DEF TypeOK, regs
  <2> QED BY <1>7, <2>1, <2>4, <2>5, LastStep
<1>8. CASE PushFree(p)
  <2> USE DEF PushFree, Idle
  <2>1. OthersKept(p) BY <1>0, <1>8 DEF TypeOK, OthersKept
  <2>2. k[p] \in Classes BY <1>k, <1>8 DEF InClass, Labels
  <2>3. free' \in [Classes -> Counter] BY <1>0, <1>8, <2>2, CountersType DEF Add, TypeOK
  <2>4. TypeOK' BY <1>0, <1>8, <2>3, FixedSizesAssumption DEF TypeOK, base, Labels, Counter
  <2>5. pc'[p] = "idle" BY <1>0, <1>8 DEF TypeOK
  <2> QED BY <1>8, <2>1, <2>4, <2>5, LastStep
<1> QED BY <1>1, <1>2, <1>3, <1>4, <1>5, <1>6, <1>7, <1>8
-----------------------------------------------------------------------------
(* The stack.                                                              *)

\* A block is popped under the descriptor with which it was pushed.
LEMMA PopFacts ==
  ASSUME IInv, NEW p \in Procs, pc[p] = "popCas", head[k[p]] = seen[p]
  PROVE  /\ k[p] \in Classes /\ seen[p] \in Md
         /\ Len(cache[k[p]]) \in Nat \ {0} /\ cache[k[p]] \in Seq(Md)
         /\ seen[p] = cache[k[p]][1]
         /\ link[p] = IF Len(cache[k[p]]) = 1 THEN END ELSE cache[k[p]][2]
         /\ Current(seen[p]) /\ ref[seen[p].blk] = 0 /\ size[seen[p].blk] = BlockSize(k[p])
         /\ seen[p].blk \notin inBase
<1>0. TypeOK /\ KOK(p) /\ SeenOK(p) /\ CacheOK /\ PlacesOK BY DEF IInv, ProcsOK
<1>1. k[p] \in Classes /\ seen[p] \in Md BY <1>0 DEF KOK, SeenOK, InClass, Labels
<1>2. head[k[p]] # END BY <1>1, FixedWordsAssumption
<1>3. /\ Len(cache[k[p]]) \in Nat \ {0} /\ 1 \in 1 .. Len(cache[k[p]])
      /\ seen[p] = cache[k[p]][1] /\ seen[p] \in Cached(k[p])
  BY <1>1, <1>2, HeadFacts
<1>4. ~ Gone(seen[p]) BY <1>1, <1>3, GoneNotCached
<1>5. link[p] = word[seen[p].blk] BY <1>0, <1>4 DEF SeenOK
<1>6. word[cache[k[p]][1].blk] = IF 1 = Len(cache[k[p]]) THEN END ELSE cache[k[p]][1 + 1]
  BY <1>0, <1>1, <1>3 DEF CacheOK
<1>7. Current(seen[p]) /\ ref[seen[p].blk] = 0 /\ size[seen[p].blk] = BlockSize(k[p])
  BY <1>0, <1>1, <1>3 DEF CacheOK
<1>8. seen[p].blk \notin inBase BY <1>0, <1>1, <1>3 DEF PlacesOK, InCache
<1> QED BY <1>0, <1>1, <1>3, <1>5, <1>6, <1>7, <1>8 DEF TypeOK

LEMMA TailAt ==
  ASSUME NEW S, NEW s \in Seq(S), Len(s) \in Nat \ {0}
  PROVE  /\ Tail(s) \in Seq(S) /\ Len(Tail(s)) = Len(s) - 1
         /\ \A i \in 1 .. Len(Tail(s)) : i + 1 \in 1 .. Len(s) /\ Tail(s)[i] = s[i + 1]
OBVIOUS

LEMMA NextAt ==
  ASSUME NEW n \in Nat \ {0}, n # 1, NEW i \in 1 .. n - 1
  PROVE  /\ 2 \in 1 .. n /\ 1 \in 1 .. n - 1 /\ n - 1 # 0
         /\ i + 1 \in 1 .. n
         /\ i # n - 1 => i + 1 \in 1 .. n - 1 /\ i + 1 # n
         /\ i = n - 1 => i + 1 = n
         /\ i + 1 + 1 = i + 2
OBVIOUS

\* What popping a stack of blocks leaves.
LEMMA PopSeq ==
  ASSUME NEW S, NEW s \in Seq(S), Len(s) \in Nat \ {0}
  PROVE  /\ Len(s) = 1 => Tail(s) = << >>
         /\ Len(s) # 1 => s[2] \in S /\ Tail(s) # << >> /\ Tail(s)[1] = s[2]
         /\ \A i \in 1 .. Len(Tail(s)) :
              (IF i = Len(Tail(s)) THEN END ELSE Tail(s)[i + 1])
                = (IF i + 1 = Len(s) THEN END ELSE s[(i + 1) + 1])
<1>1. PICK n \in Nat \ {0} : n = Len(s) OBVIOUS
<1>2. Len(Tail(s)) = n - 1 BY <1>1, TailAt
<1>3. ASSUME n = 1 PROVE Tail(s) = << >>
  <2>1. Tail(s) \in Seq(S) BY TailAt
  <2>2. Len(Tail(s)) = 1 - 1 BY <1>2, <1>3
  <2>3. ~ (1 - 1 \in Nat \ {0}) OBVIOUS
  <2> QED BY <2>1, <2>2, <2>3, EmptySeq
<1>4. ASSUME n # 1 PROVE s[2] \in S /\ Tail(s) # << >> /\ Tail(s)[1] = s[2]
  <2>1. 2 \in 1 .. n /\ 1 \in 1 .. n - 1 /\ n - 1 # 0 BY <1>4
  <2>2. s[2] \in S BY <1>1, <2>1, ElementOfSeq
  <2>3. Tail(s)[1] = s[1 + 1] BY <1>2, <2>1, TailAt
  <2>4. Tail(s) # << >> BY <1>2, <2>1, EmptySeq
  <2> QED BY <2>2, <2>3, <2>4
<1>5. ASSUME NEW i \in 1 .. n - 1
      PROVE  (IF i = n - 1 THEN END ELSE Tail(s)[i + 1])
                = (IF i + 1 = n THEN END ELSE s[(i + 1) + 1])
  <2>1. CASE i = n - 1 BY <2>1
  <2>2. CASE i # n - 1
    <3>1. i + 1 \in 1 .. n - 1 /\ i + 1 # n BY <2>2
    <3>2. Tail(s)[i + 1] = s[(i + 1) + 1] BY <1>2, <3>1, TailAt
    <3> QED BY <2>2, <3>1, <3>2
  <2> QED BY <2>1, <2>2
<1> QED BY <1>1, <1>2, <1>3, <1>4, <1>5

\* The words of the stack of class c, its blocks' states and its head.
HeadOK(c) == head[c] = IF cache[c] = << >> THEN END ELSE cache[c][1]
LinkOK(c, i) ==
  /\ word[cache[c][i].blk] = IF i = Len(cache[c]) THEN END ELSE cache[c][i + 1]
  /\ Current(cache[c][i])
  /\ ref[cache[c][i].blk] = 0
  /\ size[cache[c][i].blk] = BlockSize(c)
StackOK(c) == HeadOK(c) /\ \A i \in 1 .. Len(cache[c]) : LinkOK(c, i)

LEMMA CacheOKIs ==
  /\ CacheOK => \A c \in Classes : StackOK(c)
  /\ (\A c \in Classes : StackOK(c)') => CacheOK'
BY DEF CacheOK, StackOK, HeadOK, LinkOK

LEMMA NotFirst == ASSUME NEW i \in Nat \ {0} PROVE i + 1 # 1
OBVIOUS

LEMMA PopStep ==
  ASSUME IInv, NEW p \in Procs, PopCas(p), head[k[p]] = seen[p] PROVE IInv'
<1> USE DEF PopCas, GoTo
<1>0. TypeOK /\ KOK(p) /\ CacheOK /\ PlacesOK /\ ProcsOK /\ Alone BY DEF IInv, ProcsOK
<1>1. OthersKept(p) BY <1>0 DEF TypeOK, OthersKept
<1>p. pc[p] = "popCas" OBVIOUS
<1>c. PICK c \in Classes : c = k[p] BY <1>p, PopFacts
<1>m. PICK m \in Md : m = seen[p] BY <1>p, PopFacts
<1>q. PICK s \in Seq(Md) : s = cache[c] BY <1>p, <1>c, PopFacts
<1>2. /\ pc[p] = "popCas" /\ pc'[p] = "popUsed" /\ md'[p] = m /\ k'[p] = c
      /\ UNCHANGED <<ver, ref, size, inBase, word, out, issued, allocs>>
      /\ head' = [head EXCEPT ![c] = link[p]] /\ cache' = [cache EXCEPT ![c] = Tail(s)]
  BY <1>0, <1>c, <1>m, <1>q DEF TypeOK, base
<1>3. /\ c \in Classes /\ m \in Md /\ Len(s) \in Nat \ {0} /\ s \in Seq(Md) /\ m = s[1]
      /\ link[p] = IF Len(s) = 1 THEN END ELSE s[2]
      /\ Current(m) /\ ref[m.blk] = 0 /\ size[m.blk] = BlockSize(c) /\ m.blk \notin inBase
  BY <1>2, <1>c, <1>m, <1>q, PopFacts
<1>4. /\ cache'[c] = Tail(s) /\ \A d \in Classes : d # c => cache'[d] = cache[d]
      /\ head'[c] = link[p] /\ \A d \in Classes : d # c => head'[d] = head[d]
  BY <1>0, <1>2, <1>3 DEF TypeOK
<1>5. /\ Tail(s) \in Seq(Md) /\ Len(Tail(s)) = Len(s) - 1
      /\ \A i \in 1 .. Len(Tail(s)) : i + 1 \in 1 .. Len(s) /\ Tail(s)[i] = s[i + 1]
  BY <1>3, TailAt
<1>s. cache[c] = s /\ 1 \in 1 .. Len(s) /\ k[p] = c /\ seen[p] = m
  BY <1>3, <1>c, <1>m, <1>q
<1>6. \A d \in Classes : \A i \in 1 .. Len(cache'[d]) :
        \E j \in 1 .. Len(cache[d]) : /\ cache'[d][i] = cache[d][j]
                                      /\ j = IF d = c THEN i + 1 ELSE i
  BY <1>4, <1>5, <1>s
<1>7. \A b : InCache(b)' => InCache(b) BY <1>6 DEF InCache
<1>8. ~ InCache(m.blk)'
  <2> SUFFICES ASSUME NEW d \in Classes, NEW i \in 1 .. Len(cache'[d]),
                      cache'[d][i].blk = m.blk
               PROVE  FALSE
    BY DEF InCache
  <2>1. PICK j \in 1 .. Len(cache[d]) : cache'[d][i] = cache[d][j]
                                        /\ j = IF d = c THEN i + 1 ELSE i
    BY <1>6
  <2>2. d = c /\ j = 1 BY <1>0, <1>3, <1>s, <2>1 DEF PlacesOK
  <2>3. i \in Nat \ {0} BY <1>4, <1>5, <2>2
  <2> QED BY <2>1, <2>2, <2>3, NotFirst
<1>9. \A b : InCache(b) => InCache(b)' \/ b = m.blk
  <2> SUFFICES ASSUME NEW d \in Classes, NEW j \in 1 .. Len(cache[d]),
                      cache[d][j].blk # m.blk
               PROVE  \E i \in 1 .. Len(cache'[d]) : cache'[d][i] = cache[d][j]
    <3>1. ASSUME NEW b, InCache(b), b # m.blk,
                 \A d \in Classes : \A j \in 1 .. Len(cache[d]) :
                   cache[d][j].blk # m.blk =>
                     \E i \in 1 .. Len(cache'[d]) : cache'[d][i] = cache[d][j]
          PROVE  InCache(b)'
      <4>1. PICK d \in Classes : \E j \in 1 .. Len(cache[d]) : cache[d][j].blk = b
        BY <3>1 DEF InCache
      <4>2. PICK j \in 1 .. Len(cache[d]) : cache[d][j].blk = b BY <4>1
      <4>3. PICK i \in 1 .. Len(cache'[d]) : cache'[d][i] = cache[d][j] BY <3>1, <4>2
      <4> QED BY <4>2, <4>3 DEF InCache
    <3> QED BY <3>1
  <2>1. CASE d # c BY <1>4, <2>1
  <2>2. CASE d = c
    <3>1. j # 1 BY <1>3, <1>s, <2>2
    <3>2. j - 1 \in 1 .. Len(Tail(s)) /\ Tail(s)[j - 1] = s[j]
      BY <1>3, <1>5, <1>s, <2>2, <3>1
    <3> QED BY <1>4, <1>s, <2>2, <3>2
  <2> QED BY <2>1, <2>2
<1>10. TypeOK'
  <2>1. cache' \in [Classes -> Seq(Md)] BY <1>0, <1>2, <1>5 DEF TypeOK
  <2>2. link[p] \in Md \cup {END} BY <1>3, PopSeq
  <2>3. head' \in [Classes -> Md \cup {END}] BY <1>0, <1>2, <2>2 DEF TypeOK
  <2> QED BY <1>0, <2>1, <2>3 DEF TypeOK, base, Labels
<1>11. VersionsOK' BY <1>1, <1>2, MidCallVersions DEF Allocating, Releasing, Popping, base
<1>12. \A n : Current(n)' <=> Current(n) BY <1>2 DEF Current
<1>13. InHand(p)' /\ ~ InHand(p) BY <1>2 DEF InHand
<1>14. \A q \in Procs : InHand(q) => md[q].blk # m.blk
  <2>1. InCache(m.blk) BY <1>3, <1>s DEF InCache
  <2> QED BY <2>1, HandFacts
<1>15. ProcsOK'
  <2>1. (KOK(p) /\ FreshOK(p) /\ SeenOK(p))'
    BY <1>2, <1>3 DEF KOK, FreshOK, SeenOK
  <2>2. HandOK(p)'
    <3>1. /\ Current(m)' /\ ref'[m.blk] = 0 /\ m.blk \notin inBase'
          /\ size'[m.blk] = BlockSize(c) /\ m \in Md
      BY <1>2, <1>3, <1>12
    <3>2. pc'[p] # "noSuperBlock" /\ pc'[p] # "pushCas" BY <1>2
    <3> QED BY <1>2, <1>8, <3>1, <3>2 DEF HandOK
  <2>3. ASSUME NEW q \in Procs, q # p PROVE (KOK(q) /\ HandOK(q) /\ FreshOK(q))'
    BY <1>0, <1>1, <1>2, <1>7, <1>12, <2>3
       DEF OthersKept, ProcsOK, KOK, HandOK, FreshOK, InHand
  <2>4. ASSUME NEW q \in Procs, q # p PROVE SeenOK(q)'
    <3> SUFFICES ASSUME pc[q] \in {"popNext", "popCas"} PROVE SeenOK(q)'
      BY <1>1, <2>4 DEF SeenOK, OthersKept
    <3>1. /\ pc'[q] = pc[q] /\ seen'[q] = seen[q] /\ link'[q] = link[q] /\ k'[q] = k[q]
          /\ seen[q] \in Md /\ k[q] \in Classes
      BY <1>0, <1>1, <2>4 DEF OthersKept, ProcsOK, SeenOK, KOK, InClass, Labels
    <3>2. CASE Gone(seen[q])
      <4>1. \A o \in Procs : pc[o] \in Popping => pc'[o] \in Popping /\ md'[o] = md[o]
        BY <1>1, <1>2 DEF OthersKept, Popping
      <4>2. \A b \in Blocks : ver'[b] \in Nat /\ ver'[b] >= ver[b]
        BY <1>0, <1>2, FixedVersionsAssumption DEF TypeOK
      <4>3. Gone(seen[q])' BY <3>1, <3>2, <4>1, <4>2, GoneStays
      <4> QED BY <3>1, <4>3 DEF SeenOK
    <3>3. CASE seen[q] \in Cached(k[q]) /\ (pc[q] = "popCas" => link[q] = word[seen[q].blk])
      <4>1. CASE seen[q] = m
        <5>1. Gone(seen[q])' BY <1>2, <3>1, <4>1 DEF Gone, Popping
        <5> QED BY <3>1, <5>1 DEF SeenOK
      <4>2. CASE seen[q] # m
        <5>1. PICK j \in 1 .. Len(cache[k[q]]) : cache[k[q]][j] = seen[q]
          BY <3>3 DEF Cached
        <5>2. seen[q].blk # m.blk
          BY <1>0, <1>3, <1>s, <3>1, <4>2, <5>1 DEF PlacesOK
        <5>3. \E i \in 1 .. Len(cache'[k[q]]) : cache'[k[q]][i] = seen[q]
          <6>1. CASE k[q] # c BY <1>4, <3>1, <5>1, <6>1
          <6>2. CASE k[q] = c
            <7>1. j # 1 BY <1>3, <1>s, <4>2, <5>1, <6>2
            <7>2. j - 1 \in 1 .. Len(Tail(s)) /\ Tail(s)[j - 1] = s[j]
              BY <1>3, <1>5, <1>s, <5>1, <6>2, <7>1
            <7> QED BY <1>4, <1>s, <5>1, <6>2, <7>2
          <6> QED BY <6>1, <6>2
        <5>4. seen[q] \in Cached(k[q])' BY <3>1, <5>3 DEF Cached
        <5> QED BY <1>2, <3>1, <3>3, <5>4 DEF SeenOK
      <4> QED BY <4>1, <4>2
    <3> QED BY <1>0, <3>2, <3>3 DEF ProcsOK, SeenOK
  <2> QED BY <2>1, <2>2, <2>3, <2>4 DEF ProcsOK
<1>16. Alone'
  BY <1>0, <1>1, <1>2, <1>14 DEF Alone, OthersKept, InHand
<1>17. PlacesOK'
  <2>1. \A b \in inBase' : ref'[b] = 0 /\ ~ InCache(b)' BY <1>0, <1>2, <1>7 DEF PlacesOK
  <2>2. ASSUME NEW d \in Classes, NEW e \in Classes,
               NEW i \in 1 .. Len(cache'[d]), NEW j \in 1 .. Len(cache'[e]),
               cache'[d][i].blk = cache'[e][j].blk
        PROVE  d = e /\ i = j
    <3>1. PICK x \in 1 .. Len(cache[d]) : cache'[d][i] = cache[d][x]
                                          /\ x = IF d = c THEN i + 1 ELSE i
      BY <1>6
    <3>2. PICK y \in 1 .. Len(cache[e]) : cache'[e][j] = cache[e][y]
                                          /\ y = IF e = c THEN j + 1 ELSE j
      BY <1>6
    <3>3. d = e /\ x = y BY <1>0, <2>2, <3>1, <3>2 DEF PlacesOK
    <3> QED BY <3>1, <3>2, <3>3
  <2>3. ASSUME NEW b \in Blocks
        PROVE  b \in inBase' \/ ref'[b] > 0 \/ InCache(b)' \/ Hands(b)' # {}
    <3>1. CASE b = m.blk BY <1>2, <1>13, <3>1 DEF Hands
    <3>2. CASE b # m.blk
      <4>1. Hands(b) # {} => Hands(b)' # {} BY <1>1, <1>13 DEF Hands, OthersKept, InHand
      <4> QED BY <1>0, <1>2, <1>9, <3>2, <4>1 DEF PlacesOK
    <3> QED BY <3>1, <3>2
  <2> QED BY <2>1, <2>2, <2>3 DEF PlacesOK
<1>18. CountsOK' BY <1>2, <1>12 DEF IInv, CountsOK
<1>19. CacheOK'
  <2> SUFFICES ASSUME NEW d \in Classes PROVE StackOK(d)'
    BY CacheOKIs
  <2>0. StackOK(d) BY <1>0, CacheOKIs
  <2>1. CASE d # c
    BY <1>2, <1>4, <1>12, <2>0, <2>1 DEF StackOK, HeadOK, LinkOK
  <2>2. CASE d = c
    <3>1. head'[c] = IF Tail(s) = << >> THEN END ELSE Tail(s)[1] BY <1>3, <1>4, PopSeq
    <3>h. HeadOK(c)' BY <1>4, <3>1 DEF HeadOK
    <3>2. ASSUME NEW i \in 1 .. Len(Tail(s)) PROVE LinkOK(c, i)'
      <4>1. i + 1 \in 1 .. Len(s) /\ Tail(s)[i] = s[i + 1] BY <1>5
      <4>2. /\ word[s[i + 1].blk] = IF i + 1 = Len(s) THEN END ELSE s[(i + 1) + 1]
            /\ Current(s[i + 1]) /\ ref[s[i + 1].blk] = 0
            /\ size[s[i + 1].blk] = BlockSize(c)
        BY <1>s, <2>0, <2>2, <4>1 DEF StackOK, LinkOK
      <4>3. (IF i = Len(Tail(s)) THEN END ELSE Tail(s)[i + 1])
                = (IF i + 1 = Len(s) THEN END ELSE s[(i + 1) + 1])
        BY <1>3, PopSeq
      <4>4. /\ word'[Tail(s)[i].blk] = IF i = Len(Tail(s)) THEN END ELSE Tail(s)[i + 1]
            /\ Current(Tail(s)[i])' /\ ref'[Tail(s)[i].blk] = 0
            /\ size'[Tail(s)[i].blk] = BlockSize(c)
        BY <1>2, <1>12, <4>1, <4>2, <4>3
      <4> QED BY <1>4, <4>4 DEF LinkOK
    <3> QED BY <1>4, <2>2, <3>h, <3>2 DEF StackOK
  <2> QED BY <2>1, <2>2
<1> QED BY <1>10, <1>11, <1>15, <1>16, <1>17, <1>18, <1>19 DEF IInv

\* The pop, the push and the base may be refused; the call then tries again.
LEMMA RefusedSteps ==
  ASSUME IInv, NEW p \in Procs,
         \/ PopCas(p) /\ head[k[p]] # seen[p]
         \/ PushCas(p) /\ head[k[p]] # seen[p]
         \/ Light(p) /\ GoTo(p, "push") /\ UNCHANGED <<ver, inBase>>
  PROVE  IInv'
<1> USE DEF GoTo
<1>0. TypeOK /\ KOK(p) BY DEF IInv, ProcsOK
<1>1. CASE PopCas(p) /\ head[k[p]] # seen[p]
  <2> USE DEF PopCas
  <2>1. OthersKept(p) BY <1>0, <1>1 DEF TypeOK, OthersKept
  <2>2. pc[p] = "popCas" /\ pc'[p] = "popHead" /\ k'[p] = k[p] BY <1>0, <1>1 DEF TypeOK
  <2>3. TypeOK' BY <1>0, <1>1 DEF TypeOK, base, Labels
  <2>4. VersionsOK' BY <1>1, <2>1, <2>2, MidCallVersions DEF Allocating, Releasing
  <2>5. KOK(p)' /\ SeenOK(p)' BY <1>0, <2>2 DEF KOK, SeenOK, InClass, Labels
  <2>6. ~ InHand(p) /\ ~ InHand(p)' BY <2>2 DEF InHand
  <2> QED BY <1>1, <2>1, <2>2, <2>3, <2>4, <2>5, <2>6, LocalStep DEF Popping
<1>2. CASE PushCas(p) /\ head[k[p]] # seen[p]
  <2> USE DEF PushCas
  <2>1. OthersKept(p) BY <1>0, <1>2 DEF TypeOK, OthersKept, regs
  <2>2. pc[p] = "pushCas" /\ k'[p] = k[p] /\ md'[p] = md[p] BY <1>2 DEF regs
  <2>3. TypeOK' BY <1>0, <1>2 DEF TypeOK, base, regs, Labels
  <2> QED BY <1>2, <2>1, <2>2, <2>3, HandStep DEF Pushing, Labels
<1>3. CASE Light(p) /\ GoTo(p, "push") /\ UNCHANGED <<ver, inBase>>
  <2> USE DEF Light
  <2>1. OthersKept(p) BY <1>0, <1>3 DEF TypeOK, OthersKept, regs
  <2>2. pc[p] = "light" /\ k'[p] = k[p] /\ md'[p] = md[p] BY <1>3 DEF regs
  <2>3. TypeOK' BY <1>0, <1>3 DEF TypeOK, supers, regs, Labels
  <2>4. UNCHANGED <<base, word, head, out, issued, cache, allocs>>
    BY <1>3 DEF base, supers
  <2> QED BY <1>3, <2>1, <2>2, <2>3, <2>4, HandStep DEF Pushing, Releasing, Labels
<1> QED BY <1>1, <1>2, <1>3

\* Writing to a block that is in no cache disturbs no stack and no pop.
LEMMA WordsKept ==
  ASSUME IInv, NEW b \in Blocks, NEW w, ~ InCache(b), word' = [word EXCEPT ![b] = w],
         UNCHANGED <<base, head, cache>>
  PROVE  /\ CacheOK'
         /\ \A c \in Classes : \A m \in Cached(c) : word'[m.blk] = word[m.blk]
<1>0. TypeOK /\ CacheOK BY DEF IInv
<1>1. ASSUME NEW c \in Classes, NEW i \in 1 .. Len(cache[c])
      PROVE  word'[cache[c][i].blk] = word[cache[c][i].blk]
  <2>1. cache[c][i].blk # b /\ cache[c][i].blk \in Blocks
    BY <1>0, CachedBlocks DEF InCache
  <2> QED BY <1>0, <2>1 DEF TypeOK
<1>2. \A m : Current(m)' <=> Current(m) BY DEF Current, base
<1>3. ASSUME NEW c \in Classes PROVE StackOK(c)'
  <2>1. StackOK(c) BY <1>0, CacheOKIs
  <2> QED BY <1>1, <1>2, <2>1 DEF StackOK, HeadOK, LinkOK, base
<1>4. CacheOK' BY <1>3, CacheOKIs
<1>5. \A c \in Classes : \A m \in Cached(c) : word'[m.blk] = word[m.blk]
  BY <1>1 DEF Cached
<1> QED BY <1>4, <1>5

LEMMA PushLinkStep ==
  ASSUME IInv, NEW p \in Procs, PushLink(p) PROVE IInv'
<1> USE DEF PushLink, GoTo
<1>0. TypeOK /\ ProcsOK /\ KOK(p) /\ HandOK(p) /\ Alone /\ PlacesOK /\ CountsOK
  BY DEF IInv, ProcsOK
<1>1. OthersKept(p) BY <1>0 DEF TypeOK, OthersKept, regs
<1>2. /\ pc[p] = "pushLink" /\ pc'[p] = "pushCas" /\ InHand(p) /\ InHand(p)'
      /\ UNCHANGED <<base, supers, regs, out, allocs, issued, cache>>
  BY <1>0 DEF TypeOK, InHand
<1>3. /\ md[p] \in Md /\ md[p].blk \in Blocks /\ Current(md[p])
      /\ ref[md[p].blk] = 0 /\ md[p].blk \notin inBase /\ ~ InCache(md[p].blk)
      /\ pc[p] # "noSuperBlock" => size[md[p].blk] = BlockSize(k[p])
      /\ \A q \in Procs : q # p /\ InHand(q) => md[q].blk # md[p].blk
  BY <1>2, HandFacts
<1>4. CacheOK' /\ \A c \in Classes : \A m \in Cached(c) : word'[m.blk] = word[m.blk]
  BY <1>2, <1>3, WordsKept DEF supers
<1>5. TypeOK'
  <2>1. word' \in [Blocks -> Md \cup {END, JUNK}] BY <1>0, <1>3 DEF TypeOK
  <2> QED BY <1>0, <1>2, <2>1 DEF TypeOK, base, supers, regs, Labels
<1>6. VersionsOK' BY <1>1, <1>2, MidCallVersions DEF Allocating, Releasing, Popping
<1>7. \A b : InCache(b)' <=> InCache(b) BY DEF InCache
<1>8. \A m : Current(m)' <=> Current(m) BY <1>2 DEF Current, base
<1>9. \A q \in Procs : InHand(q)' <=> InHand(q) BY <1>1, <1>2 DEF OthersKept, InHand
<1>10. ProcsOK'
  <2>1. (KOK(p) /\ FreshOK(p) /\ SeenOK(p))'
    BY <1>0, <1>2 DEF KOK, FreshOK, SeenOK, InClass, Labels, regs
  <2>2. HandOK(p)'
    <3>1. word'[md[p].blk] = seen[p] BY <1>0, <1>3 DEF TypeOK
    <3> QED BY <1>2, <1>3, <1>7, <1>8, <3>1 DEF HandOK, base, regs
  <2>3. ASSUME NEW q \in Procs, q # p PROVE (KOK(q) /\ FreshOK(q))'
    BY <1>0, <1>1, <1>2, <1>8, <2>3 DEF OthersKept, ProcsOK, KOK, FreshOK, base
  <2>4. ASSUME NEW q \in Procs, q # p PROVE HandOK(q)'
    <3> SUFFICES ASSUME InHand(q)' PROVE HandOK(q)' BY DEF HandOK
    <3>1. InHand(q) /\ md[q].blk # md[p].blk /\ md[q] \in Md BY <1>3, <1>9, <2>4, HandFacts
    <3>2. word'[md[q].blk] = word[md[q].blk] BY <1>0, <3>1 DEF TypeOK
    <3>3. HandOK(q) BY <1>0 DEF ProcsOK
    <3> QED BY <1>1, <1>2, <1>7, <1>8, <2>4, <3>1, <3>2, <3>3 DEF OthersKept, HandOK, base
  <2>5. ASSUME NEW q \in Procs, q # p PROVE SeenOK(q)'
    <3>1. Gone(seen[q]) => Gone(seen[q])'
      BY <1>1, <1>2, <2>5 DEF Gone, OthersKept, Popping, base, regs
    <3>2. Cached(k[q])' = Cached(k[q]) BY <1>1, <1>2, <2>5 DEF Cached, OthersKept
    <3>3. SeenOK(q) /\ (pc[q] = "popCas" => k[q] \in Classes)
      BY <1>0 DEF ProcsOK, KOK, InClass, Labels
    <3> QED BY <1>1, <1>2, <1>4, <2>5, <3>1, <3>2, <3>3 DEF SeenOK, OthersKept, regs
  <2> QED BY <2>1, <2>2, <2>3, <2>4, <2>5 DEF ProcsOK
<1>11. Alone' BY <1>0, <1>1, <1>2, <1>9 DEF Alone, OthersKept, regs
<1>12. PlacesOK'
  <2>1. \A b \in Blocks : Hands(b)' = Hands(b) BY <1>2, <1>9 DEF Hands, regs
  <2> QED BY <1>0, <1>2, <1>7, <2>1 DEF PlacesOK, base
<1>13. CountsOK' BY <1>0, <1>2, <1>8 DEF CountsOK, base
<1> QED BY <1>4, <1>5, <1>6, <1>10, <1>11, <1>12, <1>13 DEF IInv

LEMMA WriteBlockStep ==
  ASSUME IInv, NEW b \in Blocks, WriteBlock(b) PROVE IInv'
<1> USE DEF WriteBlock
<1>0. TypeOK /\ ProcsOK /\ Alone /\ PlacesOK /\ CountsOK /\ CacheOK /\ VersionsOK
  BY DEF IInv
<1>1. UNCHANGED <<base, supers, pc, regs, out, allocs, issued, cache>> OBVIOUS
<1>2. ~ InCache(b)
  <2>1. \A c \in Classes : \A i \in 1 .. Len(cache[c]) : ref[cache[c][i].blk] = 0
    BY <1>0 DEF CacheOK
  <2> QED BY <1>0, <2>1 DEF InCache, PlacesOK
<1>3. CacheOK' /\ \A c \in Classes : \A m \in Cached(c) : word'[m.blk] = word[m.blk]
  BY <1>1, <1>2, WordsKept DEF supers
<1>4. TypeOK' BY <1>0 DEF TypeOK, base, supers, regs
<1>5. VersionsOK' BY <1>0, <1>1 DEF VersionsOK, Ended, Allocated, Busy, base, regs
<1>6. \A a : InCache(a)' <=> InCache(a) BY DEF InCache
<1>7. \A m : Current(m)' <=> Current(m) BY <1>1 DEF Current, base
<1>8. \A q \in Procs : InHand(q)' <=> InHand(q) BY <1>1 DEF InHand
<1>9. ProcsOK'
  <2>1. ASSUME NEW q \in Procs PROVE (KOK(q) /\ FreshOK(q))'
    BY <1>0, <1>1, <1>7 DEF ProcsOK, KOK, FreshOK, base, regs
  <2>2. ASSUME NEW q \in Procs PROVE HandOK(q)'
    <3> SUFFICES ASSUME InHand(q)' PROVE HandOK(q)' BY DEF HandOK
    <3>1. /\ InHand(q) /\ md[q] \in Md /\ md[q].blk \in Blocks
          /\ ref[md[q].blk] = 0 /\ md[q].blk \notin inBase
      BY <1>8, HandFacts
    <3>2. md[q].blk # b BY <3>1
    <3>3. word'[md[q].blk] = word[md[q].blk] BY <1>0, <3>1, <3>2 DEF TypeOK
    <3>4. HandOK(q) BY <1>0 DEF ProcsOK
    <3> QED BY <1>1, <1>6, <1>7, <3>1, <3>3, <3>4 DEF HandOK, base, regs
  <2>3. ASSUME NEW q \in Procs PROVE SeenOK(q)'
    <3>1. Gone(seen[q]) => Gone(seen[q])' BY <1>1 DEF Gone, base, regs
    <3>2. Cached(k[q])' = Cached(k[q]) BY <1>1 DEF Cached, regs
    <3>3. SeenOK(q) /\ (pc[q] = "popCas" => k[q] \in Classes)
      BY <1>0 DEF ProcsOK, KOK, InClass, Labels
    <3> QED BY <1>1, <1>3, <3>1, <3>2, <3>3 DEF SeenOK, regs
  <2> QED BY <2>1, <2>2, <2>3 DEF ProcsOK
<1>10. Alone' BY <1>0, <1>1, <1>8 DEF Alone, regs
<1>11. PlacesOK'
  <2>1. \A a \in Blocks : Hands(a)' = Hands(a) BY <1>1, <1>8 DEF Hands, regs
  <2> QED BY <1>0, <1>1, <1>6, <2>1 DEF PlacesOK, base
<1>12. CountsOK' BY <1>0, <1>1, <1>7 DEF CountsOK, base
<1> QED BY <1>3, <1>4, <1>5, <1>9, <1>10, <1>11, <1>12 DEF IInv

\* What pushing a block on a stack makes of it.
LEMMA PushAt ==
  ASSUME NEW S, NEW s \in Seq(S), NEW m \in S
  PROVE  /\ <<m>> \o s \in Seq(S) /\ Len(<<m>> \o s) = Len(s) + 1
         /\ (<<m>> \o s)[1] = m
         /\ \A i \in 1 .. Len(s) : (<<m>> \o s)[i + 1] = s[i]
OBVIOUS

LEMMA PushSeq ==
  ASSUME NEW S, NEW s \in Seq(S), NEW m \in S
  PROVE  LET t == <<m>> \o s
         IN  /\ t # << >> /\ 1 \in 1 .. Len(t)
             /\ (IF 1 = Len(t) THEN END ELSE t[1 + 1])
                   = (IF s = << >> THEN END ELSE s[1])
             /\ \A j \in 1 .. Len(t) :
                  j = 1 \/ \E i \in 1 .. Len(s) :
                    /\ j = i + 1 /\ t[j] = s[i]
                    /\ (IF j = Len(t) THEN END ELSE t[j + 1])
                          = (IF i = Len(s) THEN END ELSE s[i + 1])
             /\ \A i \in 1 .. Len(s) : i + 1 \in 1 .. Len(t)
<1> DEFINE t == <<m>> \o s
<1>1. /\ t \in Seq(S) /\ Len(t) = Len(s) + 1 /\ t[1] = m
      /\ \A i \in 1 .. Len(s) : t[i + 1] = s[i]
  BY PushAt
<1> HIDE DEF t
<1>2. PICK n \in Nat : n = Len(s) BY LenProperties
<1>3. Len(t) = n + 1 BY <1>1, <1>2
<1>4. 1 \in 1 .. n + 1 /\ \A i \in 1 .. n : i + 1 \in 1 .. n + 1 OBVIOUS
<1>5. t # << >>
  <2>1. Len(t) # 0 BY <1>3
  <2> QED BY <2>1, EmptySeq
<1>6. (IF 1 = n + 1 THEN END ELSE t[1 + 1]) = (IF s = << >> THEN END ELSE s[1])
  <2>1. CASE n = 0
    <3>1. s = << >> BY <1>2, <2>1, EmptySeq
    <3> QED BY <2>1, <3>1
  <2>2. CASE n # 0
    <3>1. s # << >> BY <1>2, <2>2, EmptySeq
    <3>2. 1 # n + 1 /\ 1 \in 1 .. n BY <2>2
    <3>3. t[1 + 1] = s[1] BY <1>1, <1>2, <3>2
    <3> QED BY <3>1, <3>2, <3>3
  <2> QED BY <2>1, <2>2
<1>7. ASSUME NEW j \in 1 .. n + 1, j # 1
      PROVE  \E i \in 1 .. n : /\ j = i + 1 /\ t[j] = s[i]
                               /\ (IF j = n + 1 THEN END ELSE t[j + 1])
                                     = (IF i = n THEN END ELSE s[i + 1])
  <2>1. PICK i \in 1 .. n : j = i + 1
    <3>1. j - 1 \in 1 .. n /\ j = (j - 1) + 1 BY <1>7
    <3> QED BY <3>1
  <2>2. t[j] = s[i] BY <1>1, <1>2, <2>1
  <2>3. i # n => i + 1 \in 1 .. n /\ j # n + 1 BY <2>1
  <2>4. i # n => t[j + 1] = s[i + 1]
    <3>1. i # n => t[(i + 1) + 1] = s[i + 1] BY <1>1, <1>2, <2>3
    <3> QED BY <2>1, <3>1
  <2>5. i = n => j = n + 1 BY <2>1
  <2> QED BY <2>1, <2>2, <2>3, <2>4, <2>5
<1> QED BY <1>2, <1>3, <1>4, <1>5, <1>6, <1>7 DEF t

LEMMA PushStep ==
  ASSUME IInv, NEW p \in Procs, PushCas(p), head[k[p]] = seen[p] PROVE IInv'
<1> USE DEF PushCas, GoTo
<1>0. TypeOK /\ KOK(p) /\ HandOK(p) /\ CacheOK /\ PlacesOK /\ ProcsOK /\ Alone /\ CountsOK
  BY DEF IInv, ProcsOK
<1>1. OthersKept(p) BY <1>0 DEF TypeOK, OthersKept, regs
<1>p. pc[p] = "pushCas" /\ InHand(p) BY DEF InHand
<1>c. PICK c \in Classes : c = k[p] BY <1>0, <1>p DEF KOK, InClass, Labels
<1>m. PICK m \in Md : m = md[p] BY <1>p, HandFacts
<1>q. PICK s \in Seq(Md) : s = cache[c] BY CachedBlocks DEF IInv
<1>t. PICK t : t = <<m>> \o s OBVIOUS
<1>2. /\ pc[p] = "pushCas" /\ pc'[p] = "pushUsed" /\ k'[p] = c
      /\ UNCHANGED <<ver, ref, size, inBase, word, out, issued, allocs, k, md, seen, link>>
      /\ head' = [head EXCEPT ![c] = m] /\ cache' = [cache EXCEPT ![c] = t]
  BY <1>0, <1>c, <1>m, <1>q, <1>t DEF TypeOK, base, regs
<1>3. /\ m.blk \in Blocks /\ Current(m) /\ ref[m.blk] = 0 /\ size[m.blk] = BlockSize(c)
      /\ m.blk \notin inBase /\ ~ InCache(m.blk)
      /\ \A q \in Procs : q # p /\ InHand(q) => md[q].blk # m.blk
  BY <1>p, <1>c, <1>m, HandFacts
<1>w. word[m.blk] = IF s = << >> THEN END ELSE s[1]
  <2>1. word[m.blk] = seen[p] BY <1>0, <1>p, <1>m DEF HandOK
  <2>2. head[c] = IF s = << >> THEN END ELSE s[1] BY <1>0, <1>q DEF CacheOK
  <2> QED BY <1>c, <2>1, <2>2
<1>4. /\ cache'[c] = t /\ \A d \in Classes : d # c => cache'[d] = cache[d]
      /\ head'[c] = m /\ \A d \in Classes : d # c => head'[d] = head[d]
  BY <1>0, <1>2 DEF TypeOK
<1>5. /\ t \in Seq(Md) /\ Len(t) = Len(s) + 1 /\ t[1] = m
      /\ \A i \in 1 .. Len(s) : t[i + 1] = s[i]
  BY <1>t, PushAt
<1>s. /\ t # << >> /\ 1 \in 1 .. Len(t)
      /\ (IF 1 = Len(t) THEN END ELSE t[1 + 1]) = (IF s = << >> THEN END ELSE s[1])
      /\ \A j \in 1 .. Len(t) :
           j = 1 \/ \E i \in 1 .. Len(s) :
             /\ j = i + 1 /\ t[j] = s[i]
             /\ (IF j = Len(t) THEN END ELSE t[j + 1])
                   = (IF i = Len(s) THEN END ELSE s[i + 1])
      /\ \A i \in 1 .. Len(s) : i + 1 \in 1 .. Len(t)
  BY <1>t, PushSeq
<1>6. \A d \in Classes : \A j \in 1 .. Len(cache'[d]) :
        \/ d = c /\ j = 1 /\ cache'[d][j] = m
        \/ \E i \in 1 .. Len(cache[d]) : /\ cache'[d][j] = cache[d][i]
                                         /\ j = IF d = c THEN i + 1 ELSE i
  <2> SUFFICES ASSUME NEW d \in Classes, NEW j \in 1 .. Len(cache'[d]),
                      ~ (d = c /\ j = 1 /\ cache'[d][j] = m)
               PROVE  \E i \in 1 .. Len(cache[d]) : /\ cache'[d][j] = cache[d][i]
                                                    /\ j = IF d = c THEN i + 1 ELSE i
    OBVIOUS
  <2>1. CASE d # c BY <1>4, <2>1
  <2>2. CASE d = c
    <3>1. j \in 1 .. Len(t) /\ cache'[d][j] = t[j] BY <1>4, <2>2
    <3>2. j # 1 BY <1>5, <2>2, <3>1
    <3>3. PICK i \in 1 .. Len(s) : j = i + 1 /\ t[j] = s[i] BY <1>s, <3>1, <3>2
    <3> QED BY <1>q, <2>2, <3>1, <3>3
  <2> QED BY <2>1, <2>2
<1>7. \A d \in Classes : \A i \in 1 .. Len(cache[d]) :
        \E j \in 1 .. Len(cache'[d]) : cache'[d][j] = cache[d][i]
  <2> SUFFICES ASSUME NEW d \in Classes, NEW i \in 1 .. Len(cache[d])
               PROVE  \E j \in 1 .. Len(cache'[d]) : cache'[d][j] = cache[d][i]
    OBVIOUS
  <2>1. CASE d # c BY <1>4, <2>1
  <2>2. CASE d = c
    <3>1. i \in 1 .. Len(s) /\ cache[d][i] = s[i] BY <1>q, <2>2
    <3>2. i + 1 \in 1 .. Len(t) /\ t[i + 1] = s[i] BY <1>5, <1>s, <3>1
    <3> QED BY <1>4, <2>2, <3>1, <3>2
  <2> QED BY <2>1, <2>2
<1>8. \A b : InCache(b) => InCache(b)'
  <2> SUFFICES ASSUME NEW b, NEW d \in Classes, NEW i \in 1 .. Len(cache[d]),
                      cache[d][i].blk = b
               PROVE  InCache(b)'
    BY DEF InCache
  <2>1. PICK j \in 1 .. Len(cache'[d]) : cache'[d][j] = cache[d][i] BY <1>7
  <2>2. cache'[d][j].blk = b BY <2>1
  <2> QED BY <2>2 DEF InCache
<1>9. \A b : InCache(b)' => InCache(b) \/ b = m.blk
  <2> SUFFICES ASSUME NEW b, NEW d \in Classes, NEW j \in 1 .. Len(cache'[d]),
                      cache'[d][j].blk = b, b # m.blk
               PROVE  InCache(b)
    BY DEF InCache
  <2>1. PICK i \in 1 .. Len(cache[d]) : cache'[d][j] = cache[d][i] BY <1>6
  <2> QED BY <2>1 DEF InCache
<1>10. InCache(m.blk)' BY <1>2, <1>4, <1>5, <1>s DEF InCache
<1>11. TypeOK'
  <2>1. cache' \in [Classes -> Seq(Md)] BY <1>0, <1>2, <1>5 DEF TypeOK
  <2>2. head' \in [Classes -> Md \cup {END}] BY <1>0, <1>2 DEF TypeOK
  <2> QED BY <1>0, <2>1, <2>2 DEF TypeOK, base, regs, Labels
<1>12. VersionsOK'
  BY <1>1, <1>2, MidCallVersions DEF Allocating, Releasing, Popping, base
<1>13. \A n : Current(n)' <=> Current(n) BY <1>2 DEF Current
<1>14. ~ InHand(p)' BY <1>2 DEF InHand
<1>15. ProcsOK'
  <2>1. (KOK(p) /\ HandOK(p) /\ FreshOK(p) /\ SeenOK(p))'
    BY <1>2, <1>14 DEF KOK, HandOK, FreshOK, SeenOK
  <2>2. ASSUME NEW q \in Procs, q # p PROVE (KOK(q) /\ FreshOK(q))'
    BY <1>0, <1>1, <1>2, <1>13, <2>2 DEF OthersKept, ProcsOK, KOK, FreshOK
  <2>3. ASSUME NEW q \in Procs, q # p PROVE HandOK(q)'
    <3> SUFFICES ASSUME InHand(q)' PROVE HandOK(q)' BY DEF HandOK
    <3>1. InHand(q) BY <1>1, <2>3 DEF OthersKept, InHand
    <3>2. md[q].blk # m.blk /\ HandOK(q) BY <1>0, <1>3, <2>3, <3>1 DEF ProcsOK
    <3>3. ~ InCache(md[q].blk)' BY <1>2, <1>9, <3>1, <3>2 DEF HandOK
    <3> QED BY <1>1, <1>2, <1>13, <2>3, <3>1, <3>2, <3>3 DEF OthersKept, HandOK
  <2>4. ASSUME NEW q \in Procs, q # p PROVE SeenOK(q)'
    <3>1. Gone(seen[q]) => Gone(seen[q])'
      BY <1>1, <1>2 DEF Gone, OthersKept, Popping
    <3>2. ASSUME seen[q] \in Cached(k[q]), k[q] \in Classes
          PROVE  seen[q] \in Cached(k[q])'
      <4>1. PICK i \in 1 .. Len(cache[k[q]]) : cache[k[q]][i] = seen[q] BY <3>2 DEF Cached
      <4>2. PICK j \in 1 .. Len(cache'[k[q]]) : cache'[k[q]][j] = cache[k[q]][i]
        BY <1>7, <3>2
      <4>3. k'[q] = k[q] /\ seen'[q] = seen[q] BY <1>2
      <4> QED BY <4>1, <4>2, <4>3 DEF Cached
    <3>3. SeenOK(q) /\ (pc[q] \in {"popNext", "popCas"} => k[q] \in Classes)
      BY <1>0 DEF ProcsOK, KOK, InClass, Labels
    <3> QED BY <1>1, <1>2, <2>4, <3>1, <3>2, <3>3 DEF SeenOK, OthersKept
  <2> QED BY <2>1, <2>2, <2>3, <2>4 DEF ProcsOK
<1>16. Alone' BY <1>0, <1>1, <1>2, <1>14 DEF Alone, OthersKept, InHand
<1>17. PlacesOK'
  <2>1. \A b \in inBase' : ref'[b] = 0 /\ ~ InCache(b)' BY <1>0, <1>2, <1>3, <1>9 DEF PlacesOK
  <2>2. ASSUME NEW d \in Classes, NEW e \in Classes,
               NEW i \in 1 .. Len(cache'[d]), NEW j \in 1 .. Len(cache'[e]),
               cache'[d][i].blk = cache'[e][j].blk
        PROVE  d = e /\ i = j
    <3>1. CASE cache'[d][i].blk = m.blk
      <4>1. \A f \in Classes : \A x \in 1 .. Len(cache[f]) : cache[f][x].blk # m.blk
        BY <1>3 DEF InCache
      <4>2. d = c /\ i = 1
        <5>1. ~ \E x \in 1 .. Len(cache[d]) : cache'[d][i] = cache[d][x] BY <3>1, <4>1
        <5> QED BY <1>6, <5>1
      <4>3. e = c /\ j = 1
        <5>1. ~ \E x \in 1 .. Len(cache[e]) : cache'[e][j] = cache[e][x]
          BY <2>2, <3>1, <4>1
        <5> QED BY <1>6, <5>1
      <4> QED BY <4>2, <4>3
    <3>2. CASE cache'[d][i].blk # m.blk
      <4>1. PICK x \in 1 .. Len(cache[d]) : cache'[d][i] = cache[d][x]
                                            /\ i = IF d = c THEN x + 1 ELSE x
        BY <1>6, <3>2
      <4>2. PICK y \in 1 .. Len(cache[e]) : cache'[e][j] = cache[e][y]
                                            /\ j = IF e = c THEN y + 1 ELSE y
        BY <1>6, <2>2, <3>2
      <4>3. cache[d][x].blk = cache[e][y].blk BY <2>2, <4>1, <4>2
      <4>4. d = e /\ x = y BY <1>0, <4>3 DEF PlacesOK
      <4> QED BY <4>1, <4>2, <4>4
    <3> QED BY <3>1, <3>2
  <2>3. ASSUME NEW b \in Blocks
        PROVE  b \in inBase' \/ ref'[b] > 0 \/ InCache(b)' \/ Hands(b)' # {}
    <3>1. CASE b = m.blk BY <1>10, <3>1
    <3>2. CASE b # m.blk
      <4>1. Hands(b) # {} => Hands(b)' # {}
        BY <1>1, <1>2, <1>m, <3>2 DEF Hands, OthersKept, InHand
      <4> QED BY <1>0, <1>2, <1>8, <4>1 DEF PlacesOK
    <3> QED BY <3>1, <3>2
  <2> QED BY <2>1, <2>2, <2>3 DEF PlacesOK
<1>18. CountsOK' BY <1>0, <1>2, <1>13 DEF CountsOK
<1>19. CacheOK'
  <2> SUFFICES ASSUME NEW d \in Classes PROVE StackOK(d)' BY CacheOKIs
  <2>0. StackOK(d) BY <1>0, CacheOKIs
  <2>1. CASE d # c
    BY <1>2, <1>4, <1>13, <2>0, <2>1 DEF StackOK, HeadOK, LinkOK
  <2>2. CASE d = c
    <3>1. HeadOK(c)' BY <1>4, <1>5, <1>s DEF HeadOK
    <3>2. ASSUME NEW j \in 1 .. Len(t) PROVE LinkOK(c, j)'
      <4>1. CASE j = 1
        <5>1. word'[t[1].blk] = IF 1 = Len(t) THEN END ELSE t[1 + 1]
          BY <1>2, <1>5, <1>s, <1>w
        <5>2. Current(m)' /\ ref'[m.blk] = 0 /\ size'[m.blk] = BlockSize(c)
          BY <1>2, <1>3, <1>13
        <5>3. /\ word'[t[j].blk] = IF j = Len(t) THEN END ELSE t[j + 1]
              /\ Current(t[j])' /\ ref'[t[j].blk] = 0 /\ size'[t[j].blk] = BlockSize(c)
          <6>1. t[j] = m BY <1>5, <4>1
          <6>2. word'[t[j].blk] = IF j = Len(t) THEN END ELSE t[j + 1] BY <4>1, <5>1
          <6>3. Current(t[j])' BY <5>2, <6>1
          <6> QED BY <5>2, <6>1, <6>2, <6>3
        <5> QED BY <1>4, <5>3 DEF LinkOK
      <4>2. CASE j # 1
        <5>1. PICK i \in 1 .. Len(s) :
                /\ t[j] = s[i]
                /\ (IF j = Len(t) THEN END ELSE t[j + 1])
                      = (IF i = Len(s) THEN END ELSE s[i + 1])
          BY <1>s, <4>2
        <5>2. /\ word[s[i].blk] = IF i = Len(s) THEN END ELSE s[i + 1]
              /\ Current(s[i]) /\ ref[s[i].blk] = 0 /\ size[s[i].blk] = BlockSize(c)
          BY <1>q, <2>0, <2>2 DEF StackOK, LinkOK
        <5>3. /\ word'[t[j].blk] = IF j = Len(t) THEN END ELSE t[j + 1]
              /\ Current(t[j])' /\ ref'[t[j].blk] = 0 /\ size'[t[j].blk] = BlockSize(c)
          BY <1>2, <1>13, <5>1, <5>2
        <5> QED BY <1>4, <5>3 DEF LinkOK
      <4> QED BY <4>1, <4>2
    <3> QED BY <1>4, <2>2, <3>1, <3>2 DEF StackOK
  <2> QED BY <2>1, <2>2
<1> QED BY <1>11, <1>12, <1>15, <1>16, <1>17, <1>18, <1>19 DEF IInv
-----------------------------------------------------------------------------
(* The variable allocator and the clients.                                 *)

(***************************************************************************)
(* A step of p that changes what the variable allocator and the clients    *)
(* know of block b and nothing of any other, while b is in no cache and in *)
(* no other process's hand.                                                *)
(***************************************************************************)
LEMMA BlockStep ==
  ASSUME IInv, NEW p \in Procs, NEW b \in Blocks, OthersKept(p),
         UNCHANGED <<word, head, cache>>, TypeOK', VersionsOK',
         ~ InCache(b),
         \A a \in Blocks : a # b => /\ ver'[a] = ver[a] /\ ref'[a] = ref[a]
                                    /\ size'[a] = size[a] /\ (a \in inBase' <=> a \in inBase),
         ver'[b] >= ver[b],
         pc[p] \in Popping => ver'[md[p].blk] > ver[md[p].blk],
         issued \subseteq issued',
         \A m \in issued' \ issued : m.ver <= ver'[m.blk],
         \A m \in Md : m.blk # b => out'[m] = out[m],
         \A m \in Md : m.blk = b /\ out'[m] > 0 =>
            m \in issued' /\ Current(m)' /\ out'[m] <= ref'[b],
         ref'[b] > 0 => size'[b] \in {BlockSize(c) : c \in Classes} \cup LargeSizes,
         KOK(p)', HandOK(p)', FreshOK(p)', SeenOK(p)',
         \A q \in Procs : q # p /\ InHand(q) => md[q].blk # b,
         InHand(p) => md[p].blk = b,
         InHand(p)' => md'[p].blk = b,
         \A q \in Procs : q # p /\ pc[q] = "baseUsed" /\ md[q].blk = b =>
            /\ Current(md[q])' /\ out'[md[q]] < ref'[b]
            /\ pc'[p] = "baseUsed" => md'[p] # md[q],
         pc'[p] = "baseUsed" => md'[p].blk = b,
         b \in inBase' => ref'[b] = 0,
         b \in inBase' \/ ref'[b] > 0 \/ InHand(p)'
  PROVE  IInv'
<1>0. /\ TypeOK /\ ProcsOK /\ Alone /\ PlacesOK /\ CountsOK /\ CacheOK
      /\ \A a \in Blocks : ver[a] \in Nat /\ ver'[a] \in Nat
  BY FixedVersionsAssumption DEF IInv, TypeOK
<1>1. \A a : InCache(a)' <=> InCache(a) BY DEF InCache
<1>2. \A m : m.blk \in Blocks /\ m.blk # b => (Current(m)' <=> Current(m)) BY DEF Current
<1>3. \A m \in Md : m.blk \in Blocks /\ m.ver \in Nat
  BY FixedVersionsAssumption DEF Md
<1>4. ASSUME NEW m \in Md, Gone(m) PROVE Gone(m)'
  <2>1. \A a \in Blocks : ver'[a] \in Nat /\ ver'[a] >= ver[a] BY <1>0
  <2>2. \A q \in Procs : pc[q] \in Popping =>
            \/ pc'[q] \in Popping /\ md'[q] = md[q]
            \/ ver'[md[q].blk] > ver[md[q].blk]
    BY DEF OthersKept
  <2> QED BY <1>4, <2>1, <2>2, GoneStays
<1>5. \A q \in Procs : q # p => (InHand(q)' <=> InHand(q)) /\ md'[q] = md[q]
  BY DEF OthersKept, InHand
<1>6. ProcsOK'
  <2>1. ASSUME NEW q \in Procs, q # p PROVE KOK(q)'
    BY <1>0, <2>1 DEF OthersKept, ProcsOK, KOK
  <2>2. ASSUME NEW q \in Procs, q # p PROVE HandOK(q)'
    <3> SUFFICES ASSUME InHand(q)' PROVE HandOK(q)' BY DEF HandOK
    <3>1. InHand(q) /\ HandOK(q) BY <1>0, <1>5, <2>2 DEF ProcsOK
    <3>2. md[q] \in Md /\ md[q].blk \in Blocks /\ md[q].blk # b
      BY <1>3, <2>2, <3>1 DEF HandOK
    <3> QED BY <1>1, <1>2, <1>5, <2>2, <3>1, <3>2 DEF OthersKept, HandOK
  <2>3. ASSUME NEW q \in Procs, q # p PROVE FreshOK(q)'
    <3> SUFFICES ASSUME pc[q] = "baseUsed" PROVE FreshOK(q)'
      BY <2>3 DEF FreshOK, OthersKept
    <3>1. /\ FreshOK(q) /\ md'[q] = md[q] /\ md[q] \in issued /\ md[q] \in Md
          /\ md[q].blk \in Blocks
      BY <1>0, <1>3, <1>5, <2>3 DEF ProcsOK, FreshOK, TypeOK
    <3>2. CASE md[q].blk = b BY <2>3, <3>1, <3>2 DEF FreshOK
    <3>3. CASE md[q].blk # b BY <1>2, <2>3, <3>1, <3>3 DEF FreshOK
    <3> QED BY <3>2, <3>3
  <2>4. ASSUME NEW q \in Procs, q # p PROVE SeenOK(q)'
    <3> SUFFICES ASSUME pc[q] \in {"popNext", "popCas"} PROVE SeenOK(q)'
      BY <2>4 DEF SeenOK, OthersKept
    <3>1. /\ SeenOK(q) /\ seen[q] \in Md /\ pc'[q] = pc[q] /\ seen'[q] = seen[q]
          /\ link'[q] = link[q] /\ k'[q] = k[q]
      BY <1>0, <2>4 DEF ProcsOK, SeenOK, OthersKept
    <3>2. Gone(seen[q]) => Gone(seen[q])' BY <1>4, <3>1
    <3>3. Cached(k[q])' = Cached(k[q]) BY <3>1 DEF Cached
    <3> QED BY <3>1, <3>2, <3>3 DEF SeenOK
  <2> QED BY <2>1, <2>2, <2>3, <2>4 DEF ProcsOK
<1>7. Alone'
  <2>1. ASSUME NEW q \in Procs, NEW r \in Procs, InHand(q)', InHand(r)',
               md'[q].blk = md'[r].blk
        PROVE  q = r
    BY <1>0, <1>5, <2>1 DEF Alone
  <2>2. ASSUME NEW q \in Procs, NEW r \in Procs, pc'[q] = "baseUsed", pc'[r] = "baseUsed",
               md'[q] = md'[r]
        PROVE  q = r
    BY <1>0, <2>2 DEF Alone, OthersKept
  <2> QED BY <2>1, <2>2 DEF Alone
<1>8. PlacesOK'
  <2>1. \A a \in inBase' : ref'[a] = 0 /\ ~ InCache(a)'
    <3>1. inBase' \subseteq Blocks BY DEF TypeOK
    <3> QED BY <1>0, <1>1, <3>1 DEF PlacesOK
  <2>2. ASSUME NEW a \in Blocks
        PROVE  a \in inBase' \/ ref'[a] > 0 \/ InCache(a)' \/ Hands(a)' # {}
    <3>1. CASE a = b BY <3>1 DEF Hands
    <3>2. CASE a # b
      <4>1. Hands(a) # {} => Hands(a)' # {}
        <5> SUFFICES ASSUME NEW q \in Hands(a) PROVE q \in Hands(a)' OBVIOUS
        <5>1. q \in Procs /\ InHand(q) /\ md[q].blk = a BY DEF Hands
        <5>2. q # p BY <3>2, <5>1
        <5> QED BY <1>5, <5>1, <5>2 DEF Hands
      <4> QED BY <1>0, <1>1, <3>2, <4>1 DEF PlacesOK
    <3> QED BY <3>1, <3>2
  <2> QED BY <1>0, <2>1, <2>2 DEF PlacesOK
<1>9. CountsOK'
  <2>1. ASSUME NEW m \in Md, out'[m] > 0
        PROVE  m \in issued' /\ Current(m)' /\ out'[m] <= ref'[m.blk]
    <3>1. CASE m.blk = b BY <2>1, <3>1
    <3>2. CASE m.blk # b BY <1>0, <1>2, <1>3, <2>1, <3>2 DEF CountsOK
    <3> QED BY <3>1, <3>2
  <2>2. ASSUME NEW m \in issued' PROVE m.ver <= ver'[m.blk]
    <3>1. CASE m \in issued
      <4>1. m.ver <= ver[m.blk] /\ m \in Md BY <1>0, <3>1 DEF CountsOK, TypeOK
      <4>2. ver'[m.blk] >= ver[m.blk] BY <1>0, <1>3, <4>1
      <4> QED BY <1>0, <1>3, <4>1, <4>2
    <3>2. CASE m \notin issued BY <3>2
    <3> QED BY <3>1, <3>2
  <2>3. \A a \in Blocks : ref'[a] > 0 =>
          size'[a] \in {BlockSize(c) : c \in Classes} \cup LargeSizes
    BY <1>0 DEF CountsOK
  <2> QED BY <2>1, <2>2, <2>3 DEF CountsOK
<1>10. CacheOK'
  <2> SUFFICES ASSUME NEW c \in Classes PROVE StackOK(c)' BY CacheOKIs
  <2>1. StackOK(c) BY <1>0, CacheOKIs
  <2>2. ASSUME NEW i \in 1 .. Len(cache[c]) PROVE LinkOK(c, i)'
    <3>1. cache[c][i].blk \in Blocks /\ cache[c][i].blk # b
      BY <1>0, CachedBlocks DEF InCache
    <3>2. LinkOK(c, i) BY <2>1 DEF StackOK
    <3> QED BY <1>2, <3>1, <3>2 DEF LinkOK
  <2> QED BY <2>1, <2>2 DEF StackOK, HeadOK
<1> QED BY <1>6, <1>7, <1>8, <1>9, <1>10 DEF IInv

\* A block with references, or free in the variable allocator, is in no cache
\* and in no hand.
LEMMA ElsewhereFacts ==
  ASSUME IInv, NEW b \in Blocks, ref[b] > 0 \/ b \in inBase
  PROVE  /\ ~ InCache(b)
         /\ \A q \in Procs : InHand(q) => md[q].blk # b
         /\ b \in inBase => ref[b] = 0
<1>1. \A c \in Classes : \A i \in 1 .. Len(cache[c]) : ref[cache[c][i].blk] = 0
  BY DEF IInv, CacheOK
<1>2. ~ InCache(b) BY <1>1 DEF IInv, InCache, PlacesOK
<1>3. \A q \in Procs : InHand(q) => md[q].blk # b BY HandFacts
<1> QED BY <1>2, <1>3 DEF IInv, PlacesOK

\* A block without references has no descriptor that clients hold.
LEMMA NoneHeld ==
  ASSUME IInv, NEW b \in Blocks, ref[b] = 0
  PROVE  /\ \A m \in Md : m.blk = b => out[m] = 0
         /\ \A q \in Procs : pc[q] = "baseUsed" => md[q].blk # b
<1>1. \A m \in Md : out[m] \in Nat BY DEF IInv, TypeOK
<1>2. \A m \in Md : m.blk = b => out[m] = 0 BY <1>1 DEF IInv, CountsOK
<1>3. ASSUME NEW q \in Procs, pc[q] = "baseUsed", md[q].blk = b PROVE FALSE
  <2>1. md[q] \in Md /\ out[md[q]] < ref[b] BY <1>3 DEF IInv, ProcsOK, FreshOK, TypeOK
  <2> QED BY <1>1, <2>1
<1> QED BY <1>2, <1>3

LEMMA IdleType ==
  ASSUME TypeOK, NEW p \in Procs, Idle(p)
  PROVE  /\ pc' \in [Procs -> Labels] /\ k' \in [Procs -> Nat]
         /\ md' \in [Procs -> Md \cup {END}] /\ seen' \in [Procs -> Md \cup {END}]
         /\ link' \in [Procs -> Md \cup {END, JUNK}] /\ seenUsed' \in [Procs -> Counter]
         /\ pc'[p] = "idle" /\ OthersKept(p)
BY FixedSizesAssumption DEF TypeOK, Idle, GoTo, Labels, Counter, OthersKept

LEMMA DupNewStep ==
  ASSUME IInv, NEW p \in Procs, DupNew(p) PROVE IInv'
<1> USE DEF DupNew, HandOut, Idle, GoTo
<1>0. TypeOK /\ KOK(p) /\ CountsOK /\ VersionsOK BY DEF IInv, ProcsOK
<1>1. OthersKept(p) BY <1>0 DEF TypeOK, OthersKept
<1>2. pc[p] = "dupNew" /\ InHand(p) /\ p \in Allocated /\ k[p] \in Classes
  BY <1>0 DEF InHand, Allocated, Allocating, Popping, KOK, InClass, Labels
<1>3. PICK b \in Blocks : b = md[p].blk BY <1>2, HandFacts
<1>4. /\ ref[b] = 0 /\ b \notin inBase /\ ~ InCache(b) /\ size[b] = BlockSize(k[p])
      /\ \A q \in Procs : q # p /\ InHand(q) => md[q].blk # b
  BY <1>2, <1>3, HandFacts
<1>5. PICK r \in Md : r = Raised(b) /\ r.blk = b /\ r.ver = ver[b] + 1
                      /\ ver[b] + 1 \in 0 .. Versions - 1
  BY <1>0, <1>2, VersionLeft
<1>6. /\ ver' = [ver EXCEPT ![b] = ver[b] + 1] /\ ref' = [ref EXCEPT ![b] = 1]
      /\ issued' = issued \cup {r} /\ out' = [out EXCEPT ![r] = out[r] + 1]
      /\ UNCHANGED <<size, inBase, word, head, used, free, allocs, cache, dead>>
  BY <1>0, <1>3, <1>5 DEF supers
<1>7. ver[b] \in Nat /\ \A m \in Md : out[m] \in Nat
  BY <1>0, FixedVersionsAssumption DEF TypeOK
<1>8. /\ \A a \in Blocks : a # b => ver'[a] = ver[a] /\ ref'[a] = ref[a]
      /\ ver'[b] = ver[b] + 1 /\ ref'[b] = 1
      /\ out'[r] = out[r] + 1 /\ \A m \in Md : m # r => out'[m] = out[m]
  BY <1>0, <1>6 DEF TypeOK
<1>9. (\A m \in Md : m.blk = b => out[m] = 0)
      /\ \A q \in Procs : pc[q] = "baseUsed" => md[q].blk # b
  BY <1>4, NoneHeld
<1>10. pc'[p] = "idle" BY <1>0 DEF TypeOK
<1>11. TypeOK'
  <2>0. ver[b] + 1 \in 0 .. Versions - 1 BY <1>5
  <2>1. ver' \in [Blocks -> 0 .. Versions - 1] BY <1>0, <1>6, <2>0 DEF TypeOK
  <2>2. ref' \in [Blocks -> Nat] BY <1>0, <1>6 DEF TypeOK
  <2>3. out' \in [Md -> Nat] /\ issued' \subseteq Md BY <1>0, <1>6, <1>7 DEF TypeOK
  <2>4. Idle(p) OBVIOUS
  <2>5. /\ pc' \in [Procs -> Labels] /\ k' \in [Procs -> Nat]
        /\ md' \in [Procs -> Md \cup {END}] /\ seen' \in [Procs -> Md \cup {END}]
        /\ link' \in [Procs -> Md \cup {END, JUNK}] /\ seenUsed' \in [Procs -> Counter]
    BY <1>0, <2>4, IdleType
  <2> HIDE DEF DupNew, HandOut, Idle, GoTo
  <2> QED BY <1>0, <1>6, <2>1, <2>2, <2>3, <2>5 DEF TypeOK
<1>12. VersionsOK'
  <2>1. Allocated' = Allocated \ {p}
    BY <1>1, <1>10 DEF Allocated, Allocating, OthersKept, Popping
  <2>2. \A a \in Blocks : ver'[a] = ver[a] \/ ver'[a] = ver[a] + 1 BY <1>8
  <2> QED BY <1>0, <1>2, <1>6, <2>1, <2>2, VersionsEnd
<1>13. ~ InHand(p)' /\ (KOK(p) /\ HandOK(p) /\ FreshOK(p) /\ SeenOK(p))'
  BY <1>10 DEF KOK, HandOK, FreshOK, SeenOK, InHand, InClass
<1>14. ver'[b] > ver[b] /\ ver'[b] >= ver[b] BY <1>7, <1>8
<1>15. \A m \in Md : m.blk = b /\ out'[m] > 0 =>
          m \in issued' /\ Current(m)' /\ out'[m] <= ref'[b]
  <2> SUFFICES ASSUME NEW m \in Md, m.blk = b, out'[m] > 0
               PROVE  m \in issued' /\ Current(m)' /\ out'[m] <= ref'[b]
    OBVIOUS
  <2>1. m = r BY <1>8, <1>9
  <2>2. out'[r] = 1 BY <1>5, <1>8, <1>9
  <2> QED BY <1>5, <1>6, <1>8, <2>1, <2>2 DEF Current
<1>16. size'[b] \in {BlockSize(c) : c \in Classes} BY <1>2, <1>4, <1>6
<1>17. \A m \in issued' \ issued : m.ver <= ver'[m.blk]
  BY <1>5, <1>6, <1>7, <1>8
<1>18. \A a \in Blocks : a # b => /\ ver'[a] = ver[a] /\ ref'[a] = ref[a]
                                  /\ size'[a] = size[a] /\ (a \in inBase' <=> a \in inBase)
  BY <1>6, <1>8
<1>19. \A m \in Md : m.blk # b => out'[m] = out[m] BY <1>5, <1>8
<1>20. ref'[b] > 0 BY <1>8
<1>21. b \notin inBase' /\ issued \subseteq issued' BY <1>4, <1>6
<1> QED
  BY <1>1, <1>3, <1>4, <1>6, <1>9, <1>10, <1>11, <1>12, <1>13, <1>14, <1>15, <1>16, <1>17,
     <1>18, <1>19, <1>20, <1>21, BlockStep

\* What allocate of the variable allocator does, wherever the block then goes.
LEMMA BaseStep ==
  ASSUME IInv, NEW p \in Procs, NEW b \in Blocks, NEW n \in Nat, NEW r \in Md,
         BaseBlock(p, b, n), r = Raised(b), OthersKept(p), TypeOK',
         pc[p] \in {"base", "largeBase"}, pc'[p] \in {"baseUsed", "idle"},
         UNCHANGED <<word, head, cache, allocs>>,
         n \in {BlockSize(c) : c \in Classes} \cup LargeSizes,
         KOK(p)',
         pc'[p] = "baseUsed" => md'[p] = r /\ out' = out,
         pc'[p] = "idle" => out' = [out EXCEPT ![r] = @ + 1]
  PROVE  IInv'
<1> USE DEF BaseBlock
<1>0. TypeOK /\ CountsOK /\ VersionsOK BY DEF IInv
<1>2. p \in Allocated /\ ~ InHand(p) /\ ~ InHand(p)'
  BY DEF InHand, Allocated, Allocating
<1>5. r.blk = b /\ r.ver = ver[b] + 1 BY <1>0, <1>2, VersionLeft
<1>6. /\ ver' = [ver EXCEPT ![b] = ver[b] + 1] /\ ref' = [ref EXCEPT ![b] = 1]
      /\ size' = [size EXCEPT ![b] = n] /\ inBase' = inBase \ {b}
      /\ issued' = issued \cup {r} /\ b \in inBase
  BY <1>0
<1>7. ver[b] \in Nat /\ \A m \in Md : out[m] \in Nat
  BY <1>0, FixedVersionsAssumption DEF TypeOK
<1>8. /\ \A a \in Blocks : a # b => ver'[a] = ver[a] /\ ref'[a] = ref[a] /\ size'[a] = size[a]
      /\ ver'[b] = ver[b] + 1 /\ ref'[b] = 1 /\ size'[b] = n
  BY <1>0, <1>6 DEF TypeOK
<1>9. /\ ~ InCache(b) /\ ref[b] = 0
      /\ \A q \in Procs : InHand(q) => md[q].blk # b
  BY <1>6, ElsewhereFacts
<1>10. (\A m \in Md : m.blk = b => out[m] = 0)
       /\ \A q \in Procs : pc[q] = "baseUsed" => md[q].blk # b
  BY <1>9, NoneHeld
<1>11. (\A m \in Md : m # r => out'[m] = out[m]) /\ out'[r] \in {0, 1}
       /\ (pc'[p] = "baseUsed" => out'[r] = 0)
  <2>1. out[r] = 0 BY <1>5, <1>10
  <2>2. CASE pc'[p] = "baseUsed" BY <2>1, <2>2
  <2>3. CASE pc'[p] = "idle" BY <1>0, <2>1, <2>3 DEF TypeOK
  <2> QED BY <2>2, <2>3
<1>12. VersionsOK'
  <2>1. Allocated' = Allocated \ {p}
    BY DEF Allocated, Allocating, OthersKept, Popping
  <2>2. \A a \in Blocks : ver'[a] = ver[a] \/ ver'[a] = ver[a] + 1 BY <1>8
  <2> QED BY <1>0, <1>2, <2>1, <2>2, VersionsEnd
<1>13. r \in issued' /\ Current(r)' BY <1>5, <1>6, <1>8 DEF Current
<1>14. (HandOK(p) /\ SeenOK(p))' BY <1>2 DEF HandOK, SeenOK
<1>15. FreshOK(p)'
  <2>1. CASE pc'[p] = "baseUsed"
    <3>1. md'[p] = r /\ out'[r] < ref'[b] BY <1>8, <1>11, <2>1
    <3>2. (Current(md[p]))' BY <1>13, <3>1 DEF Current
    <3> QED BY <1>5, <1>13, <3>1, <3>2 DEF FreshOK
  <2>2. CASE pc'[p] # "baseUsed" BY <2>2 DEF FreshOK
  <2> QED BY <2>1, <2>2
<1>16. \A m \in Md : m.blk = b /\ out'[m] > 0 =>
          m \in issued' /\ Current(m)' /\ out'[m] <= ref'[b]
  <2> SUFFICES ASSUME NEW m \in Md, m.blk = b, out'[m] > 0
               PROVE  m \in issued' /\ Current(m)' /\ out'[m] <= ref'[b]
    OBVIOUS
  <2>1. m = r BY <1>10, <1>11
  <2> QED BY <1>8, <1>11, <1>13, <2>1
<1>17. \A m \in issued' \ issued : m.ver <= ver'[m.blk]
  BY <1>5, <1>6, <1>7, <1>8
<1>18. \A a \in Blocks : a # b => /\ ver'[a] = ver[a] /\ ref'[a] = ref[a]
                                  /\ size'[a] = size[a] /\ (a \in inBase' <=> a \in inBase)
  BY <1>6, <1>8
<1>19. \A m \in Md : m.blk # b => out'[m] = out[m] BY <1>5, <1>11
<1>20. /\ ref'[b] > 0 /\ ver'[b] >= ver[b] /\ b \notin inBase' /\ issued \subseteq issued'
       /\ size'[b] \in {BlockSize(c) : c \in Classes} \cup LargeSizes
       /\ pc[p] \notin Popping
       /\ pc'[p] = "baseUsed" => md'[p].blk = b
  BY <1>5, <1>6, <1>7, <1>8 DEF Popping
<1> QED
  BY <1>2, <1>9, <1>10, <1>12, <1>14, <1>15, <1>16, <1>17, <1>18, <1>19, <1>20, BlockStep

LEMMA BaseAllocateSteps ==
  ASSUME IInv, NEW p \in Procs, BaseAllocate(p) \/ LargeAllocate(p) PROVE IInv'
<1> USE DEF GoTo
<1>0. TypeOK /\ KOK(p) /\ VersionsOK BY DEF IInv, ProcsOK
<1>n. \A m \in Md : out[m] \in Nat BY <1>0 DEF TypeOK
<1>1. CASE BaseAllocate(p)
  <2> USE DEF BaseAllocate
  <2>1. OthersKept(p) BY <1>0, <1>1 DEF TypeOK, OthersKept
  <2>2. pc[p] = "base" /\ k[p] \in Classes /\ k'[p] = k[p] /\ pc'[p] = "baseUsed"
    BY <1>0, <1>1 DEF TypeOK, KOK, InClass, Labels
  <2>3. PICK b \in Blocks : /\ BaseBlock(p, b, BlockSize(k[p]))
                            /\ md' = [md EXCEPT ![p] = Raised(b)]
    BY <1>1
  <2>4. PICK r \in Md : r = Raised(b) /\ ver[b] + 1 \in 0 .. Versions - 1
    <3>1. p \in Allocated BY <2>2 DEF Allocated, Allocating
    <3> QED BY <1>0, <3>1, VersionLeft
  <2>5. BlockSize(k[p]) \in Nat BY <2>2, FixedClassesAssumption
  <2>6. TypeOK'
    <3>1. ver' \in [Blocks -> 0 .. Versions - 1] BY <1>0, <2>3, <2>4 DEF TypeOK, BaseBlock
    <3>2. /\ ref' \in [Blocks -> Nat] /\ size' \in [Blocks -> Nat]
          /\ inBase' \subseteq Blocks /\ issued' \subseteq Md
      BY <1>0, <2>3, <2>4, <2>5 DEF TypeOK, BaseBlock
    <3>3. md' \in [Procs -> Md \cup {END}] /\ pc' \in [Procs -> Labels]
      BY <1>0, <1>1, <2>3, <2>4 DEF TypeOK, Labels
    <3> QED BY <1>0, <1>1, <3>1, <3>2, <3>3 DEF TypeOK, supers
  <2>7. md'[p] = r BY <1>0, <2>3, <2>4 DEF TypeOK
  <2>8. KOK(p)' BY <2>2 DEF KOK
  <2> QED BY <1>1, <2>1, <2>2, <2>3, <2>4, <2>5, <2>6, <2>7, <2>8, BaseStep DEF supers
<1>2. CASE LargeAllocate(p)
  <2> USE DEF LargeAllocate, HandOut, Idle
  <2>1. OthersKept(p) BY <1>0, <1>2 DEF TypeOK, OthersKept
  <2>2. pc[p] = "largeBase" /\ k[p] \in LargeSizes /\ pc'[p] = "idle"
    BY <1>0, <1>2 DEF TypeOK, KOK
  <2>3. PICK b \in Blocks : /\ BaseBlock(p, b, k[p])
                            /\ out' = [out EXCEPT ![Raised(b)] = @ + 1]
    BY <1>2
  <2>4. PICK r \in Md : r = Raised(b) /\ ver[b] + 1 \in 0 .. Versions - 1
    <3>1. p \in Allocated BY <2>2 DEF Allocated, Allocating
    <3> QED BY <1>0, <3>1, VersionLeft
  <2>5. k[p] \in Nat BY <1>0 DEF TypeOK
  <2>6. TypeOK'
    <3>1. ver' \in [Blocks -> 0 .. Versions - 1] BY <1>0, <2>3, <2>4 DEF TypeOK, BaseBlock
    <3>2. /\ ref' \in [Blocks -> Nat] /\ size' \in [Blocks -> Nat]
          /\ inBase' \subseteq Blocks /\ issued' \subseteq Md
      BY <1>0, <2>3, <2>4, <2>5 DEF TypeOK, BaseBlock
    <3>3. out' \in [Md -> Nat] BY <1>0, <1>n, <2>3, <2>4 DEF TypeOK
    <3>4. Idle(p) /\ UNCHANGED <<word, supers, allocs, cache, dead>> BY <1>2
    <3>5. /\ pc' \in [Procs -> Labels] /\ k' \in [Procs -> Nat]
          /\ md' \in [Procs -> Md \cup {END}] /\ seen' \in [Procs -> Md \cup {END}]
          /\ link' \in [Procs -> Md \cup {END, JUNK}] /\ seenUsed' \in [Procs -> Counter]
      BY <1>0, <3>4, IdleType
    <3> HIDE DEF LargeAllocate, HandOut, Idle, GoTo
    <3> QED BY <1>0, <3>1, <3>2, <3>3, <3>4, <3>5 DEF TypeOK, supers
  <2>7. out' = [out EXCEPT ![r] = @ + 1] BY <2>3, <2>4
  <2>8. KOK(p)' BY <2>2 DEF KOK, InClass
  <2> QED BY <1>2, <2>1, <2>2, <2>3, <2>4, <2>5, <2>6, <2>7, <2>8, BaseStep DEF supers
<1> QED BY <1>1, <1>2

\* The descriptors that clients hold, or are about to, of one block are one.
LEMMA OneDescriptor ==
  ASSUME IInv, NEW m \in Md, m \in issued, Current(m)
  PROVE  /\ m.blk \in Blocks
         /\ \A n \in Md : n.blk = m.blk /\ out[n] > 0 => n = m
         /\ \A q \in Procs : pc[q] = "baseUsed" /\ md[q].blk = m.blk =>
              md[q] = m /\ out[m] < ref[m.blk]
<1>1. \A n \in Md : n.blk = m.blk /\ out[n] > 0 => n = m
  BY CurrentUnique DEF IInv, CountsOK
<1>2. ASSUME NEW q \in Procs, pc[q] = "baseUsed", md[q].blk = m.blk
      PROVE  md[q] = m /\ out[m] < ref[m.blk]
  <2>1. md[q] \in Md /\ Current(md[q]) /\ out[md[q]] < ref[md[q].blk]
    BY <1>2 DEF IInv, ProcsOK, FreshOK, TypeOK
  <2>2. md[q] = m BY <1>2, <2>1, CurrentUnique
  <2> QED BY <2>1, <2>2
<1> QED BY <1>1, <1>2 DEF Md

LEMMA BaseUsedStep ==
  ASSUME IInv, NEW p \in Procs, BaseUsed(p) PROVE IInv'
<1> USE DEF BaseUsed, HandOut
<1>0. TypeOK /\ KOK(p) /\ FreshOK(p) /\ CountsOK /\ VersionsOK /\ Alone
  BY DEF IInv, ProcsOK
<1>i. Idle(p) OBVIOUS
<1>1. /\ pc' \in [Procs -> Labels] /\ k' \in [Procs -> Nat]
      /\ md' \in [Procs -> Md \cup {END}] /\ seen' \in [Procs -> Md \cup {END}]
      /\ link' \in [Procs -> Md \cup {END, JUNK}] /\ seenUsed' \in [Procs -> Counter]
      /\ pc'[p] = "idle" /\ OthersKept(p)
  BY <1>0, <1>i, IdleType
<1>2. pc[p] = "baseUsed" /\ k[p] \in Classes BY <1>0 DEF KOK, InClass, Labels
<1>3. PICK m \in Md : /\ m = md[p] /\ m \in issued /\ Current(m)
                      /\ out[m] < ref[m.blk] /\ m.blk \in Blocks
  BY <1>0, <1>2 DEF FreshOK, TypeOK, Md
<1>4. /\ out' = [out EXCEPT ![m] = out[m] + 1]
      /\ UNCHANGED <<ver, ref, size, inBase, word, head, free, allocs, issued, cache, dead>>
  BY <1>3 DEF base
<1>5. out[m] \in Nat /\ ref[m.blk] \in Nat BY <1>0, <1>3 DEF TypeOK
<1>6. out'[m] = out[m] + 1 /\ \A n \in Md : n # m => out'[n] = out[n]
  BY <1>0, <1>4 DEF TypeOK
<1>7. ref[m.blk] > 0 BY <1>3, <1>5
<1>8. /\ ~ InCache(m.blk)
      /\ \A q \in Procs : InHand(q) => md[q].blk # m.blk
      /\ m.blk \in inBase => ref[m.blk] = 0
  BY <1>3, <1>7, ElsewhereFacts
<1>9. /\ \A n \in Md : n.blk = m.blk /\ out[n] > 0 => n = m
      /\ \A q \in Procs : pc[q] = "baseUsed" /\ md[q].blk = m.blk => md[q] = m
  BY <1>3, OneDescriptor
<1>10. \A q \in Procs : q # p /\ pc[q] = "baseUsed" => md[q].blk # m.blk
  BY <1>0, <1>2, <1>3, <1>9 DEF Alone
<1>11. TypeOK'
  <2>1. used' \in [Classes -> Counter] BY <1>0, <1>2, CountersType DEF Add, TypeOK
  <2>2. out' \in [Md -> Nat]
    <3>1. out[m] + 1 \in Nat BY <1>5
    <3> QED BY <1>0, <1>4, <3>1 DEF TypeOK
  <2> HIDE DEF BaseUsed
  <2> QED BY <1>0, <1>1, <1>4, <2>1, <2>2 DEF TypeOK
<1> HIDE DEF BaseUsed
<1>12. VersionsOK'
  <2>1. pc'[p] \notin Allocating \cup Releasing /\ pc[p] \notin Allocating
    BY <1>1, <1>2 DEF Allocating, Releasing, Popping
  <2> QED BY <1>1, <1>4, <2>1, MidCallVersions DEF base
<1>13. ~ InHand(p) /\ ~ InHand(p)' /\ (KOK(p) /\ HandOK(p) /\ FreshOK(p) /\ SeenOK(p))'
  BY <1>1, <1>2 DEF KOK, HandOK, FreshOK, SeenOK, InHand, InClass
<1>14. \A n : Current(n)' <=> Current(n) BY <1>4 DEF Current
<1>15. \A n \in Md : n.blk = m.blk /\ out'[n] > 0 =>
          n \in issued' /\ Current(n)' /\ out'[n] <= ref'[m.blk]
  <2> SUFFICES ASSUME NEW n \in Md, n.blk = m.blk, out'[n] > 0
               PROVE  n \in issued' /\ Current(n)' /\ out'[n] <= ref'[m.blk]
    OBVIOUS
  <2>1. n = m BY <1>6, <1>9
  <2>2. out'[m] <= ref'[m.blk] BY <1>3, <1>4, <1>5, <1>6
  <2> QED BY <1>3, <1>4, <1>14, <2>1, <2>2
<1>16. /\ ver'[m.blk] >= ver[m.blk] /\ ref'[m.blk] > 0 /\ issued' = issued
       /\ size'[m.blk] \in {BlockSize(c) : c \in Classes} \cup LargeSizes
       /\ pc[p] \notin Popping /\ pc'[p] # "baseUsed" /\ m.blk \notin inBase'
  <2>1. ver[m.blk] \in Nat BY <1>0, <1>3, FixedVersionsAssumption DEF TypeOK
  <2> QED BY <1>0, <1>1, <1>2, <1>3, <1>4, <1>7, <1>8, <2>1 DEF Popping, CountsOK
<1>17. \A n \in Md : n.blk # m.blk => out'[n] = out[n] BY <1>6
<1> QED
  BY <1>1, <1>3, <1>4, <1>8, <1>10, <1>11, <1>12, <1>13, <1>15, <1>16, <1>17, BlockStep

LEMMA DupMdStep ==
  ASSUME IInv, NEW p \in Procs, NEW m \in issued, DupMd(p, m) PROVE IInv'
<1> USE DEF DupMd
<1>0. TypeOK /\ CountsOK /\ VersionsOK BY DEF IInv
<1>1. /\ pc[p] = "idle" /\ m \in Md /\ m.blk \in Blocks /\ Current(m) /\ ref[m.blk] > 0
  BY <1>0 DEF TypeOK, Md
<1>2. /\ ref' = [ref EXCEPT ![m.blk] = ref[m.blk] + 1]
      /\ out' = [out EXCEPT ![m] = out[m] + 1]
      /\ UNCHANGED <<ver, size, inBase, word, supers, pc, regs, allocs, issued, cache, dead>>
  OBVIOUS
<1> HIDE DEF DupMd
<1>3. OthersKept(p) /\ pc'[p] = "idle" BY <1>1, <1>2 DEF OthersKept, regs
<1>4. out[m] \in Nat /\ ref[m.blk] \in Nat BY <1>0, <1>1 DEF TypeOK
<1>5. /\ out'[m] = out[m] + 1 /\ \A n \in Md : n # m => out'[n] = out[n]
      /\ ref'[m.blk] = ref[m.blk] + 1 /\ \A a \in Blocks : a # m.blk => ref'[a] = ref[a]
  BY <1>0, <1>1, <1>2 DEF TypeOK
<1>6. /\ ~ InCache(m.blk)
      /\ \A q \in Procs : InHand(q) => md[q].blk # m.blk
      /\ m.blk \in inBase => ref[m.blk] = 0
  BY <1>1, ElsewhereFacts
<1>7. /\ \A n \in Md : n.blk = m.blk /\ out[n] > 0 => n = m
      /\ \A q \in Procs : pc[q] = "baseUsed" /\ md[q].blk = m.blk =>
           md[q] = m /\ out[m] < ref[m.blk]
  BY <1>1, OneDescriptor
<1>8. TypeOK'
  <2>1. out[m] + 1 \in Nat /\ ref[m.blk] + 1 \in Nat BY <1>4
  <2>2. ref' \in [Blocks -> Nat] BY <1>0, <1>2, <2>1 DEF TypeOK
  <2>3. out' \in [Md -> Nat] BY <1>0, <1>2, <2>1 DEF TypeOK
  <2> QED BY <1>0, <1>2, <2>2, <2>3 DEF TypeOK, supers, regs
<1>9. VersionsOK'
  <2>1. Allocated' = Allocated BY <1>2 DEF Allocated
  <2>2. \A a \in Blocks : Busy(a)' => Busy(a) BY <1>1, <1>2, <1>5 DEF Busy, regs
  <2> QED BY <1>0, <1>2, <2>1, <2>2, VersionsKept
<1>10. ~ InHand(p) /\ ~ InHand(p)' /\ (KOK(p) /\ HandOK(p) /\ FreshOK(p) /\ SeenOK(p))'
  BY <1>1, <1>3 DEF KOK, HandOK, FreshOK, SeenOK, InHand, InClass
<1>11. \A n : Current(n)' <=> Current(n) BY <1>2 DEF Current
<1>12. \A n \in Md : n.blk = m.blk /\ out'[n] > 0 =>
          n \in issued' /\ Current(n)' /\ out'[n] <= ref'[m.blk]
  <2> SUFFICES ASSUME NEW n \in Md, n.blk = m.blk, out'[n] > 0
               PROVE  n \in issued' /\ Current(n)' /\ out'[n] <= ref'[m.blk]
    OBVIOUS
  <2>1. n = m BY <1>5, <1>7
  <2>2. out[m] > 0 => out[m] <= ref[m.blk] BY <1>0, <1>1 DEF CountsOK
  <2>3. out'[m] <= ref'[m.blk] BY <1>1, <1>4, <1>5, <2>2
  <2> QED BY <1>1, <1>2, <1>11, <2>1, <2>3
<1>13. /\ ver'[m.blk] >= ver[m.blk] /\ ref'[m.blk] > 0 /\ issued' = issued
       /\ size'[m.blk] \in {BlockSize(c) : c \in Classes} \cup LargeSizes
       /\ pc[p] \notin Popping /\ pc'[p] # "baseUsed" /\ m.blk \notin inBase'
  <2>1. ver[m.blk] \in Nat BY <1>0, <1>1, FixedVersionsAssumption DEF TypeOK
  <2> QED BY <1>0, <1>1, <1>2, <1>3, <1>4, <1>5, <1>6, <2>1 DEF Popping, CountsOK
<1>14. \A q \in Procs : q # p /\ pc[q] = "baseUsed" /\ md[q].blk = m.blk =>
          Current(md[q])' /\ out'[md[q]] < ref'[m.blk]
  <2> SUFFICES ASSUME NEW q \in Procs, pc[q] = "baseUsed", md[q].blk = m.blk
               PROVE  Current(md[q])' /\ out'[md[q]] < ref'[m.blk]
    OBVIOUS
  <2>1. md[q] = m /\ md'[q] = m /\ out[m] < ref[m.blk] BY <1>2, <1>7 DEF regs
  <2>2. out'[m] < ref'[m.blk] BY <1>4, <1>5, <2>1
  <2>3. Current(m)' BY <1>1, <1>11
  <2> QED BY <2>1, <2>2, <2>3 DEF Current
<1>15. \A n \in Md : n.blk # m.blk => out'[n] = out[n] BY <1>5
<1>16. \A a \in Blocks : a # m.blk => /\ ver'[a] = ver[a] /\ ref'[a] = ref[a]
                                      /\ size'[a] = size[a] /\ (a \in inBase' <=> a \in inBase)
  BY <1>2, <1>5
<1> QED
  BY <1>1, <1>2, <1>3, <1>6, <1>8, <1>9, <1>10, <1>12, <1>13, <1>14, <1>15, <1>16, BlockStep
     DEF supers

LEMMA LightStep ==
  ASSUME IInv, NEW p \in Procs, Light(p), ver' = [ver EXCEPT ![md[p].blk] = @ + 1],
         inBase' = inBase \cup {md[p].blk}, GoTo(p, "lightUsed")
  PROVE  IInv'
<1> USE DEF Light, GoTo
<1>0. TypeOK /\ KOK(p) /\ CountsOK /\ VersionsOK /\ Alone BY DEF IInv, ProcsOK
<1>1. OthersKept(p) BY <1>0 DEF TypeOK, OthersKept, regs
<1>2. pc[p] = "light" /\ InHand(p) /\ k[p] \in Classes
  BY <1>0 DEF InHand, KOK, InClass, Labels
<1>3. PICK b \in Blocks : b = md[p].blk BY <1>2, HandFacts
<1>4. /\ ref[b] = 0 /\ b \notin inBase /\ ~ InCache(b)
      /\ \A q \in Procs : q # p /\ InHand(q) => md[q].blk # b
  BY <1>2, <1>3, HandFacts
<1>5. /\ ver' = [ver EXCEPT ![b] = ver[b] + 1] /\ inBase' = inBase \cup {b}
      /\ pc'[p] = "lightUsed" /\ k'[p] = k[p]
      /\ UNCHANGED <<ref, size, word, supers, regs, out, allocs, issued, cache, dead>>
  BY <1>0, <1>3 DEF TypeOK, regs
<1>6. ver[b] \in Nat /\ ver'[b] = ver[b] + 1 /\ \A a \in Blocks : a # b => ver'[a] = ver[a]
  BY <1>0, <1>5, FixedVersionsAssumption DEF TypeOK
<1>b. Busy(b) BY <1>2, <1>3 DEF Busy, Releasing
<1>7. TypeOK'
  <2>1. ver[b] + 1 \in 0 .. Versions - 1 BY <1>0, <1>b, VersionLeftToRelease
  <2>2. ver' \in [Blocks -> 0 .. Versions - 1] BY <1>0, <1>5, <2>1 DEF TypeOK
  <2>3. pc' \in [Procs -> Labels] /\ inBase' \subseteq Blocks BY <1>0, <1>5 DEF TypeOK, Labels
  <2> HIDE DEF Light, GoTo
  <2> QED BY <1>0, <1>5, <2>2, <2>3 DEF TypeOK, supers, regs
<1> HIDE DEF Light, GoTo
<1>8. VersionsOK'
  <2>1. Allocated' = Allocated
    BY <1>1, <1>2, <1>5 DEF Allocated, Allocating, Popping, OthersKept
  <2>2. ~ Busy(b)'
    <3>1. ASSUME NEW q \in Procs, pc'[q] \in Releasing, md'[q].blk = b PROVE FALSE
      <4>1. q # p BY <1>5, <3>1 DEF Releasing
      <4>2. InHand(q) /\ md[q].blk = b BY <1>1, <3>1, <4>1 DEF OthersKept, InHand, Releasing
      <4> QED BY <1>4, <4>1, <4>2
    <3> QED BY <1>4, <1>5, <3>1 DEF Busy
  <2>3. \A a \in Blocks : Busy(a)' => Busy(a)
    BY <1>1, <1>2, <1>5 DEF Busy, OthersKept, Releasing
  <2>4. \A a \in Blocks : \/ ver'[a] = ver[a] /\ (Busy(a)' => Busy(a))
                          \/ ver'[a] = ver[a] + 1 /\ Busy(a) /\ ~ Busy(a)'
    BY <1>6, <1>b, <2>2, <2>3
  <2> QED BY <1>0, <1>5, <2>1, <2>4, VersionsKept
<1>9. (\A m \in Md : m.blk = b => out[m] = 0)
      /\ \A q \in Procs : pc[q] = "baseUsed" => md[q].blk # b
  BY <1>4, NoneHeld
<1>10. ~ InHand(p)' /\ (KOK(p) /\ HandOK(p) /\ FreshOK(p) /\ SeenOK(p))'
  BY <1>2, <1>5 DEF KOK, HandOK, FreshOK, SeenOK, InHand, InClass
<1>11. /\ ver'[b] >= ver[b] /\ ref'[b] = 0 /\ issued' = issued /\ out' = out
       /\ pc[p] \notin Popping /\ pc'[p] # "baseUsed" /\ b \in inBase'
  BY <1>2, <1>4, <1>5, <1>6 DEF Popping
<1>12. \A a \in Blocks : a # b => /\ ver'[a] = ver[a] /\ ref'[a] = ref[a]
                                  /\ size'[a] = size[a] /\ (a \in inBase' <=> a \in inBase)
  BY <1>5, <1>6
<1>13. (\A m \in Md : m.blk = b => ~ (out'[m] > 0)) /\ ~ (ref'[b] > 0)
  BY <1>9, <1>11
<1> QED
  BY <1>1, <1>3, <1>4, <1>5, <1>7, <1>8, <1>9, <1>10, <1>11, <1>12, <1>13, BlockStep DEF supers

\* The last reference takes the block in hand, for its own class if it has one.
LEMMA ReleaseStep ==
  ASSUME IInv, NEW p \in Procs, NEW m \in issued, Release(p, m) PROVE IInv'
<1> DEFINE id == SuperBlockId(size[m.blk])
<1>0. TypeOK /\ CountsOK /\ VersionsOK /\ (\A n \in Md : out[n] \in Nat)
  BY DEF IInv, TypeOK
<1>1. /\ pc[p] = "idle" /\ m \in Md /\ m.blk \in Blocks /\ out[m] > 0 /\ Current(m)
      /\ out[m] <= ref[m.blk] /\ out[m] \in Nat /\ ref[m.blk] \in Nat /\ ref[m.blk] > 0
  BY <1>0 DEF Release, TypeOK, Md, CountsOK
<1>2. /\ ref' = [ref EXCEPT ![m.blk] = ref[m.blk] - 1]
      /\ out' = [out EXCEPT ![m] = out[m] - 1]
      /\ UNCHANGED <<ver, size, inBase, word, supers, seen, link, seenUsed, allocs,
                     issued, cache, dead>>
  BY DEF Release
<1>3. /\ out'[m] = out[m] - 1 /\ \A n \in Md : n # m => out'[n] = out[n]
      /\ ref'[m.blk] = ref[m.blk] - 1 /\ \A a \in Blocks : a # m.blk => ref'[a] = ref[a]
  BY <1>0, <1>1, <1>2 DEF TypeOK
<1>4. /\ ~ InCache(m.blk)
      /\ \A q \in Procs : InHand(q) => md[q].blk # m.blk
      /\ m.blk \notin inBase
  BY <1>1, ElsewhereFacts
<1>5. /\ \A n \in Md : n.blk = m.blk /\ out[n] > 0 => n = m
      /\ \A q \in Procs : pc[q] = "baseUsed" /\ md[q].blk = m.blk =>
           md[q] = m /\ out[m] < ref[m.blk]
  BY <1>1, OneDescriptor
<1>6. ref' \in [Blocks -> Nat] /\ out' \in [Md -> Nat]
  <2>1. out[m] - 1 \in Nat /\ ref[m.blk] - 1 \in Nat BY <1>1
  <2>2. ref' \in [Blocks -> Nat] BY <1>0, <1>2, <2>1 DEF TypeOK
  <2>3. out' \in [Md -> Nat] BY <1>0, <1>2, <2>1 DEF TypeOK
  <2> QED BY <2>2, <2>3
<1>7. \A n : Current(n)' <=> Current(n) BY <1>2 DEF Current
<1>8. \A n \in Md : n.blk = m.blk /\ out'[n] > 0 =>
          n \in issued' /\ Current(n)' /\ out'[n] <= ref'[m.blk]
  <2> SUFFICES ASSUME NEW n \in Md, n.blk = m.blk, out'[n] > 0
               PROVE  n \in issued' /\ Current(n)' /\ out'[n] <= ref'[m.blk]
    OBVIOUS
  <2>1. n = m BY <1>3, <1>5
  <2>2. out'[m] <= ref'[m.blk] BY <1>1, <1>3
  <2> QED BY <1>1, <1>2, <1>7, <2>1, <2>2
<1>9. /\ ver'[m.blk] >= ver[m.blk] /\ issued' = issued
      /\ size'[m.blk] \in {BlockSize(c) : c \in Classes} \cup LargeSizes
      /\ pc[p] \notin Popping /\ m.blk \notin inBase' /\ ~ InHand(p)
  <2>1. ver[m.blk] \in Nat BY <1>0, <1>1, FixedVersionsAssumption DEF TypeOK
  <2> QED BY <1>0, <1>1, <1>2, <1>4, <2>1 DEF Popping, CountsOK, InHand
<1>10. \A n \in Md : n.blk # m.blk => out'[n] = out[n] BY <1>3
<1>11. \A a \in Blocks : a # m.blk => /\ ver'[a] = ver[a] /\ ref'[a] = ref[a]
                                      /\ size'[a] = size[a] /\ (a \in inBase' <=> a \in inBase)
  BY <1>2, <1>3
<1>12. CASE ref[m.blk] > 1
  <2>1. UNCHANGED <<pc, k, md>> BY <1>12 DEF Release
  <2>2. OthersKept(p) /\ pc'[p] = "idle" BY <1>1, <1>2, <2>1 DEF OthersKept
  <2>3. TypeOK' BY <1>0, <1>2, <1>6, <2>1 DEF TypeOK, supers
  <2>4. ref'[m.blk] > 0 BY <1>1, <1>3, <1>12
  <2>5. VersionsOK'
    <3>1. Allocated' = Allocated BY <2>1 DEF Allocated
    <3>2. \A a \in Blocks : Busy(a)' => Busy(a) BY <1>1, <1>3, <2>1 DEF Busy
    <3> QED BY <1>0, <1>2, <3>1, <3>2, VersionsKept
  <2>6. ~ InHand(p)' /\ (KOK(p) /\ HandOK(p) /\ FreshOK(p) /\ SeenOK(p))'
    BY <2>2 DEF KOK, HandOK, FreshOK, SeenOK, InHand, InClass
  <2>7. \A q \in Procs : q # p /\ pc[q] = "baseUsed" /\ md[q].blk = m.blk =>
          Current(md[q])' /\ out'[md[q]] < ref'[m.blk]
    <3> SUFFICES ASSUME NEW q \in Procs, pc[q] = "baseUsed", md[q].blk = m.blk
                 PROVE  Current(md[q])' /\ out'[md[q]] < ref'[m.blk]
      OBVIOUS
    <3>1. md[q] = m /\ md'[q] = m /\ out[m] < ref[m.blk] BY <1>5, <2>1
    <3>2. out'[m] < ref'[m.blk] BY <1>1, <1>3, <3>1
    <3>3. Current(m)' BY <1>1, <1>7
    <3> QED BY <3>1, <3>2, <3>3 DEF Current
  <2> QED
    BY <1>1, <1>2, <1>4, <1>8, <1>9, <1>10, <1>11, <2>2, <2>3, <2>4, <2>5, <2>6, <2>7,
       BlockStep DEF supers
<1>13. CASE ~ (ref[m.blk] > 1)
  <2>1. /\ k' = [k EXCEPT ![p] = id] /\ md' = [md EXCEPT ![p] = m]
        /\ pc' = [pc EXCEPT ![p] = IF id > SuperBlockCount THEN "noSuperBlock"
                                                           ELSE "readUsed"]
    BY <1>13 DEF Release, GoTo
  <2>2. ref[m.blk] = 1 /\ out[m] = 1 /\ ref'[m.blk] = 0 /\ out'[m] = 0
    BY <1>1, <1>3, <1>13
  <2>3. /\ id \in Nat
        /\ ~ (id > SuperBlockCount) => id \in Classes /\ size[m.blk] = BlockSize(id)
    <3>1. CASE size[m.blk] \in {BlockSize(c) : c \in Classes}
      <4>1. PICK c \in Classes : size[m.blk] = BlockSize(c) BY <3>1
      <4>2. id = c BY <4>1, FixedClassesAssumption
      <4>3. c \in Nat BY FixedSizesAssumption DEF Classes
      <4> QED BY <4>1, <4>2, <4>3
    <3>2. CASE size[m.blk] \in LargeSizes
      BY <3>2, FixedClassesAssumption DEF LargeSizes
    <3> QED BY <1>0, <1>1, <3>1, <3>2 DEF CountsOK
  <2> HIDE DEF id
  <2>4. /\ k'[p] = id /\ md'[p] = m
        /\ pc'[p] = IF id > SuperBlockCount THEN "noSuperBlock" ELSE "readUsed"
        /\ OthersKept(p)
    BY <1>0, <1>2, <2>1 DEF TypeOK, OthersKept
  <2>5. TypeOK'
    <3>1. k' \in [Procs -> Nat] BY <1>0, <2>1, <2>3 DEF TypeOK
    <3>2. md' \in [Procs -> Md \cup {END}] BY <1>0, <1>1, <2>1 DEF TypeOK
    <3>3. pc' \in [Procs -> Labels] BY <1>0, <2>1 DEF TypeOK, Labels
    <3> QED BY <1>0, <1>2, <1>6, <3>1, <3>2, <3>3 DEF TypeOK, supers
  <2>6. VersionsOK'
    <3>1. Allocated' = Allocated
      BY <1>1, <2>4 DEF Allocated, Allocating, Popping, OthersKept
    <3>2. \A a \in Blocks : Busy(a)' => Busy(a)
      BY <1>1, <1>3, <2>4 DEF Busy, OthersKept
    <3> QED BY <1>0, <1>2, <3>1, <3>2, VersionsKept
  <2>7. InHand(p)' BY <2>4 DEF InHand
  <2>8. KOK(p)' BY <2>3, <2>4 DEF KOK, InClass
  <2>9. HandOK(p)'
    <3>1. Current(md[p])' BY <1>1, <1>7, <2>4 DEF Current
    <3>2. ~ InCache(md[p].blk)' BY <1>2, <1>4, <2>4 DEF InCache
    <3> QED BY <1>1, <1>2, <1>4, <2>2, <2>3, <2>4, <3>1, <3>2 DEF HandOK
  <2>10. FreshOK(p)' /\ SeenOK(p)' /\ pc'[p] # "baseUsed" BY <2>4 DEF FreshOK, SeenOK
  <2>11. \A q \in Procs : pc[q] = "baseUsed" => md[q].blk # m.blk
    BY <1>5, <2>2
  <2>12. ~ (ref'[m.blk] > 0) BY <2>2
  <2> QED
    BY <1>1, <1>2, <1>4, <1>8, <1>9, <1>10, <1>11, <2>4, <2>5, <2>6, <2>7, <2>8, <2>9,
       <2>10, <2>11, <2>12, BlockStep DEF supers
<1> QED BY <1>12, <1>13
-----------------------------------------------------------------------------
LEMMA InitIInv == Init => IInv
<1> SUFFICES ASSUME Init PROVE IInv OBVIOUS
<1> USE DEF Init
<1>1. TypeOK
  <2>1. 0 \in 0 .. Versions - 1 /\ 0 \in Counter /\ 0 \in 0 .. MaxAlloc
    BY FixedVersionsAssumption, FixedSizesAssumption DEF Counter
  <2>2. << >> \in Seq(Md) BY EmptySeq
  <2> QED BY <2>1, <2>2 DEF TypeOK, Labels
<1>2. Allocated = {} BY DEF Allocated, Allocating, Popping
<1>3. Len(<< >>) = 0 BY EmptySeq
<1>4. \A c \in Classes : ~ \E i \in 1 .. Len(cache[c]) : TRUE BY <1>3
<1>5. ProcsOK
  BY DEF ProcsOK, KOK, HandOK, FreshOK, SeenOK, InHand, InClass
<1>6. Alone BY DEF Alone, InHand
<1>7. PlacesOK BY <1>4 DEF PlacesOK, InCache
<1>8. CountsOK BY DEF CountsOK
<1>9. VersionsOK
  <2>1. Cardinality(Allocated) = 0 BY <1>2, FS_EmptySet
  <2> QED BY <2>1 DEF VersionsOK, Ended, Busy, Releasing
<1>10. CacheOK BY <1>4 DEF CacheOK
<1> QED BY <1>1, <1>5, <1>6, <1>7, <1>8, <1>9, <1>10 DEF IInv

\* A step that leaves all but the set of killed processes as it was.
LEMMA CrashOrStutter ==
  ASSUME IInv, UNCHANGED <<base, word, supers, pc, regs, out, allocs, issued, cache>>,
         dead' \subseteq Procs
  PROVE  IInv'
<1> USE DEF IInv, base, supers, regs
<1>1. TypeOK' BY DEF TypeOK
<1>2. ProcsOK'
  BY DEF ProcsOK, KOK, HandOK, FreshOK, SeenOK, InHand, InCache, Current, Gone, Cached
<1>3. Alone' BY DEF Alone, InHand
<1>4. PlacesOK' BY DEF PlacesOK, InCache, Hands, InHand
<1>5. CountsOK' BY DEF CountsOK, Current
<1>6. VersionsOK' BY DEF VersionsOK, Ended, Allocated, Busy
<1>7. CacheOK' BY DEF CacheOK, Current
<1> QED BY <1>1, <1>2, <1>3, <1>4, <1>5, <1>6, <1>7

LEMMA NextIInv == IInv /\ [Next]_vars => IInv'
<1> SUFFICES ASSUME IInv, [Next]_vars PROVE IInv' OBVIOUS
<1>1. ASSUME NEW p \in Procs, Step(p) PROVE IInv'
  <2>1. CASE PopCas(p) BY <2>1, PopStep, RefusedSteps
  <2>2. CASE PushCas(p) BY <2>2, PushStep, RefusedSteps
  <2>3. CASE Light(p)
    <3>1. CASE ver' = [ver EXCEPT ![md[p].blk] = @ + 1]
               /\ inBase' = inBase \cup {md[p].blk} /\ GoTo(p, "lightUsed")
      BY <2>3, <3>1, LightStep
    <3>2. CASE GoTo(p, "push") /\ UNCHANGED <<ver, inBase>>
      BY <2>3, <3>2, RefusedSteps
    <3> QED BY <2>3, <3>1, <3>2 DEF Light
  <2> QED
    BY <1>1, <2>1, <2>2, <2>3, PopHeadStep, PopNextStep, CounterSteps, DupNewStep,
       BaseAllocateSteps, BaseUsedStep, AllocateFailsStep, PushLinkStep DEF Step
<1>2. ASSUME NEW p \in Procs, Begins(p) PROVE IInv'
  BY <1>2, AllocateStep, ReleaseStep, DupMdStep DEF Begins
<1>3. ASSUME NEW p \in Procs, Crash(p) PROVE IInv'
  BY <1>3, CrashOrStutter DEF Crash, IInv, TypeOK
<1>4. ASSUME NEW b \in Blocks, WriteBlock(b) PROVE IInv' BY <1>4, WriteBlockStep
<1>5. CASE UNCHANGED vars BY <1>5, CrashOrStutter DEF vars, IInv, TypeOK
<1> QED BY <1>1, <1>2, <1>3, <1>4, <1>5 DEF Next

LEMMA SpecIInv == Spec => []IInv
BY InitIInv, NextIInv, PTL DEF Spec
-----------------------------------------------------------------------------
(* The theorems.                                                           *)

\* Every register, counter and descriptor keeps its type; no version runs out.
THEOREM TypeOKHolds == Spec => []TypeOK
<1>1. IInv => TypeOK BY DEF IInv
<1> QED BY <1>1, SpecIInv, PTL

(***************************************************************************)
(* The head and the next words always lead along the cached blocks to the  *)
(* end: pops and pushes that overtake each other, and clients that write   *)
(* into the blocks they were given, never leave a stale next word in the   *)
(* stack of fixed_allocator.hh, whoever is killed.                         *)
(***************************************************************************)
THEOREM CacheOKHolds == Spec => []CacheOK
<1>1. IInv => CacheOK BY DEF IInv
<1> QED BY <1>1, SpecIInv, PTL

\* A cache holds no more than all blocks, for none is in it twice.
LEMMA CacheFits ==
  ASSUME IInv, NEW c \in Classes
  PROVE  Len(cache[c]) <= Cardinality(Blocks)
<1>0. TypeOK /\ PlacesOK BY DEF IInv
<1>1. PICK n \in Nat : n = Len(cache[c]) BY <1>0, CachedBlocks
<1> DEFINE f == [i \in 1 .. n |-> cache[c][i].blk]
<1>2. f \in Injection(1 .. n, Blocks)
  <2>1. f \in [1 .. n -> Blocks] BY <1>0, <1>1, CachedBlocks
  <2>2. \A i, j \in 1 .. n : f[i] = f[j] => i = j BY <1>0, <1>1 DEF PlacesOK
  <2> HIDE DEF f
  <2> QED BY <2>1, <2>2 DEF Injection, IsInjective
<1>3. Cardinality(1 .. n) <= Cardinality(Blocks)
  BY <1>2, FixedSetsAssumption, FS_Injection
<1>4. Cardinality(1 .. n) = n BY FS_Interval
<1> QED BY <1>1, <1>3, <1>4

LEMMA PlacesAreOne == ASSUME IInv PROVE OnePlace
<1> SUFFICES ASSUME NEW b \in Blocks PROVE \E x : Places(b) = {x}
  BY FS_Singleton DEF OnePlace
<1>0. TypeOK /\ PlacesOK /\ CacheOK BY DEF IInv
<1> DEFINE AtBase == {<<"base", x>> : x \in inBase \cap {b}}
           Lent == {<<"clients", x>> : x \in {c \in {b} : ref[c] > 0}}
           Slots == {y \in Classes \X (1 .. Cardinality(Blocks)) :
                        /\ y[2] <= Len(cache[y[1]])
                        /\ cache[y[1]][y[2]].blk = b}
           InSlot == {<<"cache", x>> : x \in Slots}
           Held == {<<"hand", x>> : x \in Hands(b)}
<1>1. Places(b) = AtBase \cup Lent \cup InSlot \cup Held BY DEF Places, Hands
<1>2. Slots # {} => InCache(b)
  <2> SUFFICES ASSUME NEW y \in Slots PROVE InCache(b) OBVIOUS
  <2>1. /\ y[1] \in Classes /\ y[2] \in 1 .. Cardinality(Blocks)
        /\ y[2] <= Len(cache[y[1]]) /\ cache[y[1]][y[2]].blk = b
    OBVIOUS
  <2>2. Len(cache[y[1]]) \in Nat BY <1>0, <2>1, CachedBlocks
  <2>3. y[2] \in 1 .. Len(cache[y[1]])
    <3>1. Cardinality(Blocks) \in Nat BY FixedSetsAssumption, FS_CardinalityType
    <3> HIDE DEF Slots
    <3> QED BY <2>1, <2>2, <3>1
  <2> QED BY <2>1, <2>3 DEF InCache
<1>3. InCache(b) => /\ ref[b] = 0 /\ b \notin inBase /\ Hands(b) = {}
                    /\ \E y : Slots = {y}
  <2> SUFFICES ASSUME NEW c \in Classes, NEW i \in 1 .. Len(cache[c]), cache[c][i].blk = b
               PROVE  /\ ref[b] = 0 /\ b \notin inBase /\ Hands(b) = {}
                      /\ Slots = {<<c, i>>}
    BY DEF InCache
  <2>1. InCache(b) BY DEF InCache
  <2>2. ref[b] = 0 BY <1>0 DEF CacheOK
  <2>3. b \notin inBase /\ Hands(b) = {} BY <1>0, <2>1, HandFacts DEF PlacesOK, Hands
  <2>4. <<c, i>> \in Slots
    <3>1. PICK n \in Nat : n = Len(cache[c]) BY <1>0, CachedBlocks
    <3>2. n <= Cardinality(Blocks) BY <3>1, CacheFits
    <3>3. Cardinality(Blocks) \in Nat BY FixedSetsAssumption, FS_CardinalityType
    <3>4. i \in 1 .. Cardinality(Blocks) /\ i <= n BY <3>1, <3>2, <3>3
    <3> QED BY <3>1, <3>4
  <2>5. ASSUME NEW y \in Slots PROVE y = <<c, i>>
    <3>1. /\ y = <<y[1], y[2]>> /\ y[1] \in Classes /\ y[2] \in 1 .. Cardinality(Blocks)
          /\ y[2] <= Len(cache[y[1]]) /\ cache[y[1]][y[2]].blk = b
      OBVIOUS
    <3>2. PICK n \in Nat : n = Len(cache[y[1]]) BY <1>0, <3>1, CachedBlocks
    <3>3. y[2] \in 1 .. n
      <4>1. Cardinality(Blocks) \in Nat BY FixedSetsAssumption, FS_CardinalityType
      <4> HIDE DEF Slots
      <4> QED BY <3>1, <3>2, <4>1
    <3>4. y[1] = c /\ y[2] = i BY <1>0, <3>1, <3>2, <3>3 DEF PlacesOK
    <3> QED BY <3>1, <3>4
  <2> QED BY <2>2, <2>3, <2>4, <2>5
<1> HIDE DEF Slots
<1>4. \A p, q \in Hands(b) : p = q BY DEF Hands, IInv, Alone
<1>5. Hands(b) # {} => ref[b] = 0 /\ b \notin inBase BY HandFacts DEF Hands
<1>6. b \in inBase => ref[b] = 0 BY <1>0 DEF PlacesOK
<1>7. ref[b] \in Nat BY <1>0 DEF TypeOK
<1>8. CASE b \in inBase
  <2>1. Slots = {} /\ Hands(b) = {} /\ ~ (ref[b] > 0) BY <1>2, <1>3, <1>5, <1>6, <1>8
  <2>2. AtBase = {<<"base", b>>} /\ Lent = {} /\ InSlot = {} /\ Held = {} BY <1>8, <2>1
  <2> QED BY <1>1, <2>2
<1>9. CASE ref[b] > 0
  <2>1. Slots = {} /\ Hands(b) = {} /\ b \notin inBase BY <1>2, <1>3, <1>5, <1>6, <1>9
  <2>2. AtBase = {} /\ Lent = {<<"clients", b>>} /\ InSlot = {} /\ Held = {} BY <1>9, <2>1
  <2> QED BY <1>1, <2>2
<1>10. CASE InCache(b)
  <2>1. PICK y : Slots = {y} BY <1>3, <1>10
  <2>2. Hands(b) = {} /\ b \notin inBase /\ ~ (ref[b] > 0) BY <1>3, <1>10
  <2>3. AtBase = {} /\ Lent = {} /\ InSlot = {<<"cache", y>>} /\ Held = {} BY <2>1, <2>2
  <2> QED BY <1>1, <2>3
<1>11. CASE Hands(b) # {}
  <2>1. PICK q : Hands(b) = {q} BY <1>4, <1>11
  <2>2. Slots = {} /\ b \notin inBase /\ ~ (ref[b] > 0) BY <1>2, <1>3, <1>5, <1>11
  <2>3. AtBase = {} /\ Lent = {} /\ InSlot = {} /\ Held = {<<"hand", q>>} BY <2>1, <2>2
  <2> QED BY <1>1, <2>3
<1> QED BY <1>0, <1>8, <1>9, <1>10, <1>11 DEF PlacesOK

(***************************************************************************)
(* However the calls of allocate, dup and release interleave, and whoever  *)
(* is killed in the middle of one, each block is in exactly one place:     *)
(* none is lent twice, cached twice, or lost by a process that goes on.    *)
(***************************************************************************)
THEOREM OnePlaceHolds == Spec => []OnePlace
<1>1. IInv => OnePlace BY PlacesAreOne
<1> QED BY <1>1, SpecIInv, PTL
-----------------------------------------------------------------------------
(* The cache implements the pool of blocks.                                *)

CountOf == [m \in Md |-> IF m \in issued /\ Current(m) THEN ref[m.blk] ELSE 0]

LEMMA CountKept ==
  ASSUME UNCHANGED <<ver, ref, issued>> PROVE UNCHANGED <<issued, CountOf>>
BY DEF CountOf, Current

LEMMA AllocateMaps ==
  ASSUME IInv, NEW p \in Procs, NEW b \in Blocks, pc[p] \in Allocating, ref[b] = 0,
         ver' = [ver EXCEPT ![b] = @ + 1], ref' = [ref EXCEPT ![b] = 1],
         issued' = issued \cup {Raised(b)}
  PROVE  \E r \in Md \ issued :
           /\ \A n \in issued : n.blk = r.blk => CountOf[n] = 0
           /\ issued' = issued \cup {r}
           /\ CountOf' = [CountOf EXCEPT ![r] = 1]
<1>0. TypeOK /\ CountsOK /\ VersionsOK BY DEF IInv
<1>1. PICK r \in Md : r = Raised(b) /\ r.blk = b /\ r.ver = ver[b] + 1
  <2>1. p \in Allocated BY DEF Allocated
  <2> QED BY <1>0, <2>1, VersionLeft
<1>2. /\ \A a \in Blocks : a # b => ver'[a] = ver[a] /\ ref'[a] = ref[a]
      /\ ver'[b] = ver[b] + 1 /\ ref'[b] = 1 /\ ver[b] \in Nat
  BY <1>0, FixedVersionsAssumption DEF TypeOK
<1>3. r \notin issued BY <1>0, <1>1, <1>2 DEF CountsOK
<1>4. \A n \in issued : n.blk = r.blk => CountOf[n] = 0
  BY <1>0, <1>1 DEF CountOf, TypeOK
<1>5. ASSUME NEW m \in Md PROVE CountOf'[m] = IF m = r THEN 1 ELSE CountOf[m]
  <2>1. m.blk \in Blocks BY DEF Md
  <2>2. CASE m = r BY <1>1, <1>2, <2>2 DEF CountOf, Current
  <2>3. CASE m # r /\ m.blk = b
    <3>1. m.ver # r.ver BY <1>1, <2>3 DEF Md
    <3> QED BY <1>1, <1>2, <2>3, <3>1 DEF CountOf, Current
  <2>4. CASE m.blk # b BY <1>1, <1>2, <2>1, <2>4 DEF CountOf, Current
  <2> QED BY <2>2, <2>3, <2>4
<1>6. CountOf' = [CountOf EXCEPT ![r] = 1]
  <2>1. CountOf' = [m \in Md |-> CountOf'[m]] BY DEF CountOf
  <2>2. CountOf = [m \in Md |-> CountOf[m]] BY DEF CountOf
  <2> QED BY <1>5, <2>1, <2>2
<1> QED BY <1>1, <1>3, <1>4, <1>6

\* dup and undup of a descriptor that is current.
LEMMA CountMaps ==
  ASSUME IInv, NEW m \in issued, Current(m), NEW n, ref' = [ref EXCEPT ![m.blk] = n],
         UNCHANGED <<ver, issued>>
  PROVE  CountOf[m] = ref[m.blk] /\ CountOf' = [CountOf EXCEPT ![m] = n]
<1>0. TypeOK /\ m \in Md BY DEF IInv, TypeOK
<1>1. CountOf[m] = ref[m.blk] BY <1>0 DEF CountOf
<1>2. \A x : Current(x)' <=> Current(x) BY DEF Current
<1>3. ASSUME NEW x \in Md PROVE CountOf'[x] = IF x = m THEN n ELSE CountOf[x]
  <2>1. x.blk \in Blocks /\ m.blk \in Blocks BY <1>0 DEF Md
  <2>2. CASE x = m BY <1>0, <1>2, <2>1, <2>2 DEF CountOf, TypeOK
  <2>3. CASE x # m /\ Current(x)
    <3>1. x.blk # m.blk BY <1>0, <2>3, CurrentUnique
    <3>2. ref'[x.blk] = ref[x.blk] BY <1>0, <2>1, <3>1 DEF TypeOK
    <3> QED BY <1>2, <2>3, <3>2 DEF CountOf
  <2>4. CASE x # m /\ ~ Current(x) BY <1>2, <2>4 DEF CountOf
  <2> QED BY <2>2, <2>3, <2>4
<1>4. CountOf' = [x \in Md |-> CountOf'[x]] /\ CountOf = [x \in Md |-> CountOf[x]]
  BY DEF CountOf
<1> QED BY <1>1, <1>3, <1>4

LEMMA StepMaps ==
  ASSUME IInv, IInv', NEW p \in Procs, Step(p) \/ Begins(p)
  PROVE  [Pool!PoolNext]_(Pool!poolVars)
<1>m. Pool!PoolMd = Md /\ Pool!poolVars = <<issued, CountOf>> /\ TypeOK
  BY DEF Pool!PoolMd, Md, Pool!poolVars, IInv, CountOf
<1>1. ASSUME UNCHANGED <<ver, ref, issued>> PROVE UNCHANGED Pool!poolVars
  BY <1>1, CountKept DEF Pool!poolVars, CountOf
<1>2. ASSUME NEW b \in Blocks, pc[p] \in Allocating, ref[b] = 0,
             ver' = [ver EXCEPT ![b] = @ + 1], ref' = [ref EXCEPT ![b] = 1],
             issued' = issued \cup {Raised(b)}
      PROVE  Pool!PoolAllocate
  <2>1. \E r \in Md \ issued :
           /\ \A n \in issued : n.blk = r.blk => CountOf[n] = 0
           /\ issued' = issued \cup {r}
           /\ CountOf' = [CountOf EXCEPT ![r] = 1]
    BY <1>2, AllocateMaps
  <2> QED BY <1>m, <2>1 DEF Pool!PoolAllocate, CountOf
<1>3. CASE DupNew(p)
  <2>1. pc[p] = "dupNew" /\ InHand(p) BY <1>3 DEF DupNew, InHand
  <2>2. md[p].blk \in Blocks /\ ref[md[p].blk] = 0 BY <2>1, HandFacts
  <2> QED BY <1>2, <1>3, <2>1, <2>2 DEF DupNew, Allocating, Popping, Pool!PoolNext
<1>4. CASE BaseAllocate(p) \/ LargeAllocate(p)
  <2>1. PICK b \in Blocks, n \in Nat : BaseBlock(p, b, n)
    <3>1. CASE BaseAllocate(p)
      <4>1. k[p] \in Classes
        BY <3>1 DEF BaseAllocate, IInv, ProcsOK, KOK, InClass, Labels
      <4>2. BlockSize(k[p]) \in Nat BY <4>1, FixedClassesAssumption
      <4> QED BY <3>1, <4>2 DEF BaseAllocate
    <3>2. CASE LargeAllocate(p) BY <1>m, <3>2 DEF LargeAllocate, TypeOK
    <3> QED BY <1>4, <3>1, <3>2
  <2>2. ref[b] = 0 BY <2>1, ElsewhereFacts DEF BaseBlock
  <2>3. pc[p] \in Allocating BY <1>4 DEF BaseAllocate, LargeAllocate, Allocating
  <2> QED BY <1>2, <2>1, <2>2, <2>3 DEF BaseBlock, Pool!PoolNext
<1>5. CASE Light(p)
  <2>1. CASE UNCHANGED <<ver, inBase>> BY <1>1, <1>5, <2>1 DEF Light
  <2>2. CASE ver' = [ver EXCEPT ![md[p].blk] = @ + 1]
    <3>1. InHand(p) BY <1>5 DEF Light, InHand
    <3>2. PICK b \in Blocks : b = md[p].blk /\ ref[b] = 0 BY <3>1, HandFacts
    <3>3. ref' = ref /\ issued' = issued BY <1>5 DEF Light
    <3>4. \A a \in Blocks : a # b => ver'[a] = ver[a] BY <1>m, <2>2, <3>2 DEF TypeOK
    <3>5. ASSUME NEW m \in Md
          PROVE  (IF m \in issued' /\ Current(m)' THEN ref'[m.blk] ELSE 0)
                   = (IF m \in issued /\ Current(m) THEN ref[m.blk] ELSE 0)
      BY <3>2, <3>3, <3>4 DEF Current, Md
    <3>6. CountOf' = CountOf BY <3>5 DEF CountOf
    <3> QED BY <3>3, <3>6 DEF Pool!poolVars, CountOf
  <2> QED BY <1>5, <2>1, <2>2 DEF Light
<1>6. ASSUME NEW m \in issued, DupMd(p, m) PROVE Pool!PoolDup
  <2>1. /\ Current(m) /\ ref[m.blk] > 0 /\ ref' = [ref EXCEPT ![m.blk] = ref[m.blk] + 1]
        /\ UNCHANGED <<ver, issued>>
    BY <1>6 DEF DupMd
  <2>2. /\ CountOf[m] = ref[m.blk]
        /\ CountOf' = [CountOf EXCEPT ![m] = ref[m.blk] + 1]
    BY <2>1, CountMaps
  <2> QED BY <2>1, <2>2 DEF Pool!PoolDup, CountOf
<1>7. ASSUME NEW m \in issued, Release(p, m) PROVE Pool!PoolRelease
  <2>1. /\ out[m] > 0 /\ m \in Md /\ ref' = [ref EXCEPT ![m.blk] = ref[m.blk] - 1]
        /\ UNCHANGED <<ver, issued>>
    BY <1>m, <1>7 DEF Release, TypeOK
  <2>2. Current(m) /\ out[m] <= ref[m.blk] BY <2>1 DEF IInv, CountsOK
  <2>3. ref[m.blk] > 0
    <3>1. out[m] \in Nat /\ ref[m.blk] \in Nat BY <1>m, <2>1 DEF TypeOK, Md
    <3> QED BY <2>1, <2>2, <3>1
  <2>4. /\ CountOf[m] = ref[m.blk]
        /\ CountOf' = [CountOf EXCEPT ![m] = ref[m.blk] - 1]
    BY <2>1, <2>2, CountMaps
  <2> QED BY <2>1, <2>3, <2>4 DEF Pool!PoolRelease, CountOf
<1>8. CASE \E n \in Sizes : Allocate(p, n) BY <1>1, <1>8 DEF Allocate, base
<1>9. CASE \/ PopHead(p) \/ PopNext(p) \/ PopCas(p) \/ PopUsed(p) \/ PopFree(p)
           \/ BaseUsed(p) \/ AllocateFails(p) \/ ReadUsed(p) \/ ReadFree(p) \/ LightUsed(p)
           \/ Push(p) \/ PushLink(p) \/ PushCas(p) \/ PushUsed(p) \/ PushFree(p)
  BY <1>1, <1>9
     DEF PopHead, PopNext, PopCas, PopUsed, PopFree, BaseUsed, AllocateFails, ReadUsed,
         ReadFree, LightUsed, Push, PushLink, PushCas, PushUsed, PushFree, base
<1> QED
  BY <1>3, <1>4, <1>5, <1>6, <1>7, <1>8, <1>9 DEF Step, Begins, Pool!PoolNext

LEMMA NextMaps == IInv /\ [Next]_vars => [Pool!PoolNext]_(Pool!poolVars)
<1> SUFFICES ASSUME IInv, [Next]_vars PROVE [Pool!PoolNext]_(Pool!poolVars) OBVIOUS
<1>0. IInv' BY NextIInv
<1>1. ASSUME UNCHANGED <<ver, ref, issued>> PROVE UNCHANGED Pool!poolVars
  BY <1>1, CountKept DEF Pool!poolVars, CountOf
<1>2. ASSUME NEW p \in Procs, Step(p) \/ Begins(p) PROVE [Pool!PoolNext]_(Pool!poolVars)
  BY <1>0, <1>2, StepMaps
<1>3. ASSUME NEW p \in Procs, Crash(p) PROVE UNCHANGED Pool!poolVars
  BY <1>1, <1>3 DEF Crash, base
<1>4. ASSUME NEW b \in Blocks, WriteBlock(b) PROVE UNCHANGED Pool!poolVars
  BY <1>1, <1>4 DEF WriteBlock, base
<1>5. CASE UNCHANGED vars BY <1>1, <1>5 DEF vars, base
<1> QED BY <1>2, <1>3, <1>4, <1>5 DEF Next

LEMMA InitMaps == Init => Pool!PoolInit
<1> SUFFICES ASSUME Init PROVE Pool!PoolInit OBVIOUS
<1>1. issued = {} BY DEF Init
<1>2. Pool!PoolMd = Md BY DEF Pool!PoolMd, Md
<1> QED BY <1>1, <1>2 DEF Pool!PoolInit

(***************************************************************************)
(* To the queue the cache is a pool of blocks: each descriptor is handed   *)
(* out once, while nobody holds its block, and dup and release count its   *)
(* references, for any number of processes, blocks, size classes and       *)
(* calls.  Imque takes its allocator for that pool.                        *)
(***************************************************************************)
THEOREM ImplementsPoolHolds == Spec => ImplementsPool
<1>1. Spec => Pool!PoolInit /\ [][Pool!PoolNext]_(Pool!poolVars)
  BY InitMaps, NextMaps, SpecIInv, PTL DEF Spec
<1> QED BY <1>1 DEF ImplementsPool, Pool!PoolSpec
-----------------------------------------------------------------------------
(* The counters.  Each is updated apart from what it counts, by the same   *)
(* call before or after; the calls that have done one and not the other    *)
(* make up for the difference, killed ones included.                       *)

FreeAhead  == {"popUsed", "popFree"}
FreeBehind == {"pushUsed", "pushFree"}
UsedAhead  == {"popFree", "dupNew", "readUsed", "readFree", "light", "lightUsed",
               "push", "pushLink", "pushCas", "pushUsed"}
UsedBehind == {"baseUsed"}

Lagging(ls, c) == {p \in Procs : pc[p] \in ls /\ k[p] = c}

InUse(c) == {b \in Blocks : ref[b] > 0 /\ size[b] = BlockSize(c)}

FreeDue(c) == Len(cache[c]) + Cardinality(Lagging(FreeAhead, c))
                - Cardinality(Lagging(FreeBehind, c))
UsedDue(c) == Cardinality(InUse(c)) + Cardinality(Lagging(UsedAhead, c))
                - Cardinality(Lagging(UsedBehind, c))

\* A counter has wrapped a number of times.
Wrapped(n, m) == \E z \in Int : n = m + z * WordSize

CountersOK == \A c \in Classes : Wrapped(free[c], FreeDue(c)) /\ Wrapped(used[c], UsedDue(c))

LEMMA WrappedMoves ==
  ASSUME NEW n \in Counter, NEW m \in Int, Wrapped(n, m)
  PROVE  /\ Wrapped((n + 1) % WordSize, m + 1)
         /\ Wrapped((n + WordSize - 1) % WordSize, m - 1)
<1> PICK w \in Nat \ {0} : w = WordSize BY FixedSizesAssumption
<1>0. n \in 0 .. w - 1 BY DEF Counter
<1>1. PICK z \in Int : n = m + z * w BY DEF Wrapped
<1>2. (z - 1) * w = z * w - w /\ (z + 1) * w = z * w + w /\ z * w \in Int OBVIOUS
<1>3. (n + 1) % w = IF n + 1 = w THEN 0 ELSE n + 1 BY <1>0
<1>4. (n + w - 1) % w = IF n = 0 THEN w - 1 ELSE n - 1 BY <1>0
<1>5. \E y \in Int : (n + 1) % w = m + 1 + y * w
  <2>1. CASE n + 1 = w
    <3>1. 0 = m + 1 + (z - 1) * w BY <1>0, <1>1, <1>2, <2>1
    <3>2. z - 1 \in Int OBVIOUS
    <3> QED BY <1>3, <2>1, <3>1, <3>2
  <2>2. CASE n + 1 # w
    <3>1. n + 1 = m + 1 + z * w BY <1>0, <1>1, <1>2
    <3>2. (n + 1) % w = n + 1 BY <1>3, <2>2
    <3> QED BY <3>1, <3>2
  <2> QED BY <2>1, <2>2
<1>6. \E y \in Int : (n + w - 1) % w = m - 1 + y * w
  <2>1. CASE n = 0
    <3>1. w - 1 = m - 1 + (z + 1) * w BY <1>0, <1>1, <1>2, <2>1
    <3>2. z + 1 \in Int OBVIOUS
    <3> QED BY <1>4, <2>1, <3>1, <3>2
  <2>2. CASE n # 0
    <3>1. n - 1 = m - 1 + z * w BY <1>0, <1>1, <1>2
    <3>2. (n + w - 1) % w = n - 1 BY <1>4, <2>2
    <3> QED BY <3>1, <3>2
  <2> QED BY <2>1, <2>2
<1> QED BY <1>5, <1>6 DEF Wrapped

LEMMA NotWrapped ==
  ASSUME NEW n \in Counter, NEW m \in Counter, Wrapped(n, m)
  PROVE  n = m
<1> PICK w \in Nat \ {0} : w = WordSize BY FixedSizesAssumption
<1>0. n \in 0 .. w - 1 /\ m \in 0 .. w - 1 BY DEF Counter
<1>1. PICK z \in Int : n = m + z * w BY DEF Wrapped
<1>2. z * w < w /\ -w < z * w BY <1>0, <1>1
<1>3. z < 1
  <2> SUFFICES ASSUME z >= 1 PROVE FALSE OBVIOUS
  <2>1. (z - 1) * w >= 0 /\ (z - 1) * w = z * w - w OBVIOUS
  <2> QED BY <1>2, <2>1
<1>4. z > -1
  <2> SUFFICES ASSUME z <= -1 PROVE FALSE OBVIOUS
  <2>1. (-1 - z) * w >= 0 /\ (-1 - z) * w = -w - z * w OBVIOUS
  <2> QED BY <1>2, <2>1
<1>5. z = 0 BY <1>3, <1>4
<1> QED BY <1>0, <1>1, <1>5

\* One or none, as p is among those who lag or not.
Lags(p, ls, c) == IF pc[p] \in ls /\ k[p] = c THEN 1 ELSE 0

LEMMA LagMoves ==
  ASSUME NEW p \in Procs, OthersKept(p), NEW ls, NEW c
  PROVE  /\ Cardinality(Lagging(ls, c)) \in Nat /\ Cardinality(Lagging(ls, c)') \in Nat
         /\ Cardinality(Lagging(ls, c)') =
              Cardinality(Lagging(ls, c)) - Lags(p, ls, c) + Lags(p, ls, c)'
<1> DEFINE S == Lagging(ls, c)
<1> PICK T : T = Lagging(ls, c)' OBVIOUS
<1>1. IsFiniteSet(S) /\ IsFiniteSet(T)
  BY FixedSetsAssumption, FS_Subset DEF Lagging
<1>2. PICK s \in Nat : s = Cardinality(S) BY <1>1, FS_CardinalityType
<1>3. PICK t \in Nat : t = Cardinality(T) BY <1>1, FS_CardinalityType
<1>4. \A q \in Procs : q # p => (q \in T <=> q \in S) BY DEF Lagging, OthersKept
<1>5. T \subseteq Procs /\ S \subseteq Procs BY DEF Lagging
<1>6. (p \in S <=> Lags(p, ls, c) = 1) /\ (p \notin S <=> Lags(p, ls, c) = 0)
  BY DEF Lagging, Lags
<1>7. (p \in T <=> Lags(p, ls, c)' = 1) /\ (p \notin T <=> Lags(p, ls, c)' = 0)
  BY DEF Lagging, Lags
<1> HIDE DEF S
<1>8. CASE p \in S /\ p \in T
  <2>1. T = S BY <1>4, <1>5, <1>8
  <2> QED BY <1>2, <1>6, <1>7, <1>8, <2>1 DEF S
<1>9. CASE p \notin S /\ p \notin T
  <2>1. T = S BY <1>4, <1>5, <1>9
  <2> QED BY <1>2, <1>6, <1>7, <1>9, <2>1 DEF S
<1>10. CASE p \in S /\ p \notin T
  <2>1. T = S \ {p} BY <1>4, <1>5, <1>10
  <2>2. t = s - 1 BY <1>1, <1>2, <1>3, <1>10, <2>1, FS_RemoveElement
  <2> QED BY <1>2, <1>3, <1>6, <1>7, <1>10, <2>2 DEF S
<1>11. CASE p \notin S /\ p \in T
  <2>1. T = S \cup {p} BY <1>4, <1>5, <1>11
  <2>2. t = s + 1 BY <1>1, <1>2, <1>3, <1>11, <2>1, FS_AddElement
  <2> QED BY <1>2, <1>3, <1>6, <1>7, <1>11, <2>2 DEF S
<1> QED BY <1>8, <1>9, <1>10, <1>11

LEMMA DueTypes ==
  ASSUME TypeOK, NEW c \in Classes
  PROVE  /\ Len(cache[c]) \in Nat /\ Cardinality(InUse(c)) \in Nat
         /\ \A ls : Cardinality(Lagging(ls, c)) \in Nat
         /\ FreeDue(c) \in Int /\ UsedDue(c) \in Int
         /\ free[c] \in Counter /\ used[c] \in Counter
<1>1. Len(cache[c]) \in Nat BY CachedBlocks
<1>2. Cardinality(InUse(c)) \in Nat
  BY FixedSetsAssumption, FS_Subset, FS_CardinalityType DEF InUse
<1>3. ASSUME NEW ls PROVE Cardinality(Lagging(ls, c)) \in Nat
  BY FixedSetsAssumption, FS_Subset, FS_CardinalityType DEF Lagging
<1>4. PICK n \in Nat : n = Len(cache[c]) BY <1>1
<1>5. PICK u \in Nat : u = Cardinality(InUse(c)) BY <1>2
<1>6. PICK a \in Nat : a = Cardinality(Lagging(FreeAhead, c)) BY <1>3
<1>7. PICK b \in Nat : b = Cardinality(Lagging(FreeBehind, c)) BY <1>3
<1>8. PICK d \in Nat : d = Cardinality(Lagging(UsedAhead, c)) BY <1>3
<1>9. PICK e \in Nat : e = Cardinality(Lagging(UsedBehind, c)) BY <1>3
<1>10. FreeDue(c) \in Int
  <2>1. FreeDue(c) = n + a - b BY <1>4, <1>6, <1>7 DEF FreeDue
  <2> QED BY <2>1
<1>11. UsedDue(c) \in Int
  <2>1. UsedDue(c) = u + d - e BY <1>5, <1>8, <1>9 DEF UsedDue
  <2> QED BY <2>1
<1> QED BY <1>1, <1>2, <1>3, <1>10, <1>11 DEF TypeOK

\* What is due changes by the block that is cached or lent, and by where p is.
LEMMA DueMoves ==
  ASSUME TypeOK, TypeOK', NEW p \in Procs, OthersKept(p), NEW c \in Classes
  PROVE  /\ FreeDue(c)' = FreeDue(c) + (Len(cache'[c]) - Len(cache[c]))
                            - Lags(p, FreeAhead, c) + Lags(p, FreeAhead, c)'
                            + Lags(p, FreeBehind, c) - Lags(p, FreeBehind, c)'
         /\ UsedDue(c)' = UsedDue(c) + (Cardinality(InUse(c)') - Cardinality(InUse(c)))
                            - Lags(p, UsedAhead, c) + Lags(p, UsedAhead, c)'
                            + Lags(p, UsedBehind, c) - Lags(p, UsedBehind, c)'
<1>1. PICK n \in Nat : n = Len(cache[c]) BY DueTypes
<1>2. PICK m \in Nat : m = Len(cache'[c])
  <2>1. cache'[c] \in Seq(Md) BY DEF TypeOK
  <2> QED BY <2>1
<1>3. PICK u \in Nat : u = Cardinality(InUse(c)) BY DueTypes
<1>4. PICK v \in Nat : v = Cardinality(InUse(c)')
  BY FixedSetsAssumption, FS_Subset, FS_CardinalityType DEF InUse
<1>5. \A ls : /\ Lags(p, ls, c) \in {0, 1} /\ Lags(p, ls, c)' \in {0, 1} BY DEF Lags
<1>6. ASSUME NEW x \in Nat, NEW y \in Nat, NEW A, NEW B
      PROVE  x + Cardinality(Lagging(A, c)') - Cardinality(Lagging(B, c)')
               = (y + Cardinality(Lagging(A, c)) - Cardinality(Lagging(B, c))) + (x - y)
                   - Lags(p, A, c) + Lags(p, A, c)' + Lags(p, B, c) - Lags(p, B, c)'
  <2>1. PICK a \in Nat : a = Cardinality(Lagging(A, c)) BY LagMoves
  <2>2. PICK b \in Nat : b = Cardinality(Lagging(B, c)) BY LagMoves
  <2>3. PICK i \in {0, 1} : i = Lags(p, A, c) BY <1>5
  <2>4. PICK j \in {0, 1} : j = Lags(p, A, c)' BY <1>5
  <2>5. PICK h \in {0, 1} : h = Lags(p, B, c) BY <1>5
  <2>6. PICK l \in {0, 1} : l = Lags(p, B, c)' BY <1>5
  <2>7. Cardinality(Lagging(A, c)') = a - i + j BY <2>1, <2>3, <2>4, LagMoves
  <2>8. Cardinality(Lagging(B, c)') = b - h + l BY <2>2, <2>5, <2>6, LagMoves
  <2>9. x + (a - i + j) - (b - h + l) = (y + a - b) + (x - y) - i + j + h - l OBVIOUS
  <2> QED BY <2>1, <2>2, <2>3, <2>4, <2>5, <2>6, <2>7, <2>8, <2>9, Zenon
<1>7. FreeDue(c)' = m + Cardinality(Lagging(FreeAhead, c)')
                      - Cardinality(Lagging(FreeBehind, c)')
  BY <1>2 DEF FreeDue, FreeAhead, FreeBehind
<1>8. UsedDue(c)' = v + Cardinality(Lagging(UsedAhead, c)')
                      - Cardinality(Lagging(UsedBehind, c)')
  BY <1>4 DEF UsedDue, UsedAhead, UsedBehind
<1>9. FreeDue(c) = n + Cardinality(Lagging(FreeAhead, c)) - Cardinality(Lagging(FreeBehind, c))
  BY <1>1 DEF FreeDue
<1>10. UsedDue(c) = u + Cardinality(Lagging(UsedAhead, c)) - Cardinality(Lagging(UsedBehind, c))
  BY <1>3 DEF UsedDue
<1>11. FreeDue(c)' = FreeDue(c) + (m - n)
                      - Lags(p, FreeAhead, c) + Lags(p, FreeAhead, c)'
                      + Lags(p, FreeBehind, c) - Lags(p, FreeBehind, c)'
  <2> PICK A : A = FreeAhead OBVIOUS
  <2> PICK B : B = FreeBehind OBVIOUS
  <2>1. /\ Lags(p, FreeAhead, c) = Lags(p, A, c) /\ Lags(p, FreeBehind, c) = Lags(p, B, c)
        /\ Lagging(FreeAhead, c) = Lagging(A, c) /\ Lagging(FreeBehind, c) = Lagging(B, c)
    OBVIOUS
  <2>2. /\ Lags(p, FreeAhead, c)' = Lags(p, A, c)' /\ Lags(p, FreeBehind, c)' = Lags(p, B, c)'
        /\ Lagging(FreeAhead, c)' = Lagging(A, c)' /\ Lagging(FreeBehind, c)' = Lagging(B, c)'
    BY DEF Lags, Lagging, FreeAhead, FreeBehind
  <2>3. m + Cardinality(Lagging(A, c)') - Cardinality(Lagging(B, c)')
               = (n + Cardinality(Lagging(A, c)) - Cardinality(Lagging(B, c))) + (m - n)
                   - Lags(p, A, c) + Lags(p, A, c)' + Lags(p, B, c) - Lags(p, B, c)'
    BY <1>6
  <2> QED BY <1>7, <1>9, <2>1, <2>2, <2>3, Zenon
<1>12. UsedDue(c)' = UsedDue(c) + (v - u)
                      - Lags(p, UsedAhead, c) + Lags(p, UsedAhead, c)'
                      + Lags(p, UsedBehind, c) - Lags(p, UsedBehind, c)'
  <2> PICK A : A = UsedAhead OBVIOUS
  <2> PICK B : B = UsedBehind OBVIOUS
  <2>1. /\ Lags(p, UsedAhead, c) = Lags(p, A, c) /\ Lags(p, UsedBehind, c) = Lags(p, B, c)
        /\ Lagging(UsedAhead, c) = Lagging(A, c) /\ Lagging(UsedBehind, c) = Lagging(B, c)
    OBVIOUS
  <2>2. /\ Lags(p, UsedAhead, c)' = Lags(p, A, c)' /\ Lags(p, UsedBehind, c)' = Lags(p, B, c)'
        /\ Lagging(UsedAhead, c)' = Lagging(A, c)' /\ Lagging(UsedBehind, c)' = Lagging(B, c)'
    BY DEF Lags, Lagging, UsedAhead, UsedBehind
  <2>3. v + Cardinality(Lagging(A, c)') - Cardinality(Lagging(B, c)')
               = (u + Cardinality(Lagging(A, c)) - Cardinality(Lagging(B, c))) + (v - u)
                   - Lags(p, A, c) + Lags(p, A, c)' + Lags(p, B, c) - Lags(p, B, c)'
    BY <1>6
  <2> QED BY <1>8, <1>10, <2>1, <2>2, <2>3, Zenon
<1> QED BY <1>1, <1>2, <1>3, <1>4, <1>11, <1>12, Zenon

\* A counter moves as what is due.
LEMMA WrappedSteps ==
  ASSUME NEW n \in Counter, NEW m \in Int, Wrapped(n, m), NEW d, NEW j, NEW r,
         j = m + d,
         \/ d = 0 /\ r = n
         \/ d = 1 /\ r = (n + 1) % WordSize
         \/ d = -1 /\ r = (n + WordSize - 1) % WordSize
  PROVE  Wrapped(r, j)
<1>1. CASE d = 0 /\ r = n
  <2>1. j = m BY <1>1
  <2> QED BY <1>1, <2>1
<1>2. CASE d = 1 /\ r = (n + 1) % WordSize
  <2>1. j = m + 1 BY <1>2
  <2> QED BY <1>2, <2>1, WrappedMoves
<1>3. CASE d = -1 /\ r = (n + WordSize - 1) % WordSize
  <2>1. j = m - 1 BY <1>3
  <2> QED BY <1>3, <2>1, WrappedMoves
<1> QED BY <1>1, <1>2, <1>3

\* The stack of class c grows by x blocks, u more of its blocks are lent.
LongerBy(c, x) == Len(cache'[c]) = Len(cache[c]) + x
LentBy(c, u) == Cardinality(InUse(c)') = Cardinality(InUse(c)) + u

LEMMA LongerByIs ==
  ASSUME TypeOK, NEW c \in Classes, NEW x \in Int, LongerBy(c, x)
  PROVE  Len(cache'[c]) - Len(cache[c]) = x
<1> PICK n \in Nat : n = Len(cache[c]) BY DueTypes
<1>1. Len(cache'[c]) = n + x BY Zenon DEF LongerBy
<1>2. (n + x) - n = x OBVIOUS
<1> QED BY <1>1, <1>2, Zenon

LEMMA LentByIs ==
  ASSUME TypeOK, NEW c \in Classes, NEW u \in Int, LentBy(c, u)
  PROVE  Cardinality(InUse(c)') - Cardinality(InUse(c)) = u
<1> PICK n \in Nat : n = Cardinality(InUse(c)) BY DueTypes
<1>1. Cardinality(InUse(c)') = n + u BY Zenon DEF LentBy
<1>2. (n + u) - n = u OBVIOUS
<1> QED BY <1>1, <1>2, Zenon

FreePart(c) == Wrapped(free[c], FreeDue(c))
UsedPart(c) == Wrapped(used[c], UsedDue(c))

\* The counter f of class c stays, is raised or lowered.
Moved(f, g, c, d) == \/ d = 0 /\ g[c] = f[c]
                     \/ d = 1 /\ g[c] = (f[c] + 1) % WordSize
                     \/ d = -1 /\ g[c] = (f[c] + WordSize - 1) % WordSize

LEMMA FreePartStep ==
  ASSUME TypeOK, TypeOK', NEW p \in Procs, OthersKept(p), NEW c \in Classes, FreePart(c),
         NEW d, Moved(free, free', c, d),
         NEW x \in Int, LongerBy(c, x),
         d = x - Lags(p, FreeAhead, c) + Lags(p, FreeAhead, c)'
               + Lags(p, FreeBehind, c) - Lags(p, FreeBehind, c)'
  PROVE  FreePart(c)'
<1>1. /\ \A ls : Lags(p, ls, c) \in {0, 1}
      /\ Lags(p, FreeAhead, c)' \in {0, 1} /\ Lags(p, FreeBehind, c)' \in {0, 1}
  BY DEF Lags
<1>2. PICK m \in Int : m = FreeDue(c) BY DueTypes
<1>3. PICK y : y = FreeDue(c)' OBVIOUS
<1>4. y = m + x - Lags(p, FreeAhead, c) + Lags(p, FreeAhead, c)'
               + Lags(p, FreeBehind, c) - Lags(p, FreeBehind, c)'
  BY <1>2, <1>3, DueMoves, LongerByIs, Zenon
<1>5. y = m + d
  <2> PICK i \in Int : i = Lags(p, FreeAhead, c) BY <1>1
  <2> PICK j \in Int : j = Lags(p, FreeAhead, c)' BY <1>1
  <2> PICK g \in Int : g = Lags(p, FreeBehind, c) BY <1>1
  <2> PICK h \in Int : h = Lags(p, FreeBehind, c)' BY <1>1
  <2>1. d = x - i + j + g - h /\ y = m + x - i + j + g - h BY <1>4, Zenon
  <2>2. m + x - i + j + g - h = m + (x - i + j + g - h) OBVIOUS
  <2> QED BY <2>1, <2>2, Zenon
<1>6. free[c] \in Counter /\ Wrapped(free[c], m) BY <1>2, DueTypes DEF FreePart
<1>7. Wrapped(free'[c], y) BY <1>5, <1>6, WrappedSteps DEF Moved
<1> QED BY <1>3, <1>7 DEF FreePart, Wrapped

LEMMA UsedPartStep ==
  ASSUME TypeOK, TypeOK', NEW p \in Procs, OthersKept(p), NEW c \in Classes, UsedPart(c),
         NEW d, Moved(used, used', c, d),
         NEW x \in Int, LentBy(c, x),
         d = x - Lags(p, UsedAhead, c) + Lags(p, UsedAhead, c)'
               + Lags(p, UsedBehind, c) - Lags(p, UsedBehind, c)'
  PROVE  UsedPart(c)'
<1>1. /\ \A ls : Lags(p, ls, c) \in {0, 1}
      /\ Lags(p, UsedAhead, c)' \in {0, 1} /\ Lags(p, UsedBehind, c)' \in {0, 1}
  BY DEF Lags
<1>2. PICK m \in Int : m = UsedDue(c) BY DueTypes
<1>3. PICK y : y = UsedDue(c)' OBVIOUS
<1>4. y = m + x - Lags(p, UsedAhead, c) + Lags(p, UsedAhead, c)'
               + Lags(p, UsedBehind, c) - Lags(p, UsedBehind, c)'
  BY <1>2, <1>3, DueMoves, LentByIs, Zenon
<1>5. y = m + d
  <2> PICK i \in Int : i = Lags(p, UsedAhead, c) BY <1>1
  <2> PICK j \in Int : j = Lags(p, UsedAhead, c)' BY <1>1
  <2> PICK g \in Int : g = Lags(p, UsedBehind, c) BY <1>1
  <2> PICK h \in Int : h = Lags(p, UsedBehind, c)' BY <1>1
  <2>1. d = x - i + j + g - h /\ y = m + x - i + j + g - h BY <1>4, Zenon
  <2>2. m + x - i + j + g - h = m + (x - i + j + g - h) OBVIOUS
  <2> QED BY <2>1, <2>2, Zenon
<1>6. used[c] \in Counter /\ Wrapped(used[c], m) BY <1>2, DueTypes DEF UsedPart
<1>7. Wrapped(used'[c], y) BY <1>5, <1>6, WrappedSteps DEF Moved
<1> QED BY <1>3, <1>7 DEF UsedPart, Wrapped

LEMMA SameLength ==
  ASSUME TypeOK, NEW c \in Classes, cache'[c] = cache[c]
  PROVE  LongerBy(c, 0)
<1> PICK n \in Nat : n = Len(cache[c]) BY DueTypes
<1>1. n = n + 0 OBVIOUS
<1> QED BY <1>1, Zenon DEF LongerBy

LEMMA SameUse ==
  ASSUME TypeOK, NEW c \in Classes, InUse(c)' = InUse(c)
  PROVE  LentBy(c, 0)
<1> PICK n \in Nat : n = Cardinality(InUse(c)) BY DueTypes
<1>1. n = n + 0 OBVIOUS
<1> QED BY <1>1, Zenon DEF LentBy

\* Of class c nothing is touched, or p is not where it lags.
Place(l) == {s \in {1, 2, 3, 4} : \/ s = 1 /\ l \in FreeAhead
                                  \/ s = 2 /\ l \in FreeBehind
                                  \/ s = 3 /\ l \in UsedAhead
                                  \/ s = 4 /\ l \in UsedBehind}

LEMMA QuietClass ==
  ASSUME TypeOK, TypeOK', NEW p \in Procs, OthersKept(p), NEW c \in Classes,
         FreePart(c), UsedPart(c), free'[c] = free[c], used'[c] = used[c],
         cache'[c] = cache[c], InUse(c)' = InUse(c),
         \/ k[p] # c /\ (k'[p] # c \/ Place(pc'[p]) = {})
         \/ Place(pc[p]) = {} /\ (k'[p] # c \/ Place(pc'[p]) = {})
         \/ Place(pc'[p]) = Place(pc[p]) /\ k'[p] = k[p]
  PROVE  FreePart(c)' /\ UsedPart(c)'
<1>1. \A l : /\ l \in FreeAhead <=> 1 \in Place(l)
             /\ l \in FreeBehind <=> 2 \in Place(l)
             /\ l \in UsedAhead <=> 3 \in Place(l)
             /\ l \in UsedBehind <=> 4 \in Place(l)
  BY DEF Place
<1>2. /\ Lags(p, FreeAhead, c)' = Lags(p, FreeAhead, c)
      /\ Lags(p, FreeBehind, c)' = Lags(p, FreeBehind, c)
      /\ Lags(p, UsedAhead, c)' = Lags(p, UsedAhead, c)
      /\ Lags(p, UsedBehind, c)' = Lags(p, UsedBehind, c)
  <2>1. ASSUME NEW ls, (pc[p] \in ls /\ k[p] = c) <=> (pc'[p] \in ls /\ k'[p] = c)
        PROVE  Lags(p, ls, c) = IF pc'[p] \in ls /\ k'[p] = c THEN 1 ELSE 0
    BY <2>1 DEF Lags
  <2>2. /\ Lags(p, FreeAhead, c)' = IF pc'[p] \in FreeAhead /\ k'[p] = c THEN 1 ELSE 0
        /\ Lags(p, FreeBehind, c)' = IF pc'[p] \in FreeBehind /\ k'[p] = c THEN 1 ELSE 0
        /\ Lags(p, UsedAhead, c)' = IF pc'[p] \in UsedAhead /\ k'[p] = c THEN 1 ELSE 0
        /\ Lags(p, UsedBehind, c)' = IF pc'[p] \in UsedBehind /\ k'[p] = c THEN 1 ELSE 0
    BY DEF Lags, FreeAhead, FreeBehind, UsedAhead, UsedBehind
  <2> QED BY <1>1, <2>1, <2>2
<1>3. \A ls : Lags(p, ls, c) \in {0, 1} BY DEF Lags
<1>4. Moved(free, free', c, 0) /\ Moved(used, used', c, 0) BY DEF Moved
<1>5. 0 = 0 - Lags(p, FreeAhead, c) + Lags(p, FreeAhead, c)'
            + Lags(p, FreeBehind, c) - Lags(p, FreeBehind, c)'
  BY <1>2, <1>3
<1>6. 0 = 0 - Lags(p, UsedAhead, c) + Lags(p, UsedAhead, c)'
            + Lags(p, UsedBehind, c) - Lags(p, UsedBehind, c)'
  BY <1>2, <1>3
<1>7. 0 \in Int OBVIOUS
<1>8. FreePart(c)' BY <1>4, <1>5, <1>7, SameLength, FreePartStep, Zenon
<1>9. UsedPart(c)' BY <1>4, <1>6, <1>7, SameUse, UsedPartStep, Zenon
<1> QED BY <1>8, <1>9

\* By how much the counters are ahead of what they count, with a call at l.
FreeLag(l) == IF l \in FreeAhead THEN 1 ELSE IF l \in FreeBehind THEN -1 ELSE 0
UsedLag(l) == IF l \in UsedAhead THEN 1 ELSE IF l \in UsedBehind THEN -1 ELSE 0

\* The step of a call that works on class c.
LEMMA OwnClass ==
  ASSUME TypeOK, TypeOK', NEW p \in Procs, OthersKept(p), NEW c \in Classes,
         FreePart(c), UsedPart(c),
         NEW l, NEW m, pc[p] = l, pc'[p] = m,
         k[p] = c \/ (FreeLag(l) = 0 /\ UsedLag(l) = 0),
         k'[p] = c \/ (FreeLag(m) = 0 /\ UsedLag(m) = 0),
         NEW x \in Int, LongerBy(c, x),
         NEW u \in Int, LentBy(c, u),
         Moved(free, free', c, x - FreeLag(l) + FreeLag(m)),
         Moved(used, used', c, u - UsedLag(l) + UsedLag(m))
  PROVE  FreePart(c)' /\ UsedPart(c)'
<1>1. /\ Lags(p, FreeAhead, c) = IF l \in FreeAhead /\ k[p] = c THEN 1 ELSE 0
      /\ Lags(p, FreeBehind, c) = IF l \in FreeBehind /\ k[p] = c THEN 1 ELSE 0
      /\ Lags(p, UsedAhead, c) = IF l \in UsedAhead /\ k[p] = c THEN 1 ELSE 0
      /\ Lags(p, UsedBehind, c) = IF l \in UsedBehind /\ k[p] = c THEN 1 ELSE 0
  BY DEF Lags
<1>2. /\ Lags(p, FreeAhead, c)' = IF m \in FreeAhead /\ k'[p] = c THEN 1 ELSE 0
      /\ Lags(p, FreeBehind, c)' = IF m \in FreeBehind /\ k'[p] = c THEN 1 ELSE 0
      /\ Lags(p, UsedAhead, c)' = IF m \in UsedAhead /\ k'[p] = c THEN 1 ELSE 0
      /\ Lags(p, UsedBehind, c)' = IF m \in UsedBehind /\ k'[p] = c THEN 1 ELSE 0
  BY DEF Lags, FreeAhead, FreeBehind, UsedAhead, UsedBehind
<1>3. ~ (l \in FreeAhead /\ l \in FreeBehind) /\ ~ (m \in FreeAhead /\ m \in FreeBehind)
      /\ ~ (l \in UsedAhead /\ l \in UsedBehind) /\ ~ (m \in UsedAhead /\ m \in UsedBehind)
  BY DEF FreeAhead, FreeBehind, UsedAhead, UsedBehind
<1>4. Lags(p, FreeAhead, c) - Lags(p, FreeBehind, c) = FreeLag(l)
  BY <1>1, <1>3 DEF FreeLag
<1>5. Lags(p, UsedAhead, c) - Lags(p, UsedBehind, c) = UsedLag(l)
  BY <1>1, <1>3 DEF UsedLag
<1>6. Lags(p, FreeAhead, c)' - Lags(p, FreeBehind, c)' = FreeLag(m)
  BY <1>2, <1>3 DEF FreeLag
<1>7. Lags(p, UsedAhead, c)' - Lags(p, UsedBehind, c)' = UsedLag(m)
  BY <1>2, <1>3 DEF UsedLag
<1>8. x - FreeLag(l) + FreeLag(m)
        = x - Lags(p, FreeAhead, c) + Lags(p, FreeAhead, c)'
            + Lags(p, FreeBehind, c) - Lags(p, FreeBehind, c)'
  <2> PICK i \in Int : i = Lags(p, FreeAhead, c) BY <1>1
  <2> PICK j \in Int : j = Lags(p, FreeAhead, c)' BY <1>2
  <2> PICK g \in Int : g = Lags(p, FreeBehind, c) BY <1>1
  <2> PICK h \in Int : h = Lags(p, FreeBehind, c)' BY <1>2
  <2>1. FreeLag(l) = i - g /\ FreeLag(m) = j - h BY <1>4, <1>6, Zenon
  <2>2. x - (i - g) + (j - h) = x - i + j + g - h OBVIOUS
  <2> QED BY <2>1, <2>2, Zenon
<1>9. u - UsedLag(l) + UsedLag(m)
        = u - Lags(p, UsedAhead, c) + Lags(p, UsedAhead, c)'
            + Lags(p, UsedBehind, c) - Lags(p, UsedBehind, c)'
  <2> PICK i \in Int : i = Lags(p, UsedAhead, c) BY <1>1
  <2> PICK j \in Int : j = Lags(p, UsedAhead, c)' BY <1>2
  <2> PICK g \in Int : g = Lags(p, UsedBehind, c) BY <1>1
  <2> PICK h \in Int : h = Lags(p, UsedBehind, c)' BY <1>2
  <2>1. UsedLag(l) = i - g /\ UsedLag(m) = j - h BY <1>5, <1>7, Zenon
  <2>2. u - (i - g) + (j - h) = u - i + j + g - h OBVIOUS
  <2> QED BY <2>1, <2>2, Zenon
<1>10. FreePart(c)' BY <1>8, FreePartStep, Zenon
<1>11. UsedPart(c)' BY <1>9, UsedPartStep, Zenon
<1> QED BY <1>10, <1>11

\* Classes of which nothing changes, and where p has no business before or after.
Untouched(c) == /\ free'[c] = free[c] /\ used'[c] = used[c]
                /\ cache'[c] = cache[c] /\ InUse(c)' = InUse(c)

LEMMA CountersAre ==
  /\ CountersOK <=> \A c \in Classes : FreePart(c) /\ UsedPart(c)
  /\ CountersOK' <=> \A c \in Classes : FreePart(c)' /\ UsedPart(c)'
BY DEF CountersOK, FreePart, UsedPart

LEMMA OwnStep ==
  ASSUME TypeOK, TypeOK', CountersOK, NEW p \in Procs, OthersKept(p), NEW o \in Classes,
         \A c \in Classes : c # o => Untouched(c),
         NEW l, NEW m, pc[p] = l, pc'[p] = m,
         k[p] = o \/ Place(l) = {}, k'[p] = o \/ Place(m) = {},
         NEW x \in Int, LongerBy(o, x),
         NEW u \in Int, LentBy(o, u),
         Moved(free, free', o, x - FreeLag(l) + FreeLag(m)),
         Moved(used, used', o, u - UsedLag(l) + UsedLag(m))
  PROVE  CountersOK'
<1>1. \A i : Place(i) = {} => FreeLag(i) = 0 /\ UsedLag(i) = 0
  BY DEF Place, FreeLag, UsedLag
<1>2. FreePart(o) /\ UsedPart(o) BY CountersAre
<1>3. FreePart(o)' /\ UsedPart(o)'
  <2>1. k[p] = o \/ (FreeLag(l) = 0 /\ UsedLag(l) = 0) BY <1>1
  <2>2. k'[p] = o \/ (FreeLag(m) = 0 /\ UsedLag(m) = 0) BY <1>1
  <2> QED BY <1>2, <2>1, <2>2, OwnClass, Zenon
<1>4. ASSUME NEW c \in Classes, c # o PROVE FreePart(c)' /\ UsedPart(c)'
  <2>1. FreePart(c) /\ UsedPart(c) BY CountersAre
  <2>2. Untouched(c) BY <1>4
  <2>3. \/ k[p] # c /\ (k'[p] # c \/ Place(pc'[p]) = {})
        \/ Place(pc[p]) = {} /\ Place(pc'[p]) = {}
        \/ Place(pc[p]) = {} /\ k'[p] # c
    BY <1>4
  <2>4. CASE k[p] # c /\ (k'[p] # c \/ Place(pc'[p]) = {})
    BY <2>1, <2>2, <2>4, QuietClass DEF Untouched
  <2>5. CASE Place(pc[p]) = {} /\ Place(pc'[p]) = {}
    BY <2>1, <2>2, <2>5, QuietClass DEF Untouched
  <2>6. CASE Place(pc[p]) = {} /\ k'[p] # c
    BY <2>1, <2>2, <2>6, QuietClass DEF Untouched
  <2> QED BY <2>3, <2>4, <2>5, <2>6
<1> QED BY <1>3, <1>4, CountersAre, Zenon

LEMMA QuietStep ==
  ASSUME TypeOK, TypeOK', CountersOK, NEW p \in Procs, OthersKept(p),
         \A c \in Classes : Untouched(c),
         \/ Place(pc[p]) = {} /\ Place(pc'[p]) = {}
         \/ Place(pc'[p]) = Place(pc[p]) /\ k'[p] = k[p]
  PROVE  CountersOK'
<1>1. ASSUME NEW c \in Classes PROVE FreePart(c)' /\ UsedPart(c)'
  <2>1. FreePart(c) /\ UsedPart(c) BY CountersAre
  <2>2. Untouched(c) OBVIOUS
  <2> QED BY <2>1, <2>2, QuietClass DEF Untouched
<1> QED BY <1>1, CountersAre, Zenon

\* The counters while a call is at l: ahead, behind or right.
LEMMA LagTable ==
  /\ \A l \in {"idle", "popHead", "popNext", "popCas", "base", "largeBase", "noSuperBlock"} :
       Place(l) = {} /\ FreeLag(l) = 0 /\ UsedLag(l) = 0
  /\ \A l \in {"dupNew", "readUsed", "readFree", "light", "lightUsed", "push", "pushLink",
               "pushCas"} :
       Place(l) = {3} /\ FreeLag(l) = 0 /\ UsedLag(l) = 1
  /\ FreeLag("popUsed") = 1 /\ UsedLag("popUsed") = 0
  /\ FreeLag("popFree") = 1 /\ UsedLag("popFree") = 1
  /\ FreeLag("baseUsed") = 0 /\ UsedLag("baseUsed") = -1
  /\ FreeLag("pushUsed") = -1 /\ UsedLag("pushUsed") = 1
  /\ FreeLag("pushFree") = -1 /\ UsedLag("pushFree") = 0
BY DEF Place, FreeLag, UsedLag, FreeAhead, FreeBehind, UsedAhead, UsedBehind

LEMMA UseKept ==
  ASSUME UNCHANGED <<ref, size>>, NEW c PROVE InUse(c)' = InUse(c)
BY DEF InUse

\* The steps by which no counter moves and nothing that is counted.
LEMMA CountersQuiet ==
  ASSUME IInv, TypeOK', CountersOK, NEW p \in Procs,
         \/ \E n \in Sizes : Allocate(p, n)
         \/ PopHead(p) \/ PopNext(p) \/ AllocateFails(p) \/ ReadUsed(p) \/ ReadFree(p)
         \/ Light(p) \/ Push(p) \/ PushLink(p)
         \/ (PopCas(p) /\ head[k[p]] # seen[p]) \/ (PushCas(p) /\ head[k[p]] # seen[p])
  PROVE  CountersOK'
<1> USE DEF GoTo
<1>0. TypeOK BY DEF IInv
<1>1. UNCHANGED <<ref, size, used, free, cache>>
  BY DEF Allocate, PopHead, PopNext, AllocateFails, ReadUsed, ReadFree, Light, Push, PushLink,
         PopCas, PushCas, base, supers
<1>2. \A c \in Classes : Untouched(c) BY <1>1, UseKept DEF Untouched
<1>3. CASE \E n \in Sizes : Allocate(p, n)
  <2>1. OthersKept(p) /\ pc[p] = "idle" /\ pc'[p] \in {"popHead", "largeBase"}
    BY <1>0, <1>3 DEF Allocate, TypeOK, OthersKept
  <2>2. Place(pc[p]) = {} /\ Place(pc'[p]) = {} BY <2>1, LagTable
  <2> QED BY <1>0, <1>2, <2>1, <2>2, QuietStep
<1>4. CASE PopHead(p) \/ PopNext(p) \/ (PopCas(p) /\ head[k[p]] # seen[p])
  <2>1. OthersKept(p) /\ pc[p] \in {"popHead", "popNext", "popCas"}
    BY <1>0, <1>4 DEF PopHead, PopNext, PopCas, TypeOK, OthersKept
  <2>2. pc'[p] \in {"popHead", "popNext", "popCas", "base"}
    BY <1>0, <1>4 DEF PopHead, PopNext, PopCas, TypeOK
  <2>3. Place(pc[p]) = {} /\ Place(pc'[p]) = {} BY <2>1, <2>2, LagTable
  <2> QED BY <1>0, <1>2, <2>1, <2>3, QuietStep
<1>5. CASE AllocateFails(p)
  <2>1. OthersKept(p) /\ pc[p] \in {"base", "largeBase"} /\ pc'[p] = "idle"
    BY <1>0, <1>5, IdleType DEF AllocateFails
  <2>2. Place(pc[p]) = {} /\ Place(pc'[p]) = {} BY <2>1, LagTable
  <2> QED BY <1>0, <1>2, <2>1, <2>2, QuietStep
<1>6. CASE \/ ReadUsed(p) \/ ReadFree(p) \/ (Light(p) /\ pc'[p] # "lightUsed") \/ Push(p)
           \/ PushLink(p) \/ (PushCas(p) /\ head[k[p]] # seen[p])
  <2>1. OthersKept(p) /\ k'[p] = k[p]
    BY <1>0, <1>6 DEF ReadUsed, ReadFree, Light, Push, PushLink, PushCas, TypeOK, OthersKept,
                      regs
  <2>2. /\ pc[p] \in {"readUsed", "readFree", "light", "push", "pushLink", "pushCas"}
        /\ pc'[p] \in {"readFree", "light", "push", "pushLink", "pushCas"}
    BY <1>0, <1>6 DEF ReadUsed, ReadFree, Light, Push, PushLink, PushCas, TypeOK
  <2>3. Place(pc'[p]) = Place(pc[p])
    <3>1. Place(pc'[p]) = {3} BY <2>2, LagTable
    <3>2. Place(pc[p]) = {3} BY <2>2, LagTable
    <3> QED BY <3>1, <3>2
  <2> QED BY <1>0, <1>2, <2>1, <2>3, QuietStep
<1>7. CASE Light(p) /\ pc'[p] = "lightUsed"
  <2>1. OthersKept(p) /\ k'[p] = k[p] /\ pc[p] = "light"
    BY <1>0, <1>7 DEF Light, TypeOK, OthersKept, regs
  <2>2. Place(pc'[p]) = Place(pc[p])
    <3>1. Place(pc'[p]) = {3} BY <1>7, LagTable
    <3>2. Place(pc[p]) = {3} BY <2>1, LagTable
    <3> QED BY <3>1, <3>2
  <2> QED BY <1>0, <1>2, <2>1, <2>2, QuietStep
<1> QED BY <1>3, <1>4, <1>5, <1>6, <1>7

\* The steps that move a counter and nothing that is counted.
LEMMA CountersCounted ==
  ASSUME IInv, TypeOK', CountersOK, NEW p \in Procs,
         \/ PopUsed(p) \/ PopFree(p) \/ BaseUsed(p) \/ LightUsed(p) \/ PushUsed(p)
         \/ PushFree(p)
  PROVE  CountersOK'
<1> USE DEF GoTo
<1>0. TypeOK /\ KOK(p) BY DEF IInv, ProcsOK
<1>1. UNCHANGED <<ref, size, cache>>
  BY DEF PopUsed, PopFree, BaseUsed, LightUsed, PushUsed, PushFree, base
<1>2. pc[p] \in {"popUsed", "popFree", "baseUsed", "lightUsed", "pushUsed", "pushFree"}
  BY DEF PopUsed, PopFree, BaseUsed, LightUsed, PushUsed, PushFree
<1>3. PICK o \in Classes : o = k[p] BY <1>0, <1>2 DEF KOK, InClass, Labels
<1>4. LongerBy(o, 0) /\ LentBy(o, 0) BY <1>0, <1>1, UseKept, SameLength, SameUse
<1>5. ASSUME NEW l \in Labels, NEW m \in Labels, pc[p] = l, pc'[p] = m, OthersKept(p),
             k'[p] = o \/ m = "idle",
             \A c \in Classes : c # o => free'[c] = free[c] /\ used'[c] = used[c],
             Moved(free, free', o, 0 - FreeLag(l) + FreeLag(m)),
             Moved(used, used', o, 0 - UsedLag(l) + UsedLag(m))
      PROVE  CountersOK'
  <2>1. \A c \in Classes : c # o => Untouched(c) BY <1>1, <1>5, UseKept DEF Untouched
  <2>2. k'[p] = o \/ Place(m) = {} BY <1>5, LagTable
  <2>3. k[p] = o \/ Place(l) = {} BY <1>3
  <2>4. 0 \in Int OBVIOUS
  <2> QED BY <1>0, <1>4, <1>5, <2>1, <2>2, <2>3, <2>4, OwnStep
<1>6. used \in [Classes -> Counter] /\ free \in [Classes -> Counter] BY <1>0 DEF TypeOK
<1>7. CASE PopUsed(p)
  <2>1. /\ OthersKept(p) /\ pc[p] = "popUsed" /\ pc'[p] = "popFree" /\ k'[p] = o
        /\ \A c \in Classes : c # o => free'[c] = free[c] /\ used'[c] = used[c]
        /\ free'[o] = free[o] /\ used'[o] = (used[o] + 1) % WordSize
    BY <1>0, <1>3, <1>6, <1>7 DEF PopUsed, Add, TypeOK, OthersKept, regs
  <2>2. /\ 0 - FreeLag("popUsed") + FreeLag("popFree") = 0
        /\ 0 - UsedLag("popUsed") + UsedLag("popFree") = 1
    BY LagTable
  <2> QED BY <1>5, <2>1, <2>2 DEF Moved, Labels
<1>8. CASE PopFree(p)
  <2>1. /\ OthersKept(p) /\ pc[p] = "popFree" /\ pc'[p] = "dupNew" /\ k'[p] = o
        /\ \A c \in Classes : c # o => free'[c] = free[c] /\ used'[c] = used[c]
        /\ used'[o] = used[o] /\ free'[o] = (free[o] + WordSize - 1) % WordSize
    BY <1>0, <1>3, <1>6, <1>8 DEF PopFree, Sub, TypeOK, OthersKept, regs
  <2>2. /\ 0 - FreeLag("popFree") + FreeLag("dupNew") = -1
        /\ 0 - UsedLag("popFree") + UsedLag("dupNew") = 0
    BY LagTable
  <2> QED BY <1>5, <2>1, <2>2 DEF Moved, Labels
<1>9. CASE BaseUsed(p)
  <2>1. /\ OthersKept(p) /\ pc[p] = "baseUsed" /\ pc'[p] = "idle"
        /\ \A c \in Classes : c # o => free'[c] = free[c] /\ used'[c] = used[c]
        /\ free'[o] = free[o] /\ used'[o] = (used[o] + 1) % WordSize
    BY <1>0, <1>3, <1>6, <1>9, IdleType DEF BaseUsed, HandOut, Add
  <2>2. /\ 0 - FreeLag("baseUsed") + FreeLag("idle") = 0
        /\ 0 - UsedLag("baseUsed") + UsedLag("idle") = 1
    BY LagTable
  <2> QED BY <1>5, <2>1, <2>2 DEF Moved, Labels
<1>10. CASE LightUsed(p)
  <2>1. /\ OthersKept(p) /\ pc[p] = "lightUsed" /\ pc'[p] = "idle"
        /\ \A c \in Classes : c # o => free'[c] = free[c] /\ used'[c] = used[c]
        /\ free'[o] = free[o] /\ used'[o] = (used[o] + WordSize - 1) % WordSize
    BY <1>0, <1>3, <1>6, <1>10, IdleType DEF LightUsed, Sub
  <2>2. /\ 0 - FreeLag("lightUsed") + FreeLag("idle") = 0
        /\ 0 - UsedLag("lightUsed") + UsedLag("idle") = -1
    BY LagTable
  <2> QED BY <1>5, <2>1, <2>2 DEF Moved, Labels
<1>11. CASE PushUsed(p)
  <2>1. /\ OthersKept(p) /\ pc[p] = "pushUsed" /\ pc'[p] = "pushFree" /\ k'[p] = o
        /\ \A c \in Classes : c # o => free'[c] = free[c] /\ used'[c] = used[c]
        /\ free'[o] = free[o] /\ used'[o] = (used[o] + WordSize - 1) % WordSize
    BY <1>0, <1>3, <1>6, <1>11 DEF PushUsed, Sub, TypeOK, OthersKept, regs
  <2>2. /\ 0 - FreeLag("pushUsed") + FreeLag("pushFree") = 0
        /\ 0 - UsedLag("pushUsed") + UsedLag("pushFree") = -1
    BY LagTable
  <2> QED BY <1>5, <2>1, <2>2 DEF Moved, Labels
<1>12. CASE PushFree(p)
  <2>1. /\ OthersKept(p) /\ pc[p] = "pushFree" /\ pc'[p] = "idle"
        /\ \A c \in Classes : c # o => free'[c] = free[c] /\ used'[c] = used[c]
        /\ used'[o] = used[o] /\ free'[o] = (free[o] + 1) % WordSize
    BY <1>0, <1>3, <1>6, <1>12, IdleType DEF PushFree, Add
  <2>2. /\ 0 - FreeLag("pushFree") + FreeLag("idle") = 1
        /\ 0 - UsedLag("pushFree") + UsedLag("idle") = 0
    BY LagTable
  <2> QED BY <1>5, <2>1, <2>2 DEF Moved, Labels
<1> QED BY <1>7, <1>8, <1>9, <1>10, <1>11, <1>12

\* The steps that change what is counted: the stack of a class ...
LEMMA CountersStacked ==
  ASSUME IInv, TypeOK', CountersOK, NEW p \in Procs, head[k[p]] = seen[p],
         PopCas(p) \/ PushCas(p)
  PROVE  CountersOK'
<1> USE DEF GoTo
<1>0. TypeOK /\ KOK(p) BY DEF IInv, ProcsOK
<1>1. UNCHANGED <<ref, size, used, free, k>> BY DEF PopCas, PushCas, base, regs
<1>2. pc[p] \in {"popCas", "pushCas"} BY DEF PopCas, PushCas
<1>3. PICK o \in Classes : o = k[p] BY <1>0, <1>2 DEF KOK, InClass, Labels
<1>4. LentBy(o, 0) BY <1>0, <1>1, UseKept, SameUse
<1>5. PICK s \in Seq(Md) : s = cache[o] BY <1>0 DEF TypeOK
<1>6. PICK n \in Nat : n = Len(s) BY <1>5
<1>7. ASSUME NEW l \in Labels, NEW m \in Labels, pc[p] = l, pc'[p] = m, OthersKept(p),
             NEW t, cache' = [cache EXCEPT ![o] = t],
             NEW x \in {1, -1}, Len(t) = n + x,
             x - FreeLag(l) + FreeLag(m) = 0, UsedLag(l) = UsedLag(m), UsedLag(l) \in Int
      PROVE  CountersOK'
  <2>1. \A c \in Classes : c # o => Untouched(c)
    BY <1>0, <1>1, <1>7, UseKept DEF Untouched, TypeOK
  <2>2. cache'[o] = t BY <1>0, <1>7 DEF TypeOK
  <2>3. LongerBy(o, x) BY <1>5, <1>6, <1>7, <2>2, Zenon DEF LongerBy
  <2>4. 0 - UsedLag(l) + UsedLag(m) = 0 BY <1>7
  <2>5. Moved(free, free', o, x - FreeLag(l) + FreeLag(m)) BY <1>1, <1>7 DEF Moved
  <2>6. Moved(used, used', o, 0 - UsedLag(l) + UsedLag(m)) BY <1>1, <2>4 DEF Moved
  <2>7. k[p] = o /\ k'[p] = o BY <1>1, <1>3
  <2>8. x \in Int /\ 0 \in Int BY <1>7
  <2> QED BY <1>0, <1>4, <1>7, <2>1, <2>3, <2>5, <2>6, <2>7, <2>8, OwnStep
<1>8. CASE PopCas(p)
  <2>1. /\ OthersKept(p) /\ pc[p] = "popCas" /\ pc'[p] = "popUsed"
        /\ cache' = [cache EXCEPT ![o] = Tail(s)]
    BY <1>0, <1>3, <1>5, <1>8 DEF PopCas, TypeOK, OthersKept
  <2>2. n \in Nat \ {0} BY <1>3, <1>5, <1>6, <2>1, PopFacts
  <2>3. Len(Tail(s)) = n + (-1)
    <3>1. Len(Tail(s)) = Len(s) - 1 BY <1>6, <2>2, TailAt
    <3>2. n - 1 = n + (-1) OBVIOUS
    <3> QED BY <1>6, <3>1, <3>2, Zenon
  <2>4. /\ (-1) - FreeLag("popCas") + FreeLag("popUsed") = 0
        /\ UsedLag("popCas") = 0 /\ UsedLag("popUsed") = 0
    BY LagTable
  <2>5. -1 \in {1, -1} /\ "popCas" \in Labels /\ "popUsed" \in Labels /\ 0 \in Int
    BY DEF Labels
  <2>6. PICK t : t = Tail(s) OBVIOUS
  <2> QED BY <1>7, <2>1, <2>3, <2>4, <2>5, <2>6
<1>9. CASE PushCas(p)
  <2>1. /\ OthersKept(p) /\ pc[p] = "pushCas" /\ pc'[p] = "pushUsed" /\ InHand(p)
        /\ cache' = [cache EXCEPT ![o] = <<md[p]>> \o s]
    BY <1>0, <1>3, <1>5, <1>9 DEF PushCas, TypeOK, OthersKept, regs, InHand
  <2>2. PICK m \in Md : m = md[p] BY <2>1, HandFacts
  <2>3. Len(<<m>> \o s) = n + 1 BY <1>6, PushAt, Zenon
  <2>4. /\ 1 - FreeLag("pushCas") + FreeLag("pushUsed") = 0
        /\ UsedLag("pushCas") = 1 /\ UsedLag("pushUsed") = 1
    BY LagTable
  <2>5. 1 \in {1, -1} /\ "pushCas" \in Labels /\ "pushUsed" \in Labels /\ 1 \in Int
    BY DEF Labels
  <2>6. PICK t : t = <<m>> \o s OBVIOUS
  <2>7. cache' = [cache EXCEPT ![o] = t] BY <2>1, <2>2, <2>6
  <2>8. Len(t) = n + 1 BY <2>3, <2>6, Zenon
  <2>9. UsedLag("pushCas") = UsedLag("pushUsed") /\ UsedLag("pushCas") \in Int BY <2>4, <2>5
  <2>10. pc[p] = "pushCas" /\ pc'[p] = "pushUsed" /\ OthersKept(p) BY <2>1
  <2> QED BY <1>7, <2>4, <2>5, <2>7, <2>8, <2>9, <2>10
<1> QED BY <1>8, <1>9

\* ... or the blocks of a class that are lent.
LEMMA OneMoreLent ==
  ASSUME TypeOK, NEW c \in Classes, NEW b \in Blocks, b \notin InUse(c),
         InUse(c)' = InUse(c) \cup {b}
  PROVE  LentBy(c, 1)
<1>1. IsFiniteSet(InUse(c)) BY FixedSetsAssumption, FS_Subset DEF InUse
<1> QED BY <1>1, FS_AddElement DEF LentBy

LEMMA OneFewerLent ==
  ASSUME TypeOK, NEW c \in Classes, NEW b \in InUse(c), InUse(c)' = InUse(c) \ {b}
  PROVE  LentBy(c, -1)
<1>1. IsFiniteSet(InUse(c)) BY FixedSetsAssumption, FS_Subset DEF InUse
<1>2. PICK n \in Nat : n = Cardinality(InUse(c)) BY DueTypes
<1>3. Cardinality(InUse(c)') = n - 1 BY <1>1, <1>2, FS_RemoveElement
<1>4. n - 1 = n + (-1) OBVIOUS
<1> QED BY <1>2, <1>3, <1>4, Zenon DEF LentBy

LEMMA OneClass ==
  ASSUME NEW c \in Classes, NEW d \in Classes, BlockSize(c) = BlockSize(d)
  PROVE  c = d
<1>1. SuperBlockId(BlockSize(c)) = c BY FixedClassesAssumption
<1>2. SuperBlockId(BlockSize(d)) = d BY FixedClassesAssumption
<1> QED BY <1>1, <1>2

LEMMA NoClass ==
  ASSUME NEW n \in LargeSizes, NEW c \in Classes PROVE BlockSize(c) # n
<1>1. SuperBlockId(BlockSize(c)) = c BY FixedClassesAssumption
<1>2. SuperBlockId(n) \in Nat /\ SuperBlockId(n) > SuperBlockCount
  BY FixedClassesAssumption DEF LargeSizes
<1>3. c <= SuperBlockCount /\ c \in Nat /\ SuperBlockCount \in Nat
  BY FixedSizesAssumption DEF Classes
<1>4. SuperBlockId(n) # c BY <1>2, <1>3
<1> QED BY <1>1, <1>4

\* The step of class o by which u more of its blocks are lent, no counter moving.
LEMMA LentStep ==
  ASSUME TypeOK, TypeOK', CountersOK, NEW p \in Procs, OthersKept(p), NEW o \in Classes,
         UNCHANGED <<used, free, cache>>,
         \A c \in Classes : c # o => InUse(c)' = InUse(c),
         NEW l, NEW m, pc[p] = l, pc'[p] = m,
         k[p] = o \/ Place(l) = {}, k'[p] = o \/ Place(m) = {},
         NEW u \in Int, LentBy(o, u),
         FreeLag(l) = 0, FreeLag(m) = 0, u - UsedLag(l) + UsedLag(m) = 0
  PROVE  CountersOK'
<1>1. \A c \in Classes : c # o => Untouched(c) BY DEF Untouched
<1>2. LongerBy(o, 0) BY SameLength
<1>3. 0 - FreeLag(l) + FreeLag(m) = 0 OBVIOUS
<1>4. Moved(free, free', o, 0 - FreeLag(l) + FreeLag(m)) BY <1>3 DEF Moved
<1>5. Moved(used, used', o, u - UsedLag(l) + UsedLag(m)) BY DEF Moved
<1>6. 0 \in Int OBVIOUS
<1> QED BY <1>1, <1>2, <1>4, <1>5, <1>6, OwnStep

LEMMA CountersLent ==
  ASSUME IInv, TypeOK', CountersOK, NEW p \in Procs,
         DupNew(p) \/ BaseAllocate(p) \/ LargeAllocate(p)
  PROVE  CountersOK'
<1> USE DEF GoTo
<1>0. TypeOK /\ KOK(p) /\ VersionsOK BY DEF IInv, ProcsOK
<1>1. UNCHANGED <<used, free, cache>>
  BY DEF DupNew, BaseAllocate, LargeAllocate, supers
<1>2. CASE DupNew(p)
  <2>1. OthersKept(p) /\ pc[p] = "dupNew" /\ pc'[p] = "idle" /\ InHand(p)
    BY <1>0, <1>2, IdleType DEF DupNew, HandOut, InHand
  <2>2. PICK o \in Classes : o = k[p] BY <1>0, <2>1 DEF KOK, InClass, Labels
  <2>3. PICK b \in Blocks : b = md[p].blk /\ ref[b] = 0 /\ size[b] = BlockSize(o)
    BY <2>1, <2>2, HandFacts
  <2>4. ref' = [ref EXCEPT ![b] = 1] /\ size' = size BY <1>2, <2>3 DEF DupNew
  <2>5. b \notin InUse(o) /\ InUse(o)' = InUse(o) \cup {b}
    BY <1>0, <2>3, <2>4 DEF InUse, TypeOK
  <2>6. \A c \in Classes : c # o => InUse(c)' = InUse(c)
    BY <1>0, <2>3, <2>4, OneClass DEF InUse, TypeOK
  <2>7. LentBy(o, 1) BY <1>0, <2>5, OneMoreLent
  <2>8. /\ FreeLag("dupNew") = 0 /\ FreeLag("idle") = 0 /\ Place("idle") = {}
        /\ 1 - UsedLag("dupNew") + UsedLag("idle") = 0 /\ 1 \in Int
    BY LagTable
  <2> QED BY <1>0, <1>1, <2>1, <2>2, <2>6, <2>7, <2>8, LentStep
<1>3. CASE BaseAllocate(p)
  <2>1. /\ OthersKept(p) /\ pc[p] = "base" /\ pc'[p] = "baseUsed" /\ k'[p] = k[p]
    BY <1>0, <1>3 DEF BaseAllocate, TypeOK, OthersKept
  <2>2. PICK o \in Classes : o = k[p] BY <1>0, <2>1 DEF KOK, InClass, Labels
  <2>3. PICK b \in Blocks : BaseBlock(p, b, BlockSize(o)) BY <1>3, <2>2 DEF BaseAllocate
  <2>4. ref[b] = 0 BY <2>3, ElsewhereFacts DEF BaseBlock
  <2>5. ref' = [ref EXCEPT ![b] = 1] /\ size' = [size EXCEPT ![b] = BlockSize(o)]
    BY <2>3 DEF BaseBlock
  <2>6. b \notin InUse(o) /\ InUse(o)' = InUse(o) \cup {b}
    BY <1>0, <2>4, <2>5 DEF InUse, TypeOK
  <2>7. \A c \in Classes : c # o => InUse(c)' = InUse(c)
    BY <1>0, <2>4, <2>5, OneClass DEF InUse, TypeOK
  <2>8. LentBy(o, 1) BY <1>0, <2>6, OneMoreLent
  <2>9. /\ FreeLag("base") = 0 /\ FreeLag("baseUsed") = 0 /\ Place("base") = {}
        /\ 1 - UsedLag("base") + UsedLag("baseUsed") = 0 /\ 1 \in Int
    BY LagTable
  <2> QED BY <1>0, <1>1, <2>1, <2>2, <2>7, <2>8, <2>9, LentStep
<1>4. CASE LargeAllocate(p)
  <2>1. OthersKept(p) /\ pc[p] = "largeBase" /\ pc'[p] = "idle"
    BY <1>0, <1>4, IdleType DEF LargeAllocate, HandOut
  <2>2. k[p] \in LargeSizes BY <1>0, <2>1 DEF KOK
  <2>3. PICK b \in Blocks : BaseBlock(p, b, k[p]) BY <1>4 DEF LargeAllocate
  <2>4. ref[b] = 0 BY <2>3, ElsewhereFacts DEF BaseBlock
  <2>5. ref' = [ref EXCEPT ![b] = 1] /\ size' = [size EXCEPT ![b] = k[p]]
    BY <2>3 DEF BaseBlock
  <2>6. \A c \in Classes : InUse(c)' = InUse(c)
    BY <1>0, <2>2, <2>4, <2>5, NoClass DEF InUse, TypeOK
  <2>7. \A c \in Classes : Untouched(c) BY <1>1, <2>6 DEF Untouched
  <2>8. Place(pc[p]) = {} /\ Place(pc'[p]) = {} BY <2>1, LagTable
  <2> QED BY <1>0, <2>1, <2>7, <2>8, QuietStep
<1> QED BY <1>2, <1>3, <1>4

LEMMA CountersDup ==
  ASSUME IInv, TypeOK', CountersOK, NEW p \in Procs, NEW m \in issued, DupMd(p, m)
  PROVE  CountersOK'
<1>0. TypeOK /\ m \in Md /\ m.blk \in Blocks BY DEF IInv, TypeOK, Md
<1>1. UNCHANGED <<used, free, cache, size, pc, k, md, seen, link>> /\ pc[p] = "idle"
  BY DEF DupMd, supers, regs
<1>2. ref' = [ref EXCEPT ![m.blk] = @ + 1] /\ ref[m.blk] > 0 /\ ref[m.blk] \in Nat
  BY <1>0 DEF DupMd, TypeOK
<1>3. ASSUME NEW b \in Blocks PROVE ref'[b] > 0 <=> ref[b] > 0
  <2>1. CASE b = m.blk
    <3>1. ref'[b] = ref[b] + 1 BY <1>0, <1>2, <2>1 DEF TypeOK
    <3> QED BY <1>2, <2>1, <3>1
  <2>2. CASE b # m.blk
    <3>1. ref'[b] = ref[b] BY <1>0, <1>2, <2>2 DEF TypeOK
    <3> QED BY <3>1
  <2> QED BY <2>1, <2>2
<1>4. \A c \in Classes : InUse(c)' = InUse(c) BY <1>1, <1>3 DEF InUse
<1>5. OthersKept(p) BY <1>1 DEF OthersKept
<1>6. \A c \in Classes : Untouched(c) BY <1>1, <1>4 DEF Untouched
<1> QED BY <1>0, <1>1, <1>5, <1>6, QuietStep

LEMMA CountersRelease ==
  ASSUME IInv, TypeOK', CountersOK, NEW p \in Procs, NEW m \in issued, Release(p, m)
  PROVE  CountersOK'
<1> USE DEF GoTo
<1>0. TypeOK /\ CountsOK /\ m \in Md /\ m.blk \in Blocks BY DEF IInv, TypeOK, Md
<1>1. UNCHANGED <<used, free, cache, size>> /\ pc[p] = "idle"
  BY DEF Release, supers
<1>b. PICK b \in Blocks : b = m.blk BY <1>0
<1>2. /\ ref' = [ref EXCEPT ![b] = @ - 1] /\ ref[b] > 0 /\ ref[b] \in Nat
      /\ size[b] \in {BlockSize(c) : c \in Classes} \cup LargeSizes
  <2>1. out[m] > 0 /\ out[m] \in Nat /\ out[m] <= ref[b] /\ ref[b] \in Nat
    BY <1>0, <1>b DEF Release, TypeOK, CountsOK
  <2>2. ref[b] > 0 BY <2>1
  <2> QED BY <1>0, <1>b, <2>1, <2>2 DEF Release, CountsOK
<1>3. OthersKept(p) BY <1>0 DEF Release, TypeOK, OthersKept
<1>4. CASE ref[b] > 1
  <2>1. pc' = pc BY <1>b, <1>4 DEF Release
  <2>2. ASSUME NEW a \in Blocks PROVE ref'[a] > 0 <=> ref[a] > 0
    <3>1. CASE a = b
      <4>1. ref'[a] = ref[a] - 1 BY <1>0, <1>2, <3>1 DEF TypeOK
      <4> QED BY <1>2, <1>4, <3>1, <4>1
    <3>2. CASE a # b
      <4>1. ref'[a] = ref[a] BY <1>0, <1>2, <3>2 DEF TypeOK
      <4> QED BY <4>1
    <3> QED BY <3>1, <3>2
  <2>3. \A c \in Classes : InUse(c)' = InUse(c) BY <1>1, <2>2 DEF InUse
  <2>4. \A c \in Classes : Untouched(c) BY <1>1, <2>3 DEF Untouched
  <2>5. Place(pc[p]) = {} /\ Place(pc'[p]) = {} BY <1>1, <2>1, LagTable
  <2> QED BY <1>0, <1>3, <2>4, <2>5, QuietStep
<1>5. CASE ~ (ref[b] > 1)
  <2>1. /\ k'[p] = SuperBlockId(size[b])
        /\ pc'[p] = IF SuperBlockId(size[b]) > SuperBlockCount
                      THEN "noSuperBlock" ELSE "readUsed"
    BY <1>0, <1>b, <1>5 DEF Release, TypeOK
  <2>2. ref'[b] = 0 /\ \A a \in Blocks : a # b => ref'[a] = ref[a]
    BY <1>0, <1>2, <1>5 DEF TypeOK
  <2>3. CASE size[b] \in LargeSizes
    <3>1. pc'[p] = "noSuperBlock" BY <2>1, <2>3, FixedClassesAssumption DEF LargeSizes
    <3>2. \A c \in Classes : InUse(c)' = InUse(c) BY <1>1, <2>2, <2>3, NoClass DEF InUse
    <3>3. \A c \in Classes : Untouched(c) BY <1>1, <3>2 DEF Untouched
    <3>4. Place(pc[p]) = {} /\ Place(pc'[p]) = {} BY <1>1, <3>1, LagTable
    <3> QED BY <1>0, <1>3, <3>3, <3>4, QuietStep
  <2>4. CASE size[b] \in {BlockSize(c) : c \in Classes}
    <3>1. PICK o \in Classes : size[b] = BlockSize(o) BY <2>4
    <3>2. k'[p] = o BY <2>1, <3>1, FixedClassesAssumption
    <3>3. pc'[p] = "readUsed"
      <4>1. o <= SuperBlockCount /\ o \in Nat /\ SuperBlockCount \in Nat
        BY FixedSizesAssumption DEF Classes
      <4>2. SuperBlockId(size[b]) = o BY <3>1, FixedClassesAssumption
      <4> QED BY <2>1, <4>1, <4>2
    <3>4. b \in InUse(o) /\ InUse(o)' = InUse(o) \ {b}
      BY <1>1, <1>2, <2>2, <3>1 DEF InUse
    <3>5. \A c \in Classes : c # o => InUse(c)' = InUse(c)
      BY <1>1, <2>2, <3>1, OneClass DEF InUse
    <3>6. LentBy(o, -1) BY <1>0, <3>4, OneFewerLent
    <3>7. /\ FreeLag("idle") = 0 /\ FreeLag("readUsed") = 0 /\ Place("idle") = {}
          /\ (-1) - UsedLag("idle") + UsedLag("readUsed") = 0 /\ -1 \in Int
      BY LagTable
    <3> QED BY <1>0, <1>1, <1>3, <3>2, <3>3, <3>5, <3>6, <3>7, LentStep
  <2> QED BY <1>2, <2>3, <2>4
<1> QED BY <1>4, <1>5

LEMMA CountersIdle ==
  ASSUME CountersOK, UNCHANGED <<ref, size, used, free, pc, k, cache>>
  PROVE  CountersOK'
BY DEF CountersOK, Wrapped, FreeDue, UsedDue, Lagging, InUse, FreeAhead, FreeBehind,
       UsedAhead, UsedBehind

LEMMA CountersStep == IInv /\ IInv' /\ CountersOK /\ [Next]_vars => CountersOK'
<1> SUFFICES ASSUME IInv, IInv', CountersOK, [Next]_vars PROVE CountersOK' OBVIOUS
<1>0. TypeOK' BY DEF IInv
<1>1. ASSUME NEW p \in Procs, Step(p) PROVE CountersOK'
  <2>1. CASE \/ PopHead(p) \/ PopNext(p) \/ AllocateFails(p) \/ ReadUsed(p) \/ ReadFree(p)
             \/ Light(p) \/ Push(p) \/ PushLink(p)
    BY <1>0, <2>1, CountersQuiet
  <2>2. CASE \/ PopUsed(p) \/ PopFree(p) \/ BaseUsed(p) \/ LightUsed(p) \/ PushUsed(p)
             \/ PushFree(p)
    BY <1>0, <2>2, CountersCounted
  <2>3. CASE PopCas(p) \/ PushCas(p)
    BY <1>0, <2>3, CountersQuiet, CountersStacked
  <2>4. CASE DupNew(p) \/ BaseAllocate(p) \/ LargeAllocate(p)
    BY <1>0, <2>4, CountersLent
  <2> QED BY <1>1, <2>1, <2>2, <2>3, <2>4 DEF Step
<1>2. ASSUME NEW p \in Procs, Begins(p) PROVE CountersOK'
  <2>1. CASE \E n \in Sizes : Allocate(p, n) BY <1>0, <2>1, CountersQuiet
  <2>2. CASE \E m \in issued : Release(p, m) \/ DupMd(p, m)
    BY <1>0, <2>2, CountersRelease, CountersDup
  <2> QED BY <1>2, <2>1, <2>2 DEF Begins
<1>3. ASSUME NEW p, Crash(p) PROVE CountersOK'
  BY <1>3, CountersIdle DEF Crash, base, supers, regs
<1>4. ASSUME NEW b, WriteBlock(b) PROVE CountersOK'
  BY <1>4, CountersIdle DEF WriteBlock, base, supers, regs
<1>5. ASSUME UNCHANGED vars PROVE CountersOK'
  BY <1>5, CountersIdle DEF vars, base, supers, regs
<1> QED BY <1>1, <1>2, <1>3, <1>4, <1>5 DEF Next

LEMMA NoneLags ==
  ASSUME NEW c, \A l \in {FreeAhead, FreeBehind, UsedAhead, UsedBehind} : Lagging(l, c) = {},
         NEW n \in Nat, NEW u \in Nat
  PROVE  /\ n = Len(cache[c]) => FreeDue(c) = n
         /\ u = Cardinality(InUse(c)) => UsedDue(c) = u
<1>1. n + 0 - 0 = n /\ u + 0 - 0 = u OBVIOUS
<1>2. Cardinality({}) = 0 BY FS_EmptySet
<1>3. ASSUME n = Len(cache[c]) PROVE FreeDue(c) = n
  <2>1. FreeDue(c) = n + 0 - 0 BY <1>2, <1>3, Zenon DEF FreeDue
  <2> QED BY <1>1, <2>1, Zenon
<1>4. ASSUME u = Cardinality(InUse(c)) PROVE UsedDue(c) = u
  <2>1. UsedDue(c) = u + 0 - 0 BY <1>2, <1>4, Zenon DEF UsedDue
  <2> QED BY <1>1, <2>1, Zenon
<1> QED BY <1>3, <1>4

(***************************************************************************)
(* Whenever no call is under way and nobody was killed, free is the length *)
(* of the stack of its class and used the number of its blocks that are    *)
(* lent: the separate fetch_add and fetch_sub of fixed_allocator.hh, which *)
(* may lag behind or wrap below zero on the way, cancel out in whatever    *)
(* order the calls come and go.                                            *)
(***************************************************************************)
THEOREM CountersAtRestHolds == Spec => []CountersAtRest
<1>1. Init => CountersOK
  <2> SUFFICES ASSUME Init, NEW c \in Classes
               PROVE  Wrapped(free[c], FreeDue(c)) /\ Wrapped(used[c], UsedDue(c))
    BY DEF CountersOK
  <2>1. \A l \in {FreeAhead, FreeBehind, UsedAhead, UsedBehind} : Lagging(l, c) = {}
    BY DEF Init, Lagging, FreeAhead, FreeBehind, UsedAhead, UsedBehind
  <2>2. InUse(c) = {} /\ Len(cache[c]) = 0 /\ free[c] = 0 /\ used[c] = 0
    BY DEF Init, InUse
  <2>3. FreeDue(c) = 0 /\ UsedDue(c) = 0 BY <2>1, <2>2, NoneLags, FS_EmptySet
  <2>4. 0 = 0 + 0 * WordSize /\ 0 \in Int BY FixedSizesAssumption
  <2> QED BY <2>2, <2>3, <2>4 DEF Wrapped
<1>2. IInv /\ CountersOK => CountersAtRest
  <2> SUFFICES ASSUME IInv, CountersOK, \A p \in Procs : pc[p] = "idle", NEW c \in Classes
               PROVE  free[c] = Len(cache[c]) /\ used[c] = Cardinality(InUse(c))
    BY DEF CountersAtRest, InUse
  <2>0. TypeOK BY DEF IInv
  <2>1. \A l \in {FreeAhead, FreeBehind, UsedAhead, UsedBehind} : Lagging(l, c) = {}
    BY DEF Lagging, FreeAhead, FreeBehind, UsedAhead, UsedBehind
  <2>2. PICK n \in Nat : n = Len(cache[c]) BY <2>0, DueTypes
  <2>3. PICK u \in Nat : u = Cardinality(InUse(c)) BY <2>0, DueTypes
  <2>4. FreeDue(c) = n BY <2>1, <2>2, NoneLags
  <2>5. UsedDue(c) = u BY <2>1, <2>3, NoneLags
  <2>6. PICK m \in Nat : m = Cardinality(Blocks)
    BY FixedSetsAssumption, FS_CardinalityType
  <2>7. n <= m /\ u <= m
    <3>1. Cardinality(InUse(c)) <= Cardinality(Blocks)
      BY FixedSetsAssumption, FS_Subset DEF InUse
    <3>2. Len(cache[c]) <= Cardinality(Blocks) BY CacheFits
    <3> QED BY <2>2, <2>3, <2>6, <3>1, <3>2, Zenon
  <2>8. m < WordSize BY <2>6, FixedCountsAssumption, Zenon
  <2>9. n \in Counter /\ u \in Counter
    BY <2>2, <2>3, <2>6, <2>7, <2>8, FixedSizesAssumption DEF Counter
  <2>10. free[c] \in Counter /\ used[c] \in Counter BY <2>0 DEF TypeOK
  <2>11. Wrapped(free[c], n) /\ Wrapped(used[c], u) BY <2>4, <2>5 DEF CountersOK
  <2>12. free[c] = n /\ used[c] = u BY <2>9, <2>10, <2>11, NotWrapped
  <2> QED BY <2>2, <2>3, <2>12
<1>3. IInv /\ IInv' /\ CountersOK /\ [Next]_vars => CountersOK' BY CountersStep
<1> QED BY <1>1, <1>2, <1>3, SpecIInv, PTL DEF Spec
=============================================================================
