---------------------------- MODULE ImqueProofs ----------------------------
(***************************************************************************)
(* The reference counting of the message queue is right for every number   *)
(* of processes and blocks: proofs about Imque.                            *)
(***************************************************************************)
EXTENDS Imque, FiniteSetTheorems, TLAPS

(***************************************************************************)
(* The inductive invariant.  Control: which registers a process at a step  *)
(* of a call has filled.                                                   *)
(***************************************************************************)
EnqLabels == {"overflow", "fill", "share", "read", "dup", "copy", "help",
              "dropHelp", "link", "swing", "drop", "again", "leave"}
DeqLabels == {"read", "dup", "copy", "take", "drop", "again", "leave",
              "collect", "free"}
PeekLabels == {"read", "dup", "copy", "leave"}

LocalOK(p) ==
  /\ op[p] = "none" <=> pc[p] = "idle"
  /\ op[p] = "enq" => pc[p] \in EnqLabels
  /\ op[p] = "deq" => pc[p] \in DeqLabels
  /\ op[p] = "peek" => pc[p] \in PeekLabels
  /\ new[p] # END <=> op[p] = "enq" /\ pc[p] # "overflow"
  /\ Holds(p) \/ pc[p] = "dup" => cur[p] # END
  /\ pc[p] \in {"help", "dropHelp", "take", "collect", "free"} => nxt[p] # END
  /\ op[p] = "deq" /\ pc[p] = "drop" => nxt[p] # END
  /\ pc[p] \in {"idle", "fill", "share", "read", "dup", "copy", "link", "swing"}
       => nxt[p] = END

LocalsOK == \A p \in Procs : LocalOK(p)

\* Versions: they never wrap, and a linked node's is its block's or older.
VersionsOK == /\ \A b \in Blocks : ver[b] <= sent + 1
              /\ \A i \in 1 .. Last : linked[i].ver <= ver[linked[i].blk]

Distinct == \A i, j \in 1 .. Last : linked[i] = linked[j] => i = j

\* A node that is not linked yet is its enqueuer's alone.
OwnedOK ==
  \A p \in Procs : Owns(p) =>
    /\ \A i \in 1 .. Last : linked[i] # new[p]
    /\ \A q \in Procs : Owns(q) /\ new[q] = new[p] => q = p
    /\ pc[p] # "fill" => next[new[p].blk] = END

\* Where in the list a process is.
PlaceOK(p) ==
  /\ pc[p] = "dup" \/ Holds(p) =>
       \E i \in 1 .. Last :
         /\ cur[p] = linked[i]
         /\ op[p] = "enq" => i <= tpos
         /\ op[p] # "enq" => i <= hpos
         /\ DropsTail(p) => i < tpos
         /\ DropsHead(p) => i < hpos
         /\ Holds(p) /\ nxt[p] # END => i < Last /\ nxt[p] = linked[i + 1]
         /\ pc[p] = "swing" => i < Last /\ new[p] = linked[i + 1]
  /\ Took(p) => \E i \in 2 .. hpos : i <= Last /\ nxt[p] = linked[i]

PlacesOK == \A p \in Procs : PlaceOK(p)

\* Two processes never release the same reference.
OneDrops ==
  \A p, q \in Procs :
    /\ DropsTail(p) /\ DropsTail(q) /\ cur[p] = cur[q] => p = q
    /\ DropsHead(p) /\ DropsHead(q) /\ cur[p] = cur[q] => p = q
    /\ Took(p) /\ Took(q) /\ nxt[p] = nxt[q] => p = q

IInv == /\ TypeOK
        /\ LocalsOK
        /\ VersionsOK
        /\ Distinct
        /\ OwnedOK
        /\ PlacesOK
        /\ OneDrops
        /\ ChainOK
        /\ HeldAreCurrent
        /\ RefsCounted
-----------------------------------------------------------------------------
(* Descriptors, and the sets of references that are counted.               *)

MdOf(b) == [blk |-> b, ver |-> ver[b]]

LEMMA MdFacts ==
  ASSUME TypeOK, NEW b \in Blocks
  PROVE  /\ MdOf(b) \in Md
         /\ MdOf(b).blk = b
         /\ Current(MdOf(b))
BY DEF TypeOK, MdOf, Current, Md

\* Two descriptors of one block that are both current are the same.
LEMMA CurrentUnique ==
  ASSUME NEW m \in Md, NEW n \in Md, Current(m), Current(n), m.blk = n.blk
  PROVE  m = n
BY DEF Current, Md

LEMMA ReferencesFinite ==
  ASSUME NEW m PROVE IsFiniteSet(References(m))
<1> DEFINE Names == {"head", "tail", "data"}
           Held == {t \in Names : \/ t = "head" /\ HeadRef(m)
                                  \/ t = "tail" /\ TailRef(m)
                                  \/ t = "data" /\ DataRef(m)}
<1>1. IsFiniteSet(Names)
  <2>1. IsFiniteSet({}) BY FS_EmptySet
  <2>2. IsFiniteSet({} \cup {"head"}) BY <2>1, FS_AddElement
  <2>3. IsFiniteSet({} \cup {"head"} \cup {"tail"}) BY <2>2, FS_AddElement
  <2>4. IsFiniteSet({} \cup {"head"} \cup {"tail"} \cup {"data"})
    BY <2>3, FS_AddElement
  <2>5. Names = {} \cup {"head"} \cup {"tail"} \cup {"data"} OBVIOUS
  <2> QED BY <2>4, <2>5
<1>2. IsFiniteSet(Held) BY <1>1, FS_Subset
<1>3. IsFiniteSet(Holders(m)) BY ProcsAssumption, FS_Subset DEF Holders
<1> QED BY <1>2, <1>3, FS_Union DEF References

\* A block is free exactly when nobody has a reference to it.
LEMMA FreeIffNone ==
  ASSUME TypeOK, RefsCounted, NEW b \in Blocks
  PROVE  ref[b] = 0 <=> References(MdOf(b)) = {}
<1>1. ref[b] = Cardinality(References(MdOf(b))) BY MdFacts DEF RefsCounted
<1> QED BY <1>1, ReferencesFinite, FS_EmptySet

\* What a process with a NodeRef knows of the node.
LEMMA HeldNode ==
  ASSUME IInv, NEW p \in Procs, Holds(p)
  PROVE  /\ cur[p] \in Md
         /\ p \in References(cur[p])
         /\ Current(cur[p])
<1>1. cur[p] \in Md BY DEF IInv, LocalsOK, LocalOK, TypeOK
<1>2. p \in References(cur[p]) BY DEF References, Holders
<1> QED BY <1>1, <1>2 DEF IInv, HeldAreCurrent
-----------------------------------------------------------------------------
(* Counting: what a step that keeps, adds or removes one reference does.   *)

LEMMA CountSame ==
  ASSUME TypeOK, HeldAreCurrent, RefsCounted,
         ver' = ver, ref' = ref,
         \A m \in Md : References(m)' = References(m)
  PROVE  HeldAreCurrent' /\ RefsCounted'
BY DEF HeldAreCurrent, RefsCounted, Current

LEMMA CountGains ==
  ASSUME TypeOK, HeldAreCurrent, RefsCounted,
         NEW m \in Md, NEW t, Current(m), t \notin References(m),
         ver' = ver, ref' = [ref EXCEPT ![m.blk] = @ + 1],
         References(m)' = References(m) \cup {t},
         \A n \in Md : n # m => References(n)' = References(n)
  PROVE  HeldAreCurrent' /\ RefsCounted'
<1>1. HeldAreCurrent' BY DEF HeldAreCurrent, Current
<1>2. Cardinality(References(m) \cup {t}) = Cardinality(References(m)) + 1
  BY ReferencesFinite, FS_AddElement
<1>3. ASSUME NEW n \in Md, Current(n)'
      PROVE  ref'[n.blk] = Cardinality(References(n)')
  <2>1. Current(n) BY <1>3 DEF Current
  <2>2. CASE n = m BY <1>2, <2>1, <2>2 DEF RefsCounted, TypeOK, Md
  <2>3. CASE n # m
    <3>1. n.blk # m.blk BY <2>1, <2>3, CurrentUnique
    <3>2. n.blk \in Blocks BY DEF Md
    <3>3. ref'[n.blk] = ref[n.blk] BY <3>1, <3>2 DEF TypeOK
    <3>4. References(n)' = References(n) BY <2>3
    <3> QED BY <2>1, <3>3, <3>4 DEF RefsCounted
  <2> QED BY <2>2, <2>3
<1> QED BY <1>1, <1>3 DEF RefsCounted

LEMMA CountLoses ==
  ASSUME TypeOK, HeldAreCurrent, RefsCounted,
         NEW m \in Md, NEW t \in References(m), Release(m),
         References(m)' = References(m) \ {t},
         \A n \in Md : n # m => References(n)' = References(n)
  PROVE  /\ HeldAreCurrent' /\ RefsCounted'
         /\ ref' \in [Blocks -> Nat]
         /\ \A n \in Md : References(n)' # {} => next'[n.blk] = next[n.blk]
<1>0. Current(m) BY DEF HeldAreCurrent
<1>1. /\ Cardinality(References(m)) \in Nat \ {0}
      /\ Cardinality(References(m) \ {t}) = Cardinality(References(m)) - 1
  BY ReferencesFinite, FS_RemoveElement, FS_CardinalityType, FS_EmptySet
<1>2. ref[m.blk] = Cardinality(References(m)) /\ ref[m.blk] # 0
  BY <1>0, <1>1 DEF RefsCounted
<1>3. ver' = ver /\ ref' = [ref EXCEPT ![m.blk] = @ - 1]
  BY <1>2 DEF Release, TypeOK
<1>4. HeldAreCurrent' BY <1>3 DEF HeldAreCurrent, Current
<1>5. ASSUME NEW n \in Md, Current(n)'
      PROVE  ref'[n.blk] = Cardinality(References(n)')
  <2>1. Current(n) BY <1>3, <1>5 DEF Current
  <2>2. CASE n = m BY <1>1, <1>2, <1>3, <2>2 DEF TypeOK, Md
  <2>3. CASE n # m
    <3>1. n.blk # m.blk BY <1>0, <2>1, <2>3, CurrentUnique
    <3>2. n.blk \in Blocks BY DEF Md
    <3>3. ref'[n.blk] = ref[n.blk] BY <1>3, <3>1, <3>2 DEF TypeOK
    <3>4. References(n)' = References(n) BY <2>3
    <3> QED BY <2>1, <3>3, <3>4 DEF RefsCounted
  <2> QED BY <2>2, <2>3
<1>6. ref' \in [Blocks -> Nat]
  <2>1. ref \in [Blocks -> Nat] /\ ref[m.blk] \in Nat \ {0}
    BY <1>1, <1>2 DEF TypeOK
  <2>2. ref[m.blk] - 1 \in Nat BY <2>1
  <2> QED BY <1>3, <2>1, <2>2
<1>7. ASSUME NEW n \in Md, References(n)' # {}
      PROVE  next'[n.blk] = next[n.blk]
  <2>1. CASE n.blk # m.blk BY <2>1 DEF Release, TypeOK
  <2>2. CASE n.blk = m.blk /\ ref[m.blk] # 1
    BY <1>2, <2>2 DEF Release
  <2>3. CASE n.blk = m.blk /\ ref[m.blk] = 1
    <3>1. Cardinality(References(m) \ {t}) = 0 BY <1>1, <1>2, <2>3
    <3>2. References(m) \ {t} = {}
      BY <3>1, ReferencesFinite, FS_Subset, FS_EmptySet
    <3>3. n # m BY <1>7, <3>2
    <3>4. References(n) # {} BY <1>7, <3>3
    <3>5. Current(n) BY <3>4 DEF HeldAreCurrent
    <3> QED BY <1>0, <2>3, <3>3, <3>5, CurrentUnique
  <2> QED BY <2>1, <2>2, <2>3
<1> QED BY <1>4, <1>5, <1>6, <1>7 DEF RefsCounted
-----------------------------------------------------------------------------
(* The steps, one lemma each.                                              *)

LEMMA InitIInv == Init => IInv
<1> SUFFICES ASSUME Init PROVE IInv OBVIOUS
<1>0. PICK b \in Blocks :
        /\ ver = [c \in Blocks |-> IF c = b THEN 1 ELSE 0]
        /\ ref = [c \in Blocks |-> IF c = b THEN 2 ELSE 0]
        /\ next = [c \in Blocks |-> IF c = b THEN END ELSE JUNK]
        /\ head = [blk |-> b, ver |-> 1]
  BY DEF Init
<1>1. 1 \in 0 .. Versions - 1 /\ 0 \in 0 .. Versions - 1 BY VersionsAssumption
<1>2. head \in Md /\ linked = <<head>> /\ Last = 1 /\ linked[1] = head
  BY <1>0, <1>1 DEF Init, Last, Md
<1>3. TypeOK
  BY <1>0, <1>1, <1>2, VersionsAssumption DEF TypeOK, Init, Labels, Last
<1>4. LocalsOK BY DEF Init, LocalsOK, LocalOK, Holds
<1>5. VersionsOK BY <1>0, <1>2 DEF Init, VersionsOK
<1>6. Distinct BY <1>2 DEF Distinct
<1>7. OwnedOK /\ PlacesOK /\ OneDrops
  BY DEF Init, OwnedOK, PlacesOK, PlaceOK, OneDrops, Owns, Holds, Took, DropsTail,
         DropsHead
<1>8. ASSUME NEW m \in Md
      PROVE  References(m) = IF m = head THEN {"head", "tail"} ELSE {}
  <2>1. HeadRef(m) <=> m = head
    BY <1>2 DEF Init, HeadRef, LinkedFrom, DropsHead, Shared, Owns
  <2>2. TailRef(m) <=> m = head
    BY <1>2 DEF Init, TailRef, LinkedFrom, DropsTail, Shared, Owns
  <2>3. ~ DataRef(m)
    BY <1>2 DEF Init, DataRef, LinkedFrom, Took, Owns
  <2>4. Holders(m) = {} BY DEF Init, Holders, Holds
  <2> QED BY <2>1, <2>2, <2>3, <2>4 DEF References
<1>9. ChainOK BY <1>0, <1>2 DEF Init, ChainOK
<1>10. HeldAreCurrent BY <1>0, <1>8 DEF HeldAreCurrent, Current
<1>11. RefsCounted
  <2>1. Cardinality({}) = 0 BY FS_EmptySet
  <2>2. Cardinality({"head", "tail"}) = 2
    <3>1. IsFiniteSet({"head"}) /\ Cardinality({"head"}) = 1
      BY FS_Singleton
    <3>2. "tail" \notin {"head"} OBVIOUS
    <3>3. Cardinality({"head"} \cup {"tail"}) = 2
      BY <3>1, <3>2, FS_AddElement
    <3>4. {"head"} \cup {"tail"} = {"head", "tail"} OBVIOUS
    <3> QED BY <3>3, <3>4
  <2>3. ASSUME NEW m \in Md, Current(m)
        PROVE  ref[m.blk] = Cardinality(References(m))
    <3>1. CASE m = head BY <1>0, <1>8, <2>2, <3>1
    <3>2. CASE m # head
      <4>1. m.blk # b BY <1>0, <2>3, <3>2 DEF Current, Md
      <4> QED BY <1>0, <1>8, <2>1, <3>2, <4>1 DEF Md
    <3> QED BY <3>1, <3>2
  <2> QED BY <2>3 DEF RefsCounted
<1> QED
  BY <1>3, <1>4, <1>5, <1>6, <1>7, <1>9, <1>10, <1>11 DEF IInv

\* A step of p leaves the registers of the others alone.
OthersKept(p) == \A q \in Procs : q # p => /\ pc'[q] = pc[q]
                                           /\ op'[q] = op[q]
                                           /\ new'[q] = new[q]
                                           /\ cur'[q] = cur[q]
                                           /\ nxt'[q] = nxt[q]

\* p keeps every reference it has, but for its NodeRef.
KeepsRefs(p) == \A m \in Md :
                  /\ (Owns(p) /\ new[p] = m)' <=> (Owns(p) /\ new[p] = m)
                  /\ (Shared(p) /\ new[p] = m)' <=> (Shared(p) /\ new[p] = m)
                  /\ (Took(p) /\ nxt[p] = m)' <=> (Took(p) /\ nxt[p] = m)
                  /\ (DropsHead(p) /\ cur[p] = m)' <=> (DropsHead(p) /\ cur[p] = m)
                  /\ (DropsTail(p) /\ cur[p] = m)' <=> (DropsTail(p) /\ cur[p] = m)

KeepsNodeRef(p) ==
  \A m \in Md : (Holds(p) /\ cur[p] = m)' <=> (Holds(p) /\ cur[p] = m)

SameRole(q) == /\ Owns(q)' <=> Owns(q)
               /\ Shared(q)' <=> Shared(q)
               /\ Took(q)' <=> Took(q)
               /\ Holds(q)' <=> Holds(q)
               /\ DropsHead(q)' <=> DropsHead(q)
               /\ DropsTail(q)' <=> DropsTail(q)
               /\ new'[q] = new[q]
               /\ cur'[q] = cur[q]
               /\ nxt'[q] = nxt[q]

LEMMA OthersSame ==
  ASSUME NEW p, OthersKept(p)
  PROVE  \A q \in Procs : q # p => SameRole(q)
BY DEF OthersKept, SameRole, Owns, Shared, Took, Holds, DropsHead, DropsTail

LEMMA WordRefsSame ==
  ASSUME NEW p \in Procs, OthersKept(p), KeepsRefs(p), NEW m \in Md,
         linked' = linked, hpos' = hpos, tpos' = tpos
  PROVE  /\ HeadRef(m)' <=> HeadRef(m)
         /\ TailRef(m)' <=> TailRef(m)
         /\ DataRef(m)' <=> DataRef(m)
<1>1. \A q \in Procs : q # p => SameRole(q) BY OthersSame
<1>2. /\ LinkedFrom(hpos, m)' <=> LinkedFrom(hpos, m)
      /\ LinkedFrom(tpos, m)' <=> LinkedFrom(tpos, m)
      /\ LinkedFrom(hpos + 1, m)' <=> LinkedFrom(hpos + 1, m)
  BY DEF LinkedFrom, Last
<1>3. HeadRef(m)' <=> HeadRef(m)
  BY <1>1, <1>2 DEF HeadRef, SameRole, KeepsRefs
<1>4. TailRef(m)' <=> TailRef(m)
  BY <1>1, <1>2 DEF TailRef, SameRole, KeepsRefs
<1>5. DataRef(m)' <=> DataRef(m)
  BY <1>1, <1>2 DEF DataRef, SameRole, KeepsRefs
<1> QED BY <1>3, <1>4, <1>5

LEMMA LocalsSame ==
  ASSUME NEW p \in Procs, OthersKept(p), LocalsOK, LocalOK(p)'
  PROVE  LocalsOK'
<1>1. ASSUME NEW q \in Procs, q # p PROVE LocalOK(q)'
  BY <1>1 DEF LocalsOK, LocalOK, OthersKept, Holds
<1> QED BY <1>1 DEF LocalsOK

(***************************************************************************)
(* The parts of the invariant that are not about counts, for a step that   *)
(* moves neither the list nor the words, and gives p nothing new to own,   *)
(* to free or to release for a word.                                       *)
(***************************************************************************)
LEMMA LocalParts ==
  ASSUME IInv, NEW p \in Procs, OthersKept(p), TypeOK',
         LocalOK(p)', PlaceOK(p)',
         ver' = ver, linked' = linked, hpos' = hpos, tpos' = tpos,
         sent' >= sent,
         Owns(p)' => Owns(p) /\ new'[p] = new[p],
         Took(p)' => Took(p) /\ nxt'[p] = nxt[p],
         DropsHead(p)' => DropsHead(p) /\ cur'[p] = cur[p],
         DropsTail(p)' => DropsTail(p) /\ cur'[p] = cur[p],
         \A q \in Procs : Owns(q)' /\ pc'[q] # "fill" => next'[new'[q].blk] = END
  PROVE  LocalsOK' /\ VersionsOK' /\ Distinct' /\ OwnedOK' /\ PlacesOK' /\ OneDrops'
<1>a. Last' = Last BY DEF Last
<1>b. \A q \in Procs : q # p => SameRole(q) BY OthersSame
<1>c. TypeOK /\ LocalsOK BY DEF IInv
<1>1. LocalsOK' BY <1>c, LocalsSame
<1>2. VersionsOK' /\ Distinct'
  <2>1. VersionsOK /\ Distinct BY DEF IInv
  <2>2. \A b \in Blocks : ver[b] \in Nat BY <1>c DEF TypeOK
  <2>3. sent \in Nat /\ sent' \in Nat BY <1>c DEF TypeOK
  <2> QED BY <1>a, <2>1, <2>2, <2>3 DEF VersionsOK, Distinct
<1>3. OwnedOK'
  <2>1. \A q \in Procs : Owns(q)' => Owns(q) /\ new'[q] = new[q]
    BY <1>b DEF SameRole
  <2> QED BY <1>a, <2>1 DEF IInv, OwnedOK
<1>4. PlacesOK'
  <2>1. ASSUME NEW q \in Procs, q # p PROVE PlaceOK(q)'
    BY <1>a, <1>b, <2>1 DEF IInv, PlacesOK, PlaceOK, OthersKept, SameRole
  <2> QED BY <2>1 DEF PlacesOK
<1>5. OneDrops' BY <1>b DEF IInv, OneDrops, SameRole
<1> QED BY <1>1, <1>2, <1>3, <1>4, <1>5

\* A step that changes only registers, and no reference.
LEMMA LocalStep ==
  ASSUME IInv, NEW p \in Procs, OthersKept(p), KeepsRefs(p), KeepsNodeRef(p),
         memory' = memory, head' = head, tail' = tail, history' = history,
         TypeOK', LocalOK(p)', sent' >= sent, PlaceOK(p)',
         pc[p] = "fill" <=> pc'[p] = "fill"
  PROVE  IInv'
<1>a. /\ ver' = ver /\ ref' = ref /\ next' = next
      /\ linked' = linked /\ hpos' = hpos /\ tpos' = tpos
      /\ Last' = Last
  BY DEF memory, history, Last
<1>b. \A q \in Procs : q # p => SameRole(q) BY OthersSame
<1>c. TypeOK BY DEF IInv
<1>1. /\ Owns(p)' => Owns(p) /\ new'[p] = new[p]
      /\ Took(p)' => Took(p) /\ nxt'[p] = nxt[p]
  BY DEF KeepsRefs, Owns, Took, TypeOK
<1>2. /\ DropsHead(p)' => DropsHead(p) /\ cur'[p] = cur[p]
      /\ DropsTail(p)' => DropsTail(p) /\ cur'[p] = cur[p]
  <2>1. DropsHead(p)' \/ DropsTail(p)' => cur'[p] \in Md
    BY DEF DropsHead, DropsTail, LocalOK, Holds, TypeOK
  <2> QED BY <2>1 DEF KeepsRefs
<1>3. ASSUME NEW q \in Procs, Owns(q)', pc'[q] # "fill"
      PROVE  next'[new'[q].blk] = END
  <2>1. Owns(q) /\ new'[q] = new[q] /\ pc[q] # "fill"
    BY <1>1, <1>3, <1>b DEF SameRole, OthersKept
  <2> QED BY <1>a, <2>1 DEF IInv, OwnedOK
<1>4. LocalsOK' /\ VersionsOK' /\ Distinct' /\ OwnedOK' /\ PlacesOK' /\ OneDrops'
  BY <1>a, <1>1, <1>2, <1>3, LocalParts
<1>5. ASSUME NEW m \in Md PROVE References(m)' = References(m)
  <2>1. Holders(m)' = Holders(m)
    BY <1>b DEF Holders, KeepsNodeRef, SameRole
  <2>2. /\ HeadRef(m)' <=> HeadRef(m)
        /\ TailRef(m)' <=> TailRef(m)
        /\ DataRef(m)' <=> DataRef(m)
    BY <1>a, WordRefsSame
  <2> QED BY <2>1, <2>2 DEF References
<1>6. ChainOK' BY <1>a, <1>5 DEF IInv, ChainOK
<1>7. HeldAreCurrent' /\ RefsCounted' BY <1>a, <1>5, CountSame DEF IInv
<1> QED BY <1>4, <1>6, <1>7 DEF IInv

\* A step that releases one reference.
LEMMA ReleaseStep ==
  ASSUME IInv, NEW p \in Procs, OthersKept(p),
         NEW m \in Md, NEW t \in References(m), Release(m),
         References(m)' = References(m) \ {t},
         \A n \in Md : n # m => References(n)' = References(n),
         head' = head, tail' = tail, history' = history, sent' = sent,
         TypeOK', LocalOK(p)', PlaceOK(p)',
         Owns(p)' => Owns(p) /\ new'[p] = new[p] /\ pc[p] # "fill",
         Took(p)' => Took(p) /\ nxt'[p] = nxt[p],
         ~ DropsHead(p)', ~ DropsTail(p)'
  PROVE  IInv'
<1>a. /\ ver' = ver /\ linked' = linked /\ hpos' = hpos /\ tpos' = tpos
      /\ Last' = Last
  BY DEF Release, history, Last
<1>b. \A q \in Procs : q # p => SameRole(q) BY OthersSame
<1>c. TypeOK /\ HeldAreCurrent /\ RefsCounted BY DEF IInv
<1>d. sent \in Nat /\ sent' >= sent BY <1>c DEF TypeOK
<1>1. /\ HeldAreCurrent' /\ RefsCounted'
      /\ \A n \in Md : References(n)' # {} => next'[n.blk] = next[n.blk]
  BY <1>c, CountLoses
<1>2. ASSUME NEW q \in Procs, Owns(q)', pc'[q] # "fill"
      PROVE  next'[new'[q].blk] = END
  <2>1. Owns(q) /\ new'[q] = new[q] /\ pc[q] # "fill"
    BY <1>2, <1>b DEF SameRole, OthersKept
  <2>2. PICK n \in Md : n = new'[q] BY <1>2 DEF Owns, TypeOK
  <2>3. DataRef(n)' BY <1>2, <2>2 DEF DataRef
  <2>4. References(n)' # {} BY <2>3 DEF References
  <2>5. next'[n.blk] = next[n.blk] BY <1>1, <2>4
  <2> QED BY <2>1, <2>2, <2>5 DEF IInv, OwnedOK
<1>3. LocalsOK' /\ VersionsOK' /\ Distinct' /\ OwnedOK' /\ PlacesOK' /\ OneDrops'
  BY <1>a, <1>d, <1>2, LocalParts
<1>4. ChainOK'
  <2>1. ASSUME NEW n \in Md, References(n)' # {} PROVE References(n) # {}
    BY <2>1
  <2> QED BY <1>a, <1>1, <2>1 DEF IInv, ChainOK
<1> QED BY <1>1, <1>3, <1>4 DEF IInv

\* The NodeRef of p dies, and p keeps its other references.
LEMMA NodeRefDies ==
  ASSUME IInv, NEW p \in Procs, OthersKept(p), KeepsRefs(p),
         Holds(p), ~ Holds(p)', Release(cur[p]),
         head' = head, tail' = tail, history' = history, sent' = sent,
         TypeOK', LocalOK(p)', PlaceOK(p)',
         Owns(p)' => Owns(p) /\ new'[p] = new[p] /\ pc[p] # "fill",
         Took(p)' => Took(p) /\ nxt'[p] = nxt[p],
         ~ DropsHead(p)', ~ DropsTail(p)'
  PROVE  IInv'
<1>1. PICK m \in Md : m = cur[p] /\ p \in References(m) BY HeldNode
<1>2. \A q \in Procs : q # p => SameRole(q) BY OthersSame
<1>3. ASSUME NEW n \in Md
      PROVE  /\ HeadRef(n)' <=> HeadRef(n)
             /\ TailRef(n)' <=> TailRef(n)
             /\ DataRef(n)' <=> DataRef(n)
  BY WordRefsSame DEF history
<1>4. p \notin {"head", "tail", "data"} BY ProcsAssumption
<1>5. ASSUME NEW n \in Md
      PROVE  Holders(n)' = IF n = m THEN Holders(n) \ {p} ELSE Holders(n)
  BY <1>1, <1>2 DEF Holders, SameRole
<1>6. References(m)' = References(m) \ {p}
  BY <1>1, <1>3, <1>4, <1>5 DEF References
<1>7. \A n \in Md : n # m => References(n)' = References(n)
  BY <1>3, <1>5 DEF References
<1> QED BY <1>1, <1>6, <1>7, ReleaseStep
-----------------------------------------------------------------------------
(* The actions.                                                            *)

LEMMA BeginReadStep ==
  ASSUME IInv, NEW p \in Procs, BeginRead(p) PROVE IInv'
<1> USE DEF BeginRead, Begin, GoTo
<1>0. TypeOK /\ LocalOK(p) /\ PlaceOK(p) BY DEF IInv, LocalsOK, PlacesOK
<1>1. OthersKept(p) BY <1>0 DEF TypeOK, OthersKept
<1>2. /\ pc[p] = "idle" /\ pc'[p] = "dup"
      /\ op'[p] \in {"deq", "peek"}
      /\ new'[p] = new[p] /\ nxt'[p] = nxt[p]
      /\ cur'[p] = head
  BY <1>0 DEF TypeOK
<1>3. TypeOK'
  BY <1>0, <1>2 DEF TypeOK, Labels, memory, header, history
<1>4. LocalOK(p)' BY <1>0, <1>2, WordsAssumption
  DEF LocalOK, TypeOK, Holds, EnqLabels, DeqLabels, PeekLabels
<1>5. KeepsRefs(p) /\ KeepsNodeRef(p) BY <1>0, <1>2, WordsAssumption
  DEF KeepsRefs, KeepsNodeRef, Owns, Shared, Took, Holds, DropsHead, DropsTail,
      LocalOK
<1>6. PlaceOK(p)'
  <2>1. hpos \in 1 .. Last /\ tpos \in 1 .. Last /\ Last \in Nat
        /\ head = linked[hpos] /\ tail = linked[tpos]
    BY <1>0 DEF TypeOK, IInv, ChainOK, Last
  <2> QED BY <1>2, <2>1
    DEF PlaceOK, Holds, Took, DropsTail, DropsHead, Last, history
<1>7. /\ memory' = memory /\ head' = head /\ tail' = tail
      /\ history' = history /\ sent' = sent /\ sent \in Nat
  BY <1>0 DEF header, TypeOK
<1>8. sent' >= sent BY <1>7
<1> QED BY <1>1, <1>2, <1>3, <1>4, <1>5, <1>6, <1>7, <1>8, LocalStep

LEMMA ReadPlaceStep ==
  ASSUME IInv, NEW p \in Procs, ReadPlace(p) PROVE IInv'
<1> USE DEF ReadPlace, GoTo
<1>0. TypeOK /\ LocalOK(p) /\ PlaceOK(p) BY DEF IInv, LocalsOK, PlacesOK
<1>1. OthersKept(p) BY <1>0 DEF TypeOK, OthersKept
<1>2. /\ pc[p] = "read" /\ pc'[p] = "dup"
      /\ op'[p] = op[p] /\ new'[p] = new[p] /\ nxt'[p] = nxt[p]
      /\ cur'[p] = IF op[p] = "enq" THEN tail ELSE head
  BY <1>0 DEF TypeOK, Place
<1>3. TypeOK'
  BY <1>0, <1>2 DEF TypeOK, Labels, memory, header, history, Place
<1>4. LocalOK(p)' BY <1>0, <1>2, WordsAssumption
  DEF LocalOK, TypeOK, Holds, EnqLabels, DeqLabels, PeekLabels
<1>5. KeepsRefs(p) /\ KeepsNodeRef(p) BY <1>0, <1>2, WordsAssumption
  DEF KeepsRefs, KeepsNodeRef, Owns, Shared, Took, Holds, DropsHead, DropsTail,
      LocalOK
<1>6. PlaceOK(p)'
  <2>1. hpos \in 1 .. Last /\ tpos \in 1 .. Last /\ Last \in Nat
        /\ head = linked[hpos] /\ tail = linked[tpos]
    BY <1>0 DEF TypeOK, IInv, ChainOK, Last
  <2> QED BY <1>2, <2>1
    DEF PlaceOK, Holds, Took, DropsTail, DropsHead, Last, history
<1>7. /\ memory' = memory /\ head' = head /\ tail' = tail
      /\ history' = history /\ sent' = sent /\ sent \in Nat
  BY <1>0 DEF header, TypeOK
<1>8. sent' >= sent BY <1>7
<1> QED BY <1>1, <1>2, <1>3, <1>4, <1>5, <1>6, <1>7, <1>8, LocalStep

LEMMA OverflowStep ==
  ASSUME IInv, NEW p \in Procs, Overflow(p) PROVE IInv'
<1> USE DEF Overflow, Finish, GoTo
<1>0. TypeOK /\ LocalOK(p) /\ PlaceOK(p) BY DEF IInv, LocalsOK, PlacesOK
<1>1. OthersKept(p) BY <1>0 DEF TypeOK, OthersKept
<1>2. /\ pc[p] = "overflow" /\ pc'[p] = "idle" /\ op'[p] = "none"
      /\ new'[p] = END /\ cur'[p] = END /\ nxt'[p] = END
  BY <1>0 DEF TypeOK
<1>3. TypeOK'
  BY <1>0, <1>2, VersionsAssumption DEF TypeOK, Labels, memory, header, history
<1>4. LocalOK(p)' BY <1>0, <1>2, WordsAssumption
  DEF LocalOK, TypeOK, Holds, EnqLabels, DeqLabels, PeekLabels
<1>5. KeepsRefs(p) /\ KeepsNodeRef(p) BY <1>0, <1>2, WordsAssumption
  DEF KeepsRefs, KeepsNodeRef, Owns, Shared, Took, Holds, DropsHead, DropsTail,
      LocalOK
<1>6. PlaceOK(p)' BY <1>0, <1>2
  DEF PlaceOK, Holds, Took, DropsTail, DropsHead, Last, history
<1>7. /\ memory' = memory /\ head' = head /\ tail' = tail
      /\ history' = history /\ sent' = sent /\ sent \in Nat
  BY <1>0 DEF header, TypeOK
<1>8. sent' >= sent BY <1>7
<1> QED BY <1>1, <1>2, <1>3, <1>4, <1>5, <1>6, <1>7, <1>8, LocalStep

LEMMA AllocateFailsStep ==
  ASSUME IInv, NEW p \in Procs, AllocateFails(p) PROVE IInv'
<1> USE DEF AllocateFails, Begin, GoTo
<1>0. TypeOK /\ LocalOK(p) /\ PlaceOK(p) BY DEF IInv, LocalsOK, PlacesOK
<1>1. OthersKept(p) BY <1>0 DEF TypeOK, OthersKept
<1>2. /\ pc[p] = "idle" /\ pc'[p] = "overflow" /\ op'[p] = "enq"
      /\ new'[p] = new[p] /\ cur'[p] = cur[p] /\ nxt'[p] = nxt[p]
  BY <1>0 DEF TypeOK
<1>3. TypeOK'
  BY <1>0, <1>2, VersionsAssumption DEF TypeOK, Labels, memory, header, history
<1>4. LocalOK(p)' BY <1>0, <1>2, WordsAssumption
  DEF LocalOK, TypeOK, Holds, EnqLabels, DeqLabels, PeekLabels
<1>5. KeepsRefs(p) /\ KeepsNodeRef(p) BY <1>0, <1>2, WordsAssumption
  DEF KeepsRefs, KeepsNodeRef, Owns, Shared, Took, Holds, DropsHead, DropsTail,
      LocalOK
<1>6. PlaceOK(p)' BY <1>0, <1>2
  DEF PlaceOK, Holds, Took, DropsTail, DropsHead, Last, history
<1>7. /\ memory' = memory /\ head' = head /\ tail' = tail
      /\ history' = history /\ sent' = sent + 1 /\ sent \in Nat
  BY <1>0 DEF header, TypeOK
<1>8. sent' >= sent BY <1>7
<1> QED BY <1>1, <1>2, <1>3, <1>4, <1>5, <1>6, <1>7, <1>8, LocalStep

LEMMA CollectStep ==
  ASSUME IInv, NEW p \in Procs, Collect(p) PROVE IInv'
<1> USE DEF Collect, GoTo
<1>0. TypeOK /\ LocalOK(p) /\ PlaceOK(p) BY DEF IInv, LocalsOK, PlacesOK
<1>1. OthersKept(p) BY <1>0 DEF TypeOK, OthersKept
<1>2. /\ pc[p] = "collect" /\ pc'[p] = "free" /\ op'[p] = op[p]
      /\ new'[p] = new[p] /\ cur'[p] = cur[p] /\ nxt'[p] = nxt[p]
      /\ op[p] = "deq" /\ nxt[p] \in Md
  BY <1>0 DEF LocalOK, EnqLabels, PeekLabels, TypeOK
<1>3. TypeOK'
  BY <1>0, <1>2 DEF TypeOK, Labels, memory, header, history, Md
<1>4. LocalOK(p)' BY <1>0, <1>2, WordsAssumption
  DEF LocalOK, TypeOK, Holds, EnqLabels, DeqLabels, PeekLabels
<1>5. KeepsRefs(p) /\ KeepsNodeRef(p) BY <1>0, <1>2, WordsAssumption
  DEF KeepsRefs, KeepsNodeRef, Owns, Shared, Took, Holds, DropsHead, DropsTail,
      LocalOK
<1>6. PlaceOK(p)' BY <1>0, <1>2
  DEF PlaceOK, Holds, Took, DropsTail, DropsHead, Last, history
<1>7. /\ memory' = memory /\ head' = head /\ tail' = tail
      /\ history' = history /\ sent' = sent /\ sent \in Nat
  BY <1>0 DEF header, TypeOK
<1>8. sent' >= sent BY <1>7
<1> QED BY <1>1, <1>2, <1>3, <1>4, <1>5, <1>6, <1>7, <1>8, LocalStep

\* The block was released: the loop goes round.
LEMMA DupFailsStep ==
  ASSUME IInv, NEW p \in Procs, 
         pc[p] = "dup", GoTo(p, "read"), cur' = [cur EXCEPT ![p] = END],
         UNCHANGED <<memory, header, op, new, nxt, buf, sent, history, mark, dead>>
  PROVE IInv'
<1> USE DEF GoTo
<1>0. TypeOK /\ LocalOK(p) /\ PlaceOK(p) BY DEF IInv, LocalsOK, PlacesOK
<1>1. OthersKept(p) BY <1>0 DEF TypeOK, OthersKept
<1>2. /\ pc[p] = "dup" /\ pc'[p] = "read" /\ op'[p] = op[p]
      /\ new'[p] = new[p] /\ cur'[p] = END /\ nxt'[p] = nxt[p]
  BY <1>0 DEF TypeOK
<1>3. TypeOK'
  BY <1>0, <1>2 DEF TypeOK, Labels, memory, header, history
<1>4. LocalOK(p)' BY <1>0, <1>2, WordsAssumption
  DEF LocalOK, TypeOK, Holds, EnqLabels, DeqLabels, PeekLabels
<1>5. KeepsRefs(p) /\ KeepsNodeRef(p) BY <1>0, <1>2, WordsAssumption
  DEF KeepsRefs, KeepsNodeRef, Owns, Shared, Took, Holds, DropsHead, DropsTail,
      LocalOK
<1>6. PlaceOK(p)' BY <1>0, <1>2
  DEF PlaceOK, Holds, Took, DropsTail, DropsHead, Last, history
<1>7. /\ memory' = memory /\ head' = head /\ tail' = tail
      /\ history' = history /\ sent' = sent /\ sent \in Nat
  BY <1>0 DEF header, TypeOK
<1>8. sent' >= sent BY <1>7
<1> QED BY <1>1, <1>2, <1>3, <1>4, <1>5, <1>6, <1>7, <1>8, LocalStep

\* A compare-and-swap that fails changes nothing.
LEMMA TryFailsStep ==
  ASSUME IInv, NEW p \in Procs, NEW l,
         \/ pc[p] \in {"help", "link", "take"} /\ l = "again"
         \/ pc[p] = "swing" /\ l = "leave",
         GoTo(p, l),
         UNCHANGED <<memory, header, op, new, cur, nxt, buf, sent, history,
                     mark, dead>>
  PROVE IInv'
<1> USE DEF GoTo
<1>0. TypeOK /\ LocalOK(p) /\ PlaceOK(p) BY DEF IInv, LocalsOK, PlacesOK
<1>1. OthersKept(p) BY <1>0 DEF TypeOK, OthersKept
<1>2. /\ pc'[p] = l /\ op'[p] = op[p]
      /\ new'[p] = new[p] /\ cur'[p] = cur[p] /\ nxt'[p] = nxt[p]
  BY <1>0 DEF TypeOK
<1>3. TypeOK'
  BY <1>0, <1>2 DEF TypeOK, Labels, memory, header, history
<1>4. LocalOK(p)' BY <1>0, <1>2, WordsAssumption
  DEF LocalOK, TypeOK, Holds, EnqLabels, DeqLabels, PeekLabels
<1>5. KeepsRefs(p) /\ KeepsNodeRef(p) BY <1>0, <1>2, WordsAssumption
  DEF KeepsRefs, KeepsNodeRef, Owns, Shared, Took, Holds, DropsHead, DropsTail,
      LocalOK
<1>6. PlaceOK(p)'
  <2>1. /\ Holds(p) /\ Holds(p)' /\ ~ Took(p)' /\ ~ DropsHead(p)' /\ ~ DropsTail(p)'
        /\ pc'[p] # "dup" /\ pc'[p] # "swing"
    BY <1>0, <1>2 DEF Holds, Took, DropsTail, DropsHead, LocalOK, DeqLabels
  <2>2. linked' = linked /\ hpos' = hpos /\ tpos' = tpos /\ Last' = Last
    BY DEF history, Last
  <2> QED BY <1>0, <1>2, <2>1, <2>2 DEF PlaceOK
<1>7. /\ memory' = memory /\ head' = head /\ tail' = tail
      /\ history' = history /\ sent' = sent /\ sent \in Nat
  BY <1>0 DEF header, TypeOK
<1>8. sent' >= sent BY <1>7
<1> QED BY <1>1, <1>2, <1>3, <1>4, <1>5, <1>6, <1>7, <1>8, LocalStep

LEMMA CopyStep ==
  ASSUME IInv, NEW p \in Procs, Copy(p) PROVE IInv'
<1> USE DEF Copy, GoTo
<1>0. TypeOK /\ LocalOK(p) /\ PlaceOK(p) BY DEF IInv, LocalsOK, PlacesOK
<1>1. OthersKept(p) BY <1>0 DEF TypeOK, OthersKept
<1>a. Holds(p) BY DEF Holds
<1>b. PICK i \in 1 .. Last :
        /\ cur[p] = linked[i]
        /\ op[p] = "enq" => i <= tpos
        /\ op[p] # "enq" => i <= hpos
  BY <1>0, <1>a DEF PlaceOK
<1>c. PICK m \in Md : m = cur[p] /\ References(m) # {} BY <1>a, HeldNode
<1>d. next[m.blk] = IF i = Last THEN END ELSE linked[i + 1]
  BY <1>b, <1>c DEF IInv, ChainOK
<1>e. Last \in Nat /\ linked \in Seq(Md) /\ Last = Len(linked)
  BY <1>0 DEF TypeOK, Last
<1>f. i # Last => i + 1 \in 1 .. Last /\ linked[i + 1] \in Md BY <1>e
<1>g. op[p] \in {"enq", "deq", "peek"} BY <1>0 DEF LocalOK, TypeOK
<1>2. /\ pc[p] = "copy" /\ op'[p] = op[p]
      /\ new'[p] = new[p] /\ cur'[p] = cur[p]
      /\ nxt'[p] \in Md \cup {END}
      /\ nxt'[p] # END => i < Last /\ nxt'[p] = linked[i + 1]
      /\ pc'[p] = AfterCopy(op[p], nxt'[p])
  BY <1>0, <1>c, <1>d, <1>e, <1>f DEF TypeOK
<1>3. \/ op[p] = "enq" /\ nxt'[p] = END /\ pc'[p] = "link"
      \/ op[p] = "enq" /\ nxt'[p] # END /\ pc'[p] = "help"
      \/ op[p] = "deq" /\ nxt'[p] = END /\ pc'[p] = "leave"
      \/ op[p] = "deq" /\ nxt'[p] # END /\ pc'[p] = "take"
      \/ op[p] = "peek" /\ pc'[p] = "leave"
  BY <1>g, <1>2 DEF AfterCopy
<1>4. TypeOK'
  <2>1. nxt' \in [Procs -> Md \cup {END}] BY <1>0, <1>2 DEF TypeOK
  <2>2. pc' \in [Procs -> Labels] BY <1>0, <1>3 DEF TypeOK, Labels
  <2> QED BY <1>0, <2>1, <2>2 DEF TypeOK, memory, header, history
<1>5. LocalOK(p)' BY <1>0, <1>2, <1>3
  DEF LocalOK, Holds, EnqLabels, DeqLabels, PeekLabels
<1>6. KeepsRefs(p) /\ KeepsNodeRef(p) BY <1>0, <1>2, <1>3, WordsAssumption
  DEF KeepsRefs, KeepsNodeRef, Owns, Shared, Took, Holds, DropsHead, DropsTail,
      LocalOK
<1>7. PlaceOK(p)'
  <2>1. ~ Took(p)' /\ ~ DropsHead(p)' /\ ~ DropsTail(p)' /\ pc'[p] # "swing"
    BY <1>2, <1>3 DEF Took, DropsTail, DropsHead
  <2>2. linked' = linked /\ hpos' = hpos /\ tpos' = tpos /\ Last' = Last
    BY DEF history, Last
  <2> QED BY <1>b, <1>2, <2>1, <2>2 DEF PlaceOK
<1>8. /\ memory' = memory /\ head' = head /\ tail' = tail
      /\ history' = history /\ sent' = sent /\ sent \in Nat
  BY <1>0 DEF header, TypeOK
<1>9. sent' >= sent BY <1>8
<1>10. pc[p] # "fill" /\ pc'[p] # "fill" BY <1>2, <1>3
<1> QED BY <1>1, <1>4, <1>5, <1>6, <1>7, <1>8, <1>9, <1>10, LocalStep

LEMMA ReleaseType ==
  ASSUME TypeOK, NEW m \in Md, Release(m)
  PROVE  /\ ver' = ver /\ data' = data
         /\ ref' \in [Blocks -> Nat]
         /\ next' \in [Blocks -> Md \cup {END, JUNK}]
<1>1. ASSUME NEW r \in Nat PROVE (IF r = 0 THEN 0 ELSE r - 1) \in Nat
  OBVIOUS
<1>2. ref' \in [Blocks -> Nat] BY <1>1 DEF Release, TypeOK
<1> QED BY <1>2 DEF Release, TypeOK

LEMMA AgainStep ==
  ASSUME IInv, NEW p \in Procs, Again(p) PROVE IInv'
<1> USE DEF Again, GoTo
<1>0. TypeOK /\ LocalOK(p) /\ PlaceOK(p) BY DEF IInv, LocalsOK, PlacesOK
<1>a. Holds(p) BY DEF Holds
<1>1. OthersKept(p) BY <1>0 DEF TypeOK, OthersKept
<1>2. /\ pc[p] = "again" /\ pc'[p] = "read" /\ op'[p] = op[p]
      /\ new'[p] = new[p] /\ cur'[p] = END /\ nxt'[p] = END
  BY <1>0 DEF TypeOK
<1>3. TypeOK'
  <2>1. cur[p] \in Md BY <1>a, HeldNode
  <2> QED BY <1>0, <1>2, <2>1, ReleaseType DEF TypeOK, Labels, header, history
<1>4. LocalOK(p)' BY <1>0, <1>2
  DEF LocalOK, Holds, EnqLabels, DeqLabels, PeekLabels
<1>5. /\ KeepsRefs(p) /\ ~ Holds(p)'
      /\ Owns(p)' => Owns(p)
      /\ ~ Took(p)' /\ ~ DropsHead(p)' /\ ~ DropsTail(p)'
  BY <1>0, <1>2 DEF KeepsRefs, Owns, Shared, Took, Holds, DropsHead, DropsTail
<1>6. PlaceOK(p)' BY <1>2, <1>5 DEF PlaceOK
<1>7. head' = head /\ tail' = tail /\ history' = history /\ sent' = sent
  BY DEF header
<1> QED BY <1>a, <1>1, <1>2, <1>3, <1>4, <1>5, <1>6, <1>7, NodeRefDies

LEMMA LeaveStep ==
  ASSUME IInv, NEW p \in Procs, Leave(p) PROVE IInv'
<1> USE DEF Leave, Finish, GoTo
<1>0. TypeOK /\ LocalOK(p) /\ PlaceOK(p) BY DEF IInv, LocalsOK, PlacesOK
<1>a. Holds(p) BY DEF Holds
<1>1. OthersKept(p) BY <1>0 DEF TypeOK, OthersKept
<1>2. /\ pc[p] = "leave" /\ cur'[p] = END
      /\ IF op[p] = "deq" /\ nxt[p] # END
           THEN /\ pc'[p] = "collect" /\ op'[p] = op[p]
                /\ new'[p] = new[p] /\ nxt'[p] = nxt[p]
           ELSE /\ pc'[p] = "idle" /\ op'[p] = "none"
                /\ new'[p] = END /\ nxt'[p] = END
  BY <1>0 DEF TypeOK
<1>3. TypeOK'
  <2>1. cur[p] \in Md BY <1>a, HeldNode
  <2>2. 0 \in 0 .. MaxEnq BY VersionsAssumption
  <2>3. ref' \in [Blocks -> Nat] /\ next' \in [Blocks -> Md \cup {END, JUNK}]
        /\ ver' = ver /\ data' = data
    BY <1>0, <2>1, ReleaseType
  <2>4. CASE op[p] = "deq" /\ nxt[p] # END
    BY <1>0, <2>3, <2>4 DEF TypeOK, header, history, Labels
  <2>5. CASE ~ (op[p] = "deq" /\ nxt[p] # END)
    <3>1. Finish(p) BY <2>5
    <3>2. /\ op' \in [Procs -> {"none", "enq", "deq", "peek"}]
          /\ pc' \in [Procs -> Labels]
          /\ new' \in [Procs -> Md \cup {END}]
          /\ cur' \in [Procs -> Md \cup {END}]
          /\ nxt' \in [Procs -> Md \cup {END}]
          /\ buf' \in [Procs -> 0 .. MaxEnq]
          /\ mark' \in [Procs -> Nat]
      BY <1>0, <2>2, <3>1 DEF TypeOK, Labels
    <3> QED BY <1>0, <2>3, <3>2 DEF TypeOK, header, history
  <2> QED BY <2>4, <2>5
<1>4. LocalOK(p)' BY <1>0, <1>2
  DEF LocalOK, Holds, EnqLabels, DeqLabels, PeekLabels
<1>5. /\ KeepsRefs(p) /\ ~ Holds(p)' /\ ~ Owns(p)'
      /\ Took(p)' => Took(p) /\ nxt'[p] = nxt[p]
      /\ ~ DropsHead(p)' /\ ~ DropsTail(p)' /\ pc'[p] # "dup"
  BY <1>0, <1>2 DEF KeepsRefs, Owns, Shared, Took, Holds, DropsHead, DropsTail,
    LocalOK
<1>6. PlaceOK(p)' BY <1>0, <1>5 DEF PlaceOK, history, Last
<1>7. head' = head /\ tail' = tail /\ history' = history /\ sent' = sent
  BY DEF header
<1> QED BY <1>a, <1>1, <1>3, <1>4, <1>5, <1>6, <1>7, NodeRefDies

LEMMA DropStep ==
  ASSUME IInv, NEW p \in Procs, Drop(p) PROVE IInv'
<1> USE DEF Drop, GoTo
<1>0. TypeOK /\ LocalOK(p) /\ PlaceOK(p) /\ Distinct /\ OneDrops
  BY DEF IInv, LocalsOK, PlacesOK
<1>a. Holds(p) BY DEF Holds
<1>b. PICK m \in Md : m = cur[p] BY <1>a, HeldNode
<1>c. op[p] \in {"enq", "deq"} /\ (pc[p] = "dropHelp" => op[p] = "enq")
  BY <1>0 DEF LocalOK, TypeOK, DeqLabels, PeekLabels
<1>1. OthersKept(p) BY <1>0 DEF TypeOK, OthersKept
<1>2. /\ pc[p] \in {"drop", "dropHelp"}
      /\ pc'[p] = IF pc[p] = "drop" THEN "leave" ELSE "again"
      /\ op'[p] = op[p] /\ new'[p] = new[p]
      /\ cur'[p] = cur[p] /\ nxt'[p] = nxt[p]
  BY <1>0 DEF TypeOK
<1>3. TypeOK'
  <2>1. pc' \in [Procs -> Labels] BY <1>0 DEF TypeOK, Labels
  <2> QED BY <1>0, <1>b, <2>1, ReleaseType DEF TypeOK, header, history
<1>4. LocalOK(p)' BY <1>0, <1>2, <1>c
  DEF LocalOK, Holds, EnqLabels, DeqLabels, PeekLabels
<1>5. /\ Owns(p)' <=> Owns(p)
      /\ Shared(p)' <=> Shared(p)
      /\ Took(p)' <=> Took(p)
      /\ Holds(p)'
      /\ ~ DropsHead(p)' /\ ~ DropsTail(p)'
      /\ DropsHead(p) <=> op[p] = "deq"
      /\ DropsTail(p) <=> op[p] = "enq"
  BY <1>0, <1>2, <1>c
    DEF Owns, Shared, Took, Holds, DropsHead, DropsTail, LocalOK
<1>6. \A q \in Procs : q # p => SameRole(q) BY <1>1, OthersSame
<1>7. linked' = linked /\ hpos' = hpos /\ tpos' = tpos /\ Last' = Last
  BY DEF history, Last
<1>8. PICK i \in 1 .. Last :
        /\ m = linked[i]
        /\ DropsTail(p) => i < tpos
        /\ DropsHead(p) => i < hpos
  BY <1>0, <1>a, <1>b DEF PlaceOK
<1>d. Last \in Nat /\ hpos \in Nat /\ tpos \in Nat
  BY <1>0 DEF TypeOK, Last
<1>9. PlaceOK(p)'
  BY <1>0, <1>2, <1>5, <1>7, <1>a, <1>c DEF PlaceOK
<1>10. ASSUME NEW n \in Md
       PROVE  /\ Holders(n)' = Holders(n)
              /\ DataRef(n)' <=> DataRef(n)
              /\ HeadRef(n)' <=> HeadRef(n) /\ ~ (op[p] = "deq" /\ n = m)
              /\ TailRef(n)' <=> TailRef(n) /\ ~ (op[p] = "enq" /\ n = m)
  <2>1. /\ LinkedFrom(hpos, n)' <=> LinkedFrom(hpos, n)
        /\ LinkedFrom(tpos, n)' <=> LinkedFrom(tpos, n)
        /\ LinkedFrom(hpos + 1, n)' <=> LinkedFrom(hpos + 1, n)
    BY <1>7 DEF LinkedFrom
  <2>2. Holders(n)' = Holders(n)
    BY <1>2, <1>5, <1>6, <1>a DEF Holders, SameRole
  <2>3. DataRef(n)' <=> DataRef(n)
    BY <1>2, <1>5, <1>6, <2>1 DEF DataRef, SameRole
  <2>4. /\ op[p] = "deq" => ~ LinkedFrom(hpos, m)
        /\ op[p] = "enq" => ~ LinkedFrom(tpos, m)
    BY <1>0, <1>5, <1>8, <1>d DEF LinkedFrom, Distinct
  <2>5. \A q \in Procs : ~ (Shared(q) /\ new[q] = m)
    BY <1>8 DEF Shared, IInv, OwnedOK
  <2>6. HeadRef(n)' <=> HeadRef(n) /\ ~ (op[p] = "deq" /\ n = m)
    <3>1. CASE op[p] = "deq" /\ n = m
      <4>1. \A q \in Procs : ~ (DropsHead(q)' /\ cur'[q] = n)
        BY <1>0, <1>5, <1>6, <1>b, <3>1 DEF OneDrops, SameRole
      <4>2. \A q \in Procs : ~ (Shared(q)' /\ new'[q] = n)
        BY <1>2, <1>5, <1>6, <2>5, <3>1 DEF SameRole
      <4> QED BY <2>1, <2>4, <3>1, <4>1, <4>2 DEF HeadRef
    <3>2. CASE ~ (op[p] = "deq" /\ n = m)
      <4>1. \A q \in Procs : DropsHead(q)' /\ cur'[q] = n
                             <=> DropsHead(q) /\ cur[q] = n
        BY <1>5, <1>6, <1>b, <3>2 DEF SameRole
      <4>2. \A q \in Procs : Shared(q)' /\ new'[q] = n
                             <=> Shared(q) /\ new[q] = n
        BY <1>2, <1>5, <1>6 DEF SameRole
      <4> QED BY <2>1, <3>2, <4>1, <4>2 DEF HeadRef
    <3> QED BY <3>1, <3>2
  <2>7. TailRef(n)' <=> TailRef(n) /\ ~ (op[p] = "enq" /\ n = m)
    <3>1. CASE op[p] = "enq" /\ n = m
      <4>1. \A q \in Procs : ~ (DropsTail(q)' /\ cur'[q] = n)
        BY <1>0, <1>5, <1>6, <1>b, <3>1 DEF OneDrops, SameRole
      <4>2. \A q \in Procs : ~ (Shared(q)' /\ new'[q] = n)
        BY <1>2, <1>5, <1>6, <2>5, <3>1 DEF SameRole
      <4> QED BY <2>1, <2>4, <3>1, <4>1, <4>2 DEF TailRef
    <3>2. CASE ~ (op[p] = "enq" /\ n = m)
      <4>1. \A q \in Procs : DropsTail(q)' /\ cur'[q] = n
                             <=> DropsTail(q) /\ cur[q] = n
        BY <1>5, <1>6, <1>b, <3>2 DEF SameRole
      <4>2. \A q \in Procs : Shared(q)' /\ new'[q] = n
                             <=> Shared(q) /\ new[q] = n
        BY <1>2, <1>5, <1>6 DEF SameRole
      <4> QED BY <2>1, <3>2, <4>1, <4>2 DEF TailRef
    <3> QED BY <3>1, <3>2
  <2> QED BY <2>2, <2>3, <2>6, <2>7
<1> DEFINE t == IF op[p] = "enq" THEN "tail" ELSE "head"
<1>11. t \in References(m)
  BY <1>5, <1>b, <1>c DEF References, HeadRef, TailRef
<1>12. t \notin Holders(m) BY <1>c, ProcsAssumption DEF Holders
<1>13. References(m)' = References(m) \ {t}
  BY <1>10, <1>12, <1>c DEF References
<1>14. \A n \in Md : n # m => References(n)' = References(n)
  BY <1>10 DEF References
<1>15. /\ head' = head /\ tail' = tail /\ history' = history /\ sent' = sent
       /\ Release(m) /\ pc[p] # "fill"
  BY <1>2, <1>b DEF header
<1> HIDE DEF t
<1> QED BY <1>1, <1>2, <1>3, <1>4, <1>5, <1>9, <1>11, <1>13, <1>14, <1>15,
           ReleaseStep

LEMMA FreeStep ==
  ASSUME IInv, NEW p \in Procs, Free(p) PROVE IInv'
<1> USE DEF Free, Finish, GoTo
<1>0. TypeOK /\ LocalOK(p) /\ PlaceOK(p) /\ Distinct /\ OneDrops
  BY DEF IInv, LocalsOK, PlacesOK
<1>a. op[p] = "deq" /\ nxt[p] # END
  BY <1>0 DEF LocalOK, TypeOK, EnqLabels, PeekLabels
<1>b. Took(p) BY <1>a DEF Took
<1>c. PICK m \in Md : m = nxt[p] BY <1>0, <1>a DEF TypeOK
<1>1. OthersKept(p) BY <1>0 DEF TypeOK, OthersKept
<1>2. /\ pc[p] = "free" /\ pc'[p] = "idle" /\ op'[p] = "none"
      /\ new'[p] = END /\ cur'[p] = END /\ nxt'[p] = END
  BY <1>0 DEF TypeOK
<1>3. TypeOK'
  <2>1. 0 \in 0 .. MaxEnq BY VersionsAssumption
  <2>2. pc' \in [Procs -> Labels] BY <1>0 DEF TypeOK, Labels
  <2> QED BY <1>0, <1>c, <2>1, <2>2, ReleaseType DEF TypeOK, header, history
<1>4. LocalOK(p)' BY <1>0, <1>2
  DEF LocalOK, Holds, EnqLabels, DeqLabels, PeekLabels
<1>5. /\ ~ Owns(p)' /\ ~ Shared(p)' /\ ~ Took(p)' /\ ~ Holds(p)'
      /\ ~ DropsHead(p)' /\ ~ DropsTail(p)'
      /\ ~ Owns(p) /\ ~ Shared(p) /\ ~ Holds(p)
      /\ ~ DropsHead(p) /\ ~ DropsTail(p)
  BY <1>2, <1>a DEF Owns, Shared, Took, Holds, DropsHead, DropsTail
<1>6. \A q \in Procs : q # p => SameRole(q) BY <1>1, OthersSame
<1>7. linked' = linked /\ hpos' = hpos /\ tpos' = tpos /\ Last' = Last
  BY DEF history, Last
<1>8. PICK i \in 2 .. hpos : i <= Last /\ m = linked[i]
  BY <1>0, <1>b, <1>c DEF PlaceOK
<1>d. Last \in Nat /\ hpos \in Nat BY <1>0 DEF TypeOK, Last
<1>9. PlaceOK(p)' BY <1>2, <1>5 DEF PlaceOK
<1>10. ASSUME NEW n \in Md
       PROVE  /\ Holders(n)' = Holders(n)
              /\ HeadRef(n)' <=> HeadRef(n)
              /\ TailRef(n)' <=> TailRef(n)
              /\ DataRef(n)' <=> DataRef(n) /\ n # m
  <2>1. /\ LinkedFrom(hpos, n)' <=> LinkedFrom(hpos, n)
        /\ LinkedFrom(tpos, n)' <=> LinkedFrom(tpos, n)
        /\ LinkedFrom(hpos + 1, n)' <=> LinkedFrom(hpos + 1, n)
    BY <1>7 DEF LinkedFrom
  <2>2. Holders(n)' = Holders(n) BY <1>5, <1>6 DEF Holders, SameRole
  <2>3. HeadRef(n)' <=> HeadRef(n)
    BY <1>5, <1>6, <2>1 DEF HeadRef, SameRole
  <2>4. TailRef(n)' <=> TailRef(n)
    BY <1>5, <1>6, <2>1 DEF TailRef, SameRole
  <2>5. ~ LinkedFrom(hpos + 1, m)
    BY <1>0, <1>8, <1>d DEF LinkedFrom, Distinct
  <2>6. \A q \in Procs : ~ (Owns(q) /\ new[q] = m)
    BY <1>8, <1>d DEF IInv, OwnedOK
  <2>7. CASE n = m
    <3>1. \A q \in Procs : ~ (Took(q)' /\ nxt'[q] = n)
      BY <1>0, <1>5, <1>6, <1>b, <1>c, <2>7 DEF OneDrops, SameRole
    <3>2. \A q \in Procs : ~ (Owns(q)' /\ new'[q] = n)
      BY <1>5, <1>6, <2>6, <2>7 DEF SameRole
    <3> QED BY <2>1, <2>2, <2>3, <2>4, <2>5, <2>7, <3>1, <3>2 DEF DataRef
  <2>8. CASE n # m
    <3>1. \A q \in Procs : Took(q)' /\ nxt'[q] = n <=> Took(q) /\ nxt[q] = n
      BY <1>5, <1>6, <1>c, <2>8 DEF SameRole
    <3>2. \A q \in Procs : Owns(q)' /\ new'[q] = n <=> Owns(q) /\ new[q] = n
      BY <1>5, <1>6 DEF SameRole
    <3> QED BY <2>1, <2>2, <2>3, <2>4, <2>8, <3>1, <3>2 DEF DataRef
  <2> QED BY <2>7, <2>8
<1>11. "data" \in References(m) BY <1>b, <1>c DEF References, DataRef
<1>12. "data" \notin Holders(m) BY ProcsAssumption DEF Holders
<1>13. References(m)' = References(m) \ {"data"}
  BY <1>10, <1>12 DEF References
<1>14. \A n \in Md : n # m => References(n)' = References(n)
  BY <1>10 DEF References
<1>15. /\ head' = head /\ tail' = tail /\ history' = history /\ sent' = sent
       /\ Release(m)
  BY <1>c DEF header
<1> QED BY <1>1, <1>3, <1>4, <1>5, <1>9, <1>11, <1>13, <1>14, <1>15,
           ReleaseStep

LEMMA DupCurStep ==
  ASSUME IInv, NEW p \in Procs, DupCur(p) PROVE IInv'
<1> USE DEF DupCur, GoTo
<1>0. TypeOK /\ LocalOK(p) /\ PlaceOK(p) BY DEF IInv, LocalsOK, PlacesOK
<1>1. CASE ~ CanDup(cur[p])
  <2>1. /\ pc[p] = "dup" /\ GoTo(p, "read") /\ cur' = [cur EXCEPT ![p] = END]
        /\ UNCHANGED <<memory, header, op, new, nxt, buf, sent, history, mark, dead>>
    BY <1>1 DEF memory
  <2> QED BY <2>1, DupFailsStep
<1>2. CASE CanDup(cur[p])
  <2>0. PICK m \in Md : m = cur[p] BY <1>0 DEF LocalOK, TypeOK
  <2>1. OthersKept(p) BY <1>0, <1>2 DEF TypeOK, OthersKept
  <2>2. /\ pc[p] = "dup" /\ pc'[p] = "copy" /\ op'[p] = op[p]
        /\ new'[p] = new[p] /\ cur'[p] = cur[p] /\ nxt'[p] = nxt[p]
    BY <1>0, <1>2 DEF TypeOK
  <2>3. /\ ver' = ver /\ next' = next /\ data' = data /\ head' = head
        /\ tail' = tail /\ sent' = sent /\ linked' = linked /\ hpos' = hpos
        /\ tpos' = tpos /\ Last' = Last
        /\ ref' = [ref EXCEPT ![m.blk] = @ + 1]
    BY <1>2, <2>0 DEF header, history, Last, Dup
  <2>4. TypeOK'
    <3>1. ref' \in [Blocks -> Nat]
      <4>1. m.blk \in Blocks BY DEF Md
      <4> QED BY <1>0, <2>3, <4>1 DEF TypeOK
    <3>2. pc' \in [Procs -> Labels] BY <1>0, <1>2 DEF TypeOK, Labels
    <3> QED BY <1>0, <1>2, <3>1, <3>2 DEF TypeOK, header, history
  <2>5. LocalOK(p)' BY <1>0, <2>2
    DEF LocalOK, Holds, EnqLabels, DeqLabels, PeekLabels
  <2>6. /\ KeepsRefs(p) /\ Holds(p)' /\ ~ Holds(p)
        /\ ~ Took(p)' /\ ~ DropsHead(p)' /\ ~ DropsTail(p)'
        /\ Owns(p)' => Owns(p)
    BY <2>2 DEF KeepsRefs, Owns, Shared, Took, Holds, DropsHead, DropsTail
  <2>7. PlaceOK(p)' BY <1>0, <2>2, <2>3, <2>6 DEF PlaceOK, LocalOK
  <2>8. \A q \in Procs : q # p => SameRole(q) BY <2>1, OthersSame
  <2>9. ASSUME NEW q \in Procs, Owns(q)', pc'[q] # "fill"
        PROVE  next'[new'[q].blk] = END
    BY <2>2, <2>3, <2>6, <2>8, <2>9, <2>1 DEF IInv, OwnedOK, SameRole, OthersKept
  <2>10. sent' >= sent BY <1>0, <2>3 DEF TypeOK
  <2>11. LocalsOK' /\ VersionsOK' /\ Distinct' /\ OwnedOK' /\ PlacesOK' /\ OneDrops'
    BY <2>1, <2>2, <2>3, <2>4, <2>5, <2>6, <2>7, <2>9, <2>10, LocalParts
  <2>12. ASSUME NEW n \in Md
         PROVE  /\ HeadRef(n)' <=> HeadRef(n)
                /\ TailRef(n)' <=> TailRef(n)
                /\ DataRef(n)' <=> DataRef(n)
                /\ Holders(n)' = IF n = m THEN Holders(n) \cup {p} ELSE Holders(n)
    <3>1. Holders(n)' = IF n = m THEN Holders(n) \cup {p} ELSE Holders(n)
      BY <2>0, <2>2, <2>6, <2>8 DEF Holders, SameRole
    <3> QED BY <3>1, <2>1, <2>3, <2>6, WordRefsSame
  <2>13. p \notin {"head", "tail", "data"} BY ProcsAssumption
  <2>14. p \notin References(m) BY <2>6, <2>13 DEF References, Holders
  <2>15. References(m)' = References(m) \cup {p} BY <2>12, <2>13 DEF References
  <2>16. \A n \in Md : n # m => References(n)' = References(n)
    BY <2>12 DEF References
  <2>17. Current(m) /\ References(m) # {}
    <3>1. Current(m) /\ ref[m.blk] > 0 BY <1>2, <2>0 DEF CanDup
    <3>2. ref[m.blk] = Cardinality(References(m)) BY <3>1 DEF IInv, RefsCounted
    <3>3. Cardinality({}) = 0 BY FS_EmptySet
    <3> QED BY <3>1, <3>2, <3>3
  <2>18. HeldAreCurrent' /\ RefsCounted'
    BY <1>0, <2>3, <2>14, <2>15, <2>16, <2>17, CountGains DEF IInv
  <2>19. ChainOK'
    <3>1. \A n \in Md : References(n)' # {} => References(n) # {}
      BY <2>16, <2>17
    <3> QED BY <2>3, <3>1 DEF IInv, ChainOK
  <2> QED BY <2>4, <2>11, <2>18, <2>19 DEF IInv
<1> QED BY <1>1, <1>2

LEMMA FillStep ==
  ASSUME IInv, NEW p \in Procs, Fill(p) PROVE IInv'
<1> USE DEF Fill, GoTo
<1>0. TypeOK /\ LocalOK(p) /\ PlaceOK(p) BY DEF IInv, LocalsOK, PlacesOK
<1>a. PICK m \in Md : m = new[p] /\ op[p] = "enq"
  BY <1>0 DEF LocalOK, TypeOK, DeqLabels, PeekLabels
<1>1. OthersKept(p) BY <1>0 DEF TypeOK, OthersKept
<1>2. /\ pc[p] = "fill" /\ pc'[p] = "share" /\ op'[p] = op[p]
      /\ new'[p] = new[p] /\ cur'[p] = cur[p] /\ nxt'[p] = nxt[p]
  BY <1>0 DEF TypeOK
<1>3. /\ ver' = ver /\ ref' = ref /\ head' = head
      /\ tail' = tail /\ sent' = sent /\ linked' = linked /\ hpos' = hpos
      /\ tpos' = tpos /\ Last' = Last
      /\ next' = [next EXCEPT ![m.blk] = END]
  BY <1>a DEF header, history, Last
<1>4. TypeOK'
  <2>1. m.blk \in Blocks BY DEF Md
  <2>2. data' \in [Blocks -> 0 .. MaxEnq] /\ next' \in [Blocks -> Md \cup {END, JUNK}]
    BY <1>0, <1>a, <1>3, <2>1 DEF TypeOK
  <2> QED BY <1>0, <2>2 DEF TypeOK, Labels, header, history
<1>5. LocalOK(p)' BY <1>0, <1>2
  DEF LocalOK, Holds, EnqLabels, DeqLabels, PeekLabels
<1>6. /\ KeepsRefs(p) /\ KeepsNodeRef(p) /\ ~ Holds(p)' /\ Owns(p)
      /\ ~ Took(p)' /\ ~ DropsHead(p)' /\ ~ DropsTail(p)'
  BY <1>0, <1>2, <1>a, WordsAssumption
    DEF KeepsRefs, KeepsNodeRef, Owns, Shared, Took, Holds, DropsHead, DropsTail,
        LocalOK
<1>7. PlaceOK(p)' BY <1>2, <1>6 DEF PlaceOK
<1>8. \A q \in Procs : q # p => SameRole(q) BY <1>1, OthersSame
<1>9. ASSUME NEW n \in Md PROVE References(n)' = References(n)
  <2>1. Holders(n)' = Holders(n)
    BY <1>6, <1>8 DEF Holders, KeepsNodeRef, SameRole
  <2>2. /\ HeadRef(n)' <=> HeadRef(n)
        /\ TailRef(n)' <=> TailRef(n)
        /\ DataRef(n)' <=> DataRef(n)
    BY <1>1, <1>3, <1>6, WordRefsSame
  <2> QED BY <2>1, <2>2 DEF References
<1>10. Current(m)
  <2>1. "data" \in References(m) BY <1>6, <1>a DEF References, DataRef
  <2> QED BY <2>1 DEF IInv, HeldAreCurrent
<1>11. ASSUME NEW q \in Procs, Owns(q)', pc'[q] # "fill"
       PROVE  next'[new'[q].blk] = END
  <2>1. CASE q = p BY <1>0, <1>2, <1>3, <1>a, <2>1 DEF TypeOK, Md
  <2>2. CASE q # p
    <3>1. Owns(q) /\ new'[q] = new[q] /\ pc[q] # "fill"
      BY <1>1, <1>8, <1>11, <2>2 DEF SameRole, OthersKept
    <3>2. next[new[q].blk] = END BY <3>1 DEF IInv, OwnedOK
    <3>3. new[q].blk \in Blocks /\ m.blk \in Blocks
      BY <1>0, <3>1 DEF Owns, TypeOK, Md
    <3> QED BY <1>0, <1>3, <3>1, <3>2, <3>3 DEF TypeOK
  <2> QED BY <2>1, <2>2
<1>12. sent' >= sent BY <1>0, <1>3 DEF TypeOK
<1>13. LocalsOK' /\ VersionsOK' /\ Distinct' /\ OwnedOK' /\ PlacesOK' /\ OneDrops'
  BY <1>1, <1>2, <1>3, <1>4, <1>5, <1>6, <1>7, <1>11, <1>12, LocalParts
<1>14. HeldAreCurrent' /\ RefsCounted' BY <1>0, <1>3, <1>9, CountSame DEF IInv
<1>15. ChainOK'
  <2>1. ASSUME NEW n \in Md, NEW i \in 1 .. Last, linked[i] = n, References(n)' # {}
        PROVE  next'[n.blk] = next[n.blk]
    <3>1. References(n) # {} BY <1>9, <2>1
    <3>2. Current(n) BY <3>1 DEF IInv, HeldAreCurrent
    <3>3. n # m BY <1>6, <1>a, <2>1 DEF IInv, OwnedOK
    <3>4. n.blk # m.blk BY <1>10, <3>2, <3>3, CurrentUnique
    <3>5. n.blk \in Blocks BY DEF Md
    <3> QED BY <1>0, <1>3, <3>4, <3>5 DEF TypeOK
  <2> QED BY <1>3, <1>9, <2>1 DEF IInv, ChainOK
<1> QED BY <1>4, <1>13, <1>14, <1>15 DEF IInv

LEMMA AllocateStep ==
  ASSUME IInv, NEW p \in Procs, Allocate(p) PROVE IInv'
<1> USE DEF Begin, GoTo
<1>0. /\ TypeOK /\ LocalOK(p) /\ PlaceOK(p) /\ HeldAreCurrent /\ RefsCounted
      /\ VersionsOK
  BY DEF IInv, LocalsOK, PlacesOK
<1>a. PICK b \in Blocks :
        /\ ref[b] = 0
        /\ ver' = [ver EXCEPT ![b] = NextVersion(@)]
        /\ ref' = [ref EXCEPT ![b] = 1]
        /\ new' = [new EXCEPT ![p] = [blk |-> b, ver |-> NextVersion(ver[b])]]
  BY DEF Allocate
<1>b. /\ ver[b] \in Nat /\ sent \in Nat /\ sent < MaxEnq /\ sent' = sent + 1
      /\ ver[b] <= sent + 1 /\ ver[b] + 1 < Versions
  <2>1. ver[b] \in Nat /\ sent \in Nat BY <1>0 DEF TypeOK
  <2>2. sent < MaxEnq /\ sent' = sent + 1 BY DEF Allocate
  <2>3. ver[b] <= sent + 1 BY <1>0 DEF VersionsOK
  <2>4. ver[b] + 1 < Versions BY <2>1, <2>2, <2>3, VersionsAssumption
  <2> QED BY <2>1, <2>2, <2>3, <2>4
<1>c. NextVersion(ver[b]) = ver[b] + 1 BY <1>b DEF NextVersion
<1>d. PICK m \in Md : m = [blk |-> b, ver |-> ver[b] + 1]
  <2>1. ver[b] + 1 \in 0 .. Versions - 1 BY <1>b, VersionsAssumption
  <2> QED BY <2>1 DEF Md
<1>e. /\ m.blk = b /\ m.ver = ver[b] + 1
      /\ ver' = [ver EXCEPT ![b] = m.ver] /\ new' = [new EXCEPT ![p] = m]
  BY <1>a, <1>c, <1>d
<1>1. OthersKept(p) BY <1>0, <1>e DEF TypeOK, OthersKept, Allocate
<1>2. /\ pc[p] = "idle" /\ pc'[p] = "fill" /\ op'[p] = "enq"
      /\ new'[p] = m /\ cur'[p] = cur[p] /\ nxt'[p] = nxt[p]
  BY <1>0, <1>e DEF TypeOK, Allocate
<1>3. /\ next' = next /\ head' = head /\ tail' = tail /\ linked' = linked
      /\ hpos' = hpos /\ tpos' = tpos /\ Last' = Last
  BY DEF Allocate, header, history, Last
<1>4. TypeOK'
  <2>1. ver' \in [Blocks -> 0 .. Versions - 1]
    BY <1>0, <1>b, <1>e, VersionsAssumption DEF TypeOK
  <2>2. ref' \in [Blocks -> Nat] BY <1>0, <1>a DEF TypeOK
  <2>3. new' \in [Procs -> Md \cup {END}] BY <1>0, <1>e DEF TypeOK
  <2>4. sent' \in 0 .. MaxEnq BY <1>b, VersionsAssumption
  <2>5. buf' \in [Procs -> 0 .. MaxEnq]
    BY <1>0, <1>b, VersionsAssumption DEF TypeOK, Allocate
  <2>6. pc' \in [Procs -> Labels]
        /\ op' \in [Procs -> {"none", "enq", "deq", "peek"}]
    BY <1>0 DEF TypeOK, Labels, Allocate
  <2> QED BY <1>0, <2>1, <2>2, <2>3, <2>4, <2>5, <2>6
    DEF TypeOK, header, history, Allocate
<1>5. LocalOK(p)' BY <1>0, <1>2, WordsAssumption
  DEF LocalOK, Holds, EnqLabels, DeqLabels, PeekLabels
<1>6. /\ ~ Owns(p) /\ ~ Shared(p) /\ ~ Took(p) /\ ~ Holds(p)
      /\ ~ DropsHead(p) /\ ~ DropsTail(p)
      /\ Owns(p)' /\ ~ Shared(p)' /\ ~ Took(p)' /\ ~ Holds(p)'
      /\ ~ DropsHead(p)' /\ ~ DropsTail(p)'
  BY <1>0, <1>2, WordsAssumption
    DEF LocalOK, Owns, Shared, Took, Holds, DropsHead, DropsTail
<1>7. PlaceOK(p)' BY <1>2, <1>6 DEF PlaceOK
<1>8. \A q \in Procs : q # p => SameRole(q) BY <1>1, OthersSame
\* Nobody has a reference to the block that was handed out.
<1>9. \A n \in Md : n.blk = b => References(n) = {}
  <2>1. References(MdOf(b)) = {} BY <1>0, <1>a, FreeIffNone
  <2>2. ASSUME NEW n \in Md, n.blk = b, References(n) # {} PROVE FALSE
    <3>1. Current(n) BY <1>0, <2>2 DEF HeldAreCurrent
    <3>2. n = MdOf(b) BY <1>0, <2>2, <3>1, MdFacts, CurrentUnique
    <3> QED BY <2>1, <2>2, <3>2
  <2> QED BY <2>2
<1>10. \A i \in 1 .. Last : linked[i] # m
  BY <1>0, <1>b, <1>e DEF VersionsOK
<1>11. \A q \in Procs : ~ (Owns(q) /\ new[q] = m)
  <2>1. References(m) = {} BY <1>9, <1>e
  <2> QED BY <2>1 DEF References, DataRef
<1>12. LocalsOK' BY <1>0, <1>1, <1>5, LocalsSame DEF IInv
<1>13. VersionsOK' /\ Distinct'
  <2>1. ASSUME NEW c \in Blocks PROVE ver'[c] \in Nat /\ ver[c] \in Nat
                                      /\ ver[c] <= ver'[c] /\ ver'[c] <= sent' + 1
    BY <1>0, <1>b, <1>e DEF TypeOK, VersionsOK
  <2>2. \A i \in 1 .. Last : linked[i].blk \in Blocks /\ linked[i].ver \in Nat
    <3>1. \A i \in 1 .. Last : linked[i] \in Md BY <1>0 DEF TypeOK, Last
    <3>2. \A n \in Md : n.blk \in Blocks /\ n.ver \in Nat BY DEF Md
    <3> QED BY <3>1, <3>2
  <2> QED BY <1>0, <1>3, <2>1, <2>2 DEF VersionsOK, IInv, Distinct
<1>14. OwnedOK'
  <2>1. \A q \in Procs : q # p /\ Owns(q)' => Owns(q) /\ new'[q] = new[q]
                                             /\ pc'[q] = pc[q]
    BY <1>1, <1>8 DEF SameRole, OthersKept
  <2> QED BY <1>2, <1>3, <1>10, <1>11, <2>1 DEF IInv, OwnedOK
<1>15. PlacesOK'
  <2>1. ASSUME NEW q \in Procs, q # p PROVE PlaceOK(q)'
    BY <1>3, <1>1, <1>8, <2>1 DEF IInv, PlacesOK, PlaceOK, OthersKept, SameRole
  <2> QED BY <1>7, <2>1 DEF PlacesOK
<1>16. OneDrops' BY <1>6, <1>8 DEF IInv, OneDrops, SameRole
<1>17. ASSUME NEW n \in Md
       PROVE  References(n)' = IF n = m THEN {"data"} ELSE References(n)
  <2>1. /\ HeadRef(n)' <=> HeadRef(n)
        /\ TailRef(n)' <=> TailRef(n)
        /\ DataRef(n)' <=> DataRef(n) \/ n = m
        /\ Holders(n)' = Holders(n)
    <3>1. /\ LinkedFrom(hpos, n)' <=> LinkedFrom(hpos, n)
          /\ LinkedFrom(tpos, n)' <=> LinkedFrom(tpos, n)
          /\ LinkedFrom(hpos + 1, n)' <=> LinkedFrom(hpos + 1, n)
      BY <1>3 DEF LinkedFrom
    <3>2. HeadRef(n)' <=> HeadRef(n)
      BY <1>6, <1>8, <3>1 DEF HeadRef, SameRole
    <3>3. TailRef(n)' <=> TailRef(n)
      BY <1>6, <1>8, <3>1 DEF TailRef, SameRole
    <3>4. DataRef(n)' <=> DataRef(n) \/ n = m
      <4>1. \A q \in Procs : Owns(q)' /\ new'[q] = n
                   <=> (Owns(q) /\ new[q] = n) \/ (q = p /\ n = m)
        BY <1>2, <1>6, <1>8 DEF SameRole
      <4>2. \A q \in Procs : Took(q)' /\ nxt'[q] = n <=> Took(q) /\ nxt[q] = n
        BY <1>6, <1>8 DEF SameRole
      <4> QED BY <3>1, <4>1, <4>2 DEF DataRef
    <3>5. Holders(n)' = Holders(n) BY <1>6, <1>8 DEF Holders, SameRole
    <3> QED BY <3>2, <3>3, <3>4, <3>5
  <2>2. CASE n # m BY <2>1, <2>2 DEF References
  <2>3. CASE n = m
    <3>1. References(n) = {} BY <1>9, <1>e, <2>3
    <3>2. /\ Holders(n) = {} /\ ~ HeadRef(n) /\ ~ TailRef(n)
      BY <3>1 DEF References
    <3> QED BY <2>1, <2>3, <3>2 DEF References
  <2> QED BY <2>2, <2>3
<1>18. ChainOK' BY <1>3, <1>10, <1>17 DEF IInv, ChainOK
<1>19. HeldAreCurrent'
  <2>1. ASSUME NEW n \in Md, References(n)' # {} PROVE ver'[n.blk] = n.ver
    <3>1. CASE n = m BY <1>0, <1>e, <3>1 DEF TypeOK
    <3>2. CASE n # m
      <4>1. References(n) # {} BY <1>17, <2>1, <3>2
      <4>2. n.blk # b /\ ver[n.blk] = n.ver
        BY <1>0, <1>9, <4>1 DEF HeldAreCurrent, Current
      <4> QED BY <1>0, <1>e, <4>2 DEF TypeOK, Md
    <3> QED BY <3>1, <3>2
  <2> QED BY <2>1 DEF HeldAreCurrent, Current
<1>20. RefsCounted'
  <2>1. ASSUME NEW n \in Md, ver'[n.blk] = n.ver
        PROVE  ref'[n.blk] = Cardinality(References(n)')
    <3>1. CASE n = m
      <4>1. References(n)' = {"data"} BY <1>17, <3>1
      <4>2. Cardinality({"data"}) = 1 BY FS_Singleton
      <4> QED BY <1>0, <1>a, <1>e, <3>1, <4>1, <4>2 DEF TypeOK
    <3>2. CASE n # m
      <4>1. References(n)' = References(n) BY <1>17, <3>2
      <4>2. n.blk \in Blocks /\ n.blk # b
        <5>1. n.blk \in Blocks BY DEF Md
        <5>2. n.blk = b => n.ver = m.ver BY <1>0, <1>e, <2>1 DEF TypeOK
        <5>3. n.blk = b => n = m BY <1>e, <5>2 DEF Md
        <5> QED BY <3>2, <5>1, <5>3
      <4>3. Current(n) /\ ref'[n.blk] = ref[n.blk]
        BY <1>0, <1>a, <1>e, <2>1, <4>2 DEF TypeOK, Current
      <4> QED BY <1>0, <4>1, <4>3 DEF RefsCounted
    <3> QED BY <3>1, <3>2
  <2> QED BY <2>1 DEF RefsCounted, Current
<1> QED BY <1>4, <1>12, <1>13, <1>14, <1>15, <1>16, <1>18, <1>19, <1>20 DEF IInv

LEMMA CountGainsTwo ==
  ASSUME TypeOK, HeldAreCurrent, RefsCounted,
         NEW m \in Md, NEW t, NEW u, Current(m), t # u,
         t \notin References(m), u \notin References(m),
         ver' = ver, ref' = [ref EXCEPT ![m.blk] = @ + 2],
         References(m)' = (References(m) \cup {t}) \cup {u},
         \A n \in Md : n # m => References(n)' = References(n)
  PROVE  HeldAreCurrent' /\ RefsCounted'
<1>1. HeldAreCurrent' BY DEF HeldAreCurrent, Current
<1>2. Cardinality((References(m) \cup {t}) \cup {u}) = Cardinality(References(m)) + 2
  <2>1. /\ IsFiniteSet(References(m) \cup {t})
        /\ Cardinality(References(m) \cup {t}) = Cardinality(References(m)) + 1
    BY ReferencesFinite, FS_AddElement
  <2>2. u \notin References(m) \cup {t} OBVIOUS
  <2>3. Cardinality((References(m) \cup {t}) \cup {u})
          = Cardinality(References(m) \cup {t}) + 1
    BY <2>1, <2>2, FS_AddElement
  <2>4. Cardinality(References(m)) \in Nat
    BY ReferencesFinite, FS_CardinalityType
  <2> QED BY <2>1, <2>3, <2>4
<1>3. ASSUME NEW n \in Md, Current(n)'
      PROVE  ref'[n.blk] = Cardinality(References(n)')
  <2>1. Current(n) BY <1>3 DEF Current
  <2>2. CASE n = m BY <1>2, <2>1, <2>2 DEF RefsCounted, TypeOK, Md
  <2>3. CASE n # m
    <3>1. n.blk # m.blk BY <2>1, <2>3, CurrentUnique
    <3>2. n.blk \in Blocks BY DEF Md
    <3>3. ref'[n.blk] = ref[n.blk] BY <3>1, <3>2 DEF TypeOK
    <3>4. References(n)' = References(n) BY <2>3
    <3> QED BY <2>1, <3>3, <3>4 DEF RefsCounted
  <2> QED BY <2>2, <2>3
<1> QED BY <1>1, <1>3 DEF RefsCounted

LEMMA ShareStep ==
  ASSUME IInv, NEW p \in Procs, Share(p) PROVE IInv'
<1> USE DEF Share, GoTo
<1>0. TypeOK /\ LocalOK(p) /\ OwnedOK BY DEF IInv, LocalsOK
<1>a. PICK m \in Md : m = new[p] /\ op[p] = "enq"
  BY <1>0 DEF LocalOK, TypeOK, DeqLabels, PeekLabels
<1>1. OthersKept(p) BY <1>0 DEF TypeOK, OthersKept
<1>2. /\ pc[p] = "share" /\ pc'[p] = "read" /\ op'[p] = op[p]
      /\ new'[p] = new[p] /\ cur'[p] = cur[p] /\ nxt'[p] = nxt[p]
  BY <1>0 DEF TypeOK
<1>3. /\ ver' = ver /\ next' = next /\ data' = data /\ head' = head
      /\ tail' = tail /\ sent' = sent /\ linked' = linked /\ hpos' = hpos
      /\ tpos' = tpos /\ Last' = Last
      /\ ref' = [ref EXCEPT ![m.blk] = @ + 2]
  BY <1>a DEF header, history, Last, Dup
<1>4. TypeOK'
  <2>1. m.blk \in Blocks BY DEF Md
  <2>2. ref' \in [Blocks -> Nat] BY <1>0, <1>3, <2>1 DEF TypeOK
  <2> QED BY <1>0, <2>2 DEF TypeOK, Labels, header, history
<1>5. LocalOK(p)' BY <1>0, <1>2
  DEF LocalOK, Holds, EnqLabels, DeqLabels, PeekLabels
<1>6. /\ ~ Took(p) /\ ~ DropsHead(p) /\ ~ DropsTail(p)
      /\ ~ Took(p)' /\ ~ DropsHead(p)' /\ ~ DropsTail(p)'
      /\ ~ Holds(p) /\ ~ Holds(p)'
      /\ ~ Shared(p) /\ Shared(p)' /\ Owns(p) /\ Owns(p)'
  BY <1>0, <1>2, <1>a, WordsAssumption
    DEF Owns, Shared, Took, Holds, DropsHead, DropsTail
<1>7. PlaceOK(p)' BY <1>2, <1>6 DEF PlaceOK
<1>8. \A q \in Procs : q # p => SameRole(q) BY <1>1, OthersSame
<1>9. ASSUME NEW q \in Procs, Owns(q)', pc'[q] # "fill"
      PROVE  next'[new'[q].blk] = END
  <2>1. Owns(q) /\ new'[q] = new[q] /\ pc[q] # "fill"
    BY <1>1, <1>2, <1>6, <1>8, <1>9 DEF SameRole, OthersKept
  <2> QED BY <1>0, <1>3, <2>1 DEF OwnedOK
<1>10. sent' >= sent BY <1>0, <1>3 DEF TypeOK
<1>11. LocalsOK' /\ VersionsOK' /\ Distinct' /\ OwnedOK' /\ PlacesOK' /\ OneDrops'
  BY <1>1, <1>2, <1>3, <1>4, <1>5, <1>6, <1>7, <1>9, <1>10, LocalParts
<1>12. ASSUME NEW n \in Md
       PROVE  /\ Holders(n)' = Holders(n)
              /\ HeadRef(n)' <=> HeadRef(n) \/ n = m
              /\ TailRef(n)' <=> TailRef(n) \/ n = m
              /\ DataRef(n)' <=> DataRef(n)
  <2>1. /\ LinkedFrom(hpos, n)' <=> LinkedFrom(hpos, n)
        /\ LinkedFrom(tpos, n)' <=> LinkedFrom(tpos, n)
        /\ LinkedFrom(hpos + 1, n)' <=> LinkedFrom(hpos + 1, n)
    BY <1>3 DEF LinkedFrom
  <2>2. Holders(n)' = Holders(n) BY <1>6, <1>8 DEF Holders, SameRole
  <2>3. DataRef(n)' <=> DataRef(n)
    BY <1>2, <1>6, <1>8, <2>1 DEF DataRef, SameRole
  <2>4. \A q \in Procs : Shared(q)' /\ new'[q] = n
              <=> (Shared(q) /\ new[q] = n) \/ (q = p /\ n = m)
    BY <1>2, <1>6, <1>8, <1>a DEF SameRole
  <2>5. \A q \in Procs :
          /\ DropsHead(q)' /\ cur'[q] = n <=> DropsHead(q) /\ cur[q] = n
          /\ DropsTail(q)' /\ cur'[q] = n <=> DropsTail(q) /\ cur[q] = n
    BY <1>6, <1>8 DEF SameRole
  <2>6. HeadRef(n)' <=> HeadRef(n) \/ n = m BY <2>1, <2>4, <2>5 DEF HeadRef
  <2>7. TailRef(n)' <=> TailRef(n) \/ n = m BY <2>1, <2>4, <2>5 DEF TailRef
  <2> QED BY <2>2, <2>3, <2>6, <2>7
\* Before, nothing but its enqueuer refers to the new node.
<1>13. ~ HeadRef(m) /\ ~ TailRef(m)
  <2>1. \A i \in 1 .. Last : linked[i] # m BY <1>0, <1>6, <1>a DEF OwnedOK
  <2>2. \A q \in Procs : Holds(q) => cur[q] # m
    BY <2>1 DEF IInv, PlacesOK, PlaceOK
  <2>3. \A q \in Procs : ~ (DropsHead(q) /\ cur[q] = m)
                         /\ ~ (DropsTail(q) /\ cur[q] = m)
    BY <2>2 DEF DropsHead, DropsTail, Holds
  <2>4. \A q \in Procs : ~ (Shared(q) /\ new[q] = m)
    <3>1. \A q \in Procs : Shared(q) => Owns(q) BY DEF Shared
    <3> QED BY <1>0, <1>6, <1>a, <3>1 DEF OwnedOK
  <2>5. ~ LinkedFrom(hpos, m) /\ ~ LinkedFrom(tpos, m)
    BY <1>0, <2>1 DEF LinkedFrom, TypeOK, Last
  <2> QED BY <2>3, <2>4, <2>5 DEF HeadRef, TailRef
<1>14. "head" \notin Holders(m) /\ "tail" \notin Holders(m)
  BY ProcsAssumption DEF Holders
<1>15. "head" \notin References(m) /\ "tail" \notin References(m)
  BY <1>13, <1>14 DEF References
<1>16. References(m)' = (References(m) \cup {"head"}) \cup {"tail"}
  BY <1>12 DEF References
<1>17. \A n \in Md : n # m => References(n)' = References(n)
  BY <1>12 DEF References
<1>18. Current(m) /\ References(m) # {}
  <2>1. "data" \in References(m) BY <1>6, <1>a DEF References, DataRef
  <2> QED BY <2>1 DEF IInv, HeldAreCurrent
<1>19. HeldAreCurrent' /\ RefsCounted'
  BY <1>0, <1>3, <1>15, <1>16, <1>17, <1>18, CountGainsTwo DEF IInv
<1>20. ChainOK'
  <2>1. \A n \in Md : References(n)' # {} => References(n) # {}
    BY <1>17, <1>18
  <2> QED BY <1>3, <2>1 DEF IInv, ChainOK
<1> QED BY <1>4, <1>11, <1>19, <1>20 DEF IInv

\* The tail moves to the next node, in Help or in Swing.
LEMMA TailMovesStep ==
  ASSUME IInv, NEW p \in Procs, NEW l, NEW x,
         \/ pc[p] = "help" /\ x = nxt[p] /\ l = "dropHelp"
         \/ pc[p] = "swing" /\ x = new[p] /\ l = "drop",
         tail = cur[p], tail' = x, tpos' = tpos + 1, GoTo(p, l),
         UNCHANGED <<memory, head, overflowed, op, new, cur, nxt, buf, sent,
                     linked, hpos, mark, dead>>
  PROVE  IInv'
<1> USE DEF GoTo
<1>0. /\ TypeOK /\ LocalOK(p) /\ PlaceOK(p) /\ Distinct /\ ChainOK /\ OneDrops
      /\ PlacesOK
  BY DEF IInv, LocalsOK, PlacesOK
<1>a. Holds(p) /\ op[p] = "enq"
  BY <1>0 DEF Holds, LocalOK, TypeOK, DeqLabels, PeekLabels
<1>b. /\ Last \in Nat /\ hpos \in 1 .. Last /\ tpos \in 1 .. Last
      /\ \A i \in 1 .. Last : linked[i] \in Md
  BY <1>0 DEF TypeOK, Last
<1>c. PICK i \in 1 .. Last : cur[p] = linked[i] /\ i < Last /\ x = linked[i + 1]
  <2>1. pc[p] = "help" => nxt[p] # END BY <1>0 DEF LocalOK
  <2> QED BY <1>0, <1>a, <2>1 DEF PlaceOK
<1>d. i = tpos BY <1>0, <1>b, <1>c DEF Distinct, ChainOK
<1>e. /\ cur[p] = linked[tpos] /\ tpos < Last /\ x = linked[tpos + 1]
      /\ tpos + 1 \in 1 .. Last /\ x \in Md
  BY <1>b, <1>c, <1>d
<1>1. OthersKept(p) BY <1>0 DEF TypeOK, OthersKept
<1>2. /\ pc'[p] = l /\ op'[p] = op[p]
      /\ new'[p] = new[p] /\ cur'[p] = cur[p] /\ nxt'[p] = nxt[p]
  BY <1>0 DEF TypeOK
<1>3. /\ ver' = ver /\ ref' = ref /\ next' = next /\ data' = data
      /\ head' = head /\ sent' = sent /\ linked' = linked /\ hpos' = hpos
      /\ Last' = Last
  BY DEF memory, Last
<1>4. TypeOK'
  <2>1. pc' \in [Procs -> Labels] BY <1>0 DEF TypeOK, Labels
  <2>2. tail' \in Md /\ tpos' \in 1 .. Len(linked) BY <1>e DEF Last
  <2> QED BY <1>0, <1>3, <2>1, <2>2 DEF TypeOK
<1>5. LocalOK(p)' BY <1>0, <1>2, <1>a
  DEF LocalOK, Holds, EnqLabels, DeqLabels, PeekLabels
<1>6. /\ Owns(p)' <=> Owns(p)
      /\ Shared(p)' <=> Shared(p)
      /\ ~ Took(p)' /\ ~ Took(p) /\ Holds(p)'
      /\ ~ DropsHead(p)' /\ ~ DropsHead(p)
      /\ DropsTail(p)' /\ ~ DropsTail(p)
      /\ pc[p] # "fill" /\ pc'[p] # "swing"
  BY <1>0, <1>2, <1>a
    DEF Owns, Shared, Took, Holds, DropsHead, DropsTail, LocalOK
<1>7. \A q \in Procs : q # p => SameRole(q) BY <1>1, OthersSame
<1>8. LocalsOK' BY <1>1, <1>5, LocalsSame DEF IInv
<1>9. VersionsOK' /\ Distinct'
  BY <1>3 DEF IInv, VersionsOK, Distinct
<1>10. OwnedOK'
  <2>1. \A q \in Procs : Owns(q)' => Owns(q) /\ new'[q] = new[q]
                                     /\ (pc'[q] # "fill" => pc[q] # "fill")
    BY <1>1, <1>2, <1>6, <1>7 DEF SameRole, OthersKept
  <2> QED BY <1>3, <2>1 DEF IInv, OwnedOK
<1>11. PlacesOK'
  <2>1. ASSUME NEW q \in Procs, q # p PROVE PlaceOK(q)'
    BY <1>0, <1>1, <1>3, <1>7, <1>b, <2>1
      DEF PlacesOK, PlaceOK, OthersKept, SameRole
  <2>2. PlaceOK(p)'
    <3>1. Holds(p) /\ nxt[p] # END => nxt[p] = linked[tpos + 1]
      BY <1>0, <1>b, <1>e DEF PlaceOK, Distinct
    <3> QED BY <1>2, <1>3, <1>6, <1>a, <1>b, <1>e, <3>1 DEF PlaceOK
  <2> QED BY <2>1, <2>2 DEF PlacesOK
<1>12. OneDrops'
  <2>1. ASSUME NEW q \in Procs, q # p, DropsTail(q) PROVE cur[q] # cur[p]
    <3>1. Holds(q) BY <2>1 DEF DropsTail, Holds
    <3> QED BY <1>0, <1>b, <1>e, <2>1, <3>1 DEF PlacesOK, PlaceOK, Distinct
  <2> QED BY <1>0, <1>2, <1>6, <1>7, <2>1 DEF OneDrops, SameRole
<1>13. ASSUME NEW n \in Md PROVE References(n)' = References(n)
  <2>1. /\ LinkedFrom(hpos, n)' <=> LinkedFrom(hpos, n)
        /\ LinkedFrom(hpos + 1, n)' <=> LinkedFrom(hpos + 1, n)
    BY <1>3 DEF LinkedFrom
  <2>2. LinkedFrom(tpos, n) <=> LinkedFrom(tpos, n)' \/ n = cur[p]
    BY <1>3, <1>b, <1>e DEF LinkedFrom
  <2>3. \A q \in Procs :
          /\ Owns(q)' /\ new'[q] = n <=> Owns(q) /\ new[q] = n
          /\ Shared(q)' /\ new'[q] = n <=> Shared(q) /\ new[q] = n
          /\ Took(q)' /\ nxt'[q] = n <=> Took(q) /\ nxt[q] = n
          /\ DropsHead(q)' /\ cur'[q] = n <=> DropsHead(q) /\ cur[q] = n
          /\ Holds(q)' /\ cur'[q] = n <=> Holds(q) /\ cur[q] = n
    BY <1>2, <1>6, <1>7, <1>a DEF SameRole
  <2>4. \A q \in Procs : DropsTail(q)' /\ cur'[q] = n
           <=> (DropsTail(q) /\ cur[q] = n) \/ (q = p /\ n = cur[p])
    BY <1>2, <1>6, <1>7 DEF SameRole
  <2>5. HeadRef(n)' <=> HeadRef(n) BY <2>1, <2>3 DEF HeadRef
  <2>6. DataRef(n)' <=> DataRef(n) BY <2>1, <2>3 DEF DataRef
  <2>7. TailRef(n)' <=> TailRef(n) BY <2>2, <2>3, <2>4 DEF TailRef
  <2>8. Holders(n)' = Holders(n) BY <2>3 DEF Holders
  <2> QED BY <2>5, <2>6, <2>7, <2>8 DEF References
<1>14. HeldAreCurrent' /\ RefsCounted' BY <1>0, <1>3, <1>13, CountSame DEF IInv
<1>15. ChainOK' BY <1>0, <1>3, <1>13, <1>b, <1>e DEF ChainOK
<1> QED BY <1>4, <1>8, <1>9, <1>10, <1>11, <1>12, <1>14, <1>15 DEF IInv

LEMMA TakeMovesStep ==
  ASSUME IInv, NEW p \in Procs, Take(p), head = cur[p] PROVE IInv'
<1> USE DEF Take, GoTo
<1>0. /\ TypeOK /\ LocalOK(p) /\ PlaceOK(p) /\ Distinct /\ ChainOK /\ OneDrops
      /\ PlacesOK
  BY DEF IInv, LocalsOK, PlacesOK
<1>a. /\ Holds(p) /\ op[p] = "deq" /\ nxt[p] # END /\ pc[p] = "take"
      /\ head' = nxt[p] /\ hpos' = hpos + 1
  BY <1>0 DEF Holds, LocalOK, TypeOK, EnqLabels, PeekLabels
<1>b. /\ Last \in Nat /\ hpos \in 1 .. Last /\ tpos \in 1 .. Last
      /\ \A i \in 1 .. Last : linked[i] \in Md
  BY <1>0 DEF TypeOK, Last
<1>c. PICK i \in 1 .. Last : cur[p] = linked[i] /\ i < Last /\ nxt[p] = linked[i + 1]
  BY <1>0, <1>a DEF PlaceOK
<1>d. i = hpos BY <1>0, <1>b, <1>c DEF Distinct, ChainOK
<1>e. /\ cur[p] = linked[hpos] /\ hpos < Last /\ nxt[p] = linked[hpos + 1]
      /\ hpos + 1 \in 1 .. Last /\ nxt[p] \in Md
  BY <1>b, <1>c, <1>d
<1>1. OthersKept(p) BY <1>0 DEF TypeOK, OthersKept
<1>2. /\ pc'[p] = "drop" /\ op'[p] = op[p]
      /\ new'[p] = new[p] /\ cur'[p] = cur[p] /\ nxt'[p] = nxt[p]
  BY <1>0 DEF TypeOK
<1>3. /\ ver' = ver /\ ref' = ref /\ next' = next /\ data' = data
      /\ tail' = tail /\ sent' = sent /\ linked' = linked /\ tpos' = tpos
      /\ Last' = Last
  BY DEF memory, Last
<1>4. TypeOK'
  <2>1. pc' \in [Procs -> Labels] BY <1>0 DEF TypeOK, Labels
  <2>2. head' \in Md /\ hpos' \in 1 .. Len(linked) BY <1>a, <1>e DEF Last
  <2> QED BY <1>0, <1>3, <2>1, <2>2 DEF TypeOK
<1>5. LocalOK(p)' BY <1>0, <1>2, <1>a
  DEF LocalOK, Holds, EnqLabels, DeqLabels, PeekLabels
<1>6. /\ ~ Owns(p)' /\ ~ Owns(p) /\ ~ Shared(p)' /\ ~ Shared(p)
      /\ Took(p)' /\ ~ Took(p) /\ Holds(p)'
      /\ DropsHead(p)' /\ ~ DropsHead(p)
      /\ ~ DropsTail(p)' /\ ~ DropsTail(p)
  BY <1>0, <1>2, <1>a
    DEF Owns, Shared, Took, Holds, DropsHead, DropsTail, LocalOK
<1>7. \A q \in Procs : q # p => SameRole(q) BY <1>1, OthersSame
<1>8. LocalsOK' BY <1>1, <1>5, LocalsSame DEF IInv
<1>9. VersionsOK' /\ Distinct' BY <1>3 DEF IInv, VersionsOK, Distinct
<1>10. OwnedOK'
  <2>1. \A q \in Procs : Owns(q)' => Owns(q) /\ new'[q] = new[q]
                                     /\ (pc'[q] # "fill" => pc[q] # "fill")
    BY <1>1, <1>6, <1>7 DEF SameRole, OthersKept
  <2> QED BY <1>3, <2>1 DEF IInv, OwnedOK
<1>11. PlacesOK'
  <2>1. ASSUME NEW q \in Procs, q # p PROVE PlaceOK(q)'
    BY <1>0, <1>1, <1>3, <1>7, <1>a, <1>b, <2>1
      DEF PlacesOK, PlaceOK, OthersKept, SameRole
  <2>2. PlaceOK(p)'
    BY <1>2, <1>3, <1>6, <1>a, <1>b, <1>e DEF PlaceOK
  <2> QED BY <2>1, <2>2 DEF PlacesOK
<1>12. OneDrops'
  <2>1. ASSUME NEW q \in Procs, q # p, DropsHead(q) PROVE cur[q] # cur[p]
    <3>1. Holds(q) BY <2>1 DEF DropsHead, Holds
    <3> QED BY <1>0, <1>b, <1>e, <2>1, <3>1 DEF PlacesOK, PlaceOK, Distinct
  <2>2. ASSUME NEW q \in Procs, q # p, Took(q) PROVE nxt[q] # nxt[p]
    BY <1>0, <1>b, <1>e, <2>2 DEF PlacesOK, PlaceOK, Distinct
  <2> QED BY <1>0, <1>2, <1>6, <1>7, <2>1, <2>2 DEF OneDrops, SameRole
<1>13. ASSUME NEW n \in Md PROVE References(n)' = References(n)
  <2>1. LinkedFrom(tpos, n)' <=> LinkedFrom(tpos, n)
    BY <1>3 DEF LinkedFrom
  <2>2. /\ LinkedFrom(hpos, n) <=> LinkedFrom(hpos, n)' \/ n = cur[p]
        /\ LinkedFrom(hpos + 1, n) <=> LinkedFrom(hpos + 1, n)' \/ n = nxt[p]
    BY <1>3, <1>a, <1>b, <1>e DEF LinkedFrom
  <2>3. \A q \in Procs :
          /\ Owns(q)' /\ new'[q] = n <=> Owns(q) /\ new[q] = n
          /\ Shared(q)' /\ new'[q] = n <=> Shared(q) /\ new[q] = n
          /\ DropsTail(q)' /\ cur'[q] = n <=> DropsTail(q) /\ cur[q] = n
          /\ Holds(q)' /\ cur'[q] = n <=> Holds(q) /\ cur[q] = n
    BY <1>2, <1>6, <1>7, <1>a DEF SameRole
  <2>4. \A q \in Procs :
          /\ DropsHead(q)' /\ cur'[q] = n
               <=> (DropsHead(q) /\ cur[q] = n) \/ (q = p /\ n = cur[p])
          /\ Took(q)' /\ nxt'[q] = n
               <=> (Took(q) /\ nxt[q] = n) \/ (q = p /\ n = nxt[p])
    BY <1>2, <1>6, <1>7 DEF SameRole
  <2>5. HeadRef(n)' <=> HeadRef(n) BY <2>2, <2>3, <2>4 DEF HeadRef
  <2>6. DataRef(n)' <=> DataRef(n) BY <2>2, <2>3, <2>4 DEF DataRef
  <2>7. TailRef(n)' <=> TailRef(n) BY <2>1, <2>3 DEF TailRef
  <2>8. Holders(n)' = Holders(n) BY <2>3 DEF Holders
  <2> QED BY <2>5, <2>6, <2>7, <2>8 DEF References
<1>14. HeldAreCurrent' /\ RefsCounted' BY <1>0, <1>3, <1>13, CountSame DEF IInv
<1>15. ChainOK'
  <2>1. hpos' <= tpos' + 1 BY <1>0, <1>3, <1>a, <1>b, <1>e DEF ChainOK
  <2> QED BY <1>0, <1>3, <1>13, <1>a, <1>e, <2>1 DEF ChainOK
<1> QED BY <1>4, <1>8, <1>9, <1>10, <1>11, <1>12, <1>14, <1>15 DEF IInv

LEMMA LinkSucceedsStep ==
  ASSUME IInv, NEW p \in Procs, Link(p), next[cur[p].blk] = END PROVE IInv'
<1> USE DEF Link, GoTo
<1>0. /\ TypeOK /\ LocalOK(p) /\ PlaceOK(p) /\ Distinct /\ ChainOK /\ OneDrops
      /\ PlacesOK /\ OwnedOK /\ VersionsOK /\ HeldAreCurrent
  BY DEF IInv, LocalsOK, PlacesOK
<1>a. /\ Holds(p) /\ op[p] = "enq" /\ new[p] # END /\ pc[p] = "link"
      /\ nxt[p] = END
  BY <1>0 DEF Holds, LocalOK, TypeOK, DeqLabels, PeekLabels
<1>b. /\ Last \in Nat /\ hpos \in 1 .. Last /\ tpos \in 1 .. Last
      /\ linked \in Seq(Md) /\ Last = Len(linked)
      /\ \A i \in 1 .. Last : linked[i] \in Md
  BY <1>0 DEF TypeOK, Last
<1>c. PICK c \in Md : c = cur[p] /\ p \in References(c) /\ Current(c)
  BY <1>a, HeldNode
<1>d. PICK m \in Md : m = new[p] BY <1>0, <1>a DEF TypeOK
<1>e. Owns(p) /\ Shared(p) BY <1>a DEF Owns, Shared
<1>f. Current(m)
  <2>1. "data" \in References(m) BY <1>d, <1>e DEF References, DataRef
  <2> QED BY <1>0, <2>1 DEF HeldAreCurrent
\* The node whose next word is END is the last one, and the tail is there.
<1>g. c = linked[Last] /\ tpos = Last
  <2>1. PICK i \in 1 .. Last : c = linked[i] /\ i <= tpos
    BY <1>0, <1>a, <1>c DEF PlaceOK
  <2>2. next[c.blk] = IF i = Last THEN END ELSE linked[i + 1]
    BY <1>0, <1>c, <2>1 DEF ChainOK
  <2>3. i # Last => linked[i + 1] \in Md BY <1>b, <2>1
  <2>4. i = Last BY <1>c, <2>2, <2>3, WordsAssumption
  <2> QED BY <1>b, <2>1, <2>4
<1>h. \A i \in 1 .. Last : linked[i] # m BY <1>0, <1>d, <1>e DEF OwnedOK
<1>i. c.blk # m.blk BY <1>b, <1>c, <1>f, <1>g, <1>h, CurrentUnique
<1>1. OthersKept(p) BY <1>0 DEF TypeOK, OthersKept
<1>2. /\ pc'[p] = "swing" /\ op'[p] = op[p]
      /\ new'[p] = new[p] /\ cur'[p] = cur[p] /\ nxt'[p] = nxt[p]
  BY <1>0 DEF TypeOK
<1>3. /\ ver' = ver /\ ref' = ref /\ data' = data /\ head' = head
      /\ tail' = tail /\ sent' = sent /\ hpos' = hpos /\ tpos' = tpos
      /\ next' = [next EXCEPT ![c.blk] = m]
      /\ linked' = Append(linked, m)
  BY <1>c, <1>d DEF header
<1>4. /\ Last' = Last + 1 /\ linked'[Last + 1] = m /\ linked' \in Seq(Md)
      /\ \A i \in 1 .. Last : linked'[i] = linked[i]
  BY <1>3, <1>b DEF Last
<1>5. TypeOK'
  <2>1. pc' \in [Procs -> Labels] BY <1>0 DEF TypeOK, Labels
  <2>2. next' \in [Blocks -> Md \cup {END, JUNK}] BY <1>0, <1>3 DEF TypeOK
  <2>3. hpos' \in 1 .. Len(linked') /\ tpos' \in 1 .. Len(linked')
    BY <1>3, <1>4, <1>b DEF Last
  <2> QED BY <1>0, <1>3, <1>4, <2>1, <2>2, <2>3 DEF TypeOK, header
<1>6. LocalOK(p)' BY <1>0, <1>2, <1>a
  DEF LocalOK, Holds, EnqLabels, DeqLabels, PeekLabels
<1>7. /\ ~ Owns(p)' /\ ~ Shared(p)'
      /\ ~ Took(p)' /\ ~ Took(p) /\ Holds(p)'
      /\ ~ DropsHead(p)' /\ ~ DropsHead(p)
      /\ ~ DropsTail(p)' /\ ~ DropsTail(p)
  BY <1>2, <1>a DEF Owns, Shared, Took, Holds, DropsHead, DropsTail
<1>8. \A q \in Procs : q # p => SameRole(q) BY <1>1, OthersSame
<1>9. LocalsOK' BY <1>1, <1>6, LocalsSame DEF IInv
<1>10. VersionsOK' /\ Distinct'
  <2>1. m.ver <= ver[m.blk] BY <1>0, <1>f DEF Current, TypeOK, Md
  <2>2. \A i \in 1 .. Last + 1 : linked'[i].ver <= ver[linked'[i].blk]
    BY <1>0, <1>b, <1>4, <2>1 DEF VersionsOK
  <2>3. VersionsOK' BY <1>0, <1>3, <1>4, <2>2 DEF VersionsOK
  <2>4. Distinct' BY <1>0, <1>b, <1>4, <1>h DEF Distinct
  <2> QED BY <2>3, <2>4
<1>11. OwnedOK'
  <2>1. ASSUME NEW q \in Procs, Owns(q)'
        PROVE  /\ q # p /\ Owns(q) /\ new'[q] = new[q] /\ new[q] # m
               /\ pc'[q] = pc[q]
    BY <1>0, <1>1, <1>7, <1>8, <1>d, <1>e, <2>1 DEF SameRole, OthersKept, OwnedOK
  <2>2. ASSUME NEW q \in Procs, Owns(q)', pc'[q] # "fill"
        PROVE  next'[new'[q].blk] = END
    <3>1. PICK n \in Md : n = new[q] BY <1>0, <2>1, <2>2 DEF Owns, TypeOK
    <3>2. "data" \in References(n) BY <2>1, <2>2, <3>1 DEF References, DataRef
    <3>3. Current(n) BY <1>0, <3>2 DEF HeldAreCurrent
    <3>4. n # c BY <1>0, <1>b, <1>g, <2>1, <2>2, <3>1 DEF OwnedOK
    <3>5. n.blk # c.blk BY <1>c, <3>3, <3>4, CurrentUnique
    <3>6. n.blk \in Blocks /\ c.blk \in Blocks BY DEF Md
    <3>7. next[n.blk] = END BY <1>0, <2>1, <2>2, <3>1 DEF OwnedOK
    <3> QED BY <1>0, <1>3, <2>1, <2>2, <3>1, <3>5, <3>6, <3>7 DEF TypeOK
  <2>3. ASSUME NEW q \in Procs, Owns(q)', NEW i \in 1 .. Last + 1
        PROVE  linked'[i] # new'[q]
    BY <1>0, <1>b, <1>4, <2>1, <2>3 DEF OwnedOK
  <2> QED BY <1>0, <1>4, <2>1, <2>2, <2>3 DEF OwnedOK
<1>12. PlacesOK'
  <2>1. ASSUME NEW q \in Procs, q # p PROVE PlaceOK(q)'
    <3>1. PlaceOK(q) /\ SameRole(q) BY <1>0, <1>8, <2>1 DEF PlacesOK
    <3>2. pc'[q] = pc[q] /\ op'[q] = op[q] BY <1>1, <2>1 DEF OthersKept
    <3>3. \A i \in 1 .. Last : /\ i \in 1 .. Last' /\ linked'[i] = linked[i]
                               /\ i < Last => i < Last' /\ linked'[i + 1] = linked[i + 1]
      BY <1>b, <1>4
    <3> QED BY <1>3, <1>4, <1>b, <3>1, <3>2, <3>3 DEF PlaceOK, SameRole
  <2>2. PlaceOK(p)'
    <3>1. /\ Last \in 1 .. Last' /\ cur'[p] = linked'[Last] /\ Last < Last'
          /\ new'[p] = linked'[Last + 1] /\ Last <= tpos'
      BY <1>2, <1>3, <1>4, <1>b, <1>c, <1>d, <1>g
    <3> QED BY <1>2, <1>7, <1>a, <3>1 DEF PlaceOK
  <2> QED BY <2>1, <2>2 DEF PlacesOK
<1>13. OneDrops' BY <1>0, <1>7, <1>8 DEF OneDrops, SameRole
<1>14. ASSUME NEW n \in Md PROVE References(n)' = References(n)
  <2>1. /\ LinkedFrom(hpos, n)' <=> LinkedFrom(hpos, n) \/ n = m
        /\ LinkedFrom(tpos, n)' <=> LinkedFrom(tpos, n) \/ n = m
        /\ LinkedFrom(hpos + 1, n)' <=> LinkedFrom(hpos + 1, n) \/ n = m
    BY <1>3, <1>4, <1>b DEF LinkedFrom
  <2>2. \A q \in Procs :
          /\ Owns(q) /\ new[q] = n
               <=> (Owns(q)' /\ new'[q] = n) \/ (q = p /\ n = m)
          /\ Shared(q) /\ new[q] = n
               <=> (Shared(q)' /\ new'[q] = n) \/ (q = p /\ n = m)
    BY <1>2, <1>7, <1>8, <1>d, <1>e DEF SameRole
  <2>3. \A q \in Procs :
          /\ Took(q)' /\ nxt'[q] = n <=> Took(q) /\ nxt[q] = n
          /\ DropsHead(q)' /\ cur'[q] = n <=> DropsHead(q) /\ cur[q] = n
          /\ DropsTail(q)' /\ cur'[q] = n <=> DropsTail(q) /\ cur[q] = n
          /\ Holds(q)' /\ cur'[q] = n <=> Holds(q) /\ cur[q] = n
    BY <1>2, <1>7, <1>8, <1>a DEF SameRole
  <2>4. HeadRef(n)' <=> HeadRef(n) BY <2>1, <2>2, <2>3 DEF HeadRef
  <2>5. TailRef(n)' <=> TailRef(n) BY <2>1, <2>2, <2>3 DEF TailRef
  <2>6. DataRef(n)' <=> DataRef(n) BY <2>1, <2>2, <2>3 DEF DataRef
  <2>7. Holders(n)' = Holders(n) BY <2>3 DEF Holders
  <2> QED BY <2>4, <2>5, <2>6, <2>7 DEF References
<1>15. HeldAreCurrent' /\ RefsCounted' BY <1>0, <1>3, <1>14, CountSame DEF IInv
<1>16. ChainOK'
  <2>1. ASSUME NEW n \in Md, NEW i \in 1 .. Last + 1, linked'[i] = n,
               References(n)' # {}
        PROVE  next'[n.blk] = IF i = Last + 1 THEN END ELSE linked'[i + 1]
    <3>0. n.blk \in Blocks /\ c.blk \in Blocks BY DEF Md
    <3>1. CASE i = Last + 1
      <4>1. n = m /\ next[m.blk] = END
        BY <1>0, <1>4, <1>a, <1>d, <1>e, <2>1, <3>1 DEF OwnedOK
      <4> QED BY <1>0, <1>3, <1>i, <3>0, <3>1, <4>1 DEF TypeOK
    <3>2. CASE i = Last
      <4>1. n = c BY <1>b, <1>4, <1>g, <2>1, <3>2
      <4> QED BY <1>0, <1>3, <1>4, <1>b, <3>0, <3>2, <4>1 DEF TypeOK
    <3>3. CASE i \in 1 .. Last - 1
      <4>1. n = linked[i] /\ linked'[i + 1] = linked[i + 1]
        BY <1>4, <1>b, <2>1, <3>3
      <4>2. References(n) # {} BY <1>14, <2>1
      <4>3. next[n.blk] = linked[i + 1]
        BY <1>0, <1>b, <3>3, <4>1, <4>2 DEF ChainOK
      <4>4. Current(n) BY <1>0, <4>2 DEF HeldAreCurrent
      <4>5. n # c BY <1>0, <1>b, <1>g, <3>3, <4>1 DEF Distinct
      <4>6. n.blk # c.blk BY <1>c, <4>4, <4>5, CurrentUnique
      <4> QED BY <1>0, <1>3, <1>b, <3>0, <3>3, <4>1, <4>3, <4>6 DEF TypeOK
    <3> QED BY <1>b, <3>1, <3>2, <3>3
  <2>2. /\ head' = linked'[hpos'] /\ tail' = linked'[tpos']
        /\ hpos' <= tpos' + 1 /\ Last' <= tpos' + 1
    BY <1>0, <1>3, <1>4, <1>b, <1>g DEF ChainOK
  <2> QED BY <1>4, <2>1, <2>2 DEF ChainOK
<1> QED BY <1>5, <1>9, <1>10, <1>11, <1>12, <1>13, <1>15, <1>16 DEF IInv

\* Steps that touch neither the memory nor any register of the calls.
LEMMA OtherStep ==
  ASSUME IInv,
         UNCHANGED <<memory, head, tail, locals, sent, history, mark>>,
         overflowed' \in Nat, dead' \subseteq Procs
  PROVE  IInv'
<1>0. TypeOK /\ HeldAreCurrent /\ RefsCounted BY DEF IInv
<1>1. /\ ver' = ver /\ ref' = ref /\ next' = next /\ data' = data
      /\ head' = head /\ tail' = tail /\ sent' = sent /\ mark' = mark
      /\ linked' = linked /\ hpos' = hpos /\ tpos' = tpos /\ Last' = Last
      /\ op' = op /\ pc' = pc /\ new' = new /\ cur' = cur /\ nxt' = nxt
      /\ buf' = buf
  BY DEF memory, locals, history, Last
<1>2. TypeOK' BY <1>0, <1>1 DEF TypeOK
<1>3. \A q \in Procs : SameRole(q)
  BY <1>1 DEF SameRole, Owns, Shared, Took, Holds, DropsHead, DropsTail
<1>4. LocalsOK' /\ OwnedOK' /\ PlacesOK' /\ OneDrops'
  BY <1>1, <1>3 DEF IInv, LocalsOK, LocalOK, OwnedOK, PlacesOK, PlaceOK,
    OneDrops, SameRole
<1>5. VersionsOK' /\ Distinct' BY <1>1 DEF IInv, VersionsOK, Distinct
<1>6. ASSUME NEW n \in Md PROVE References(n)' = References(n)
  <2>1. /\ LinkedFrom(hpos, n)' <=> LinkedFrom(hpos, n)
        /\ LinkedFrom(tpos, n)' <=> LinkedFrom(tpos, n)
        /\ LinkedFrom(hpos + 1, n)' <=> LinkedFrom(hpos + 1, n)
    BY <1>1 DEF LinkedFrom
  <2>2. /\ HeadRef(n)' <=> HeadRef(n)
        /\ TailRef(n)' <=> TailRef(n)
        /\ DataRef(n)' <=> DataRef(n)
    BY <1>3, <2>1 DEF HeadRef, TailRef, DataRef, SameRole
  <2>3. Holders(n)' = Holders(n) BY <1>3 DEF Holders, SameRole
  <2> QED BY <2>2, <2>3 DEF References
<1>7. HeldAreCurrent' /\ RefsCounted' BY <1>0, <1>1, <1>6, CountSame
<1>8. ChainOK' BY <1>1, <1>6 DEF IInv, ChainOK
<1> QED BY <1>2, <1>4, <1>5, <1>7, <1>8 DEF IInv

(***************************************************************************)
(* The four compare-and-swaps: either branch of each.                      *)
(***************************************************************************)
LEMMA HelpStep ==
  ASSUME IInv, NEW p \in Procs, Help(p) PROVE IInv'
<1>1. CASE tail = cur[p]
  BY <1>1, TailMovesStep DEF Help
<1>2. CASE tail # cur[p]
  <2>1. UNCHANGED <<memory, header, op, new, cur, nxt, buf, sent, history, mark,
                    dead>>
    BY <1>2 DEF Help, header, history
  <2> QED BY <1>2, <2>1, TryFailsStep DEF Help
<1> QED BY <1>1, <1>2

LEMMA SwingStep ==
  ASSUME IInv, NEW p \in Procs, Swing(p) PROVE IInv'
<1>1. CASE tail = cur[p]
  BY <1>1, TailMovesStep DEF Swing
<1>2. CASE tail # cur[p]
  <2>1. UNCHANGED <<memory, header, op, new, cur, nxt, buf, sent, history, mark,
                    dead>>
    BY <1>2 DEF Swing, header, history
  <2> QED BY <1>2, <2>1, TryFailsStep DEF Swing
<1> QED BY <1>1, <1>2

LEMMA LinkStep ==
  ASSUME IInv, NEW p \in Procs, Link(p) PROVE IInv'
<1>1. CASE next[cur[p].blk] = END BY <1>1, LinkSucceedsStep
<1>2. CASE next[cur[p].blk] # END
  <2>1. UNCHANGED <<memory, header, op, new, cur, nxt, buf, sent, history, mark,
                    dead>>
    BY <1>2 DEF Link, memory, history
  <2> QED BY <1>2, <2>1, TryFailsStep DEF Link
<1> QED BY <1>1, <1>2

LEMMA TakeStep ==
  ASSUME IInv, NEW p \in Procs, Take(p) PROVE IInv'
<1>1. CASE head = cur[p] BY <1>1, TakeMovesStep
<1>2. CASE head # cur[p]
  <2>1. UNCHANGED <<memory, header, op, new, cur, nxt, buf, sent, history, mark,
                    dead>>
    BY <1>2 DEF Take, header, history
  <2> QED BY <1>2, <2>1, TryFailsStep DEF Take
<1> QED BY <1>1, <1>2
-----------------------------------------------------------------------------
(* The theorems.                                                           *)

LEMMA StepIInv ==
  ASSUME IInv, NEW p \in Procs, Step(p) PROVE IInv'
<1>1. CASE Overflow(p) BY <1>1, OverflowStep
<1>2. CASE Fill(p) BY <1>2, FillStep
<1>3. CASE Share(p) BY <1>3, ShareStep
<1>4. CASE ReadPlace(p) BY <1>4, ReadPlaceStep
<1>5. CASE DupCur(p) BY <1>5, DupCurStep
<1>6. CASE Copy(p) BY <1>6, CopyStep
<1>7. CASE Again(p) BY <1>7, AgainStep
<1>8. CASE Drop(p) BY <1>8, DropStep
<1>9. CASE Leave(p) BY <1>9, LeaveStep
<1>10. CASE Help(p) BY <1>10, HelpStep
<1>11. CASE Link(p) BY <1>11, LinkStep
<1>12. CASE Swing(p) BY <1>12, SwingStep
<1>13. CASE Take(p) BY <1>13, TakeStep
<1>14. CASE Collect(p) BY <1>14, CollectStep
<1>15. CASE Free(p) BY <1>15, FreeStep
<1> QED BY <1>1, <1>2, <1>3, <1>4, <1>5, <1>6, <1>7, <1>8, <1>9, <1>10, <1>11,
           <1>12, <1>13, <1>14, <1>15 DEF Step

LEMMA NextIInv == IInv /\ [Next]_vars => IInv'
<1> SUFFICES ASSUME IInv, [Next]_vars PROVE IInv' OBVIOUS
<1>0. overflowed \in Nat /\ dead \subseteq Procs BY DEF IInv, TypeOK
<1>1. ASSUME NEW p \in Procs \ dead,
             Step(p) \/ Begins(p) \/ ResetOverflowed(p) \/ Crash(p)
      PROVE  IInv'
  <2>1. CASE Step(p) BY <2>1, StepIInv
  <2>2. CASE Begins(p)
    BY <2>2, AllocateStep, AllocateFailsStep, BeginReadStep DEF Begins
  <2>3. CASE ResetOverflowed(p)
    BY <1>0, <2>3, OtherStep DEF ResetOverflowed
  <2>4. CASE Crash(p)
    <3>1. UNCHANGED <<memory, head, tail, locals, sent, history, mark>>
          /\ overflowed' \in Nat /\ dead' \subseteq Procs
      BY <1>0, <2>4 DEF Crash, header
    <3> QED BY <3>1, OtherStep
  <2> QED BY <1>1, <2>1, <2>2, <2>3, <2>4
<1>2. CASE UNCHANGED vars
  <2>1. UNCHANGED <<memory, head, tail, locals, sent, history, mark>>
        /\ overflowed' \in Nat /\ dead' \subseteq Procs
    BY <1>0, <1>2 DEF vars, header
  <2> QED BY <2>1, OtherStep
<1> QED BY <1>1, <1>2 DEF Next

(***************************************************************************)
(* IInv holds in every state of QueueImpl that the processes can reach,    *)
(* however many they are and whoever of them is killed.                    *)
(***************************************************************************)
THEOREM IInvHolds == Spec => []IInv
<1> QED BY InitIInv, NextIInv, PTL DEF Spec

(***************************************************************************)
(* Every word of the shared memory and every register of a call of         *)
(* QueueImpl always has a value of its type.                               *)
(***************************************************************************)
THEOREM TypeOKHolds == Spec => []TypeOK
<1>1. IInv => TypeOK BY DEF IInv
<1> QED BY <1>1, IInvHolds, PTL

(***************************************************************************)
(* The reference count of a block is the number of its references, so that *)
(* enqImpl, deqImpl and tryMoveNext neither free a node too early nor too  *)
(* late, whatever the interleaving.                                        *)
(***************************************************************************)
THEOREM RefsCountedHolds == Spec => []RefsCounted
<1>1. IInv => RefsCounted BY DEF IInv
<1> QED BY <1>1, IInvHolds, PTL

(***************************************************************************)
(* No process releases, reads or writes through a descriptor of a block    *)
(* that was reused: the assertion of VariableAllocator::undup cannot fail  *)
(* in a call of the queue.                                                 *)
(***************************************************************************)
THEOREM HeldAreCurrentHolds == Spec => []HeldAreCurrent
<1>1. IInv => HeldAreCurrent BY DEF IInv
<1> QED BY <1>1, IInvHolds, PTL

(***************************************************************************)
(* The next words lead from the head to the last node along the nodes in   *)
(* the order they were enqueued, and the tail lags by one node at most.    *)
(***************************************************************************)
THEOREM ChainOKHolds == Spec => []ChainOK
<1>1. IInv => ChainOK BY DEF IInv
<1> QED BY <1>1, IInvHolds, PTL
=============================================================================
