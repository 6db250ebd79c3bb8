------------------------------ MODULE FifoProofs ------------------------------
(***************************************************************************)
(* The message queue is a FIFO, for every number of processes, blocks,     *)
(* enqueues and kills: Imque implements FifoQueue.  And it leaks two       *)
(* blocks at most for each process that was killed.                        *)
(***************************************************************************)
EXTENDS ImqueProofs, SequenceTheorems

(***************************************************************************)
(* What the invariant of ImqueProofs does not say: a node that is not      *)
(* linked yet contains its message, and isEmpty looks at no node that was  *)
(* passed by the head before it was called.                                *)
(***************************************************************************)
FilledOK == \A p \in Procs : Owns(p) /\ pc[p] # "fill" => data[new[p].blk] = buf[p]

MarkOK(p) ==
  op[p] = "peek" =>
    /\ mark[p] < hpos
    /\ pc[p] \in {"dup", "copy"} =>
         \E i \in 1 .. Last : i > mark[p] /\ cur[p] = linked[i]

RInv == /\ IInv
        /\ FilledOK
        /\ \A p \in Procs : MarkOK(p)
-----------------------------------------------------------------------------
(* The messages that wait, as a sequence.                                  *)

LEMMA PlaceFacts ==
  ASSUME IInv
  PROVE  /\ Last \in Nat \ {0} /\ hpos \in 1 .. Last /\ tpos \in 1 .. Last
         /\ \A i \in 1 .. Last : linked[i] \in Md
         /\ \A i \in 1 .. Last : linked[i].blk \in Blocks
<1>1. linked \in Seq(Md) /\ hpos \in 1 .. Len(linked) /\ tpos \in 1 .. Len(linked)
  BY DEF IInv, TypeOK
<1>2. Len(linked) \in Nat /\ \A i \in 1 .. Len(linked) : linked[i] \in Md
  BY <1>1, LenProperties, ElementOfSeq
<1> QED BY <1>1, <1>2 DEF Last, Md

LEMMA SameLength ==
  ASSUME NEW n \in Nat, NEW m \in Nat, 1 .. n = 1 .. m
  PROVE  n = m
<1>1. n # 0 => n \in 1 .. m OBVIOUS
<1>2. m # 0 => m \in 1 .. n OBVIOUS
<1> QED BY <1>1, <1>2

LEMMA WaitingFacts ==
  ASSUME IInv
  PROVE  /\ Waiting \in Seq(0 .. MaxEnq)
         /\ Len(Waiting) = Last - hpos
         /\ \A i \in 1 .. Last - hpos : Waiting[i] = data[linked[hpos + i].blk]
<1> DEFINE n == Last - hpos
<1>1. n \in Nat BY PlaceFacts
<1>2. \A i \in 1 .. n : data[linked[hpos + i].blk] \in 0 .. MaxEnq
  <2> SUFFICES ASSUME NEW i \in 1 .. n PROVE data[linked[hpos + i].blk] \in 0 .. MaxEnq
    OBVIOUS
  <2>1. hpos + i \in 1 .. Last BY PlaceFacts
  <2>2. linked[hpos + i].blk \in Blocks BY <2>1, PlaceFacts
  <2> QED BY <2>2 DEF IInv, TypeOK
<1>3. Waiting = [i \in 1 .. n |-> data[linked[hpos + i].blk]] BY DEF Waiting
<1> HIDE DEF n
<1>4. Waiting \in [1 .. n -> 0 .. MaxEnq] BY <1>2, <1>3
<1>5. Waiting \in Seq(0 .. MaxEnq) BY <1>1, <1>4, SeqDef
<1>6. Len(Waiting) = n
  <2>1. DOMAIN Waiting = 1 .. Len(Waiting) /\ Len(Waiting) \in Nat BY <1>5, LenProperties
  <2>2. 1 .. n = 1 .. Len(Waiting) BY <1>4, <2>1
  <2> QED BY <1>1, <2>1, <2>2, SameLength, Zenon
<1> QED BY <1>3, <1>5, <1>6 DEF n

WaitingOK == /\ Waiting \in Seq(0 .. MaxEnq)
             /\ Len(Waiting) = Last - hpos
             /\ \A i \in 1 .. Last - hpos : Waiting[i] = data[linked[hpos + i].blk]

LEMMA WaitingIsOK == IInv => WaitingOK
BY WaitingFacts DEF WaitingOK

LEMMA WaitingFactsNext ==
  ASSUME IInv'
  PROVE  /\ Waiting' \in Seq(0 .. MaxEnq)
         /\ Len(Waiting') = Last' - hpos'
         /\ \A i \in 1 .. Last' - hpos' : Waiting'[i] = data'[linked'[hpos' + i].blk]
<1>1. WaitingOK' BY WaitingIsOK, PTL
<1> QED BY <1>1 DEF WaitingOK

\* Messages are waited for by one block each: what is written into another
\* block, or into one nobody has a reference to, changes none of them.
LEMMA WaitingIsReferenced ==
  ASSUME IInv, NEW i \in hpos + 1 .. Last
  PROVE  References(linked[i]) # {}
<1>1. LinkedFrom(hpos + 1, linked[i]) BY DEF LinkedFrom
<1> QED BY <1>1 DEF References, DataRef
-----------------------------------------------------------------------------
(* What a step of p leaves alone.                                          *)

Acts(p) == Step(p) \/ Begins(p)

LEMMA OthersKeptByStep ==
  ASSUME TypeOK, NEW p \in Procs, Acts(p)
  PROVE  /\ OthersKept(p)
         /\ \A q \in Procs : q # p => buf'[q] = buf[q] /\ mark'[q] = mark[q]
         /\ dead' = dead
<1>1. CASE Overflow(p) BY <1>1 DEF Overflow, Finish, GoTo, OthersKept, TypeOK
<1>2. CASE Fill(p) BY <1>2 DEF Fill, GoTo, OthersKept, TypeOK
<1>3. CASE Share(p) BY <1>3 DEF Share, GoTo, OthersKept, TypeOK
<1>4. CASE ReadPlace(p) BY <1>4 DEF ReadPlace, GoTo, OthersKept, TypeOK
<1>5. CASE DupCur(p) BY <1>5 DEF DupCur, GoTo, OthersKept, TypeOK
<1>6. CASE Copy(p) BY <1>6 DEF Copy, GoTo, OthersKept, TypeOK
<1>7. CASE Again(p) BY <1>7 DEF Again, GoTo, OthersKept, TypeOK
<1>8. CASE Drop(p) BY <1>8 DEF Drop, GoTo, OthersKept, TypeOK
<1>9. CASE Leave(p) BY <1>9 DEF Leave, Finish, GoTo, OthersKept, TypeOK
<1>10. CASE Help(p) BY <1>10 DEF Help, GoTo, OthersKept, TypeOK
<1>11. CASE Link(p) BY <1>11 DEF Link, GoTo, OthersKept, TypeOK
<1>12. CASE Swing(p) BY <1>12 DEF Swing, GoTo, OthersKept, TypeOK
<1>13. CASE Take(p) BY <1>13 DEF Take, GoTo, OthersKept, TypeOK
<1>14. CASE Collect(p) BY <1>14 DEF Collect, GoTo, OthersKept, TypeOK
<1>15. CASE Free(p) BY <1>15 DEF Free, Finish, GoTo, OthersKept, TypeOK
<1>16. CASE Allocate(p) BY <1>16 DEF Allocate, Begin, GoTo, OthersKept, TypeOK
<1>17. CASE AllocateFails(p) BY <1>17 DEF AllocateFails, Begin, GoTo, OthersKept, TypeOK
<1>18. CASE BeginRead(p) BY <1>18 DEF BeginRead, Begin, GoTo, OthersKept, TypeOK
<1> QED
  BY <1>1, <1>2, <1>3, <1>4, <1>5, <1>6, <1>7, <1>8, <1>9, <1>10, <1>11, <1>12, <1>13,
     <1>14, <1>15, <1>16, <1>17, <1>18 DEF Acts, Step, Begins

\* What is written into a new node is written over nothing else.
LEMMA FillKeeps ==
  ASSUME IInv, NEW p \in Procs, Fill(p), NEW m \in Md, References(m) # {}, m # new[p]
  PROVE  data'[m.blk] = data[m.blk]
<1>1. Owns(p) /\ new[p] \in Md
  BY DEF Fill, IInv, LocalsOK, LocalOK, Owns, TypeOK, EnqLabels, DeqLabels, PeekLabels
<1>2. References(new[p]) # {} BY <1>1 DEF References, DataRef
<1>3. Current(m) /\ Current(new[p]) BY <1>1, <1>2 DEF IInv, HeldAreCurrent
<1>4. m.blk # new[p].blk BY <1>1, <1>3, CurrentUnique
<1> QED BY <1>1, <1>4 DEF Fill, IInv, TypeOK, Md

\* Only Fill writes messages, and its node is nobody else's.
LEMMA MessagesKept ==
  ASSUME IInv, NEW p \in Procs, Acts(p)
  PROVE  /\ \A i \in hpos + 1 .. Last : data'[linked[i].blk] = data[linked[i].blk]
         /\ \A q \in Procs : Took(q) => data'[nxt[q].blk] = data[nxt[q].blk]
         /\ \A q \in Procs : q # p /\ Owns(q) => data'[new[q].blk] = data[new[q].blk]
         /\ ~ Fill(p) => data' = data
<1>1. ~ Fill(p) => data' = data
  BY DEF Acts, Step, Begins, Overflow, Share, ReadPlace, DupCur, Copy, Again, Drop, Leave, Help,
         Link, Swing, Take, Collect, Free, Allocate, AllocateFails, BeginRead, Release,
         memory
<1>2. CASE Fill(p)
  <2>1. Owns(p) /\ new[p] \in Md
    BY <1>2 DEF Fill, IInv, LocalsOK, LocalOK, Owns, TypeOK, EnqLabels, DeqLabels, PeekLabels
  <2>2. ASSUME NEW i \in hpos + 1 .. Last
        PROVE  data'[linked[i].blk] = data[linked[i].blk]
    <3>1. i \in 1 .. Last /\ linked[i] \in Md BY PlaceFacts
    <3>2. linked[i] # new[p] BY <2>1, <3>1 DEF IInv, OwnedOK
    <3> QED BY <1>2, <3>1, <3>2, WaitingIsReferenced, FillKeeps
  <2>3. ASSUME NEW q \in Procs, Took(q) PROVE data'[nxt[q].blk] = data[nxt[q].blk]
    <3>1. nxt[q] \in Md BY <2>3 DEF Took, IInv, TypeOK
    <3>2. References(nxt[q]) # {} BY <2>3 DEF References, DataRef
    <3>3. PICK i \in 2 .. hpos : i <= Last /\ nxt[q] = linked[i]
      BY <2>3 DEF IInv, PlacesOK, PlaceOK
    <3>4. nxt[q] # new[p] BY <2>1, <3>3, PlaceFacts DEF IInv, OwnedOK
    <3> QED BY <1>2, <3>1, <3>2, <3>4, FillKeeps
  <2>4. ASSUME NEW q \in Procs, q # p, Owns(q) PROVE data'[new[q].blk] = data[new[q].blk]
    <3>1. new[q] \in Md BY <2>4 DEF Owns, IInv, TypeOK
    <3>2. References(new[q]) # {} BY <2>4 DEF References, DataRef
    <3>3. new[q] # new[p] BY <2>1, <2>4 DEF IInv, OwnedOK
    <3> QED BY <1>2, <3>1, <3>2, <3>3, FillKeeps
  <2> QED BY <1>2, <2>2, <2>3, <2>4
<1> QED BY <1>1, <1>2
-----------------------------------------------------------------------------
(* The invariant.                                                          *)

\* The list only grows, and the head only moves on.
LEMMA ListGrows ==
  ASSUME IInv, NEW p \in Procs, Acts(p)
  PROVE  /\ Last' \in Nat /\ Last' >= Last /\ hpos' >= hpos /\ hpos' \in Nat
         /\ \A i \in 1 .. Last : linked'[i] = linked[i]
<1>0. linked \in Seq(Md) /\ Last = Len(linked) /\ Last \in Nat /\ hpos \in Nat
  BY PlaceFacts DEF IInv, TypeOK, Last
<1>1. CASE Link(p) /\ linked' = Append(linked, new[p])
  <2>1. new[p] \in Md
    BY <1>1 DEF Link, IInv, LocalsOK, LocalOK, TypeOK, DeqLabels, PeekLabels
  <2>2. /\ Len(linked') = Len(linked) + 1
        /\ \A i \in 1 .. Len(linked) : linked'[i] = linked[i]
    BY <1>0, <1>1, <2>1, AppendProperties
  <2>3. hpos' = hpos BY <1>1 DEF Link
  <2> QED BY <1>0, <2>2, <2>3 DEF Last
<1>2. CASE linked' = linked /\ hpos' \in {hpos, hpos + 1}
  BY <1>0, <1>2 DEF Last
<1>3. (Link(p) /\ linked' = Append(linked, new[p])) \/ (linked' = linked /\ hpos' \in {hpos, hpos + 1})
  BY DEF Acts, Step, Begins, Overflow, Fill, Share, ReadPlace, DupCur, Copy, Again, Drop,
         Leave, Help, Link, Swing, Take, Collect, Free, Allocate, AllocateFails, BeginRead,
         history
<1> QED BY <1>1, <1>2, <1>3

LEMMA FilledStep ==
  ASSUME RInv, NEW p \in Procs, Acts(p)
  PROVE  FilledOK'
<1>0. IInv /\ TypeOK /\ FilledOK BY DEF RInv, IInv
<1>1. ASSUME NEW q \in Procs, q # p, Owns(q)', pc'[q] # "fill"
      PROVE  data'[new'[q].blk] = buf'[q]
  <2>1. /\ pc'[q] = pc[q] /\ new'[q] = new[q] /\ buf'[q] = buf[q] /\ Owns(q)
    BY <1>0, <1>1, OthersKeptByStep DEF OthersKept, Owns
  <2>2. data'[new[q].blk] = data[new[q].blk] BY <1>0, <1>1, <2>1, MessagesKept
  <2> QED BY <1>0, <1>1, <2>1, <2>2 DEF FilledOK
<1>2. ASSUME Owns(p)', pc'[p] # "fill"
      PROVE  data'[new'[p].blk] = buf'[p]
  <2>1. CASE Fill(p)
    <3>1. new[p] \in Md
      BY <1>0, <2>1
         DEF Fill, IInv, LocalsOK, LocalOK, TypeOK, EnqLabels, DeqLabels, PeekLabels
    <3> QED BY <1>0, <2>1, <3>1 DEF Fill, TypeOK, Md
  <2>2. CASE ~ Fill(p)
    <3>1. Owns(p) /\ pc[p] # "fill" /\ new'[p] = new[p] /\ buf'[p] = buf[p]
      <4>1. CASE Overflow(p) BY <1>0, <1>2, <4>1 DEF Overflow, Finish, GoTo, Owns, TypeOK
      <4>2. CASE Share(p) BY <1>0, <1>2, <4>2 DEF Share, GoTo, Owns, TypeOK
      <4>3. CASE ReadPlace(p) BY <1>0, <1>2, <4>3 DEF ReadPlace, GoTo, Owns, TypeOK
      <4>4. CASE DupCur(p) BY <1>0, <1>2, <4>4 DEF DupCur, GoTo, Owns, TypeOK
      <4>5. CASE Copy(p) BY <1>0, <1>2, <4>5 DEF Copy, GoTo, Owns, TypeOK
      <4>6. CASE Again(p) BY <1>0, <1>2, <4>6 DEF Again, GoTo, Owns, TypeOK
      <4>7. CASE Drop(p) BY <1>0, <1>2, <4>7 DEF Drop, GoTo, Owns, TypeOK
      <4>8. CASE Leave(p) BY <1>0, <1>2, <4>8 DEF Leave, Finish, GoTo, Owns, TypeOK
      <4>9. CASE Help(p) BY <1>0, <1>2, <4>9 DEF Help, GoTo, Owns, TypeOK
      <4>10. CASE Link(p) BY <1>0, <1>2, <4>10 DEF Link, GoTo, Owns, TypeOK
      <4>11. CASE Swing(p) BY <1>0, <1>2, <4>11 DEF Swing, GoTo, Owns, TypeOK
      <4>12. CASE Take(p) BY <1>0, <1>2, <4>12 DEF Take, GoTo, Owns, TypeOK
      <4>13. CASE Collect(p)
        BY <1>0, <1>2, <4>13 DEF Collect, GoTo, Owns, TypeOK, IInv, LocalsOK, LocalOK, EnqLabels
      <4>14. CASE Free(p) BY <1>0, <1>2, <4>14 DEF Free, Finish, GoTo, Owns, TypeOK
      <4>15. CASE Allocate(p) BY <1>0, <1>2, <4>15 DEF Allocate, Begin, GoTo, Owns, TypeOK
      <4>16. CASE AllocateFails(p)
        BY <1>0, <1>2, <4>16, WordsAssumption
           DEF AllocateFails, Begin, GoTo, Owns, TypeOK, IInv, LocalsOK, LocalOK
      <4>17. CASE BeginRead(p) BY <1>0, <1>2, <4>17 DEF BeginRead, Begin, GoTo, Owns, TypeOK
      <4> QED
        BY <2>2, <4>1, <4>2, <4>3, <4>4, <4>5, <4>6, <4>7, <4>8, <4>9, <4>10, <4>11, <4>12,
           <4>13, <4>14, <4>15, <4>16, <4>17 DEF Acts, Step, Begins
    <3>2. data' = data BY <1>0, <2>2, MessagesKept
    <3> QED BY <1>0, <3>1, <3>2 DEF FilledOK
  <2> QED BY <2>1, <2>2
<1> QED BY <1>1, <1>2 DEF FilledOK

LEMMA MarkKept ==
  ASSUME NEW q \in Procs, MarkOK(q), mark[q] \in Nat,
         Last \in Nat, hpos \in Nat, hpos' \in Nat, hpos' >= hpos,
         \A i \in 1 .. Last : i \in 1 .. Last' /\ linked'[i] = linked[i],
         op'[q] = op[q], mark'[q] = mark[q],
         pc'[q] \in {"dup", "copy"} => \/ pc[q] \in {"dup", "copy"} /\ cur'[q] = cur[q]
                                       \/ /\ op[q] = "peek" => cur'[q] = linked[hpos]
                                          /\ hpos \in 1 .. Last
  PROVE  MarkOK(q)'
<1> SUFFICES ASSUME op[q] = "peek" PROVE MarkOK(q)' BY DEF MarkOK
<1>1. mark'[q] < hpos' BY DEF MarkOK
<1>2. ASSUME pc'[q] \in {"dup", "copy"}
      PROVE  \E i \in 1 .. Last' : i > mark'[q] /\ cur'[q] = linked'[i]
  <2>1. PICK i \in 1 .. Last : i > mark[q] /\ cur'[q] = linked[i]
    <3>1. CASE pc[q] \in {"dup", "copy"} /\ cur'[q] = cur[q] BY <3>1 DEF MarkOK
    <3>2. CASE cur'[q] = linked[hpos] /\ hpos \in 1 .. Last BY <3>2 DEF MarkOK
    <3> QED BY <1>2, <3>1, <3>2
  <2>2. i \in 1 .. Last' /\ i > mark'[q] /\ cur'[q] = linked'[i] BY <2>1
  <2> QED BY <2>2
<1> QED BY <1>1, <1>2 DEF MarkOK

\* isEmpty reads the head when it is called and later, never an older one.
LEMMA MarkStep ==
  ASSUME RInv, NEW p \in Procs, Acts(p)
  PROVE  \A q \in Procs : MarkOK(q)'
<1>0. IInv /\ TypeOK /\ \A q \in Procs : MarkOK(q) BY DEF RInv, IInv
<1>1. /\ Last \in Nat /\ hpos \in 1 .. Last /\ linked[hpos] = head
      /\ Last' \in Nat /\ Last' >= Last /\ hpos' >= hpos /\ hpos' \in Nat
      /\ \A i \in 1 .. Last : i \in 1 .. Last' /\ linked'[i] = linked[i]
      /\ \A q \in Procs : mark[q] \in Nat
  <2>1. /\ Last \in Nat /\ hpos \in 1 .. Last /\ linked[hpos] = head
        /\ \A q \in Procs : mark[q] \in Nat
    BY <1>0, PlaceFacts DEF IInv, ChainOK, TypeOK
  <2> QED BY <1>0, <2>1, ListGrows
<1>2. ASSUME NEW q \in Procs, q # p PROVE MarkOK(q)'
  <2>1. /\ pc'[q] = pc[q] /\ op'[q] = op[q] /\ cur'[q] = cur[q] /\ mark'[q] = mark[q]
    BY <1>0, <1>2, OthersKeptByStep DEF OthersKept
  <2> QED BY <1>0, <1>1, <2>1, MarkKept
<1>3. MarkOK(p)'
  <2>1. CASE BeginRead(p)
    <3>1. cur'[p] = linked[hpos] /\ mark'[p] = hpos - 1
      BY <1>0, <1>1, <2>1 DEF BeginRead, TypeOK
    <3> QED BY <1>1, <3>1 DEF MarkOK
  <2>2. CASE ReadPlace(p)
    <3>1. op'[p] = op[p] /\ mark'[p] = mark[p] /\ (op[p] = "peek" => cur'[p] = linked[hpos])
      BY <1>0, <1>1, <2>2 DEF ReadPlace, Place, TypeOK
    <3> QED BY <1>0, <1>1, <3>1, MarkKept
  <2>3. CASE DupCur(p)
    <3>1. /\ op'[p] = op[p] /\ mark'[p] = mark[p] /\ pc[p] = "dup"
          /\ (pc'[p] = "copy" /\ cur'[p] = cur[p]) \/ pc'[p] = "read"
      BY <1>0, <2>3 DEF DupCur, GoTo, TypeOK
    <3> QED BY <1>0, <1>1, <3>1, MarkKept
  <2>4. CASE ~ BeginRead(p) /\ ~ ReadPlace(p) /\ ~ DupCur(p)
    <3>1. op'[p] # "peek" \/ (op[p] = "peek" /\ mark'[p] = mark[p] /\ pc'[p] \notin {"dup", "copy"})
      <4>1. CASE Overflow(p) BY <1>0, <4>1 DEF Overflow, Finish, TypeOK
      <4>2. CASE Fill(p) BY <1>0, <4>2 DEF Fill, GoTo, TypeOK
      <4>3. CASE Share(p) BY <1>0, <4>3 DEF Share, GoTo, TypeOK
      <4>4. CASE Copy(p) BY <1>0, <4>4 DEF Copy, GoTo, AfterCopy, TypeOK
      <4>5. CASE Again(p) BY <1>0, <4>5 DEF Again, GoTo, TypeOK
      <4>6. CASE Drop(p) BY <1>0, <4>6 DEF Drop, GoTo, TypeOK
      <4>7. CASE Leave(p) BY <1>0, <4>7 DEF Leave, Finish, GoTo, TypeOK
      <4>8. CASE Help(p) BY <1>0, <4>8 DEF Help, GoTo, TypeOK
      <4>9. CASE Link(p) BY <1>0, <4>9 DEF Link, GoTo, TypeOK
      <4>10. CASE Swing(p) BY <1>0, <4>10 DEF Swing, GoTo, TypeOK
      <4>11. CASE Take(p) BY <1>0, <4>11 DEF Take, GoTo, TypeOK
      <4>12. CASE Collect(p) BY <1>0, <4>12 DEF Collect, GoTo, TypeOK
      <4>13. CASE Free(p) BY <1>0, <4>13 DEF Free, Finish, TypeOK
      <4>14. CASE Allocate(p) BY <1>0, <4>14 DEF Allocate, Begin, TypeOK
      <4>15. CASE AllocateFails(p) BY <1>0, <4>15 DEF AllocateFails, Begin, TypeOK
      <4> QED
        BY <2>4, <4>1, <4>2, <4>3, <4>4, <4>5, <4>6, <4>7, <4>8, <4>9, <4>10, <4>11, <4>12,
           <4>13, <4>14, <4>15 DEF Acts, Step, Begins
    <3> QED BY <1>0, <1>1, <3>1 DEF MarkOK
  <2> QED BY <2>1, <2>2, <2>3, <2>4
<1> QED BY <1>2, <1>3
-----------------------------------------------------------------------------
(* The steps, as steps of the FIFO.                                        *)

\* What p has not asked and been told stays, and so do the messages that wait.
LEMMA Mapped ==
  ASSUME IInv, NEW p \in Procs, Acts(p)
  PROVE  /\ CallOfEach' = [CallOfEach EXCEPT ![p] = Call(p)']
         /\ CallOfEach[p] = Call(p)
         /\ UNCHANGED <<linked, hpos>> => Waiting' = Waiting
         /\ dead' = dead
<1>0. TypeOK BY DEF IInv
<1>1. ASSUME NEW q \in Procs, q # p PROVE Call(q)' = Call(q)
  <2>1. /\ pc'[q] = pc[q] /\ op'[q] = op[q] /\ new'[q] = new[q] /\ nxt'[q] = nxt[q]
        /\ buf'[q] = buf[q] /\ mark'[q] = mark[q]
    BY <1>0, <1>1, OthersKeptByStep DEF OthersKept
  <2>2. (Owns(q)' <=> Owns(q)) /\ (Took(q)' <=> Took(q)) BY <2>1 DEF Owns, Took
  <2>3. Took(q) => data'[nxt'[q].blk] = data[nxt[q].blk] BY <2>1, MessagesKept
  <2> QED BY <2>1, <2>2, <2>3 DEF Call
<1>2. CallOfEach' = [CallOfEach EXCEPT ![p] = Call(p)'] BY <1>1 DEF CallOfEach
<1>3. ASSUME UNCHANGED <<linked, hpos>> PROVE Waiting' = Waiting
  <2>1. \A i \in 1 .. Last - hpos : hpos + i \in hpos + 1 .. Last BY PlaceFacts
  <2>2. \A i \in 1 .. Last - hpos :
          data'[linked[hpos + i].blk] = data[linked[hpos + i].blk]
    BY <2>1, MessagesKept
  <2> QED BY <1>3, <2>2 DEF Waiting, Last
<1> QED BY <1>0, <1>2, <1>3, OthersKeptByStep DEF CallOfEach

LEMMA Stutters ==
  ASSUME IInv, NEW p \in Procs, Acts(p), Call(p)' = Call(p),
         UNCHANGED <<linked, hpos, overflowed, sent>>
  PROVE  UNCHANGED Fifo!fifoVars
<1>1. CallOfEach' = CallOfEach BY Mapped DEF CallOfEach
<1>2. Waiting' = Waiting /\ dead' = dead BY Mapped
<1> QED BY <1>1, <1>2 DEF Fifo!fifoVars

\* The steps within a call that nobody outside can notice.
Quiet(p) == \/ Fill(p) \/ Share(p) \/ ReadPlace(p) \/ DupCur(p) \/ Again(p)
            \/ Drop(p) \/ Help(p) \/ Swing(p) \/ Collect(p)
            \/ Leave(p) /\ pc'[p] = "collect"
            \/ Copy(p) /\ pc'[p] # "leave"
            \/ Link(p) /\ pc'[p] = "again"
            \/ Take(p) /\ pc'[p] = "again"

LEMMA QuietMaps ==
  ASSUME IInv, NEW p \in Procs, Quiet(p)
  PROVE  UNCHANGED Fifo!fifoVars
<1>0. TypeOK /\ LocalOK(p) BY DEF IInv, LocalsOK
<1>1. Acts(p) BY DEF Quiet, Acts, Step
<1>2. Call(p)' = Call(p) /\ UNCHANGED <<linked, hpos, overflowed, sent>>
  <2>1. CASE Fill(p)
    BY <1>0, <2>1 DEF Fill, GoTo, header, history, Call, Owns, Took, LocalOK, TypeOK, DeqLabels, PeekLabels
  <2>2. CASE Share(p)
    BY <1>0, <2>2 DEF Share, GoTo, header, history, Call, Owns, Took, LocalOK, TypeOK, DeqLabels, PeekLabels
  <2>3. CASE ReadPlace(p)
    BY <1>0, <2>3 DEF ReadPlace, GoTo, header, memory, history, Call, Owns, Took, LocalOK, TypeOK
  <2>4. CASE DupCur(p)
    BY <1>0, <2>4 DEF DupCur, GoTo, header, history, Call, Owns, Took, LocalOK, TypeOK
  <2>5. CASE Again(p)
    BY <1>0, <2>5 DEF Again, Release, GoTo, header, history, Call, Owns, Took, LocalOK, TypeOK, PeekLabels
  <2>6. CASE Drop(p)
    BY <1>0, <2>6 DEF Drop, Release, GoTo, header, history, Call, Owns, Took, LocalOK, TypeOK, DeqLabels, PeekLabels
  <2>7. CASE Help(p)
    BY <1>0, <2>7 DEF Help, GoTo, memory, Call, Owns, Took, LocalOK, TypeOK, DeqLabels, PeekLabels
  <2>8. CASE Swing(p)
    BY <1>0, <2>8 DEF Swing, GoTo, memory, Call, Owns, Took, LocalOK, TypeOK, DeqLabels, PeekLabels
  <2>9. CASE Collect(p)
    BY <1>0, <2>9 DEF Collect, GoTo, memory, header, history, Call, Owns, Took, LocalOK, TypeOK, EnqLabels, PeekLabels
  <2>10. CASE Leave(p) /\ pc'[p] = "collect"
    BY <1>0, <2>10 DEF Leave, Finish, Release, GoTo, header, history, Call, Owns, Took, LocalOK, TypeOK
  <2>11. CASE Copy(p) /\ pc'[p] # "leave"
    BY <1>0, <2>11 DEF Copy, AfterCopy, GoTo, memory, header, history, Call, Owns, Took, LocalOK, TypeOK
  <2>12. CASE Link(p) /\ pc'[p] = "again"
    BY <1>0, <2>12 DEF Link, GoTo, header, Call, Owns, Took, LocalOK, TypeOK, DeqLabels, PeekLabels
  <2>13. CASE Take(p) /\ pc'[p] = "again"
    BY <1>0, <2>13 DEF Take, GoTo, memory, Call, Owns, Took, LocalOK, TypeOK, EnqLabels, PeekLabels
  <2> QED BY <2>1, <2>2, <2>3, <2>4, <2>5, <2>6, <2>7, <2>8, <2>9, <2>10, <2>11, <2>12, <2>13 DEF Quiet
<1> QED BY <1>0, <1>1, <1>2, Stutters

LEMMA AllocateMaps ==
  ASSUME IInv, IInv', NEW p \in Procs, Allocate(p) \/ AllocateFails(p)
  PROVE  Fifo!CallEnq(p)
<1>0. TypeOK /\ LocalOK(p) /\ LocalOK(p)' BY DEF IInv, LocalsOK
<1>1. /\ Acts(p) /\ op[p] = "none" /\ op'[p] = "enq" /\ pc'[p] \in {"fill", "overflow"}
      /\ pc'[p] = "fill" => new'[p] # END
      /\ buf'[p] = sent + 1 /\ sent' = sent + 1 /\ sent < MaxEnq
      /\ UNCHANGED <<linked, hpos, overflowed>>
  BY <1>0
     DEF Allocate, AllocateFails, Begin, GoTo, Acts, Begins, LocalOK, TypeOK, header, history
<1>2. Call(p) = [kind |-> "idle"] BY <1>1 DEF Call
<1>3. Call(p)' = [kind |-> "enq", msg |-> sent + 1] BY <1>1 DEF Call, Owns
<1>4. Waiting' = Waiting /\ dead' = dead BY <1>1, Mapped
<1>5. /\ CallOfEach' = [CallOfEach EXCEPT ![p] = [kind |-> "enq", msg |-> sent + 1]]
      /\ CallOfEach[p] = [kind |-> "idle"]
  BY <1>1, <1>2, <1>3, Mapped
<1> QED BY <1>1, <1>4, <1>5 DEF Fifo!CallEnq, Fifo!Becomes, Fifo!IDLE

LEMMA OverflowMaps ==
  ASSUME IInv, NEW p \in Procs, Overflow(p)
  PROVE  Fifo!RefuseEnq(p)
<1>0. TypeOK /\ LocalOK(p) BY DEF IInv, LocalsOK
<1>1. /\ Acts(p) /\ op[p] = "enq" /\ pc[p] = "overflow" /\ op'[p] = "none"
      /\ overflowed' = overflowed + 1 /\ UNCHANGED <<linked, hpos, sent>>
  BY <1>0 DEF Overflow, Finish, Acts, Step, LocalOK, TypeOK, DeqLabels, PeekLabels, history
<1>2. Call(p) = [kind |-> "enq", msg |-> buf[p]] BY <1>1 DEF Call
<1>3. Call(p)' = [kind |-> "idle"] BY <1>1 DEF Call
<1>4. Waiting' = Waiting /\ dead' = dead BY <1>1, Mapped
<1>5. /\ CallOfEach' = [CallOfEach EXCEPT ![p] = [kind |-> "idle"]]
      /\ CallOfEach[p].kind = "enq"
  BY <1>1, <1>2, <1>3, Mapped
<1> QED BY <1>1, <1>4, <1>5 DEF Fifo!RefuseEnq, Fifo!Becomes, Fifo!IDLE

LEMMA BeginReadMaps ==
  ASSUME IInv, NEW p \in Procs, BeginRead(p)
  PROVE  Fifo!CallDeq(p) \/ Fifo!CallPeek(p)
<1>0. TypeOK /\ LocalOK(p) BY DEF IInv, LocalsOK
<1>1. /\ Acts(p) /\ op[p] = "none" /\ op'[p] \in {"deq", "peek"} /\ pc'[p] = "dup"
      /\ mark'[p] = hpos - 1 /\ UNCHANGED <<linked, hpos, sent, overflowed>>
  BY <1>0 DEF BeginRead, Begin, GoTo, Acts, Begins, LocalOK, TypeOK, history, header
<1>2. Call(p) = [kind |-> "idle"] BY <1>1 DEF Call
<1>4. Waiting' = Waiting /\ dead' = dead BY <1>1, Mapped
<1>5. CASE op'[p] = "deq"
  <2>1. Call(p)' = [kind |-> "deq"] BY <1>1, <1>5 DEF Call, Took
  <2>2. /\ CallOfEach' = [CallOfEach EXCEPT ![p] = [kind |-> "deq"]]
        /\ CallOfEach[p] = [kind |-> "idle"]
    BY <1>1, <1>2, <2>1, Mapped
  <2> QED BY <1>1, <1>4, <2>2 DEF Fifo!CallDeq, Fifo!Becomes, Fifo!IDLE
<1>6. CASE op'[p] = "peek"
  <2>1. Call(p)' = [kind |-> "peek", mark |-> hpos - 1] BY <1>1, <1>6 DEF Call
  <2>2. /\ CallOfEach' = [CallOfEach EXCEPT ![p] = [kind |-> "peek", mark |-> hpos - 1]]
        /\ CallOfEach[p] = [kind |-> "idle"]
    BY <1>1, <1>2, <2>1, Mapped
  <2> QED BY <1>1, <1>4, <2>2 DEF Fifo!CallPeek, Fifo!Becomes, Fifo!IDLE
<1> QED BY <1>1, <1>5, <1>6

\* The new message comes last.
LEMMA LinkMaps ==
  ASSUME RInv, IInv', NEW p \in Procs, Link(p), pc'[p] # "again"
  PROVE  Fifo!Enq(p)
<1>0. IInv /\ TypeOK /\ LocalOK(p) BY DEF RInv, IInv, LocalsOK
<1>1. /\ Acts(p) /\ op[p] = "enq" /\ pc[p] = "link" /\ pc'[p] = "swing" /\ op'[p] = "enq"
      /\ new[p] # END /\ new[p] \in Md
      /\ linked' = Append(linked, new[p]) /\ data' = data
      /\ UNCHANGED <<hpos, overflowed, sent>>
  BY <1>0 DEF Link, GoTo, Acts, Step, LocalOK, TypeOK, DeqLabels, PeekLabels, header
<1>2. Owns(p) /\ ~ Owns(p)' BY <1>1 DEF Owns
<1>3. Call(p) = [kind |-> "enq", msg |-> buf[p]] BY <1>1, <1>2 DEF Call
<1>4. Call(p)' = [kind |-> "enqueued"] BY <1>1, <1>2 DEF Call
<1>5. data[new[p].blk] = buf[p] BY <1>1, <1>2 DEF RInv, FilledOK
<1>6. Waiting' = Append(Waiting, buf[p])
  <2> DEFINE W == Append(Waiting, buf[p])  n == Last - hpos
  <2>1. linked \in Seq(Md) /\ Len(linked) = Last /\ Last \in Nat /\ hpos \in 1 .. Last
    BY <1>0, PlaceFacts DEF TypeOK, Last
  <2>2. /\ Len(linked') = Last + 1 /\ linked'[Last + 1] = new[p]
        /\ \A i \in 1 .. Last : linked'[i] = linked[i]
    BY <1>1, <2>1, AppendProperties
  <2>3. /\ Waiting \in Seq(0 .. MaxEnq) /\ Len(Waiting) = n /\ n \in Nat
        /\ \A i \in 1 .. n : Waiting[i] = data[linked[hpos + i].blk]
    BY <1>0, <2>1, WaitingFacts
  <2>4. buf[p] \in 0 .. MaxEnq BY <1>0 DEF TypeOK
  <2>5. /\ W \in Seq(0 .. MaxEnq) /\ Len(W) = n + 1 /\ W[n + 1] = buf[p]
        /\ \A i \in 1 .. n : W[i] = Waiting[i]
    BY <2>3, <2>4, AppendProperties
  <2>6. /\ Waiting' \in Seq(0 .. MaxEnq) /\ Len(Waiting') = n + 1
        /\ \A i \in 1 .. n + 1 : Waiting'[i] = data[linked'[hpos + i].blk]
    <3>1. /\ Waiting' \in Seq(0 .. MaxEnq) /\ Len(Waiting') = Last' - hpos'
          /\ \A i \in 1 .. Last' - hpos' : Waiting'[i] = data'[linked'[hpos' + i].blk]
      BY WaitingFactsNext
    <3>2. Last' - hpos' = n + 1 BY <1>1, <2>1, <2>2 DEF Last
    <3> QED BY <1>1, <3>1, <3>2
  <2> HIDE DEF W, n
  <2>7. ASSUME NEW i \in 1 .. n + 1 PROVE Waiting'[i] = W[i]
    <3>1. CASE i = n + 1
      <4>1. hpos + i = Last + 1 BY <2>1, <3>1 DEF n
      <4> QED BY <1>5, <2>2, <2>5, <2>6, <3>1, <4>1
    <3>2. CASE i # n + 1
      <4>1. i \in 1 .. n /\ hpos + i \in 1 .. Last BY <2>1, <2>3, <3>2 DEF n
      <4> QED BY <2>2, <2>3, <2>5, <2>6, <4>1
    <3> QED BY <3>1, <3>2
  <2> QED BY <2>5, <2>6, <2>7, SeqEqual DEF W
<1>7. dead' = dead BY <1>0, <1>1, Mapped
<1>8. /\ CallOfEach' = [CallOfEach EXCEPT ![p] = [kind |-> "enqueued"]]
      /\ CallOfEach[p] = [kind |-> "enq", msg |-> buf[p]]
  BY <1>0, <1>1, <1>3, <1>4, Mapped
<1> QED BY <1>1, <1>6, <1>7, <1>8 DEF Fifo!Enq, Fifo!Becomes

\* The oldest message is taken.
LEMMA TakeMaps ==
  ASSUME IInv, IInv', NEW p \in Procs, Take(p), pc'[p] # "again"
  PROVE  Fifo!Deq(p)
<1>0. TypeOK /\ LocalOK(p) /\ PlaceOK(p) BY DEF IInv, LocalsOK, PlacesOK
<1>1. /\ Acts(p) /\ op[p] = "deq" /\ pc[p] = "take" /\ pc'[p] = "drop" /\ op'[p] = "deq"
      /\ nxt[p] # END /\ nxt'[p] = nxt[p] /\ head = cur[p] /\ hpos' = hpos + 1
      /\ data' = data /\ UNCHANGED <<linked, overflowed, sent>>
  BY <1>0 DEF Take, GoTo, Acts, Step, LocalOK, TypeOK, EnqLabels, PeekLabels, memory
<1>2. PICK i \in 1 .. Last : cur[p] = linked[i] /\ i < Last /\ nxt[p] = linked[i + 1]
  BY <1>0, <1>1 DEF PlaceOK, Holds
<1>3. i = hpos
  <2>1. linked[hpos] = linked[i] /\ hpos \in 1 .. Last
    BY <1>1, <1>2, PlaceFacts DEF IInv, ChainOK
  <2> QED BY <2>1 DEF IInv, Distinct
<1>4. Took(p)' /\ ~ Took(p) BY <1>1 DEF Took
<1>5. Call(p) = [kind |-> "deq"] BY <1>1, <1>4 DEF Call
<1>6. Call(p)' = [kind |-> "dequeued", msg |-> data[nxt[p].blk]] BY <1>1, <1>4 DEF Call
<1> DEFINE n == Last - hpos
<1>7. /\ Waiting \in Seq(0 .. MaxEnq) /\ Len(Waiting) = n /\ n \in Nat \ {0}
      /\ \A j \in 1 .. n : Waiting[j] = data[linked[hpos + j].blk]
  BY <1>2, <1>3, WaitingFacts, PlaceFacts
<1>8. Waiting # << >> BY <1>7, EmptySeq
<1>9. Head(Waiting) = data[nxt[p].blk]
  <2>1. Head(Waiting) = Waiting[1] BY <1>7, <1>8
  <2>2. Waiting[1] = data[linked[hpos + 1].blk] BY <1>7
  <2> QED BY <1>2, <1>3, <2>1, <2>2
<1>10. Waiting' = Tail(Waiting)
  <2>1. /\ Tail(Waiting) \in Seq(0 .. MaxEnq) /\ Len(Tail(Waiting)) = n - 1
        /\ \A j \in 1 .. n - 1 : Tail(Waiting)[j] = Waiting[j + 1]
    BY <1>7, <1>8, HeadTailProperties
  <2>2. /\ Waiting' \in Seq(0 .. MaxEnq) /\ Len(Waiting') = n - 1
        /\ \A j \in 1 .. n - 1 : Waiting'[j] = data[linked[hpos + 1 + j].blk]
    <3>1. Last' - hpos' = n - 1 /\ hpos \in Nat BY <1>1, PlaceFacts DEF Last
    <3> QED BY <1>1, <3>1, WaitingFactsNext
  <2>3. ASSUME NEW j \in 1 .. n - 1 PROVE Waiting'[j] = Tail(Waiting)[j]
    <3>1. j + 1 \in 1 .. n /\ hpos + (j + 1) = hpos + 1 + j BY <1>7, PlaceFacts
    <3> QED BY <1>7, <2>1, <2>2, <3>1
  <2> HIDE DEF n
  <2> QED BY <2>1, <2>2, <2>3, SeqEqual
<1>11. hpos' - 1 = (hpos - 1) + 1 BY <1>1, PlaceFacts
<1>12. dead' = dead BY <1>1, Mapped
<1>13. /\ CallOfEach' = [CallOfEach EXCEPT ![p] =
                          [kind |-> "dequeued", msg |-> Head(Waiting)]]
       /\ CallOfEach[p].kind = "deq"
  BY <1>1, <1>5, <1>6, <1>9, Mapped
<1> HIDE DEF n
<1> QED BY <1>1, <1>8, <1>10, <1>11, <1>12, <1>13 DEF Fifo!Deq, Fifo!Becomes

\* A next word that says END is the last one's, and the head is not after it.
LEMMA SeesEnd ==
  ASSUME IInv, NEW p \in Procs, Copy(p), op[p] # "enq", nxt'[p] = END
  PROVE  hpos = Last
<1>0. TypeOK /\ LocalOK(p) /\ PlaceOK(p) BY DEF IInv, LocalsOK, PlacesOK
<1>1. Holds(p) /\ pc[p] = "copy" /\ next[cur[p].blk] = END BY <1>0 DEF Copy, Holds, TypeOK
<1>2. PICK i \in 1 .. Last : cur[p] = linked[i] /\ i <= hpos BY <1>0, <1>1 DEF PlaceOK
<1>3. cur[p] \in Md /\ References(cur[p]) # {} BY <1>1, HeldNode
<1>4. next[cur[p].blk] = IF i = Last THEN END ELSE linked[i + 1]
  BY <1>2, <1>3 DEF IInv, ChainOK
<1>5. i # Last => linked[i + 1] \in Md BY <1>2, PlaceFacts
<1>6. i = Last BY <1>1, <1>4, <1>5, WordsAssumption
<1> QED BY <1>2, <1>6, PlaceFacts

LEMMA NoneWaits ==
  ASSUME IInv PROVE (hpos = Last) <=> (Waiting = << >>)
<1>1. Waiting \in Seq(0 .. MaxEnq) /\ Len(Waiting) = Last - hpos /\ Last - hpos \in Nat
  BY WaitingFacts, PlaceFacts
<1>2. Waiting = << >> <=> Last - hpos = 0 BY <1>1, EmptySeq
<1> QED BY <1>2, PlaceFacts

LEMMA CopyMaps ==
  ASSUME RInv, IInv', NEW p \in Procs, Copy(p), pc'[p] = "leave"
  PROVE  Fifo!DeqEmpty(p) \/ Fifo!Peek(p)
<1>0. IInv /\ TypeOK /\ LocalOK(p) /\ PlaceOK(p) /\ MarkOK(p)
  BY DEF RInv, IInv, LocalsOK, PlacesOK
<1>1. /\ Acts(p) /\ op[p] \in {"deq", "peek"} /\ pc[p] = "copy" /\ op'[p] = op[p]
      /\ nxt'[p] = next[cur[p].blk] /\ (op[p] = "deq" => nxt'[p] = END)
      /\ UNCHANGED <<linked, hpos, overflowed, sent, mark>>
  BY <1>0 DEF Copy, AfterCopy, GoTo, Acts, Step, LocalOK, TypeOK, header, history
<1>2. Waiting' = Waiting /\ dead' = dead BY <1>0, <1>1, Mapped
<1>3. nxt'[p] = END => Waiting = << >> BY <1>0, <1>1, SeesEnd, NoneWaits
<1>4. CASE op[p] = "deq"
  <2>1. Call(p) = [kind |-> "deq"] BY <1>1, <1>4 DEF Call, Took
  <2>2. Call(p)' = [kind |-> "dequeued", msg |-> 0] BY <1>1, <1>4 DEF Call, Took
  <2>3. /\ CallOfEach' = [CallOfEach EXCEPT ![p] = [kind |-> "dequeued", msg |-> 0]]
        /\ CallOfEach[p].kind = "deq"
    BY <1>0, <1>1, <2>1, <2>2, Mapped
  <2> QED BY <1>1, <1>2, <1>3, <1>4, <2>3 DEF Fifo!DeqEmpty, Fifo!Becomes, Fifo!EMPTY
<1>5. CASE op[p] = "peek"
  <2>1. Call(p) = [kind |-> "peek", mark |-> mark[p]] BY <1>1, <1>5 DEF Call
  <2>2. Call(p)' = [kind |-> "peeked", empty |-> nxt'[p] = END] BY <1>1, <1>5 DEF Call
  <2>3. /\ CallOfEach' = [CallOfEach EXCEPT ![p] = [kind |-> "peeked", empty |-> nxt'[p] = END]]
        /\ CallOfEach[p].kind = "peek" /\ CallOfEach[p].mark = mark[p]
    BY <1>0, <1>1, <2>1, <2>2, Mapped
  <2>4. CASE nxt'[p] = END
    <3>1. CallOfEach' = [CallOfEach EXCEPT ![p] = [kind |-> "peeked", empty |-> TRUE]]
      BY <2>3, <2>4
    <3> QED BY <1>1, <1>2, <1>3, <2>3, <2>4, <3>1 DEF Fifo!Peek, Fifo!Becomes
  <2>5. CASE nxt'[p] # END
    <3>1. CallOfEach' = [CallOfEach EXCEPT ![p] = [kind |-> "peeked", empty |-> FALSE]]
      BY <2>3, <2>5
    <3>2. Waiting # << >> \/ hpos - 1 > mark[p]
      <4>1. PICK i \in 1 .. Last : i > mark[p] /\ cur[p] = linked[i]
        BY <1>0, <1>1, <1>5 DEF MarkOK
      <4>2. cur[p] \in Md /\ References(cur[p]) # {}
        BY <1>0, <1>1, HeldNode DEF Holds
      <4>3. i # Last BY <1>0, <1>1, <2>5, <4>1, <4>2 DEF IInv, ChainOK
      <4>4. hpos # Last \/ hpos - 1 > mark[p]
        BY <1>0, <4>1, <4>3, PlaceFacts DEF TypeOK
      <4> QED BY <1>0, <4>4, NoneWaits
    <3> QED BY <1>1, <1>2, <2>3, <2>5, <3>1, <3>2 DEF Fifo!Peek, Fifo!Becomes
  <2> QED BY <2>4, <2>5
<1> QED BY <1>1, <1>4, <1>5

LEMMA ReturnMaps ==
  ASSUME IInv, NEW p \in Procs, Free(p) \/ (Leave(p) /\ pc'[p] # "collect")
  PROVE  Fifo!Return(p)
<1>0. TypeOK /\ LocalOK(p) BY DEF IInv, LocalsOK
<1>1. /\ Acts(p) /\ op'[p] = "none" /\ UNCHANGED <<linked, hpos, overflowed, sent>>
      /\ \/ pc[p] = "free" /\ op[p] = "deq" /\ nxt[p] # END
         \/ pc[p] = "leave" /\ op[p] = "deq" /\ nxt[p] = END
         \/ pc[p] = "leave" /\ op[p] \in {"enq", "peek"}
  <2>1. CASE Free(p)
    BY <1>0, <2>1
       DEF Free, Finish, Acts, Step, LocalOK, TypeOK, header, history, EnqLabels, PeekLabels
  <2>2. CASE Leave(p) /\ pc'[p] # "collect"
    BY <1>0, <2>2 DEF Leave, Finish, GoTo, Acts, Step, LocalOK, TypeOK, header, history
  <2> QED BY <2>1, <2>2
<1>2. Waiting' = Waiting /\ dead' = dead BY <1>1, Mapped
<1>3. Call(p).kind \in {"enqueued", "dequeued", "peeked"}
  <2>1. CASE pc[p] = "free" /\ op[p] = "deq" /\ nxt[p] # END BY <2>1 DEF Call, Took
  <2>2. CASE pc[p] = "leave" /\ op[p] = "deq" /\ nxt[p] = END BY <2>2 DEF Call, Took
  <2>3. CASE pc[p] = "leave" /\ op[p] \in {"enq", "peek"} BY <2>3 DEF Call, Owns
  <2> QED BY <1>1, <2>1, <2>2, <2>3
<1>4. Call(p)' = [kind |-> "idle"] BY <1>1 DEF Call
<1>5. /\ CallOfEach' = [CallOfEach EXCEPT ![p] = [kind |-> "idle"]]
      /\ CallOfEach[p].kind \in {"enqueued", "dequeued", "peeked"}
  BY <1>1, <1>3, <1>4, Mapped
<1> QED BY <1>1, <1>2, <1>5 DEF Fifo!Return, Fifo!Becomes, Fifo!IDLE

LEMMA ActMaps ==
  ASSUME RInv, IInv', NEW p \in Procs, Acts(p)
  PROVE  Fifo!CallStep(p) \/ UNCHANGED Fifo!fifoVars
<1>0. IInv BY DEF RInv
<1>1. CASE Quiet(p) BY <1>0, <1>1, QuietMaps
<1>2. CASE Begins(p)
  BY <1>0, <1>2, AllocateMaps, BeginReadMaps DEF Begins, Fifo!CallStep
<1>3. CASE Overflow(p) BY <1>0, <1>3, OverflowMaps DEF Fifo!CallStep
<1>4. CASE Link(p) /\ pc'[p] # "again" BY <1>4, LinkMaps DEF Fifo!CallStep
<1>5. CASE Take(p) /\ pc'[p] # "again" BY <1>0, <1>5, TakeMaps DEF Fifo!CallStep
<1>6. CASE Copy(p) /\ pc'[p] = "leave" BY <1>6, CopyMaps DEF Fifo!CallStep
<1>7. CASE Free(p) \/ (Leave(p) /\ pc'[p] # "collect")
  BY <1>0, <1>7, ReturnMaps DEF Fifo!CallStep
<1> QED BY <1>1, <1>2, <1>3, <1>4, <1>5, <1>6, <1>7 DEF Acts, Step, Quiet

\* A step of no call, or of none.
LEMMA CallsSame ==
  ASSUME UNCHANGED <<memory, locals, history, mark>>
  PROVE  /\ CallOfEach' = CallOfEach
         /\ Waiting' = Waiting
         /\ hpos' = hpos
<1>1. ASSUME NEW q \in Procs PROVE Call(q)' = Call(q)
  BY DEF Call, Owns, Took, locals, memory
<1>2. CallOfEach' = CallOfEach BY <1>1 DEF CallOfEach
<1>3. Waiting' = Waiting BY DEF Waiting, Last, memory, history
<1> QED BY <1>2, <1>3 DEF history

LEMMA OtherRInv ==
  ASSUME RInv, IInv', UNCHANGED <<memory, locals, history, mark>>
  PROVE  RInv'
<1>1. FilledOK' BY DEF RInv, FilledOK, Owns, memory, locals
<1>2. \A q \in Procs : MarkOK(q)' BY DEF RInv, MarkOK, Last, locals, history
<1> QED BY <1>1, <1>2 DEF RInv

LEMMA NextMaps ==
  RInv /\ [Next]_vars => RInv' /\ [Fifo!FifoNext]_(Fifo!fifoVars)
<1> SUFFICES ASSUME RInv, [Next]_vars
             PROVE  RInv' /\ (Fifo!FifoNext \/ UNCHANGED Fifo!fifoVars)
  OBVIOUS
<1>0. IInv /\ IInv' BY NextIInv DEF RInv
<1>1. CASE UNCHANGED vars
  <2>1. UNCHANGED <<memory, locals, history, mark, sent, overflowed, dead>>
    BY <1>1 DEF vars, header
  <2>2. UNCHANGED Fifo!fifoVars BY <2>1, CallsSame DEF Fifo!fifoVars
  <2> QED BY <1>0, <2>1, <2>2, OtherRInv
<1>2. CASE Next
  <2>1. PICK p \in Procs \ dead : Acts(p) \/ ResetOverflowed(p) \/ Crash(p)
    BY <1>2 DEF Next, Acts
  <2>2. CASE Acts(p)
    <3>1. RInv' BY <1>0, <2>2, FilledStep, MarkStep DEF RInv
    <3>2. Fifo!CallStep(p) \/ UNCHANGED Fifo!fifoVars BY <1>0, <2>2, ActMaps
    <3> QED BY <3>1, <3>2 DEF Fifo!FifoNext
  <2>3. CASE ResetOverflowed(p)
    <3>1. UNCHANGED <<memory, locals, history, mark, sent, dead>> /\ overflowed' = 0
          /\ pc[p] = "idle"
      BY <2>3 DEF ResetOverflowed
    <3>2. op[p] = "none" BY <1>0, <3>1 DEF IInv, LocalsOK, LocalOK
    <3>3. CallOfEach[p] = [kind |-> "idle"] BY <3>2 DEF CallOfEach, Call
    <3>4. Fifo!ClearDrops(p) BY <3>1, <3>3, CallsSame DEF Fifo!ClearDrops, Fifo!IDLE
    <3> QED BY <1>0, <3>1, <3>4, OtherRInv DEF Fifo!FifoNext, Fifo!CallStep
  <2>4. CASE Crash(p)
    <3>1. UNCHANGED <<memory, locals, history, mark, sent, overflowed>>
          /\ dead' = dead \cup {p}
      BY <2>4 DEF Crash, header
    <3>2. Fifo!Kill(p) BY <3>1, CallsSame DEF Fifo!Kill
    <3> QED BY <1>0, <3>1, <3>2, OtherRInv DEF Fifo!FifoNext
  <2> QED BY <2>1, <2>2, <2>3, <2>4
<1> QED BY <1>1, <1>2

LEMMA InitMaps == Init => RInv /\ Fifo!FifoInit
<1> SUFFICES ASSUME Init PROVE RInv /\ Fifo!FifoInit OBVIOUS
<1>1. IInv BY InitIInv
<1>2. FilledOK /\ \A q \in Procs : MarkOK(q) BY DEF Init, FilledOK, MarkOK, Owns
<1>3. Waiting = << >>
  <2>1. hpos = 1 /\ Last = 1 BY DEF Init, Last
  <2> QED BY <1>1, <2>1, NoneWaits
<1>4. CallOfEach = [p \in Procs |-> [kind |-> "idle"]] BY DEF Init, CallOfEach, Call
<1>5. hpos - 1 = 0 BY DEF Init
<1>6. Fifo!FifoInit BY <1>3, <1>4, <1>5 DEF Init, Fifo!FifoInit, Fifo!IDLE
<1> QED BY <1>1, <1>2, <1>6 DEF RInv

(***************************************************************************)
(* QueueImpl is a FIFO whose operations are atomic, for any number of      *)
(* processes, blocks and enqueues, however their steps interleave and      *)
(* whoever is killed between two of them: no message is lost, duplicated   *)
(* or reordered, and deq and isEmpty say "empty" only when it was.         *)
(***************************************************************************)
THEOREM ImplementsFifoHolds == Spec => ImplementsFifo
<1>1. Spec => Fifo!FifoInit /\ [][Fifo!FifoNext]_(Fifo!fifoVars)
  BY InitMaps, NextMaps, PTL DEF Spec
<1> QED BY <1>1 DEF ImplementsFifo, Fifo!FifoSpec
-----------------------------------------------------------------------------
(***************************************************************************)
(* What the invariant of ImqueProofs does not say: the tail lags only      *)
(* while the process that linked the last node has yet to move it.         *)
(***************************************************************************)
LagOK == tpos < Last => \E p \in Procs : pc[p] = "swing" /\ cur[p] = linked[tpos]

LInv == IInv /\ LagOK
-----------------------------------------------------------------------------
\* A process that finds no successor of its node has the last one.
LEMMA LinksLast ==
  ASSUME IInv, NEW p \in Procs, Link(p), next[cur[p].blk] = END
  PROVE  cur[p] = linked[tpos] /\ tpos = Last
<1>1. Holds(p) /\ op[p] = "enq" BY DEF Link, Holds, IInv, LocalsOK, LocalOK, TypeOK, DeqLabels, PeekLabels
<1>2. cur[p] \in Md /\ References(cur[p]) # {} BY <1>1, HeldNode
<1>3. PICK i \in 1 .. Last : cur[p] = linked[i] /\ i <= tpos
  BY <1>1 DEF IInv, PlacesOK, PlaceOK
<1>4. next[cur[p].blk] = IF i = Last THEN END ELSE linked[i + 1]
  BY <1>2, <1>3 DEF IInv, ChainOK
<1>5. i = Last
  <2>1. SUFFICES ASSUME i # Last PROVE FALSE OBVIOUS
  <2>2. i + 1 \in 1 .. Last BY <2>1, PlaceFacts
  <2>3. linked[i + 1] \in Md BY <2>2, PlaceFacts
  <2> QED BY <1>4, <2>1, <2>3, WordsAssumption
<1> QED BY <1>3, <1>5, PlaceFacts

LEMMA LagKept ==
  ASSUME LInv, NEW p \in Procs, Acts(p), IInv'
  PROVE  LagOK'
<1>0. IInv /\ TypeOK BY DEF LInv, IInv
<1>1. SUFFICES ASSUME tpos' < Last'
               PROVE  \E q \in Procs : pc'[q] = "swing" /\ cur'[q] = linked'[tpos']
  BY DEF LagOK
<1>2. OthersKept(p) BY <1>0, OthersKeptByStep
<1>3. /\ Last' <= tpos' + 1 /\ Last <= tpos + 1
      /\ Last \in Nat /\ tpos \in 1 .. Last /\ Last' \in Nat /\ tpos' \in Nat
      /\ \A i \in 1 .. Last : linked'[i] = linked[i]
  <2>1. Last <= tpos + 1 BY <1>0 DEF IInv, ChainOK
  <2>2. ChainOK' /\ TypeOK' BY DEF IInv
  <2>3. Last' <= tpos' + 1 BY <2>2 DEF ChainOK
  <2>4. tpos' \in Nat BY <2>2 DEF TypeOK
  <2> QED BY <1>0, <2>1, <2>3, <2>4, PlaceFacts, ListGrows
<1>4. CASE Link(p) /\ next[cur[p].blk] = END
  <2>1. cur[p] = linked[tpos] /\ tpos = Last BY <1>0, <1>4, LinksLast
  <2>2. pc'[p] = "swing" /\ cur'[p] = cur[p] /\ tpos' = tpos
    BY <1>0, <1>4 DEF Link, GoTo, TypeOK
  <2> QED BY <1>3, <2>1, <2>2
<1>5. CASE tpos' = tpos + 1 /\ linked' = linked
  <2>1. Last' = Last BY <1>5 DEF Last
  <2> QED BY <1>1, <1>3, <1>5, <2>1
<1>6. CASE UNCHANGED <<tpos, linked>>
  <2>1. Last' = Last BY <1>6 DEF Last
  <2>2. PICK q \in Procs : pc[q] = "swing" /\ cur[q] = linked[tpos]
    BY <1>1, <1>6, <2>1 DEF LInv, LagOK
  <2>3. CASE q # p BY <1>2, <1>6, <2>2, <2>3 DEF OthersKept
  <2>4. CASE q = p
    <3>1. Swing(p)
      BY <2>2, <2>4 DEF Acts, Step, Begins, Overflow, Fill, Share, ReadPlace, DupCur, Copy,
         Again, Drop, Leave, Help, Link, Take, Collect, Free, Allocate, AllocateFails,
         BeginRead, Begin
    <3>2. tail = cur[p] BY <1>0, <2>2, <2>4 DEF IInv, ChainOK
    <3> QED BY <1>3, <1>6, <3>1, <3>2 DEF Swing
  <2> QED BY <2>3, <2>4
<1> QED
  <2>1. \/ Link(p) /\ next[cur[p].blk] = END
        \/ tpos' = tpos + 1 /\ linked' = linked
        \/ UNCHANGED <<tpos, linked>>
    BY DEF Acts, Step, Begins, Overflow, Fill, Share, ReadPlace, DupCur, Copy,
         Again, Drop, Leave, Help, Link, Swing, Take, Collect, Free, Allocate, AllocateFails,
         BeginRead, history
  <2> QED BY <1>4, <1>5, <1>6, <2>1

LEMMA NextLInv == LInv /\ [Next]_vars => LInv'
<1> SUFFICES ASSUME LInv, [Next]_vars PROVE LInv' OBVIOUS
<1>1. IInv' BY NextIInv DEF LInv
<1>2. ASSUME UNCHANGED <<locals, history>> PROVE LagOK'
  BY <1>2 DEF LInv, LagOK, locals, history, Last
<1>3. CASE UNCHANGED vars BY <1>1, <1>2, <1>3 DEF vars, LInv
<1>4. CASE Next
  <2>1. PICK p \in Procs : Acts(p) \/ ResetOverflowed(p) \/ Crash(p)
    BY <1>4 DEF Next, Acts
  <2>2. CASE Acts(p) BY <1>1, <2>2, LagKept DEF LInv
  <2>3. CASE ResetOverflowed(p) \/ Crash(p)
    BY <1>1, <1>2, <2>3 DEF LInv, ResetOverflowed, Crash
  <2> QED BY <2>1, <2>2, <2>3
<1> QED BY <1>3, <1>4

LEMMA InitLInv == Init => LInv
<1> SUFFICES ASSUME Init PROVE LInv OBVIOUS
<1>1. Last = 1 /\ tpos = 1 BY DEF Init, Last
<1> QED BY <1>1, InitIInv DEF LInv, LagOK
-----------------------------------------------------------------------------
\* A set that a function makes of another is no larger.
LEMMA ImageBound ==
  ASSUME NEW S, IsFiniteSet(S), NEW f, f = [x \in S |-> f[x]]
  PROVE  LET T == {f[x] : x \in S}
         IN  IsFiniteSet(T) /\ Cardinality(T) <= Cardinality(S)
<1> DEFINE T == {f[x] : x \in S}
<1>1. f \in Surjection(S, T) BY DEF Surjection
<1> QED BY <1>1, FS_Surjection

LEMMA UnionBound ==
  ASSUME NEW S, NEW T, IsFiniteSet(S), IsFiniteSet(T)
  PROVE  /\ IsFiniteSet(S \cup T)
         /\ Cardinality(S \cup T) <= Cardinality(S) + Cardinality(T)
<1>1. /\ IsFiniteSet(S \cup T)
      /\ Cardinality(S \cup T) = Cardinality(S) + Cardinality(T) - Cardinality(S \cap T)
  BY FS_Union
<1>2. IsFiniteSet(S \cap T) BY FS_Subset
<1> QED BY <1>1, <1>2, FS_CardinalityType

\* When no call is under way, whatever is referenced is in the list, or is a
\* block a killed process had a reference to, or a node it was to free.
LEMMA WhoIsReferenced ==
  ASSUME LInv, \A p \in Live : pc[p] = "idle", NEW m \in Md, References(m) # {}
  PROVE  \/ \E i \in hpos .. Last : m = linked[i]
         \/ \E p \in dead : m = cur[p]
         \/ \E p \in dead : m = IF op[p] = "deq" THEN nxt[p] ELSE new[p]
<1>0. IInv /\ hpos \in Nat /\ tpos \in Nat /\ Last \in Nat
      /\ hpos <= tpos + 1 /\ hpos <= Last
  BY PlaceFacts DEF LInv, IInv, ChainOK
<1>1. \A p \in Procs : pc[p] # "idle" => p \in dead BY DEF Live
<1>2. \A p \in Procs : Holds(p) => p \in dead BY <1>1 DEF Holds
<1>3. \A p \in Procs : DropsHead(p) \/ DropsTail(p) => p \in dead
  BY <1>1 DEF DropsHead, DropsTail
<1>4. \A p \in Procs : Took(p) => p \in dead /\ op[p] = "deq" BY <1>1 DEF Took
<1>5. \A p \in Procs : Owns(p) => p \in dead /\ op[p] # "deq"
  BY <1>0, <1>1 DEF Owns, IInv, LocalsOK, LocalOK
<1>6. CASE Holders(m) # {} BY <1>2, <1>6 DEF Holders
<1>7. CASE HeadRef(m) BY <1>3, <1>5, <1>7 DEF HeadRef, LinkedFrom, Shared
<1>8. CASE DataRef(m)
  <2>1. CASE LinkedFrom(hpos + 1, m) BY <1>0, <2>1 DEF LinkedFrom
  <2> QED BY <1>4, <1>5, <1>8, <2>1 DEF DataRef
<1>9. CASE TailRef(m)
  <2>1. CASE LinkedFrom(tpos, m)
    <3>1. PICK j \in tpos .. Last : m = linked[j] BY <2>1 DEF LinkedFrom
    <3>2. CASE j >= hpos BY <1>0, <3>1, <3>2
    <3>3. CASE j < hpos
      <4>1. j = tpos /\ tpos < Last BY <1>0, <3>1, <3>3
      <4>2. PICK p \in Procs : pc[p] = "swing" /\ cur[p] = linked[tpos]
        BY <4>1 DEF LInv, LagOK
      <4> QED BY <1>1, <3>1, <4>1, <4>2
    <3> QED BY <1>0, <3>1, <3>2, <3>3
  <2> QED BY <1>3, <1>5, <1>9, <2>1 DEF TailRef, Shared
<1> QED BY <1>6, <1>7, <1>8, <1>9 DEF References

LEMMA LInvBounds == LInv => LeakBounded
<1> DEFINE used == {b \in Blocks : ref[b] > 0}
           inList == [i \in hpos .. Last |-> linked[i].blk]
           held == [p \in dead |-> cur[p].blk]
           owed == [p \in dead |-> (IF op[p] = "deq" THEN nxt[p] ELSE new[p]).blk]
           L == {inList[i] : i \in hpos .. Last}
           C == {held[p] : p \in dead}
           N == {owed[p] : p \in dead}
<1> SUFFICES ASSUME LInv, \A p \in Live : pc[p] = "idle"
             PROVE  Cardinality(used) <= (Last - hpos) + 1 + 2 * Cardinality(dead)
  BY DEF LeakBounded
<1>0. IInv /\ TypeOK /\ RefsCounted BY DEF LInv, IInv
<1>1. /\ hpos \in Nat /\ Last \in Nat /\ hpos <= Last BY <1>0, PlaceFacts
<1>2. IsFiniteSet(dead) /\ Cardinality(dead) \in Nat
  BY <1>0, ProcsAssumption, FS_Subset, FS_CardinalityType DEF TypeOK
<1>3. IsFiniteSet(hpos .. Last) /\ Cardinality(hpos .. Last) = Last - hpos + 1
  BY <1>1, FS_Interval
<1>4. used \subseteq (L \cup C) \cup N
  <2>1. SUFFICES ASSUME NEW b \in Blocks, ref[b] > 0 PROVE b \in (L \cup C) \cup N
    OBVIOUS
  <2>2. MdOf(b) \in Md /\ MdOf(b).blk = b BY <1>0, MdFacts
  <2>3. References(MdOf(b)) # {} BY <1>0, <2>1, FreeIffNone DEF TypeOK
  <2> DEFINE m == MdOf(b)
  <2>4. \/ \E i \in hpos .. Last : m = linked[i]
        \/ \E p \in dead : m = cur[p]
        \/ \E p \in dead : m = IF op[p] = "deq" THEN nxt[p] ELSE new[p]
    BY <2>2, <2>3, WhoIsReferenced
  <2>5. CASE \E i \in hpos .. Last : m = linked[i] BY <2>2, <2>5
  <2>6. CASE \E p \in dead : m = cur[p] BY <2>2, <2>6
  <2>7. CASE \E p \in dead : m = IF op[p] = "deq" THEN nxt[p] ELSE new[p]
    BY <2>2, <2>7
  <2> QED BY <2>4, <2>5, <2>6, <2>7
<1>5. IsFiniteSet(L) /\ Cardinality(L) <= Last - hpos + 1
  <2> HIDE DEF inList
  <2>1. inList = [i \in hpos .. Last |-> inList[i]] BY DEF inList
  <2> QED BY <1>3, <2>1, ImageBound
<1>6. IsFiniteSet(C) /\ Cardinality(C) <= Cardinality(dead)
  <2> HIDE DEF held
  <2>1. held = [p \in dead |-> held[p]] BY DEF held
  <2> QED BY <1>2, <2>1, ImageBound
<1>7. IsFiniteSet(N) /\ Cardinality(N) <= Cardinality(dead)
  <2> HIDE DEF owed
  <2>1. owed = [p \in dead |-> owed[p]] BY DEF owed
  <2> QED BY <1>2, <2>1, ImageBound
<1> HIDE DEF used, L, C, N
<1>8. IsFiniteSet(L \cup C) /\ Cardinality(L \cup C) <= Cardinality(L) + Cardinality(C)
  BY <1>5, <1>6, UnionBound
<1>9. IsFiniteSet((L \cup C) \cup N)
      /\ Cardinality((L \cup C) \cup N) <= Cardinality(L \cup C) + Cardinality(N)
  BY <1>7, <1>8, UnionBound
<1>10. Cardinality(used) <= Cardinality((L \cup C) \cup N)
  BY <1>4, <1>9, FS_Subset
<1>11. /\ Cardinality(L) \in Nat /\ Cardinality(C) \in Nat /\ Cardinality(N) \in Nat
       /\ Cardinality(L \cup C) \in Nat /\ Cardinality((L \cup C) \cup N) \in Nat
       /\ Cardinality(used) \in Nat
  <2>1. IsFiniteSet(used) BY <1>4, <1>9, FS_Subset
  <2> QED BY <1>5, <1>6, <1>7, <1>8, <1>9, <2>1, FS_CardinalityType
<1> QED BY <1>1, <1>2, <1>5, <1>6, <1>7, <1>8, <1>9, <1>10, <1>11

(***************************************************************************)
(* When no call of QueueImpl is under way the blocks in use are the        *)
(* waiting messages, one sentinel, and two at most for each process that   *)
(* was killed in a call, for any number of processes, blocks and kills.    *)
(***************************************************************************)
THEOREM LeakBoundedHolds == Spec => []LeakBounded
<1>1. Spec => []LInv BY InitLInv, NextLInv, PTL DEF Spec
<1> QED BY <1>1, LInvBounds, PTL
=============================================================================
