--------------------------- MODULE VariableProofs ---------------------------
(***************************************************************************)
(* For any number of processes, chunks, calls and kills, as long as no     *)
(* word comes back: the free nodes and the blocks of VariableAllocator     *)
(* share out the memory, in order, and every block has an owner.           *)
(***************************************************************************)
EXTENDS VariableAllocator, WellFoundedInduction, FiniteSetTheorems, TLAPS

Snapshot == [idx : Index, node : Node]

FirstSnapshot == [idx |-> 0, node |-> [Blank EXCEPT !.next = 1]]

(***************************************************************************)
(* The shape of the memory.  The listed nodes are in the order of their    *)
(* indexes, and none is left out by a link; the free nodes and the blocks  *)
(* begin where another ends, up to the end of the memory.                  *)
(***************************************************************************)
Listed == {0} \cup OnList

IsList(ns, L) ==
  /\ 0 \in L /\ NodeCount \in L /\ L \subseteq 0 .. NodeCount
  /\ \A i \in L \ {NodeCount} :
       /\ ns[i].next \in L /\ i < ns[i].next
       /\ \A j \in L : j <= i \/ ns[i].next <= j

Starts == {i \in Chunks : i \in OnList \/ held[i] > 0}
Sizes == [i \in Chunks |-> IF i \in OnList THEN nodes[i].count ELSE held[i]]

Tiles(S, z) ==
  /\ 1 \in S /\ S \subseteq Chunks
  /\ \A i \in S : /\ z[i] \in Nat \ {0} /\ i + z[i] \in S \cup {NodeCount}
                  /\ \A j \in S : j <= i \/ i + z[i] <= j

FreeOK ==
  /\ nodes[0] = FirstSnapshot.node
  /\ \A i \in OnList \cap Index :
       /\ held[i] = 0
       /\ "head" \in nodes[i].status => nodes[i].next = i + nodes[i].count

Shape == /\ IsList(nodes, Listed)
         /\ Tiles(Starts, Sizes)
         /\ FreeOK

(***************************************************************************)
(* Blocks, the clients' references and the calls that own a block.         *)
(***************************************************************************)
SearchLabels == {"start", "next", "check", "markHead", "markTail", "join"}
OwnerLabels == {"label", "link", "raise", "insert", "lower", "clear"}

LentOK ==
  \A i \in Chunks : held[i] > 0 =>
    \/ nodes[i].count = held[i]
    \/ \E p \in Procs : pc[p] = "label" /\ md[p].idx = i

\* No block is lost: a call has it, or a client has a reference to it.
HadOK ==
  \A i \in Chunks : held[i] > 0 =>
    \/ \E p \in Procs : md[p].idx = i
    \/ \E d \in Desc : d.idx = i /\ refs[d] > 0

RefOK(d) ==
  /\ held[d.idx] > 0
  /\ nodes[d.idx].ver = d.ver
  /\ nodes[d.idx].next \in {0, refs[d]}
  /\ nodes[d.idx].next = 0 => refs[d] = 1
  /\ \A p \in Procs : md[p].idx # d.idx
  /\ refs[d] <= dups + 1

RefsOK == \A d \in Desc : refs[d] > 0 => RefOK(d)

LinkedOK(p) == IF IsNeighbor(p, curr[p])
                 THEN nodes[md[p].idx].next = 0
                 ELSE /\ nodes[md[p].idx].next = curr[p].node.next
                      /\ nodes[md[p].idx].status = {}

\* What the block of a call looks like at its step.
BlockOK(p) ==
  LET w == nodes[md[p].idx]
  IN  /\ held[md[p].idx] > 0
      /\ pc[p] = "label" => held[md[p].idx] = need[p] /\ md[p].ver = NextVer(w.ver)
      /\ pc[p] \in SearchLabels \cup {"link"} => w.ver = md[p].ver /\ w.next = 0
      /\ pc[p] = "link" => ~ IsNeighbor(p, curr[p])
      /\ pc[p] = "raise" => w.ver = md[p].ver /\ LinkedOK(p)
      /\ pc[p] = "insert" => w.ver = NextVer(md[p].ver) /\ LinkedOK(p)
      /\ pc[p] = "lower" => w.ver = NextVer(md[p].ver)
      /\ pc[p] = "clear" => w.ver = md[p].ver

OwnOK(p) ==
  /\ pc[p] \in {"idle", "carve"} => md[p] = NONE
  /\ pc[p] \in OwnerLabels => md[p] # NONE
  /\ pc[p] \in SearchLabels /\ md[p] = NONE => need[p] \in Needs
  /\ pc[p] \in {"carve", "label"} => need[p] \in Needs
  /\ md[p] # NONE => BlockOK(p) /\ \A q \in Procs : md[q].idx = md[p].idx => q = p

(***************************************************************************)
(* Snapshots: what the word of a snapshot says, whether or not it is still *)
(* there, and where its node is if it is.                                  *)
(***************************************************************************)
WordOK(d, s) ==
  /\ s.idx \in Chunks /\ s.idx < s.node.next /\ s.node.next <= NodeCount
  /\ s.node.count > 0 /\ s.idx + s.node.count <= s.node.next
  /\ "head" \in s.node.status => Joinable(s)
  /\ d # NONE /\ s.idx <= d.idx => s.idx + s.node.count <= d.idx

PassedOK(d, s) ==
  /\ s = FirstSnapshot \/ WordOK(d, s)
  /\ s.node.next < NodeCount
  /\ "tail" \notin s.node.status
  /\ d # NONE => s.node.next <= d.idx

ValuesOK(p) ==
  /\ pc[p] \in PredAwaits => PassedOK(md[p], pred[p])
  /\ pc[p] \in {"check", "markHead", "markTail", "join"} => curr[p].idx = pred[p].node.next
  /\ pc[p] \in {"markHead", "markTail", "join"} => WordOK(md[p], curr[p]) /\ Joinable(pred[p])
  /\ pc[p] \in {"markTail", "join"} => "head" \in pred[p].node.status
  /\ pc[p] = "join" => "tail" \in curr[p].node.status
  /\ pc[p] \in {"carve", "link", "raise", "insert"} =>
       WordOK(md[p], curr[p]) /\ "tail" \notin curr[p].node.status
  /\ pc[p] = "carve" => curr[p].node.status = {} /\ curr[p].node.count > need[p]
  /\ pc[p] \in {"link", "raise", "insert"} =>
       curr[p].idx + curr[p].node.count <= md[p].idx /\ md[p].idx < curr[p].node.next

\* Nobody else is about to mark the second node of the pair that p joins.
JoinsAlone(p) ==
  \A q \in Procs \ dead :
    pc[q] = "markTail" /\ curr[q].idx = curr[p].idx => ~ Unmodified(curr[q])

FreshOK(p) ==
  /\ pc[p] \in PredAwaits /\ Unmodified(pred[p]) => pred[p].idx \in Listed
  /\ pc[p] \in CurrAwaits /\ Unmodified(curr[p]) => curr[p].idx \in OnList
  /\ pc[p] = "check" /\ Unmodified(pred[p]) => WordOK(md[p], curr[p])
  /\ pc[p] = "join" /\ Unmodified(pred[p]) => Unmodified(curr[p]) /\ JoinsAlone(p)

IInv == /\ TypeOK
        /\ Shape
        /\ LentOK
        /\ HadOK
        /\ RefsOK
        /\ \A p \in Procs : OwnOK(p) /\ ValuesOK(p)
        /\ \A p \in Procs \ dead : FreshOK(p)
-----------------------------------------------------------------------------
(* Numbers, lists and tiles.                                               *)

LEMMA LeastNumber ==
  ASSUME NEW S, S \subseteq Nat, S # {}
  PROVE  \E x \in S : \A y \in S : x <= y
<1>1. PICK x \in S : \A y \in S : <<y, x>> \notin OpToRel(<, Nat)
  BY NatLessThanWellFounded, WFMin
<1>2. \A y \in S : ~ (y < x) BY <1>1 DEF OpToRel
<1> QED BY <1>2

LEMMA GreatestBelow ==
  ASSUME NEW S, S \subseteq Nat, NEW n \in Nat, \E x \in S : x <= n
  PROVE  \E x \in S : x <= n /\ \A y \in S : y <= n => y <= x
<1> DEFINE D == {k \in 0 .. n : n - k \in S}
<1>1. D # {}
  <2>1. PICK x \in S : x <= n OBVIOUS
  <2>2. n - x \in 0 .. n /\ n - (n - x) = x BY <2>1
  <2> QED BY <2>1, <2>2
<1>2. PICK k \in D : \A j \in D : k <= j
  <2>1. D \subseteq Nat OBVIOUS
  <2> QED BY <1>1, <2>1, LeastNumber
<1>3. ASSUME NEW y \in S, y <= n PROVE y <= n - k
  <2>1. n - y \in D
    <3>1. n - y \in 0 .. n /\ n - (n - y) = y BY <1>3
    <3> QED BY <3>1
  <2>2. k <= n - y BY <1>2, <2>1
  <2> QED BY <1>3, <2>2
<1>4. n - k \in S /\ n - k <= n BY <1>2
<1> QED BY <1>3, <1>4

\* Every node of a list but the first has one before it.
LEMMA Predecessor ==
  ASSUME NEW ns, NEW L, IsList(ns, L), NEW j \in L, j # 0
  PROVE  \E i \in L \ {NodeCount} : ns[i].next = j
<1>0. j \in Nat \ {0} /\ j <= NodeCount /\ L \subseteq Nat
  <2>1. j \in 0 .. NodeCount /\ L \subseteq 0 .. NodeCount /\ NodeCount \in Nat
    BY NodeCountAssumption DEF IsList
  <2> QED BY <2>1
<1>1. PICK i \in L : i <= j - 1 /\ \A y \in L : y <= j - 1 => y <= i
  <2>1. j - 1 \in Nat /\ 0 \in L /\ 0 <= j - 1 BY <1>0 DEF IsList
  <2> QED BY <1>0, <2>1, GreatestBelow
<1>2. i # NodeCount BY <1>0, <1>1, NodeCountAssumption
<1>3. ns[i].next \in L /\ i < ns[i].next /\ (j <= i \/ ns[i].next <= j)
  BY <1>2 DEF IsList
<1>4. ns[i].next \in Nat /\ i \in Nat BY <1>0, <1>3
<1>5. ~ (ns[i].next <= j - 1) BY <1>1, <1>3, <1>4
<1> QED BY <1>0, <1>1, <1>2, <1>3, <1>4, <1>5

\* A list is what its links lead along.
LEMMA ListIs ==
  ASSUME NEW ns, NEW L, IsList(ns, L)
  PROVE  ListFrom(ns) = L \ {0}
<1> DEFINE M == L \ {0}
<1>0. L \subseteq 0 .. NodeCount /\ 0 \in L /\ NodeCount > 0 BY NodeCountAssumption DEF IsList
<1>1. M \in SUBSET (1 .. NodeCount)
  <2>1. \A j \in M : j \in 1 .. NodeCount BY <1>0, NodeCountAssumption
  <2> QED BY <2>1
<1>2. Closed(ns, M)
  <2>1. \A i \in L : i # NodeCount => ns[i].next \in L /\ i < ns[i].next BY DEF IsList
  <2>2. \A i \in L : i # NodeCount => ns[i].next # 0 BY <1>0, <2>1, NodeCountAssumption
  <2>3. ns[0].next \in M BY <1>0, <2>1, <2>2
  <2>4. \A i \in M \cap Index : ns[i].next \in M
    BY <2>1, <2>2, NodeCountAssumption DEF Index
  <2> QED BY <2>3, <2>4 DEF Closed
<1>3. ASSUME NEW S \in SUBSET (1 .. NodeCount), Closed(ns, S), M \ S # {}
      PROVE  FALSE
  <2>1. M \ S \subseteq Nat BY <1>1
  <2>2. PICK j \in M \ S : \A y \in M \ S : j <= y BY <1>3, <2>1, LeastNumber
  <2>3. PICK i \in L \ {NodeCount} : ns[i].next = j BY <2>2, Predecessor
  <2>4. i < j /\ i \in 0 .. NodeCount /\ j \in Nat BY <1>0, <2>1, <2>2, <2>3 DEF IsList
  <2>5. CASE i = 0 BY <1>3, <2>2, <2>3, <2>5 DEF Closed
  <2>6. CASE i # 0
    <3>1. i \in S
      <4>1. ~ (j <= i) BY <2>4
      <4> QED BY <2>2, <2>3, <2>6, <4>1
    <3>2. i \in Index BY <2>3, <2>4, NodeCountAssumption DEF Index
    <3> QED BY <1>3, <2>2, <2>3, <3>1, <3>2 DEF Closed
  <2> QED BY <2>5, <2>6
<1>4. ListFrom(ns) \subseteq M
  <2>1. \A j \in ListFrom(ns) : j \in M BY <1>1, <1>2 DEF ListFrom
  <2> QED BY <2>1
<1>5. M \subseteq ListFrom(ns)
  <2>1. \A j \in M : \A S \in SUBSET (1 .. NodeCount) : Closed(ns, S) => j \in S BY <1>3
  <2> QED BY <1>1, <2>1 DEF ListFrom
<1> QED BY <1>4, <1>5

\* The list of a state is given by any set that is a list.
LEMMA ListedIs ==
  ASSUME NEW L, IsList(nodes', L)
  PROVE  OnList' = L \ {0} /\ Listed' = L
<1>1. OnList' = L \ {0} BY ListIs DEF OnList
<1> QED BY <1>1 DEF Listed, IsList

\* Each chunk is of one tile.
LEMMA OneTile ==
  ASSUME NEW S, NEW z, Tiles(S, z), NEW c \in Chunks
  PROVE  \E i \in S : /\ i <= c /\ c < i + z[i]
                      /\ \A j \in S : j <= c /\ c < j + z[j] => j = i
<1>0. S \subseteq Nat /\ c \in Nat /\ c < NodeCount /\ 1 <= c /\ 1 \in S
      /\ \A i \in S : z[i] \in Nat /\ i + z[i] \in S \cup {NodeCount}
  BY NodeCountAssumption DEF Tiles, Chunks
<1>1. PICK i \in S : i <= c /\ \A y \in S : y <= c => y <= i
  <2>1. \E x \in S : x <= c BY <1>0
  <2> QED BY <1>0, <2>1, GreatestBelow
<1>2. c < i + z[i]
  <2>1. SUFFICES ASSUME i + z[i] <= c PROVE FALSE BY <1>0, <1>1
  <2>2. i + z[i] \in S BY <1>0, <1>1, <2>1, NodeCountAssumption
  <2>3. z[i] \in Nat \ {0} BY <1>1 DEF Tiles
  <2> QED BY <1>0, <1>1, <2>1, <2>2, <2>3
<1>3. ASSUME NEW j \in S, j <= c, c < j + z[j] PROVE j = i
  <2>1. j <= i BY <1>1, <1>3
  <2>2. i <= j \/ j + z[j] <= i BY <1>1, <1>3 DEF Tiles
  <2> QED BY <1>0, <1>1, <1>3, <2>1, <2>2
<1> QED BY <1>1, <1>2, <1>3
-----------------------------------------------------------------------------
(* What the shape says.                                                    *)

LEMMA Numbers ==
  /\ NodeCount \in Nat /\ NodeCount > 2
  /\ Chunks \subseteq Index /\ Index \subseteq Nat /\ Chunks \subseteq Nat
  /\ Index = {0} \cup Chunks /\ 0 \notin Chunks /\ NodeCount \notin Index
  /\ \A i \in Chunks : 0 < i /\ i < NodeCount
  /\ \A i \in 0 .. NodeCount : i # NodeCount => i \in Index
  /\ \A i \in 1 .. NodeCount : i # NodeCount => i \in Chunks
BY NodeCountAssumption DEF Index, Chunks

LEMMA NodeTypes ==
  ASSUME TypeOK, NEW i \in Index
  PROVE  /\ nodes[i] \in Node /\ nodes[i].count \in Nat /\ nodes[i].next \in Nat
         /\ nodes[i].ver \in 0 .. Versions - 1 /\ nodes[i].status \subseteq {"head", "tail"}
<1>1. nodes[i] \in Node BY DEF TypeOK
<1>2. nodes[i].count \in 0 .. NodeCount /\ nodes[i].next \in 0 .. NodeCount + MaxDups
  BY <1>1 DEF Node
<1> QED BY <1>1, <1>2, LimitsAssumption, Numbers DEF Node

LEMMA ListFacts ==
  ASSUME TypeOK, Shape
  PROVE  /\ OnList \subseteq 1 .. NodeCount /\ NodeCount \in OnList
         /\ \A i \in OnList : i # NodeCount => i \in Chunks /\ i \in Starts
         /\ \A i \in Listed : i # NodeCount => i \in Index
         /\ \A i \in Listed \ {NodeCount} :
              /\ nodes[i].next \in OnList /\ i < nodes[i].next /\ nodes[i].next <= NodeCount
              /\ i + nodes[i].count <= nodes[i].next
              /\ \A j \in Listed : j <= i \/ nodes[i].next <= j
<1>0. IsList(nodes, Listed) /\ Tiles(Starts, Sizes) /\ FreeOK BY DEF Shape
<1>1. OnList \subseteq 1 .. NodeCount BY DEF OnList, ListFrom
<1>2. NodeCount \in OnList BY <1>0, Numbers DEF IsList, Listed
<1>3. \A i \in OnList : i # NodeCount => i \in Chunks BY <1>1, Numbers
<1>4. \A i \in Listed : i # NodeCount => i \in Index BY <1>3, Numbers DEF Listed
<1>5. ASSUME NEW i \in Listed \ {NodeCount}
      PROVE  /\ nodes[i].next \in OnList /\ i < nodes[i].next /\ nodes[i].next <= NodeCount
             /\ i + nodes[i].count <= nodes[i].next
             /\ \A j \in Listed : j <= i \/ nodes[i].next <= j
  <2>1. /\ nodes[i].next \in Listed /\ i < nodes[i].next
        /\ \A j \in Listed : j <= i \/ nodes[i].next <= j
    BY <1>0 DEF IsList
  <2>2. i \in Index BY <1>4
  <2>3. nodes[i].next # 0 BY <2>1, <2>2, Numbers
  <2>4. nodes[i].next \in OnList BY <2>1, <2>3 DEF Listed
  <2>5. nodes[i].next \in 1 .. NodeCount BY <1>1, <2>4
  <2>7. nodes[i].count \in Nat BY <2>2, NodeTypes
  <2>6. i + nodes[i].count <= nodes[i].next
    <3>1. CASE i = 0
      <4>1. nodes[0].count = 0 BY <1>0 DEF FreeOK, FirstSnapshot, Blank
      <4> QED BY <3>1, <4>1, <2>5
    <3>2. CASE i # 0
      <4>1. i \in OnList /\ i \in Chunks BY <3>2, <2>2, Numbers DEF Listed
      <4>2. i \in Starts /\ Sizes[i] = nodes[i].count BY <4>1 DEF Starts, Sizes
      <4>3. i + nodes[i].count \in Starts \cup {NodeCount} BY <1>0, <4>2 DEF Tiles
      <4>4. CASE nodes[i].next = NodeCount
        <5>1. i + nodes[i].count \in Chunks \cup {NodeCount} BY <4>3 DEF Starts
        <5>2. \A x \in Chunks \cup {NodeCount} : x <= NodeCount
          BY NodeCountAssumption DEF Chunks
        <5> QED BY <4>4, <5>1, <5>2
      <4>5. CASE nodes[i].next # NodeCount
        <5>1. nodes[i].next \in Starts BY <1>3, <2>4, <4>5 DEF Starts
        <5>2. nodes[i].next <= i \/ i + Sizes[i] <= nodes[i].next
          BY <1>0, <4>2, <5>1 DEF Tiles
        <5> QED BY <5>2, <4>2, <2>1, <2>2, <2>5, <2>7, Numbers
      <4> QED BY <4>4, <4>5
    <3> QED BY <3>1, <3>2
  <2> QED BY <2>1, <2>4, <2>5, <2>6, Numbers
<1> QED BY <1>1, <1>2, <1>3, <1>4, <1>5 DEF Starts

\* The word of a listed node, when a block is somewhere else.
LEMMA ListWord ==
  ASSUME TypeOK, Shape, NEW i \in OnList, i # NodeCount,
         NEW d \in Desc \cup {NONE}, d # NONE => held[d.idx] > 0
  PROVE  WordOK(d, Fetch(i))
<1>0. Tiles(Starts, Sizes) /\ FreeOK BY DEF Shape
<1>1. i \in Chunks /\ i \in Starts /\ i \in Listed BY ListFacts DEF Listed
<1>2. Sizes[i] = nodes[i].count BY <1>1 DEF Sizes
<1>3. nodes[i].count > 0
  <2>1. Sizes[i] \in Nat \ {0} BY <1>0, <1>1 DEF Tiles
  <2> QED BY <1>2, <2>1
<1>4. i < nodes[i].next /\ nodes[i].next <= NodeCount /\ i + nodes[i].count <= nodes[i].next
  BY <1>1, ListFacts
<1>5. "head" \in nodes[i].status => nodes[i].next = i + nodes[i].count
  BY <1>0, <1>1, Numbers DEF FreeOK
<1>6. ASSUME d # NONE, i <= d.idx PROVE i + nodes[i].count <= d.idx
  <2>1. d.idx \in Chunks /\ held[d.idx] > 0 BY <1>6 DEF Desc
  <2>2. d.idx \in Starts BY <2>1 DEF Starts
  <2>3. d.idx <= i \/ i + nodes[i].count <= d.idx BY <1>0, <1>1, <1>2, <2>2 DEF Tiles
  <2>4. held[i] = 0 BY <1>0, <1>1, Numbers DEF FreeOK
  <2>5. d.idx # i BY <2>1, <2>4
  <2>6. nodes[i].count \in Nat BY <1>1, NodeTypes, Numbers
  <2>7. i \in Nat /\ d.idx \in Nat BY <1>1, <2>1, Numbers
  <2> QED BY <1>6, <2>3, <2>5, <2>6, <2>7
<1> QED BY <1>1, <1>3, <1>4, <1>5, <1>6 DEF WordOK, Fetch, Joinable

\* A free node is not lent.
LEMMA FreeNotLent ==
  ASSUME TypeOK, Shape, NEW i \in Chunks, held[i] > 0
  PROVE  i \notin Listed
<1>1. i \notin OnList BY Numbers DEF Shape, FreeOK
<1> QED BY <1>1, Numbers DEF Listed

LEMMA ShapePartition ==
  ASSUME TypeOK, Shape
  PROVE  Partition
<1> SUFFICES ASSUME NEW c \in Chunks
             PROVE  Cardinality({i \in OnList \cap Chunks : c \in Extent(i, nodes[i].count)})
                      + Cardinality({i \in Chunks : c \in Extent(i, held[i])}) = 1
  BY DEF Partition
<1> DEFINE A == {i \in OnList \cap Chunks : c \in Extent(i, nodes[i].count)}
           B == {i \in Chunks : c \in Extent(i, held[i])}
<1>1. PICK i \in Starts : /\ i <= c /\ c < i + Sizes[i]
                          /\ \A j \in Starts : j <= c /\ c < j + Sizes[j] => j = i
  BY OneTile DEF Shape
<1>2. \A j \in A : j \in Starts /\ j <= c /\ c < j + Sizes[j] /\ j \in OnList
  <2> SUFFICES ASSUME NEW j \in A
               PROVE  j \in Starts /\ j <= c /\ c < j + Sizes[j] /\ j \in OnList
    OBVIOUS
  <2>1. j \in Chunks /\ j \in OnList /\ c \in j .. j + nodes[j].count - 1 BY DEF Extent
  <2>2. nodes[j].count \in Nat BY <2>1, NodeTypes, Numbers
  <2>3. Sizes[j] = nodes[j].count BY <2>1 DEF Sizes
  <2>4. j \in Nat /\ c \in Nat BY <2>1, Numbers
  <2> QED BY <2>1, <2>2, <2>3, <2>4 DEF Starts
<1>3. \A j \in B : j \in Starts /\ j <= c /\ c < j + Sizes[j] /\ j \notin OnList
  <2> SUFFICES ASSUME NEW j \in B
               PROVE  j \in Starts /\ j <= c /\ c < j + Sizes[j] /\ j \notin OnList
    OBVIOUS
  <2>1. j \in Chunks /\ c \in j .. j + held[j] - 1 BY DEF Extent
  <2>2. held[j] \in Nat BY <2>1, Numbers DEF TypeOK
  <2>3. j \in Nat /\ c \in Nat BY <2>1, Numbers
  <2>4. held[j] > 0 BY <2>1, <2>2, <2>3
  <2>5. j \notin OnList BY <2>1, <2>4, FreeNotLent DEF Listed
  <2>6. Sizes[j] = held[j] BY <2>1, <2>5 DEF Sizes
  <2> QED BY <2>1, <2>2, <2>3, <2>4, <2>5, <2>6 DEF Starts
<1>4. i \in Chunks /\ i \in Nat /\ c \in Nat BY Numbers DEF Starts
<1>5. CASE i \in OnList
  <2>1. Sizes[i] = nodes[i].count /\ nodes[i].count \in Nat
    BY <1>4, <1>5, NodeTypes, Numbers DEF Sizes
  <2>2. i \in A BY <1>1, <1>4, <1>5, <2>1 DEF Extent
  <2>3. A = {i} BY <1>1, <1>2, <2>2
  <2>4. B = {} BY <1>1, <1>3, <1>5
  <2>5. Cardinality(A) = 1 /\ Cardinality(B) = 0 BY <2>3, <2>4, FS_Singleton, FS_EmptySet
  <2> QED BY <2>5
<1>6. CASE i \notin OnList
  <2>1. Sizes[i] = held[i] /\ held[i] \in Nat
    BY <1>4, <1>6, Numbers DEF Sizes, TypeOK
  <2>2. i \in B BY <1>1, <1>4, <2>1 DEF Extent
  <2>3. B = {i} BY <1>1, <1>3, <2>2
  <2>4. A = {} BY <1>1, <1>2, <1>6
  <2>5. Cardinality(A) = 0 /\ Cardinality(B) = 1 BY <2>3, <2>4, FS_Singleton, FS_EmptySet
  <2> QED BY <2>5
<1> QED BY <1>5, <1>6
-----------------------------------------------------------------------------
(* Steps that leave the shape.                                             *)

\* The links and the extents of the listed nodes are what they were.
SameList == \A i \in Listed \ {NodeCount} :
              nodes'[i].next = nodes[i].next /\ nodes'[i].count = nodes[i].count

LEMMA ShapeKept ==
  ASSUME TypeOK, Shape, SameList, held' = held, nodes'[0] = nodes[0],
         \A i \in OnList \cap Index :
           "head" \in nodes'[i].status => nodes'[i].next = i + nodes'[i].count
  PROVE  Shape' /\ OnList' = OnList /\ Listed' = Listed
<1>0. IsList(nodes, Listed) /\ Tiles(Starts, Sizes) /\ FreeOK BY DEF Shape
<1>1. IsList(nodes', Listed) BY <1>0 DEF IsList, SameList
<1>2. OnList' = Listed \ {0} /\ Listed' = Listed BY <1>1, ListedIs
<1>3. OnList' = OnList BY <1>2, ListFacts, Numbers DEF Listed
<1>4. Starts' = Starts BY <1>3 DEF Starts
<1>5. Sizes' = Sizes
  <2>1. \A i \in OnList \cap Chunks : nodes'[i].count = nodes[i].count
    BY ListFacts, Numbers DEF SameList, Listed
  <2> QED BY <1>3, <2>1 DEF Sizes
<1>6. FreeOK' BY <1>0, <1>3 DEF FreeOK
<1>7. IsList(nodes, Listed)' BY <1>1, <1>2
<1>8. Tiles(Starts, Sizes)' BY <1>0, <1>4, <1>5 DEF Tiles
<1> QED BY <1>2, <1>3, <1>6, <1>7, <1>8 DEF Shape

\* A step that writes only to blocks.
LEMMA ShapeKeptByOwner ==
  ASSUME TypeOK, Shape, held' = held,
         \A i \in Index : (i \in Chunks => held[i] = 0) => nodes'[i] = nodes[i]
  PROVE  Shape' /\ OnList' = OnList /\ Listed' = Listed
<1>1. \A i \in Listed \ {NodeCount} : nodes'[i] = nodes[i]
  <2> SUFFICES ASSUME NEW i \in Listed \ {NodeCount} PROVE nodes'[i] = nodes[i]
    OBVIOUS
  <2>1. i \in Index BY ListFacts
  <2>2. i \in Chunks => held[i] = 0
    <3>1. SUFFICES ASSUME i \in Chunks PROVE held[i] = 0 OBVIOUS
    <3>2. i \in OnList \cap Index BY <2>1, <3>1, Numbers DEF Listed
    <3> QED BY <3>2 DEF Shape, FreeOK
  <2> QED BY <2>1, <2>2
<1>2. 0 \in Listed \ {NodeCount} BY Numbers DEF Listed
<1>3. \A i \in OnList \cap Index : i \in Listed \ {NodeCount} BY Numbers DEF Listed
<1>4. \A i \in OnList \cap Index :
        "head" \in nodes'[i].status => nodes'[i].next = i + nodes'[i].count
  BY <1>1, <1>3 DEF Shape, FreeOK
<1>5. SameList /\ nodes'[0] = nodes[0] BY <1>1, <1>2 DEF SameList
<1> QED BY <1>4, <1>5, ShapeKept
-----------------------------------------------------------------------------
(* Steps that change the shape: carving, joining and inserting.            *)

LEMMA CarveShape ==
  ASSUME TypeOK, Shape, NEW i \in OnList, i # NodeCount, NEW n \in Nat \ {0},
         n < nodes[i].count, NEW w, nodes' = [nodes EXCEPT ![i] = w],
         w.next = nodes[i].next, w.count = nodes[i].count - n, "head" \notin w.status,
         held' = [held EXCEPT ![i + (nodes[i].count - n)] = n]
  PROVE  /\ Shape' /\ OnList' = OnList
         /\ i + (nodes[i].count - n) \in Chunks
         /\ held[i + (nodes[i].count - n)] = 0 /\ i + (nodes[i].count - n) # i
<1> DEFINE d == i + (nodes[i].count - n)
<1>0. IsList(nodes, Listed) /\ Tiles(Starts, Sizes) /\ FreeOK BY DEF Shape
<1>1. /\ i \in Chunks /\ i \in Index /\ i \in Starts /\ i \in Listed /\ i \in Nat
      /\ nodes[i].count \in Nat
  BY ListFacts, NodeTypes, Numbers DEF Listed
<1>2. nodes'[i] = w /\ \A j \in Index \ {i} : nodes'[j] = nodes[j] BY <1>1 DEF TypeOK
<1>3. IsList(nodes', Listed)
  <2>1. \A j \in Listed \ {NodeCount} : nodes'[j].next = nodes[j].next
    BY <1>2, ListFacts
  <2> QED BY <1>0, <2>1 DEF IsList
<1>4. OnList' = OnList /\ Listed' = Listed
  <2>1. OnList' = Listed \ {0} /\ Listed' = Listed BY <1>3, ListedIs
  <2> QED BY <2>1, ListFacts, Numbers DEF Listed
<1>5. d \in Nat /\ i < d /\ d < i + nodes[i].count /\ d + n = i + nodes[i].count BY <1>1
<1>6. Sizes[i] = nodes[i].count BY <1>1 DEF Sizes
<1>7. i + nodes[i].count \in Starts \cup {NodeCount} BY <1>0, <1>1, <1>6 DEF Tiles
<1>8. d \in Chunks
  <2>1. \A x \in Chunks \cup {NodeCount} : x <= NodeCount BY NodeCountAssumption DEF Chunks
  <2>2. i + nodes[i].count <= NodeCount BY <1>7, <2>1 DEF Starts
  <2> QED BY <1>5, <2>2, <1>1, Numbers DEF Chunks
<1>9. d \notin Starts
  <2>1. SUFFICES ASSUME d \in Starts PROVE FALSE OBVIOUS
  <2>2. d <= i \/ i + Sizes[i] <= d BY <1>0, <1>1, <2>1 DEF Tiles
  <2> QED BY <1>1, <1>5, <1>6, <2>2
<1>10. held[d] = 0 /\ d \notin OnList
  <2>1. held[d] \in Nat BY <1>8, Numbers DEF TypeOK
  <2> QED BY <1>8, <1>9, <2>1 DEF Starts
<1>11. held'[d] = n /\ \A j \in Chunks \ {d} : held'[j] = held[j] BY <1>8 DEF TypeOK
<1>12. Starts' = Starts \cup {d} BY <1>4, <1>8, <1>11 DEF Starts
<1>13. /\ Sizes'[i] = Sizes[i] - n /\ Sizes'[d] = n
       /\ \A j \in Starts \ {i} : Sizes'[j] = Sizes[j]
  <2>1. Sizes'[i] = Sizes[i] - n BY <1>1, <1>2, <1>4, <1>6 DEF Sizes
  <2>2. Sizes'[d] = n BY <1>4, <1>8, <1>10, <1>11 DEF Sizes
  <2>3. ASSUME NEW j \in Starts \ {i} PROVE Sizes'[j] = Sizes[j]
    <3>1. j # d /\ j \in Chunks BY <1>9 DEF Starts
    <3>2. held'[j] = held[j] /\ nodes'[j] = nodes[j] BY <1>2, <1>11, <3>1, Numbers
    <3> QED BY <1>4, <3>1, <3>2 DEF Sizes
  <2> QED BY <2>1, <2>2, <2>3
<1>14. Tiles(Starts', Sizes')
  <2>0. \A j \in Starts : /\ j \in Nat /\ Sizes[j] \in Nat \ {0}
                          /\ j + Sizes[j] \in Starts \cup {NodeCount}
                          /\ \A k \in Starts : k <= j \/ j + Sizes[j] <= k
    BY <1>0, Numbers DEF Tiles, Starts
  <2>1. ASSUME NEW j \in Starts', NEW k \in Starts'
        PROVE  /\ Sizes'[j] \in Nat \ {0} /\ j + Sizes'[j] \in Starts' \cup {NodeCount}
               /\ k <= j \/ j + Sizes'[j] <= k
    <3>1. CASE j = i
      <4>1. i + Sizes'[i] = d /\ Sizes'[i] \in Nat \ {0} BY <1>1, <1>5, <1>6, <1>13
      <4>2. k <= i \/ d <= k
        <5>1. CASE k = d BY <5>1, <1>5
        <5>2. CASE k # d
          <6>1. k \in Starts BY <1>12, <2>1, <5>2
          <6>2. k <= i \/ i + Sizes[i] <= k BY <1>1, <2>0, <6>1
          <6>3. k \in Nat BY <2>0, <6>1
          <6> QED BY <1>1, <1>5, <1>6, <6>2, <6>3
        <5> QED BY <5>1, <5>2
      <4> QED BY <3>1, <4>1, <4>2, <1>12
    <3>2. CASE j = d
      <4>1. d + Sizes'[d] = i + nodes[i].count BY <1>5, <1>13
      <4>2. k <= d \/ i + nodes[i].count <= k
        <5>1. CASE k = d BY <5>1, <1>5
        <5>2. CASE k # d
          <6>1. k \in Starts BY <1>12, <2>1, <5>2
          <6>2. k <= i \/ i + Sizes[i] <= k BY <1>1, <2>0, <6>1
          <6>3. k \in Nat BY <2>0, <6>1
          <6> QED BY <1>1, <1>5, <1>6, <6>2, <6>3
        <5> QED BY <5>1, <5>2
      <4> QED BY <3>2, <4>1, <4>2, <1>7, <1>12, <1>13
    <3>3. CASE j # i /\ j # d
      <4>1. j \in Starts /\ Sizes'[j] = Sizes[j] BY <1>12, <1>13, <2>1, <3>3
      <4>2. k <= j \/ j + Sizes[j] <= k
        <5>1. CASE k = d
          <6>1. i <= j \/ j + Sizes[j] <= i BY <1>1, <2>0, <4>1
          <6>2. j <= i \/ i + Sizes[i] <= j BY <1>1, <2>0, <4>1
          <6> QED BY <1>1, <1>5, <1>6, <2>0, <3>3, <4>1, <5>1, <6>1, <6>2
        <5>2. CASE k # d
          <6>1. k \in Starts BY <1>12, <2>1, <5>2
          <6> QED BY <2>0, <4>1, <6>1
        <5> QED BY <5>1, <5>2
      <4> QED BY <2>0, <4>1, <4>2, <1>12
    <3> QED BY <3>1, <3>2, <3>3
  <2>2. 1 \in Starts' /\ Starts' \subseteq Chunks BY <1>0, <1>8, <1>12 DEF Tiles
  <2> QED BY <2>1, <2>2 DEF Tiles
<1>15. FreeOK'
  <2>1. i # 0 /\ 0 \in Index BY <1>1, Numbers
  <2>2. nodes'[0] = FirstSnapshot.node BY <1>0, <1>2, <2>1 DEF FreeOK
  <2>3. ASSUME NEW j \in OnList \cap Index
        PROVE  /\ held'[j] = 0
               /\ "head" \in nodes'[j].status => nodes'[j].next = j + nodes'[j].count
    <3>1. j \in Chunks /\ j # d BY <1>10, <2>3, ListFacts, Numbers
    <3>2. held'[j] = 0 BY <1>0, <1>11, <2>3, <3>1 DEF FreeOK
    <3>3. "head" \in nodes'[j].status => nodes'[j].next = j + nodes'[j].count
      BY <1>0, <1>2, <2>3 DEF FreeOK
    <3> QED BY <3>2, <3>3
  <2> QED BY <1>4, <2>2, <2>3 DEF FreeOK
<1>16. IsList(nodes, Listed)' BY <1>3, <1>4
<1>17. Tiles(Starts, Sizes)' BY <1>14
<1> QED BY <1>4, <1>5, <1>8, <1>10, <1>15, <1>16, <1>17, <1>1 DEF Shape

LEMMA JoinShape ==
  ASSUME TypeOK, Shape, NEW i \in OnList, i # NodeCount,
         NEW j, j = nodes[i].next, j # NodeCount, j = i + nodes[i].count,
         NEW w, nodes' = [nodes EXCEPT ![i] = w],
         w.next = nodes[j].next, w.count = nodes[i].count + nodes[j].count,
         "head" \in w.status => "head" \in nodes[j].status,
         held' = held
  PROVE  Shape' /\ OnList' = OnList \ {j} /\ j \in OnList /\ j \in Chunks /\ i # j
<1>0. IsList(nodes, Listed) /\ Tiles(Starts, Sizes) /\ FreeOK BY DEF Shape
<1>1. /\ i \in Chunks /\ i \in Index /\ i \in Starts /\ i \in Listed /\ i \in Nat
      /\ nodes[i].count \in Nat
  BY ListFacts, NodeTypes, Numbers DEF Listed
<1>2. j \in OnList /\ i < j BY <1>1, ListFacts
<1>3. /\ j \in Chunks /\ j \in Index /\ j \in Starts /\ j \in Listed /\ j \in Nat
      /\ nodes[j].count \in Nat
  BY <1>2, ListFacts, NodeTypes, Numbers DEF Listed
<1>4. nodes'[i] = w /\ \A k \in Index \ {i} : nodes'[k] = nodes[k] BY <1>1 DEF TypeOK
<1>5. /\ nodes[j].next \in OnList /\ j < nodes[j].next
      /\ \A k \in Listed : k <= j \/ nodes[j].next <= k
      /\ \A k \in Listed : k <= i \/ j <= k
      /\ nodes[j].next \in Nat
  BY <1>1, <1>3, ListFacts, NodeTypes
<1>6. IsList(nodes', Listed \ {j})
  <2>1. 0 \in Listed \ {j} /\ NodeCount \in Listed \ {j} /\ Listed \ {j} \subseteq 0 .. NodeCount
    BY <1>0, <1>3, Numbers DEF IsList
  <2>2. ASSUME NEW k \in (Listed \ {j}) \ {NodeCount}
        PROVE  /\ nodes'[k].next \in Listed \ {j} /\ k < nodes'[k].next
               /\ \A m \in Listed \ {j} : m <= k \/ nodes'[k].next <= m
    <3>0. k \in Index /\ k \in Nat BY <2>2, ListFacts, Numbers
    <3>1. CASE k = i
      <4>1. nodes'[k].next = nodes[j].next BY <1>4, <3>1
      <4>2. nodes[j].next \in Listed \ {j} /\ i < nodes[j].next
        BY <1>1, <1>2, <1>3, <1>5 DEF Listed
      <4>3. ASSUME NEW m \in Listed \ {j} PROVE m <= i \/ nodes[j].next <= m
        <5>1. m \in Nat BY <4>3, <1>0 DEF IsList
        <5>2. (m <= j \/ nodes[j].next <= m) /\ (m <= i \/ j <= m) BY <1>5
        <5> QED BY <1>3, <4>3, <5>1, <5>2
      <4> QED BY <3>1, <4>1, <4>2, <4>3
    <3>2. CASE k # i
      <4>1. nodes'[k] = nodes[k] BY <1>4, <3>0, <3>2
      <4>2. /\ nodes[k].next \in Listed /\ k < nodes[k].next
            /\ \A m \in Listed : m <= k \/ nodes[k].next <= m
        BY <1>0, <2>2 DEF IsList
      <4>3. nodes[k].next # j
        <5>1. SUFFICES ASSUME nodes[k].next = j PROVE FALSE OBVIOUS
        <5>2. i <= k \/ j <= i BY <1>1, <4>2, <5>1
        <5>3. k <= i \/ j <= k BY <1>5, <2>2
        <5> QED BY <1>1, <1>2, <1>3, <3>0, <3>2, <4>2, <5>1, <5>2, <5>3
      <4> QED BY <4>1, <4>2, <4>3
    <3> QED BY <3>1, <3>2
  <2> QED BY <2>1, <2>2 DEF IsList
<1>7. OnList' = OnList \ {j} /\ Listed' = Listed \ {j}
  <2>1. OnList' = (Listed \ {j}) \ {0} /\ Listed' = Listed \ {j} BY <1>6, ListedIs
  <2> QED BY <2>1, ListFacts, Numbers DEF Listed
<1>8. held[i] = 0 /\ held[j] = 0 BY <1>0, <1>1, <1>2, <1>3 DEF FreeOK
<1>9. Starts' = Starts \ {j} BY <1>3, <1>7, <1>8 DEF Starts
<1>10. Sizes[i] = nodes[i].count /\ Sizes[j] = nodes[j].count BY <1>1, <1>2, <1>3 DEF Sizes
<1>11. /\ Sizes'[i] = Sizes[i] + Sizes[j]
       /\ \A k \in Starts \ {i, j} : Sizes'[k] = Sizes[k]
  <2>1. Sizes'[i] = Sizes[i] + Sizes[j] BY <1>1, <1>2, <1>4, <1>7, <1>10 DEF Sizes
  <2>2. ASSUME NEW k \in Starts \ {i, j} PROVE Sizes'[k] = Sizes[k]
    <3>1. k \in Chunks /\ nodes'[k] = nodes[k] BY <1>4, Numbers DEF Starts
    <3> QED BY <1>7, <3>1 DEF Sizes
  <2> QED BY <2>1, <2>2
<1>12. Tiles(Starts', Sizes')
  <2>0. \A k \in Starts : /\ k \in Nat /\ Sizes[k] \in Nat \ {0}
                          /\ k + Sizes[k] \in Starts \cup {NodeCount}
                          /\ \A m \in Starts : m <= k \/ k + Sizes[k] <= m
    BY <1>0, Numbers DEF Tiles, Starts
  <2>1. ASSUME NEW k \in Starts', NEW m \in Starts'
        PROVE  /\ Sizes'[k] \in Nat \ {0} /\ k + Sizes'[k] \in Starts' \cup {NodeCount}
               /\ m <= k \/ k + Sizes'[k] <= m
    <3>0. k \in Starts /\ m \in Starts /\ k # j /\ m # j BY <1>9, <2>1
    <3>1. CASE k = i
      <4>1. i + Sizes'[i] = j + Sizes[j] /\ Sizes'[i] \in Nat \ {0}
        BY <1>1, <1>3, <1>10, <1>11, <2>0
      <4>2. j + Sizes[j] \in Starts \cup {NodeCount} /\ j + Sizes[j] # j /\ Sizes[j] \in Nat
        BY <1>3, <2>0
      <4>3. (m <= i \/ i + Sizes[i] <= m) /\ (m <= j \/ j + Sizes[j] <= m)
        BY <1>1, <1>3, <2>0, <3>0
      <4>4. m <= i \/ j + Sizes[j] <= m
        <5>1. m \in Nat BY <2>0, <3>0
        <5> QED BY <1>1, <1>3, <1>10, <3>0, <4>2, <4>3, <5>1
      <4> QED BY <3>1, <4>1, <4>2, <4>4, <1>9
    <3>2. CASE k # i
      <4>1. Sizes'[k] = Sizes[k] BY <1>11, <3>0, <3>2
      <4>2. k + Sizes[k] # j
        <5>1. SUFFICES ASSUME k + Sizes[k] = j PROVE FALSE OBVIOUS
        <5>2. i <= k \/ j <= i BY <1>1, <2>0, <3>0, <5>1
        <5>3. k <= i \/ j <= k BY <1>1, <1>10, <2>0, <3>0
        <5>4. k \in Nat /\ Sizes[k] \in Nat \ {0} BY <2>0, <3>0
        <5> QED BY <1>1, <1>2, <1>3, <3>2, <5>1, <5>2, <5>3, <5>4
      <4> QED BY <1>9, <2>0, <3>0, <4>1, <4>2
    <3> QED BY <3>1, <3>2
  <2>2. 1 \in Starts' /\ Starts' \subseteq Chunks
    <3>1. 1 # j BY <1>1, <1>2, <1>3, Numbers
    <3> QED BY <1>0, <1>9, <3>1 DEF Tiles
  <2> QED BY <2>1, <2>2 DEF Tiles
<1>13. FreeOK'
  <2>1. i # 0 /\ 0 \in Index BY <1>1, Numbers
  <2>2. nodes'[0] = FirstSnapshot.node BY <1>0, <1>4, <2>1 DEF FreeOK
  <2>3. ASSUME NEW k \in OnList \cap Index
        PROVE  /\ held'[k] = 0
               /\ "head" \in nodes'[k].status => nodes'[k].next = k + nodes'[k].count
    <3>1. CASE k = i
      <4>1. "head" \in w.status => nodes[j].next = j + nodes[j].count
        BY <1>0, <1>2, <1>3 DEF FreeOK
      <4> QED BY <3>1, <4>1, <1>1, <1>3, <1>4, <1>8
    <3>2. CASE k # i BY <3>2, <2>3, <1>0, <1>4 DEF FreeOK
    <3> QED BY <3>1, <3>2
  <2> QED BY <1>7, <2>2, <2>3 DEF FreeOK
<1>14. IsList(nodes, Listed)' BY <1>6, <1>7
<1>15. Tiles(Starts, Sizes)' BY <1>12
<1> QED BY <1>1, <1>2, <1>3, <1>7, <1>13, <1>14, <1>15 DEF Shape

\* A released block becomes part of the free node that ends where it begins.
LEMMA GrowShape ==
  ASSUME TypeOK, Shape, NEW i \in OnList, i # NodeCount,
         NEW d \in Chunks, held[d] > 0, d = i + nodes[i].count,
         NEW w, nodes' = [nodes EXCEPT ![i] = w],
         w.next = nodes[i].next, w.count = nodes[i].count + held[d], "head" \notin w.status,
         held' = [held EXCEPT ![d] = 0]
  PROVE  Shape' /\ OnList' = OnList
<1>0. IsList(nodes, Listed) /\ Tiles(Starts, Sizes) /\ FreeOK BY DEF Shape
<1>1. /\ i \in Chunks /\ i \in Index /\ i \in Starts /\ i \in Listed /\ i \in Nat
      /\ nodes[i].count \in Nat
  BY ListFacts, NodeTypes, Numbers DEF Listed
<1>2. d \notin OnList /\ d \in Nat /\ d \in Starts /\ held[d] \in Nat
  BY FreeNotLent, Numbers DEF Listed, Starts, TypeOK
<1>3. nodes'[i] = w /\ \A k \in Index \ {i} : nodes'[k] = nodes[k] BY <1>1 DEF TypeOK
<1>4. held'[d] = 0 /\ \A k \in Chunks \ {d} : held'[k] = held[k] BY DEF TypeOK
<1>5. IsList(nodes', Listed)
  <2>1. \A k \in Listed \ {NodeCount} : nodes'[k].next = nodes[k].next
    BY <1>3, ListFacts
  <2> QED BY <1>0, <2>1 DEF IsList
<1>6. OnList' = OnList /\ Listed' = Listed
  <2>1. OnList' = Listed \ {0} /\ Listed' = Listed BY <1>5, ListedIs
  <2> QED BY <2>1, ListFacts, Numbers DEF Listed
<1>7. Starts' = Starts \ {d} BY <1>2, <1>4, <1>6 DEF Starts
<1>8. Sizes[i] = nodes[i].count /\ Sizes[d] = held[d] /\ i # d BY <1>1, <1>2 DEF Sizes
<1>9. /\ Sizes'[i] = Sizes[i] + Sizes[d]
      /\ \A k \in Starts \ {i, d} : Sizes'[k] = Sizes[k]
  <2>1. Sizes'[i] = Sizes[i] + Sizes[d] BY <1>1, <1>3, <1>6, <1>8 DEF Sizes
  <2>2. ASSUME NEW k \in Starts \ {i, d} PROVE Sizes'[k] = Sizes[k]
    <3>1. k \in Chunks /\ nodes'[k] = nodes[k] /\ held'[k] = held[k]
      BY <1>3, <1>4, Numbers DEF Starts
    <3> QED BY <1>6, <3>1 DEF Sizes
  <2> QED BY <2>1, <2>2
<1>10. Tiles(Starts', Sizes')
  <2>0. \A k \in Starts : /\ k \in Nat /\ Sizes[k] \in Nat \ {0}
                          /\ k + Sizes[k] \in Starts \cup {NodeCount}
                          /\ \A m \in Starts : m <= k \/ k + Sizes[k] <= m
    BY <1>0, Numbers DEF Tiles, Starts
  <2>1. ASSUME NEW k \in Starts', NEW m \in Starts'
        PROVE  /\ Sizes'[k] \in Nat \ {0} /\ k + Sizes'[k] \in Starts' \cup {NodeCount}
               /\ m <= k \/ k + Sizes'[k] <= m
    <3>0. k \in Starts /\ m \in Starts /\ k # d /\ m # d BY <1>7, <2>1
    <3>1. CASE k = i
      <4>1. i + Sizes'[i] = d + Sizes[d] /\ Sizes'[i] \in Nat \ {0}
        BY <1>1, <1>2, <1>8, <1>9, <2>0
      <4>2. d + Sizes[d] \in Starts \cup {NodeCount} /\ d + Sizes[d] # d /\ Sizes[d] \in Nat
        BY <1>2, <2>0
      <4>3. (m <= i \/ i + Sizes[i] <= m) /\ (m <= d \/ d + Sizes[d] <= m)
        BY <1>1, <1>2, <2>0, <3>0
      <4>4. m <= i \/ d + Sizes[d] <= m
        <5>1. m \in Nat BY <2>0, <3>0
        <5> QED BY <1>1, <1>2, <1>8, <3>0, <4>2, <4>3, <5>1
      <4> QED BY <3>1, <4>1, <4>2, <4>4, <1>7
    <3>2. CASE k # i
      <4>1. Sizes'[k] = Sizes[k] BY <1>9, <3>0, <3>2
      <4>2. k + Sizes[k] # d
        <5>1. SUFFICES ASSUME k + Sizes[k] = d PROVE FALSE OBVIOUS
        <5>2. i <= k \/ d <= i BY <1>1, <2>0, <3>0, <5>1
        <5>3. k <= i \/ d <= k BY <1>1, <1>8, <2>0, <3>0
        <5>4. k \in Nat /\ Sizes[k] \in Nat \ {0} /\ Sizes[i] \in Nat \ {0}
          BY <1>1, <2>0, <3>0
        <5> QED BY <1>1, <1>2, <1>8, <3>2, <5>1, <5>2, <5>3, <5>4
      <4> QED BY <1>7, <2>0, <3>0, <4>1, <4>2
    <3> QED BY <3>1, <3>2
  <2>2. 1 \in Starts' /\ Starts' \subseteq Chunks
    <3>1. 1 # d
      <4>1. Sizes[i] \in Nat \ {0} BY <1>1, <2>0
      <4> QED BY <1>1, <1>8, <4>1, Numbers
    <3> QED BY <1>0, <1>7, <3>1 DEF Tiles
  <2> QED BY <2>1, <2>2 DEF Tiles
<1>11. FreeOK'
  <2>1. i # 0 /\ 0 \in Index BY <1>1, Numbers
  <2>2. nodes'[0] = FirstSnapshot.node BY <1>0, <1>3, <2>1 DEF FreeOK
  <2>3. ASSUME NEW k \in OnList \cap Index
        PROVE  /\ held'[k] = 0
               /\ "head" \in nodes'[k].status => nodes'[k].next = k + nodes'[k].count
    <3>1. k \in Chunks /\ k # d BY <1>2, <2>3, ListFacts, Numbers
    <3> QED BY <1>0, <1>3, <1>4, <2>3, <3>1 DEF FreeOK
  <2> QED BY <1>6, <2>2, <2>3 DEF FreeOK
<1>12. IsList(nodes, Listed)' BY <1>5, <1>6
<1>13. Tiles(Starts, Sizes)' BY <1>10
<1> QED BY <1>6, <1>11, <1>12, <1>13 DEF Shape

\* A released block becomes a node of the list.
LEMMA LinkShape ==
  ASSUME TypeOK, Shape, NEW i \in OnList, i # NodeCount,
         NEW d \in Chunks, held[d] > 0, i + nodes[i].count <= d, d < nodes[i].next,
         nodes[d].next = nodes[i].next, nodes[d].count = held[d], nodes[d].status = {},
         NEW w, nodes' = [nodes EXCEPT ![i] = w],
         w.next = d, w.count = nodes[i].count, w.status = nodes[i].status,
         held' = [held EXCEPT ![d] = 0]
  PROVE  Shape' /\ OnList' = OnList \cup {d}
<1>0. IsList(nodes, Listed) /\ Tiles(Starts, Sizes) /\ FreeOK BY DEF Shape
<1>1. /\ i \in Chunks /\ i \in Index /\ i \in Starts /\ i \in Listed /\ i \in Nat
      /\ nodes[i].count \in Nat /\ nodes[i].next \in Nat
  BY ListFacts, NodeTypes, Numbers DEF Listed
<1>2. /\ d \notin OnList /\ d \notin Listed /\ d \in Nat /\ d \in Starts /\ held[d] \in Nat
      /\ d \in Index
  BY FreeNotLent, Numbers DEF Listed, Starts, TypeOK
<1>3. nodes'[i] = w /\ \A k \in Index \ {i} : nodes'[k] = nodes[k] BY <1>1 DEF TypeOK
<1>4. held'[d] = 0 /\ \A k \in Chunks \ {d} : held'[k] = held[k] BY DEF TypeOK
<1>5. i # d /\ i < d
  <2>1. i # d BY <1>2
  <2> QED BY <1>1, <1>2, <2>1
<1>6. /\ nodes[i].next \in OnList
      /\ \A k \in Listed : k <= i \/ nodes[i].next <= k
  BY <1>1, ListFacts
<1>7. IsList(nodes', Listed \cup {d})
  <2> DEFINE L == Listed \cup {d}
  <2>1. 0 \in L /\ NodeCount \in L /\ L \subseteq 0 .. NodeCount
    BY <1>0, <1>2, Numbers DEF IsList, Chunks
  <2>2. ASSUME NEW k \in L \ {NodeCount}
        PROVE  /\ nodes'[k].next \in L /\ k < nodes'[k].next
               /\ \A m \in L : m <= k \/ nodes'[k].next <= m
    <3>0. k \in Index /\ k \in Nat BY <1>2, <2>2, ListFacts, Numbers
    <3>9. \A m \in Listed : m \in Nat BY <1>0 DEF IsList
    <3>1. CASE k = i
      <4>1. nodes'[k].next = d BY <1>3, <3>1
      <4>2. ASSUME NEW m \in L PROVE m <= i \/ d <= m
        <5>1. CASE m = d BY <5>1, <1>2
        <5>2. CASE m # d
          <6>1. m <= i \/ nodes[i].next <= m BY <1>6, <5>2
          <6>2. m \in Nat BY <3>9, <5>2
          <6> QED BY <1>1, <1>2, <6>1, <6>2
        <5> QED BY <5>1, <5>2
      <4> QED BY <3>1, <4>1, <4>2, <1>5
    <3>2. CASE k = d
      <4>1. nodes'[k].next = nodes[i].next BY <1>2, <1>3, <1>5, <3>2
      <4>2. ASSUME NEW m \in L PROVE m <= d \/ nodes[i].next <= m
        <5>1. CASE m = d BY <5>1, <1>2
        <5>2. CASE m # d
          <6>1. m <= i \/ nodes[i].next <= m BY <1>6, <5>2
          <6>2. m \in Nat BY <3>9, <5>2
          <6> QED BY <1>1, <1>2, <1>5, <6>1, <6>2
        <5> QED BY <5>1, <5>2
      <4>3. nodes[i].next \in L BY <1>6 DEF Listed
      <4> QED BY <3>2, <4>1, <4>2, <4>3
    <3>3. CASE k # i /\ k # d
      <4>1. nodes'[k] = nodes[k] /\ k \in Listed \ {NodeCount} BY <1>3, <2>2, <3>0, <3>3
      <4>2. /\ nodes[k].next \in Listed /\ k < nodes[k].next
            /\ \A m \in Listed : m <= k \/ nodes[k].next <= m
        BY <1>0, <4>1 DEF IsList
      <4>3. d <= k \/ nodes[k].next <= d
        <5>1. i <= k \/ nodes[k].next <= i BY <1>1, <4>2
        <5>2. k <= i \/ nodes[i].next <= k BY <1>6, <4>1
        <5>3. nodes[k].next \in Nat BY <3>9, <4>2
        <5> QED BY <1>1, <1>2, <1>5, <3>0, <3>3, <5>1, <5>2, <5>3
      <4> QED BY <4>1, <4>2, <4>3
    <3> QED BY <3>1, <3>2, <3>3
  <2> QED BY <2>1, <2>2 DEF IsList
<1>8. OnList' = OnList \cup {d} /\ Listed' = Listed \cup {d}
  <2>1. OnList' = (Listed \cup {d}) \ {0} /\ Listed' = Listed \cup {d} BY <1>7, ListedIs
  <2>2. d # 0 BY Numbers
  <2> QED BY <2>1, <2>2, ListFacts, Numbers DEF Listed
<1>9. Starts' = Starts BY <1>2, <1>4, <1>8 DEF Starts
<1>10. Sizes' = Sizes
  <2>1. ASSUME NEW k \in Chunks PROVE Sizes'[k] = Sizes[k]
    <3>1. CASE k = d
      <4>1. nodes'[d] = nodes[d] BY <1>2, <1>3, <1>5
      <4> QED BY <1>2, <1>8, <3>1, <4>1 DEF Sizes
    <3>2. CASE k # d
      <4>1. held'[k] = held[k] /\ nodes'[k].count = nodes[k].count
        BY <1>3, <1>4, <2>1, <3>2, Numbers
      <4> QED BY <1>8, <3>2, <4>1 DEF Sizes
    <3> QED BY <3>1, <3>2
  <2> QED BY <2>1 DEF Sizes
<1>11. FreeOK'
  <2>1. i # 0 /\ 0 \in Index BY <1>1, Numbers
  <2>2. nodes'[0] = FirstSnapshot.node BY <1>0, <1>3, <2>1 DEF FreeOK
  <2>3. ASSUME NEW k \in OnList' \cap Index
        PROVE  /\ held'[k] = 0
               /\ "head" \in nodes'[k].status => nodes'[k].next = k + nodes'[k].count
    <3>1. CASE k = d
      <4>1. nodes'[d] = nodes[d] BY <1>2, <1>3, <1>5
      <4> QED BY <1>4, <3>1, <4>1
    <3>2. CASE k = i
      <4>1. held'[i] = 0 BY <1>0, <1>1, <1>4, <1>5 DEF FreeOK
      <4>2. "head" \notin nodes[i].status
        <5>1. "head" \in nodes[i].status => nodes[i].next = i + nodes[i].count
          BY <1>0, <1>1 DEF FreeOK
        <5> QED BY <5>1, <1>1, <1>2
      <4> QED BY <1>3, <3>2, <4>1, <4>2
    <3>3. CASE k # d /\ k # i
      <4>1. k \in OnList \cap Index /\ k \in Chunks BY <1>8, <2>3, <3>3, ListFacts, Numbers
      <4> QED BY <1>0, <1>3, <1>4, <3>3, <4>1 DEF FreeOK
    <3> QED BY <3>1, <3>2, <3>3
  <2> QED BY <2>2, <2>3 DEF FreeOK
<1>12. IsList(nodes, Listed)' BY <1>7, <1>8
<1>13. Tiles(Starts, Sizes)' BY <1>0, <1>9, <1>10
<1> QED BY <1>8, <1>11, <1>12, <1>13 DEF Shape
-----------------------------------------------------------------------------
(* What a step of the search leaves behind.                                *)

RegTypes ==
  /\ pc \in [Procs -> Labels]
  /\ md \in [Procs -> Desc \cup {NONE}]
  /\ need \in [Procs -> {0} \cup Needs]
  /\ fast \in [Procs -> BOOLEAN]
  /\ retry \in [Procs -> 0 .. RetryLimit + LightRetryLimit]
  /\ pred \in [Procs -> Snapshot]
  /\ curr \in [Procs -> Snapshot]
  /\ refs \in [Desc -> Nat]

OthersKept(p) ==
  \A q \in Procs \ {p} :
    /\ pc'[q] = pc[q] /\ md'[q] = md[q] /\ need'[q] = need[q]
    /\ pred'[q] = pred[q] /\ curr'[q] = curr[q]

\* The call ends without success, searches on, or has found its node.
Result(p) ==
  /\ OthersKept(p) /\ RegTypes' /\ ValuesOK(p)'
  /\ \/ /\ pc'[p] = "idle" /\ md'[p] = NONE
        /\ refs' = IF md[p] = NONE THEN refs ELSE [refs EXCEPT ![md[p]] = 1]
     \/ /\ md'[p] = md[p] /\ need'[p] = need[p] /\ refs' = refs
        /\ \/ pc'[p] \in SearchLabels
           \/ md[p] = NONE /\ pc'[p] = "carve"
           \/ md[p] # NONE /\ pc'[p] = "link" /\ ~ IsNeighbor(p, curr'[p])
           \/ md[p] # NONE /\ pc'[p] = "raise" /\ IsNeighbor(p, curr'[p])

LEMMA BlankTypes ==
  /\ NoSnapshot \in Snapshot /\ FirstSnapshot \in Snapshot
  /\ NONE \notin Desc /\ NONE.idx = 0
  /\ 0 \in 0 .. RetryLimit + LightRetryLimit
  /\ RetryLimit \in 0 .. RetryLimit + LightRetryLimit
  /\ LightRetryLimit \in 0 .. RetryLimit + LightRetryLimit
<1>1. 0 \in 0 .. Versions - 1 /\ 0 \in 0 .. NodeCount + MaxDups /\ 1 \in 0 .. NodeCount + MaxDups
      /\ 0 \in 0 .. NodeCount
  BY NodeCountAssumption, LimitsAssumption
<1>2. NoSnapshot \in Snapshot
  BY <1>1, Numbers DEF NoSnapshot, Blank, Snapshot, Node
<1>3. FirstSnapshot \in Snapshot
  BY <1>1, Numbers DEF FirstSnapshot, Blank, Snapshot, Node
<1>4. NONE \notin Desc /\ NONE.idx = 0
  BY Numbers DEF NONE, Desc
<1> QED BY <1>2, <1>3, <1>4, LimitsAssumption

LEMMA SnapshotTypes ==
  ASSUME NEW s \in Snapshot
  PROVE  /\ s.idx \in Index /\ s.idx \in Nat /\ s.node \in Node
         /\ s.node.ver \in 0 .. Versions - 1 /\ s.node.count \in Nat /\ s.node.next \in Nat
         /\ s.node.next <= NodeCount + MaxDups /\ s.node.count <= NodeCount
         /\ s.node.status \subseteq {"head", "tail"}
<1>1. s.idx \in Index /\ s.node \in Node BY DEF Snapshot
<1>2. /\ s.node.ver \in 0 .. Versions - 1 /\ s.node.count \in 0 .. NodeCount
      /\ s.node.next \in 0 .. NodeCount + MaxDups /\ s.node.status \in SUBSET {"head", "tail"}
  BY <1>1 DEF Node
<1>3. s.idx \in Nat BY <1>1, Numbers
<1>4. /\ s.node.count \in Nat /\ s.node.count <= NodeCount
      /\ s.node.next \in Nat /\ s.node.next <= NodeCount + MaxDups
  BY <1>2, NodeCountAssumption, LimitsAssumption
<1> QED BY <1>1, <1>2, <1>3, <1>4

LEMMA DescTypes ==
  ASSUME NEW d \in Desc
  PROVE  d.idx \in Chunks /\ d.idx \in Nat /\ d.ver \in 0 .. Versions - 1
BY Numbers DEF Desc

LEMMA TypesOfRegs ==
  ASSUME TypeOK
  PROVE  RegTypes
BY DEF TypeOK, RegTypes, Snapshot

LEMMA FailResult ==
  ASSUME TypeOK, NEW p \in Procs, Fail(p)
  PROVE  Result(p) /\ pc'[p] = "idle"
<1>0. RegTypes BY TypesOfRegs
<1>1. \A d \in Desc : [refs EXCEPT ![d] = 1] \in [Desc -> Nat] BY DEF TypeOK
<1>2. refs' \in [Desc -> Nat]
  <2>1. md[p] \in Desc \cup {NONE} BY DEF TypeOK
  <2> QED BY <1>1, <2>1 DEF Fail, TypeOK
<1>3. RegTypes'
  <2>1. md' \in [Procs -> Desc \cup {NONE}] BY DEF Fail, Finish, TypeOK
  <2>2. pc' \in [Procs -> Labels] BY DEF Fail, Finish, GoTo, TypeOK, Labels
  <2>3. need' \in [Procs -> {0} \cup Needs] /\ fast' \in [Procs -> BOOLEAN]
    BY DEF Fail, Finish, TypeOK
  <2>4. retry' \in [Procs -> 0 .. RetryLimit + LightRetryLimit]
    BY BlankTypes DEF Fail, Finish, TypeOK
  <2>5. pred' \in [Procs -> Snapshot] /\ curr' \in [Procs -> Snapshot]
    BY <1>0, BlankTypes DEF Fail, Finish, RegTypes
  <2> QED BY <1>2, <2>1, <2>2, <2>3, <2>4, <2>5 DEF RegTypes
<1>4. OthersKept(p) BY DEF Fail, Finish, GoTo, TypeOK, OthersKept
<1>5. pc'[p] = "idle" /\ md'[p] = NONE BY DEF Fail, Finish, GoTo, TypeOK
<1>6. ValuesOK(p)' BY <1>5 DEF ValuesOK, PredAwaits
<1> QED BY <1>3, <1>4, <1>5, <1>6 DEF Result, Fail

LEMMA SearchTypes ==
  ASSUME TypeOK, NEW p \in Procs, NEW n \in 0 .. RetryLimit + LightRetryLimit, Search(p, n)
  PROVE  /\ pc' \in [Procs -> Labels] /\ pc'[p] = "start"
         /\ retry' \in [Procs -> 0 .. RetryLimit + LightRetryLimit]
         /\ pred' \in [Procs -> Snapshot] /\ curr' \in [Procs -> Snapshot]
         /\ \A q \in Procs \ {p} : pc'[q] = pc[q] /\ pred'[q] = pred[q] /\ curr'[q] = curr[q]
         /\ ValuesOK(p)'
<1>0. RegTypes BY TypesOfRegs
<1>1. pc' \in [Procs -> Labels] /\ pc'[p] = "start" BY DEF Search, GoTo, TypeOK, Labels
<1>2. retry' \in [Procs -> 0 .. RetryLimit + LightRetryLimit] BY DEF Search, TypeOK
<1>3. pred' \in [Procs -> Snapshot] /\ curr' \in [Procs -> Snapshot]
  BY <1>0, BlankTypes DEF Search, RegTypes
<1>4. \A q \in Procs \ {p} : pc'[q] = pc[q] /\ pred'[q] = pred[q] /\ curr'[q] = curr[q]
  BY DEF Search, GoTo, TypeOK
<1> QED BY <1>1, <1>2, <1>3, <1>4 DEF ValuesOK, PredAwaits

LEMMA SearchResult ==
  ASSUME TypeOK, NEW p \in Procs, NEW n \in 0 .. RetryLimit + LightRetryLimit, Search(p, n),
         UNCHANGED <<md, need, fast, refs>>
  PROVE  Result(p) /\ pc'[p] = "start"
<1>0. RegTypes BY TypesOfRegs
<1>1. RegTypes' BY <1>0, SearchTypes DEF RegTypes
<1>2. OthersKept(p) BY SearchTypes DEF OthersKept
<1> QED BY <1>1, <1>2, SearchTypes DEF Result, SearchLabels

LEMMA RestartResult ==
  ASSUME TypeOK, NEW p \in Procs, Restart(p)
  PROVE  Result(p) /\ pc'[p] \in {"idle", "start"}
<1>1. CASE retry[p] = 0 BY <1>1, FailResult DEF Restart
<1>2. CASE retry[p] # 0
  <2>1. retry[p] \in 0 .. RetryLimit + LightRetryLimit BY DEF TypeOK
  <2>2. retry[p] - 1 \in 0 .. RetryLimit + LightRetryLimit BY <1>2, <2>1, LimitsAssumption
  <2> QED BY <1>2, <2>2, SearchResult DEF Restart
<1> QED BY <1>1, <1>2

\* Where a visit leads, and with which snapshots.
Led(p, s) ==
  \/ pc'[p] = "idle"
  \/ pc'[p] = "next" /\ pred'[p] = s
  \/ pc'[p] \in {"carve", "link", "raise"} /\ curr'[p] = s

LEMMA VisitResult ==
  ASSUME TypeOK, NEW p \in Procs, NEW s \in Snapshot, WordOK(md[p], s),
         "tail" \notin s.node.status, md[p] # NONE => s.idx <= md[p].idx,
         Visit(p, s)
  PROVE  Result(p) /\ Led(p, s)
<1>0. RegTypes BY TypesOfRegs
<1>n. /\ md[p] \in Desc \cup {NONE} /\ (md[p] # NONE => md[p].idx \in Nat)
      /\ s.idx \in Nat /\ s.node.count \in Nat /\ s.node.next \in Nat
  <2>1. md[p] \in Desc \cup {NONE} BY DEF TypeOK
  <2>2. md[p] # NONE => md[p].idx \in Nat BY <2>1, DescTypes
  <2> QED BY <2>1, <2>2, SnapshotTypes
<1>1. CASE md[p] = NONE /\ IsEnoughChunk(p, s) /\ GoTo(p, "carve")
           /\ curr' = [curr EXCEPT ![p] = s] /\ pred' = [pred EXCEPT ![p] = NoSnapshot]
           /\ UNCHANGED <<md, need, fast, retry, refs>>
  <2>1. pc' \in [Procs -> Labels] /\ pc'[p] = "carve" BY <1>1 DEF GoTo, TypeOK, Labels
  <2>2. curr'[p] = s /\ pred' \in [Procs -> Snapshot] /\ curr' \in [Procs -> Snapshot]
    BY <1>0, <1>1, BlankTypes DEF RegTypes
  <2>3. RegTypes' BY <1>0, <1>1, <2>1, <2>2 DEF RegTypes
  <2>4. OthersKept(p) BY <1>1 DEF OthersKept, GoTo, TypeOK
  <2>5. ValuesOK(p)' BY <1>1, <2>1, <2>2 DEF ValuesOK, PredAwaits, IsEnoughChunk
  <2> QED BY <1>1, <2>1, <2>2, <2>3, <2>4, <2>5 DEF Result, Led
<1>2. CASE md[p] # NONE /\ IsPredecessor(p, s)
           /\ GoTo(p, IF IsNeighbor(p, s) THEN "raise" ELSE "link")
           /\ curr' = [curr EXCEPT ![p] = s] /\ pred' = [pred EXCEPT ![p] = NoSnapshot]
           /\ UNCHANGED <<md, need, fast, retry, refs>>
  <2>1. pc' \in [Procs -> Labels] /\ pc'[p] = (IF IsNeighbor(p, s) THEN "raise" ELSE "link")
    BY <1>2 DEF GoTo, TypeOK, Labels
  <2>2. curr'[p] = s /\ pred' \in [Procs -> Snapshot] /\ curr' \in [Procs -> Snapshot]
    BY <1>0, <1>2, BlankTypes DEF RegTypes
  <2>3. RegTypes' BY <1>0, <1>2, <2>1, <2>2 DEF RegTypes
  <2>4. OthersKept(p) BY <1>2 DEF OthersKept, GoTo, TypeOK
  <2>5. s.idx + s.node.count <= md[p].idx /\ md[p].idx < s.node.next
    BY <1>2 DEF WordOK, IsPredecessor
  <2>6. pc'[p] \in {"raise", "link"} /\ md'[p] = md[p] BY <1>2, <2>1
  <2>7. ValuesOK(p)' BY <2>2, <2>5, <2>6 DEF ValuesOK, PredAwaits
  <2> QED BY <1>2, <2>1, <2>2, <2>3, <2>4, <2>6, <2>7 DEF Result, Led
<1>3. CASE /\ IF md[p] = NONE THEN ~ IsEnoughChunk(p, s) ELSE ~ IsPredecessor(p, s)
           /\ IF s.node.next = NodeCount
                THEN Fail(p)
                ELSE /\ pred' = [pred EXCEPT ![p] = s]
                     /\ curr' = [curr EXCEPT ![p] = NoSnapshot]
                     /\ GoTo(p, "next")
                     /\ UNCHANGED <<md, need, fast, retry, refs>>
  <2>a. CASE s.node.next = NodeCount BY <1>3, <2>a, FailResult DEF Led
  <2>b. CASE s.node.next # NodeCount
    <3>1. pc' \in [Procs -> Labels] /\ pc'[p] = "next" /\ md'[p] = md[p]
      BY <1>3, <2>b DEF GoTo, TypeOK, Labels
    <3>2. pred'[p] = s /\ pred' \in [Procs -> Snapshot] /\ curr' \in [Procs -> Snapshot]
      BY <1>0, <1>3, <2>b, BlankTypes DEF RegTypes
    <3>3. RegTypes' BY <1>0, <1>3, <2>b, <3>1, <3>2 DEF RegTypes
    <3>4. OthersKept(p) BY <1>3, <2>b DEF OthersKept, GoTo, TypeOK
    <3>5. PassedOK(md[p], s)
      <4>1. s.node.next < NodeCount BY <1>n, <2>b, Numbers DEF WordOK
      <4>2. md[p] # NONE => s.node.next <= md[p].idx BY <1>n, <1>3 DEF IsPredecessor
      <4> QED BY <4>1, <4>2 DEF PassedOK
    <3>6. ValuesOK(p)' BY <3>1, <3>2, <3>5 DEF ValuesOK, PredAwaits
    <3>7. need'[p] = need[p] /\ refs' = refs BY <1>3, <2>b
    <3> QED BY <3>1, <3>2, <3>3, <3>4, <3>6, <3>7 DEF Result, Led, SearchLabels
  <2> QED BY <2>a, <2>b
<1> QED BY <1>1, <1>2, <1>3 DEF Visit
-----------------------------------------------------------------------------
(* Blocks and references.                                                  *)

LEMMA OwnKept ==
  ASSUME NEW q \in Procs, OwnOK(q),
         pc'[q] = pc[q], md'[q] = md[q], need'[q] = need[q], curr'[q] = curr[q],
         md[q] # NONE => /\ held'[md[q].idx] = held[md[q].idx]
                         /\ nodes'[md[q].idx] = nodes[md[q].idx]
                         /\ \A r \in Procs : md'[r].idx = md[q].idx => r = q
  PROVE  OwnOK(q)'
<1>1. md[q] # NONE => BlockOK(q)'
  BY DEF OwnOK, BlockOK, LinkedOK, IsNeighbor
<1> QED BY <1>1 DEF OwnOK

LEMMA RefKept ==
  ASSUME TypeOK, NEW d \in Desc, RefOK(d), refs'[d] = refs[d],
         held'[d.idx] = held[d.idx], nodes'[d.idx] = nodes[d.idx],
         dups' \in Nat, dups <= dups', \A r \in Procs : md'[r].idx # d.idx
  PROVE  RefOK(d)'
<1>1. refs[d] \in Nat /\ dups \in Nat BY LimitsAssumption DEF TypeOK
<1>2. refs'[d] <= dups' + 1 BY <1>1 DEF RefOK
<1> QED BY <1>2 DEF RefOK

Blocks == LentOK /\ HadOK /\ RefsOK /\ \A q \in Procs : OwnOK(q)

\* A step of the search leaves the blocks alone.
LEMMA SearchBlocks ==
  ASSUME TypeOK, Blocks, NEW p \in Procs, pc[p] \in SearchLabels \cup {"carve"}, Result(p),
         held' = held, dups' = dups,
         \A i \in Chunks : held[i] > 0 => nodes'[i] = nodes[i]
  PROVE  Blocks'
<1>0. /\ \A q \in Procs : md[q] \in Desc \cup {NONE} /\ md'[q] \in {md[q], NONE}
      /\ dups \in Nat /\ \A d \in Desc : refs[d] \in Nat
      /\ \A q \in Procs : q # p => /\ pc'[q] = pc[q] /\ md'[q] = md[q] /\ need'[q] = need[q]
                                   /\ curr'[q] = curr[q]
  BY LimitsAssumption DEF TypeOK, Result, OthersKept
<1>1. \A i \in Chunks : \A q \in Procs : md'[q].idx = i => md[q].idx = i
  BY <1>0, BlankTypes, Numbers
<1>2. LentOK'
  <2> SUFFICES ASSUME NEW i \in Chunks, held[i] > 0
               PROVE  \/ nodes'[i].count = held[i]
                      \/ \E q \in Procs : pc'[q] = "label" /\ md'[q].idx = i
    BY DEF LentOK
  <2>1. CASE nodes[i].count = held[i] BY <2>1
  <2>2. CASE \E q \in Procs : pc[q] = "label" /\ md[q].idx = i
    <3>1. PICK q \in Procs : pc[q] = "label" /\ md[q].idx = i BY <2>2
    <3>2. q # p BY <3>1 DEF SearchLabels
    <3> QED BY <1>0, <3>1, <3>2
  <2> QED BY <2>1, <2>2 DEF LentOK, Blocks
<1>3. RefsOK'
  <2> SUFFICES ASSUME NEW d \in Desc, refs'[d] > 0 PROVE RefOK(d)' BY DEF RefsOK
  <2>0. d.idx \in Chunks BY DescTypes
  <2>1. CASE refs'[d] = refs[d]
    <3>1. RefOK(d) BY <2>1 DEF Blocks, RefsOK
    <3>2. held[d.idx] > 0 BY <3>1 DEF RefOK
    <3>3. \A r \in Procs : md'[r].idx # d.idx BY <1>1, <2>0, <3>1 DEF RefOK
    <3> QED BY <1>0, <2>0, <2>1, <3>1, <3>2, <3>3, RefKept
  <2>2. CASE refs'[d] # refs[d]
    <3>1. /\ pc'[p] = "idle" /\ md'[p] = NONE /\ md[p] # NONE
          /\ refs' = [refs EXCEPT ![md[p]] = 1]
      BY <2>2 DEF Result
    <3>2. d = md[p] /\ refs'[d] = 1 BY <2>2, <3>1 DEF TypeOK
    <3>3. BlockOK(p) /\ \A q \in Procs : md[q].idx = d.idx => q = p
      BY <3>1, <3>2 DEF Blocks, OwnOK
    <3>4. pc[p] \in SearchLabels BY <3>1 DEF Blocks, OwnOK
    <3>5. nodes[d.idx].ver = d.ver /\ nodes[d.idx].next = 0 /\ held[d.idx] > 0
      BY <3>2, <3>3, <3>4 DEF BlockOK
    <3>6. \A q \in Procs : md'[q].idx # d.idx
      BY <1>1, <2>0, <3>1, <3>3, BlankTypes, Numbers
    <3> QED BY <1>0, <2>0, <3>2, <3>5, <3>6 DEF RefOK
  <2> QED BY <2>1, <2>2
<1>4. ASSUME NEW q \in Procs PROVE OwnOK(q)'
  <2>1. md[q] # NONE => /\ md[q].idx \in Chunks /\ held[md[q].idx] > 0
                        /\ \A r \in Procs : md'[r].idx = md[q].idx => r = q
    BY <1>0, <1>1, DescTypes DEF Blocks, OwnOK, BlockOK
  <2>2. CASE q # p BY <1>0, <2>1, <2>2, OwnKept DEF Blocks
  <2>3. CASE q = p /\ pc'[p] = "idle" /\ md'[p] = NONE
    BY <2>3 DEF OwnOK, SearchLabels, OwnerLabels
  <2>4. CASE q = p /\ md'[p] = md[p] /\ need'[p] = need[p] /\ ~ (pc'[p] = "idle")
    <3>1. OwnOK(p) BY DEF Blocks
    <3>2. \/ pc'[p] \in SearchLabels
          \/ md[p] = NONE /\ pc'[p] = "carve"
          \/ md[p] # NONE /\ pc'[p] = "link" /\ ~ IsNeighbor(p, curr'[p])
          \/ md[p] # NONE /\ pc'[p] = "raise" /\ IsNeighbor(p, curr'[p])
      BY <2>4 DEF Result
    <3>3. md[p] = NONE => need[p] \in Needs BY <3>1 DEF OwnOK
    <3>4. ASSUME md[p] # NONE PROVE BlockOK(p)'
      <4>1. pc[p] \in SearchLabels BY <3>1, <3>4 DEF OwnOK
      <4>2. /\ nodes[md[p].idx].ver = md[p].ver /\ nodes[md[p].idx].next = 0
            /\ held[md[p].idx] > 0
        BY <3>1, <3>4, <4>1 DEF OwnOK, BlockOK
      <4>3. nodes'[md[p].idx] = nodes[md[p].idx] BY <2>1, <2>4, <3>4
      <4>4. IsNeighbor(p, curr'[p]) <=> IsNeighbor(p, curr[p])' BY <2>4 DEF IsNeighbor
      <4> QED BY <2>4, <3>2, <3>4, <4>2, <4>3, <4>4 DEF BlockOK, SearchLabels, LinkedOK
    <3> QED BY <2>1, <2>4, <3>2, <3>3, <3>4 DEF OwnOK, SearchLabels, OwnerLabels
  <2> QED BY <2>2, <2>3, <2>4 DEF Result, SearchLabels
<1>5. HadOK'
  <2> SUFFICES ASSUME NEW i \in Chunks, held[i] > 0
               PROVE  \/ \E q \in Procs : md'[q].idx = i
                      \/ \E d \in Desc : d.idx = i /\ refs'[d] > 0
    BY DEF HadOK
  <2>1. CASE \E q \in Procs : md[q].idx = i
    <3>1. PICK q \in Procs : md[q].idx = i BY <2>1
    <3>2. CASE md'[q] = md[q] BY <3>1, <3>2
    <3>3. CASE md'[q] # md[q]
      <4>1. q = p /\ pc'[p] = "idle" /\ md[p] \in Desc /\ refs' = [refs EXCEPT ![md[p]] = 1]
        BY <1>0, <3>3 DEF Result
      <4>2. refs'[md[p]] = 1 BY <4>1 DEF TypeOK
      <4> QED BY <3>1, <4>1, <4>2
    <3> QED BY <3>2, <3>3
  <2>2. CASE \E d \in Desc : d.idx = i /\ refs[d] > 0
    <3>1. PICK d \in Desc : d.idx = i /\ refs[d] > 0 BY <2>2
    <3>2. refs'[d] > 0 BY <3>1 DEF Result, TypeOK
    <3> QED BY <3>1, <3>2
  <2> QED BY <2>1, <2>2 DEF HadOK, Blocks
<1> QED BY <1>2, <1>3, <1>4, <1>5 DEF Blocks
-----------------------------------------------------------------------------
(* The snapshots of the others.                                            *)

\* A listed node stays listed, or was the second of a pair that was joined.
ListKeeps ==
  \A j \in Listed :
    \/ j \in Listed'
    \/ /\ nodes'[j] = nodes[j] /\ "tail" \in nodes[j].status
       /\ \A r \in Procs \ dead :
            pc[r] = "markTail" /\ curr[r].idx = j => ~ Unmodified(curr[r])

\* A pair that can still be joined is left alone.
PairKept(p, q) ==
  pc[q] = "join" /\ Unmodified(pred[q]) /\ Unmodified(pred[q])' =>
    /\ nodes'[curr[q].idx] = nodes[curr[q].idx]
    /\ pc'[p] = "markTail" => curr'[p].idx # curr[q].idx

LEMMA NothingReturns ==
  ASSUME ~ WordReturns, NEW q \in Procs \ dead
  PROVE  /\ pc[q] \in PredAwaits /\ pred'[q] = pred[q] /\ Unmodified(pred[q])'
              => Unmodified(pred[q])
         /\ pc[q] \in CurrAwaits /\ curr'[q] = curr[q] /\ Unmodified(curr[q])'
              => Unmodified(curr[q])
BY DEF WordReturns

LEMMA OthersFresh ==
  ASSUME IInv, ~ WordReturns, NEW p \in Procs, OthersKept(p), dead \subseteq dead', ListKeeps,
         NEW q \in Procs \ dead', q # p, PairKept(p, q)
  PROVE  FreshOK(q)'
<1>0. /\ q \in Procs \ dead /\ FreshOK(q) /\ ValuesOK(q)
      /\ pc'[q] = pc[q] /\ pred'[q] = pred[q] /\ curr'[q] = curr[q] /\ md'[q] = md[q]
  BY DEF IInv, OthersKept
<1>1. ASSUME pc[q] \in PredAwaits, Unmodified(pred[q])'
      PROVE  Unmodified(pred[q]) /\ pred[q].idx \in Listed'
  <2>1. Unmodified(pred[q]) /\ pred[q].idx \in Listed BY <1>0, <1>1, NothingReturns DEF FreshOK
  <2>2. "tail" \notin nodes[pred[q].idx].status
    BY <1>0, <1>1, <2>1 DEF ValuesOK, PassedOK, Unmodified
  <2> QED BY <2>1, <2>2 DEF ListKeeps
<1>2. ASSUME pc[q] \in CurrAwaits, Unmodified(curr[q])'
      PROVE  curr[q].idx \in OnList'
  <2>1. Unmodified(curr[q]) /\ curr[q].idx \in OnList BY <1>0, <1>2, NothingReturns DEF FreshOK
  <2>2. curr[q].idx \in Listed /\ curr[q].idx # 0
    BY <2>1, ListFacts, Numbers DEF Listed, IInv
  <2>3. CASE pc[q] = "markTail" BY <1>0, <2>1, <2>2, <2>3 DEF ListKeeps, Listed
  <2>4. CASE pc[q] # "markTail"
    <3>1. "tail" \notin curr[q].node.status
      BY <1>0, <1>2, <2>4 DEF CurrAwaits, ValuesOK
    <3>2. "tail" \notin nodes[curr[q].idx].status BY <2>1, <3>1 DEF Unmodified
    <3> QED BY <2>2, <3>2 DEF ListKeeps, Listed
  <2> QED BY <2>3, <2>4
<1>3. ASSUME pc[q] = "check", Unmodified(pred[q])' PROVE WordOK(md[q], curr[q])
  BY <1>0, <1>1, <1>3 DEF FreshOK, PredAwaits
<1>4. ASSUME pc[q] = "join", Unmodified(pred[q])'
      PROVE  Unmodified(curr[q])' /\ JoinsAlone(q)'
  <2>1. Unmodified(pred[q]) BY <1>1, <1>4 DEF PredAwaits
  <2>2. Unmodified(curr[q]) /\ JoinsAlone(q) BY <1>0, <1>4, <2>1 DEF FreshOK
  <2>3. nodes'[curr[q].idx] = nodes[curr[q].idx] BY <1>4, <2>1 DEF PairKept
  <2>4. Unmodified(curr[q])' BY <1>0, <2>2, <2>3 DEF Unmodified
  <2>5. ASSUME NEW r \in Procs \ dead', pc'[r] = "markTail", curr'[r].idx = curr[q].idx
        PROVE  ~ Unmodified(curr[r])'
    <3>1. r # p BY <1>4, <2>1, <2>5 DEF PairKept
    <3>2. pc[r] = "markTail" /\ curr'[r] = curr[r] /\ r \in Procs \ dead
      BY <2>5, <3>1 DEF OthersKept
    <3>3. ~ Unmodified(curr[r]) BY <2>2, <2>5, <3>2 DEF JoinsAlone
    <3> QED BY <3>2, <3>3, NothingReturns DEF CurrAwaits
  <2> QED BY <1>0, <2>4, <2>5 DEF JoinsAlone
<1> QED BY <1>0, <1>1, <1>2, <1>3, <1>4 DEF FreshOK

\* Steps that leave the list, and every marked pair of it.
LEMMA OthersFreshKept ==
  ASSUME IInv, ~ WordReturns, NEW p \in Procs, OthersKept(p), dead \subseteq dead',
         OnList \subseteq OnList', pc'[p] # "markTail",
         \A j \in OnList \cap Index : nodes'[j] # nodes[j] => "tail" \notin nodes[j].status
  PROVE  \A q \in Procs \ dead' : q # p => FreshOK(q)'
<1> SUFFICES ASSUME NEW q \in Procs \ dead', q # p PROVE FreshOK(q)' OBVIOUS
<1>1. ListKeeps BY DEF ListKeeps, Listed
<1>2. ASSUME pc[q] = "join", Unmodified(pred[q])
      PROVE  nodes'[curr[q].idx] = nodes[curr[q].idx]
  <2>1. FreshOK(q) /\ ValuesOK(q) /\ TypeOK /\ Shape BY DEF IInv
  <2>2. Unmodified(curr[q]) /\ "tail" \in curr[q].node.status
        /\ curr[q].idx = pred[q].node.next /\ pred[q].idx \in Listed
        /\ pred[q].node.next < NodeCount /\ WordOK(md[q], curr[q])
    BY <1>2, <2>1 DEF FreshOK, ValuesOK, PredAwaits, PassedOK
  <2>3. curr[q].idx \in Chunks BY <2>2 DEF WordOK
  <2>4. pred[q].idx # NodeCount
    <3>1. pred[q] \in Snapshot BY <2>1, TypesOfRegs DEF RegTypes
    <3> QED BY <3>1, SnapshotTypes, Numbers
  <2>5. nodes[pred[q].idx].next \in OnList BY <2>1, <2>2, <2>4, ListFacts
  <2>6. curr[q].idx \in OnList BY <1>2, <2>2, <2>5 DEF Unmodified
  <2> QED BY <2>2, <2>3, <2>6, Numbers DEF Unmodified
<1>3. PairKept(p, q) BY <1>2 DEF PairKept
<1> QED BY <1>1, <1>3, OthersFresh
-----------------------------------------------------------------------------
(* The steps of the search.                                                *)

LEMMA Combine ==
  ASSUME IInv, NEW p \in Procs, OthersKept(p), TypeOK', Shape', Blocks', ValuesOK(p)',
         p \notin dead' => FreshOK(p)', \A q \in Procs \ dead' : q # p => FreshOK(q)'
  PROVE  IInv'
<1>1. ASSUME NEW q \in Procs, q # p PROVE ValuesOK(q)'
  <2>1. ValuesOK(q) BY DEF IInv
  <2>2. /\ pc'[q] = pc[q] /\ md'[q] = md[q] /\ need'[q] = need[q]
        /\ pred'[q] = pred[q] /\ curr'[q] = curr[q]
    BY <1>1 DEF OthersKept
  <2> QED BY <2>1, <2>2 DEF ValuesOK
<1>2. \A q \in Procs : ValuesOK(q)' BY <1>1
<1>3. \A q \in Procs \ dead' : FreshOK(q)' OBVIOUS
<1> QED BY <1>2, <1>3 DEF IInv, Blocks

\* A step of the search: what is left to show of it.
LEMMA SearchStep ==
  ASSUME IInv, NEW p \in Procs \ dead, pc[p] \in SearchLabels \cup {"carve"}, Result(p),
         UNCHANGED <<allocs, dups, held, issued, dead>>,
         nodes' \in [Index -> Node], Shape',
         \A i \in Chunks : held[i] > 0 => nodes'[i] = nodes[i],
         FreshOK(p)', \A q \in Procs \ dead' : q # p => FreshOK(q)'
  PROVE  IInv'
<1>0. TypeOK /\ Blocks BY DEF IInv, Blocks
<1>1. Blocks' BY <1>0, SearchBlocks
<1>2. TypeOK' BY <1>0 DEF Result, RegTypes, TypeOK, Snapshot
<1> QED BY <1>1, <1>2, Combine DEF Result

LEMMA QuietStep ==
  ASSUME IInv, ~ WordReturns, NEW p \in Procs \ dead, pc[p] \in SearchLabels \cup {"carve"},
         Result(p), UNCHANGED <<nodes, allocs, dups, held, issued, dead>>,
         pc'[p] # "markTail", FreshOK(p)'
  PROVE  IInv'
<1>0. TypeOK /\ Shape BY DEF IInv
<1>1. Shape' /\ OnList' = OnList BY <1>0, ShapeKeptByOwner
<1>2. \A q \in Procs \ dead' : q # p => FreshOK(q)'
  BY <1>1, OthersFreshKept DEF Result
<1>3. nodes' \in [Index -> Node] BY <1>0 DEF TypeOK
<1> QED BY <1>1, <1>2, <1>3, SearchStep

LEMMA RestartStep ==
  ASSUME IInv, ~ WordReturns, NEW p \in Procs \ dead, pc[p] \in SearchLabels, Restart(p),
         UNCHANGED <<nodes, allocs, dups, held, issued, dead>>
  PROVE  IInv'
<1>1. Result(p) /\ pc'[p] \in {"idle", "start"} BY RestartResult DEF IInv
<1>2. FreshOK(p)' BY <1>1 DEF FreshOK, PredAwaits, CurrAwaits
<1> QED BY <1>1, <1>2, QuietStep

LEMMA StartStep ==
  ASSUME IInv, ~ WordReturns, NEW p \in Procs \ dead, Start(p)
  PROVE  IInv'
<1>0. TypeOK /\ Shape /\ RegTypes BY TypesOfRegs DEF IInv
<1>1. Fetch(0) = FirstSnapshot BY <1>0 DEF Fetch, Shape, FreeOK, FirstSnapshot
<1>2. /\ pc' \in [Procs -> Labels] /\ pc'[p] = "next"
      /\ pred' \in [Procs -> Snapshot] /\ pred'[p] = FirstSnapshot
  BY <1>0, <1>1, BlankTypes DEF Start, GoTo, RegTypes, Labels
<1>3. RegTypes' /\ OthersKept(p)
  <2>1. OthersKept(p) BY <1>0 DEF Start, GoTo, OthersKept, RegTypes
  <2> QED BY <1>0, <1>2, <2>1 DEF RegTypes, Start
<1>4. PassedOK(md[p], FirstSnapshot)
  <2>1. md[p] # NONE => 1 <= md[p].idx BY <1>0, DescTypes, Numbers DEF RegTypes
  <2>2. FirstSnapshot.node.next = 1 /\ FirstSnapshot.node.status = {}
    BY DEF FirstSnapshot, Blank
  <2> QED BY <2>1, <2>2, Numbers DEF PassedOK
<1>5. ValuesOK(p)' BY <1>2, <1>4 DEF ValuesOK, Start, PredAwaits
<1>6. Result(p) BY <1>2, <1>3, <1>5 DEF Result, Start, SearchLabels
<1>7. FreshOK(p)'
  <2>1. pred'[p].idx \in Listed' BY <1>2 DEF FirstSnapshot, Listed
  <2> QED BY <1>2, <2>1 DEF FreshOK, CurrAwaits
<1> QED BY <1>2, <1>6, <1>7, QuietStep DEF Start, SearchLabels

\* What follows a node that was passed, if its word is still there.
LEMMA NextListed ==
  ASSUME IInv, NEW p \in Procs \ dead, pc[p] \in PredAwaits, Unmodified(pred[p])
  PROVE  /\ pred[p].idx \in Listed \ {NodeCount} /\ pred[p].node.next \in OnList
         /\ pred[p].node.next \in Chunks /\ pred[p].node.next # NodeCount
<1>0. TypeOK /\ Shape /\ RegTypes /\ FreshOK(p) /\ ValuesOK(p) BY TypesOfRegs DEF IInv
<1>1. pred[p] \in Snapshot BY <1>0 DEF RegTypes
<1>2. pred[p].idx \in Listed \ {NodeCount} BY <1>0, <1>1, SnapshotTypes, Numbers DEF FreshOK
<1>3. nodes[pred[p].idx] = pred[p].node BY DEF Unmodified
<1>4. pred[p].node.next \in OnList BY <1>0, <1>2, <1>3, ListFacts
<1>5. pred[p].node.next < NodeCount BY <1>0 DEF ValuesOK, PassedOK
<1>6. pred[p].node.next # NodeCount BY <1>5, Numbers
<1> QED BY <1>0, <1>2, <1>4, <1>6, ListFacts

LEMMA FetchNextStep ==
  ASSUME IInv, ~ WordReturns, NEW p \in Procs \ dead, FetchNext(p)
  PROVE  IInv'
<1>0. TypeOK /\ Shape /\ RegTypes /\ FreshOK(p) /\ ValuesOK(p) /\ OwnOK(p)
  BY TypesOfRegs DEF IInv
<1>1. /\ pred[p] \in Snapshot /\ PassedOK(md[p], pred[p]) /\ pc[p] = "next"
      /\ md[p] \in Desc \cup {NONE}
  BY <1>0 DEF RegTypes, ValuesOK, FetchNext, PredAwaits
<1>2. Fetch(pred[p].node.next) \in Snapshot
  <2>1. pred[p].node.next \in Index
    BY <1>1, SnapshotTypes, Numbers, NodeCountAssumption DEF PassedOK, Index
  <2> QED BY <1>0, <2>1 DEF Fetch, Snapshot, TypeOK
<1>3. /\ pc' \in [Procs -> Labels] /\ pc'[p] = "check"
      /\ curr' \in [Procs -> Snapshot] /\ curr'[p] = Fetch(pred[p].node.next)
  BY <1>0, <1>2 DEF FetchNext, GoTo, RegTypes, Labels
<1>4. RegTypes' /\ OthersKept(p)
  <2>1. OthersKept(p) BY <1>0 DEF FetchNext, GoTo, OthersKept, RegTypes
  <2> QED BY <1>0, <1>3, <2>1 DEF RegTypes, FetchNext
<1>5. ValuesOK(p)' BY <1>1, <1>3 DEF ValuesOK, FetchNext, PredAwaits, Fetch
<1>6. Result(p) BY <1>3, <1>4, <1>5 DEF Result, FetchNext, SearchLabels
<1>7. FreshOK(p)'
  <2>1. OnList' = OnList BY DEF FetchNext, OnList
  <2>2. ASSUME Unmodified(pred[p])
        PROVE  pred[p].idx \in Listed /\ WordOK(md[p], Fetch(pred[p].node.next))
    <3>1. /\ pred[p].idx \in Listed /\ pred[p].node.next \in OnList
          /\ pred[p].node.next # NodeCount
      BY <1>1, <2>2, NextListed DEF PredAwaits
    <3>2. md[p] # NONE => held[md[p].idx] > 0 BY <1>0 DEF OwnOK, BlockOK
    <3> QED BY <1>0, <1>1, <3>1, <3>2, ListWord
  <2>3. Unmodified(pred[p])' <=> Unmodified(pred[p]) BY DEF FetchNext, Unmodified
  <2> QED BY <1>3, <2>1, <2>2, <2>3 DEF FreshOK, CurrAwaits, FetchNext, Listed
<1> QED BY <1>3, <1>6, <1>7, QuietStep DEF FetchNext, SearchLabels

LEMMA CheckStep ==
  ASSUME IInv, ~ WordReturns, NEW p \in Procs \ dead, Check(p)
  PROVE  IInv'
<1>0. TypeOK /\ Shape /\ RegTypes /\ FreshOK(p) /\ ValuesOK(p) /\ pc[p] = "check"
  BY TypesOfRegs DEF IInv, Check
<1>1. /\ pred[p] \in Snapshot /\ curr[p] \in Snapshot /\ PassedOK(md[p], pred[p])
      /\ curr[p].idx = pred[p].node.next
  BY <1>0 DEF RegTypes, ValuesOK, PredAwaits
<1>2. CASE \/ ~ Unmodified(pred[p])
           \/ "head" \notin pred[p].node.status /\ "tail" \in curr[p].node.status
  BY <1>0, <1>2, RestartStep DEF Check, SearchLabels
<1>3. CASE /\ Unmodified(pred[p])
           /\ "head" \in pred[p].node.status \/ "tail" \notin curr[p].node.status
  <2>1. /\ pred[p].idx \in Listed /\ curr[p].idx \in OnList /\ WordOK(md[p], curr[p])
    BY <1>0, <1>1, <1>3, NextListed DEF FreshOK, PredAwaits
  <2>2. OnList' = OnList /\ Listed' = Listed BY DEF Check, OnList, Listed
  <2>3. CASE Joinable(pred[p])
    <3>1. GoTo(p, "markHead") /\ UNCHANGED <<regs, refs>> BY <1>3, <2>3 DEF Check
    <3>2. pc' \in [Procs -> Labels] /\ pc'[p] = "markHead" BY <1>0, <3>1 DEF GoTo, RegTypes, Labels
    <3>3. RegTypes' BY <1>0, <3>1, <3>2 DEF RegTypes, regs
    <3>4. OthersKept(p) BY <1>0, <3>1 DEF GoTo, OthersKept, RegTypes, regs
    <3>5. ValuesOK(p)' BY <1>1, <2>1, <2>3, <3>1, <3>2 DEF ValuesOK, regs, PredAwaits
    <3>6. Result(p) BY <3>1, <3>2, <3>3, <3>4, <3>5 DEF Result, regs, SearchLabels
    <3>7. FreshOK(p)' BY <2>1, <2>2, <3>1, <3>2 DEF FreshOK, CurrAwaits, regs
    <3> QED BY <1>0, <3>2, <3>6, <3>7, QuietStep DEF Check, SearchLabels
  <2>4. CASE ~ Joinable(pred[p])
    <3>1. "head" \notin pred[p].node.status
      BY <1>1, <2>4 DEF PassedOK, WordOK, FirstSnapshot, Blank
    <3>2. Visit(p, curr[p]) BY <1>3, <2>4, <3>1 DEF Check, JoinOrVisit
    <3>3. md[p] # NONE => curr[p].idx <= md[p].idx BY <1>1 DEF PassedOK
    <3>4. Result(p) /\ Led(p, curr[p]) BY <1>0, <1>1, <1>3, <2>1, <3>1, <3>2, <3>3, VisitResult
    <3>5. FreshOK(p)'
      BY <2>1, <2>2, <3>4 DEF FreshOK, CurrAwaits, PredAwaits, Led, Listed
    <3>6. pc'[p] # "markTail" BY <3>4 DEF Led
    <3> QED BY <1>0, <3>4, <3>5, <3>6, QuietStep DEF Check, SearchLabels
  <2> QED BY <2>3, <2>4
<1> QED BY <1>2, <1>3
-----------------------------------------------------------------------------
(* The joining of neighbours.                                              *)

\* A word that is replaced gets another version.
LEMMA VersionFacts ==
  ASSUME NEW v \in 0 .. Versions - 1
  PROVE  /\ NextVer(v) \in 0 .. Versions - 1 /\ NextVer(v) # v
         /\ (NextVer(v) + Versions - 1) % Versions = v
<1>0. Versions \in Nat /\ Versions > 1 /\ v \in Nat /\ v < Versions BY LimitsAssumption
<1>1. CASE v + 1 < Versions
  <2>1. (v + 1) % Versions = v + 1 BY <1>0, <1>1
  <2>2. (v + 1 + Versions - 1) % Versions = v BY <1>0, <1>1
  <2> QED BY <1>0, <1>1, <2>1, <2>2 DEF NextVer
<1>2. CASE v + 1 = Versions
  <2>1. (v + 1) % Versions = 0 BY <1>0, <1>2
  <2>2. (0 + Versions - 1) % Versions = v BY <1>0, <1>2
  <2> QED BY <1>0, <1>2, <2>1, <2>2 DEF NextVer
<1> QED BY <1>0, <1>1, <1>2

LEMMA ChangeNextTypes ==
  ASSUME NEW w \in Node, NEW n \in 0 .. NodeCount + MaxDups
  PROVE  /\ ChangeNext(w, n) \in Node /\ ChangeNext(w, n) # w /\ ChangeNext(w, n).next = n
         /\ ChangeNext(w, n).count = w.count /\ ChangeNext(w, n).status = w.status
<1>1. w.ver \in 0 .. Versions - 1 BY DEF Node
<1>2. NextVer(w.ver) \in 0 .. Versions - 1 /\ NextVer(w.ver) # w.ver BY <1>1, VersionFacts
<1> QED BY <1>2 DEF Node, ChangeNext

LEMMA ChangeCountTypes ==
  ASSUME NEW w \in Node, NEW n \in 0 .. NodeCount
  PROVE  /\ ChangeCount(w, n) \in Node /\ ChangeCount(w, n) # w /\ ChangeCount(w, n).count = n
         /\ ChangeCount(w, n).next = w.next /\ ChangeCount(w, n).status = w.status
<1>1. w.ver \in 0 .. Versions - 1 BY DEF Node
<1>2. NextVer(w.ver) \in 0 .. Versions - 1 /\ NextVer(w.ver) # w.ver BY <1>1, VersionFacts
<1> QED BY <1>2 DEF Node, ChangeCount

LEMMA ChangeStatusTypes ==
  ASSUME NEW w \in Node, NEW s \in SUBSET {"head", "tail"}
  PROVE  /\ ChangeStatus(w, s) \in Node /\ ChangeStatus(w, s) # w
         /\ ChangeStatus(w, s).status = s
         /\ ChangeStatus(w, s).next = w.next /\ ChangeStatus(w, s).count = w.count
<1>1. w.ver \in 0 .. Versions - 1 BY DEF Node
<1>2. NextVer(w.ver) \in 0 .. Versions - 1 /\ NextVer(w.ver) # w.ver BY <1>1, VersionFacts
<1> QED BY <1>2 DEF Node, ChangeStatus

\* One node leads to another.
LEMMA OnePredecessor ==
  ASSUME TypeOK, Shape, NEW i \in Listed \ {NodeCount}, NEW k \in Listed \ {NodeCount},
         nodes[i].next = nodes[k].next
  PROVE  i = k
<1>1. i \in Index /\ k \in Index BY ListFacts
<1>2. i \in Nat /\ k \in Nat /\ nodes[i].next \in Nat BY <1>1, NodeTypes, Numbers
<1>3. /\ i < nodes[i].next /\ k < nodes[i].next
      /\ k <= i \/ nodes[i].next <= k
      /\ i <= k \/ nodes[k].next <= i
  BY ListFacts
<1> QED BY <1>2, <1>3

\* The pair of a call that may still join it.
LEMMA PairListed ==
  ASSUME IInv, NEW q \in Procs \ dead, pc[q] = "join", Unmodified(pred[q])
  PROVE  /\ pred[q].idx \in Listed \ {NodeCount} /\ pred[q].idx \in Chunks
         /\ pred[q].idx \in OnList /\ nodes[pred[q].idx] = pred[q].node
         /\ curr[q].idx = nodes[pred[q].idx].next /\ curr[q].idx \in OnList
         /\ curr[q].idx \in Chunks /\ nodes[curr[q].idx] = curr[q].node
         /\ "tail" \in nodes[curr[q].idx].status /\ "tail" \notin nodes[pred[q].idx].status
         /\ JoinsAlone(q)
<1>0. FreshOK(q) /\ ValuesOK(q) /\ TypeOK /\ Shape BY DEF IInv
<1>1. /\ pred[q].idx \in Listed \ {NodeCount} /\ pred[q].node.next \in OnList
      /\ pred[q].node.next \in Chunks
  BY NextListed DEF PredAwaits
<1>2. nodes[pred[q].idx] = pred[q].node BY DEF Unmodified
<1>3. /\ curr[q].idx = pred[q].node.next /\ Joinable(pred[q]) /\ PassedOK(md[q], pred[q])
      /\ "tail" \in curr[q].node.status
  BY <1>0 DEF ValuesOK, PredAwaits
<1>4. pred[q] # FirstSnapshot BY <1>3 DEF Joinable, FirstSnapshot, Blank
<1>5. pred[q].idx \in Chunks /\ pred[q].idx \in OnList
  BY <1>1, <1>3, <1>4, Numbers DEF PassedOK, WordOK, Listed
<1>6. Unmodified(curr[q]) /\ JoinsAlone(q) BY <1>0 DEF FreshOK
<1> QED BY <1>1, <1>2, <1>3, <1>5, <1>6 DEF Unmodified, PassedOK

LEMMA MarkHeadStep ==
  ASSUME IInv, ~ WordReturns, NEW p \in Procs \ dead, MarkHead(p)
  PROVE  IInv'
<1>0. TypeOK /\ Shape /\ RegTypes /\ FreshOK(p) /\ ValuesOK(p) /\ pc[p] = "markHead"
  BY TypesOfRegs DEF IInv, MarkHead
<1>1. CASE ~ Unmodified(pred[p]) BY <1>0, <1>1, RestartStep DEF MarkHead, SearchLabels
<1>2. CASE Unmodified(pred[p])
  <2> DEFINE i == pred[p].idx
             new == ChangeStatus(pred[p].node, pred[p].node.status \cup {"head"})
  <2>0. /\ nodes' = [nodes EXCEPT ![i] = new] /\ pred' = [pred EXCEPT ![p].node = new]
        /\ GoTo(p, "markTail") /\ UNCHANGED <<md, need, fast, retry, curr, refs>>
    BY <1>2 DEF MarkHead, Swap
  <2>1. /\ pred[p] \in Snapshot /\ PassedOK(md[p], pred[p]) /\ Joinable(pred[p])
        /\ WordOK(md[p], curr[p]) /\ curr[p].idx = pred[p].node.next
    BY <1>0 DEF RegTypes, ValuesOK, PredAwaits
  <2>2. /\ i \in Listed \ {NodeCount} /\ pred[p].node.next \in OnList
        /\ pred[p].node.next # NodeCount
    BY <1>0, <1>2, NextListed DEF PredAwaits
  <2>3. WordOK(md[p], pred[p])
    BY <2>1 DEF PassedOK, Joinable, FirstSnapshot, Blank
  <2>4. i \in Chunks /\ i \in Index /\ i \in OnList /\ i # 0
    BY <2>2, <2>3, Numbers DEF WordOK, Listed
  <2>5. nodes[i] = pred[p].node /\ pred[p].node \in Node
        /\ pred[p].node.status \cup {"head"} \in SUBSET {"head", "tail"}
    BY <1>2, <2>1, SnapshotTypes DEF Unmodified
  <2>6. /\ new \in Node /\ new # nodes[i] /\ new.status = pred[p].node.status \cup {"head"}
        /\ new.next = nodes[i].next /\ new.count = nodes[i].count
    BY <2>5, ChangeStatusTypes
  <2>7. /\ nodes' \in [Index -> Node] /\ nodes'[i] = new
        /\ \A k \in Index \ {i} : nodes'[k] = nodes[k]
    BY <1>0, <2>0, <2>4, <2>6 DEF TypeOK
  <2>8. Shape' /\ OnList' = OnList /\ Listed' = Listed
    <3>1. SameList
      <4>1. \A k \in Listed \ {NodeCount} : k \in Index BY <1>0, ListFacts
      <4> QED BY <2>6, <2>7, <4>1 DEF SameList
    <3>2. nodes'[0] = nodes[0] BY <2>4, <2>7, Numbers
    <3>3. new.next = i + new.count BY <2>1, <2>5, <2>6 DEF Joinable
    <3>4. \A k \in OnList \cap Index :
            "head" \in nodes'[k].status => nodes'[k].next = k + nodes'[k].count
      BY <1>0, <2>7, <3>3 DEF Shape, FreeOK
    <3>5. held' = held BY DEF MarkHead
    <3> QED BY <1>0, <3>1, <3>2, <3>4, <3>5, ShapeKept
  <2>9. /\ pc' \in [Procs -> Labels] /\ pc'[p] = "markTail"
        /\ pred'[p] = [pred[p] EXCEPT !.node = new] /\ pred' \in [Procs -> Snapshot]
    <3>1. pc' \in [Procs -> Labels] /\ pc'[p] = "markTail"
      BY <1>0, <2>0 DEF GoTo, RegTypes, Labels
    <3>2. pred'[p] = [pred[p] EXCEPT !.node = new] BY <1>0, <2>0 DEF RegTypes
    <3>3. [pred[p] EXCEPT !.node = new] \in Snapshot BY <2>1, <2>6 DEF Snapshot
    <3>4. pred' = [pred EXCEPT ![p] = [pred[p] EXCEPT !.node = new]] BY <1>0, <2>0 DEF RegTypes
    <3> QED BY <1>0, <3>1, <3>2, <3>3, <3>4 DEF RegTypes
  <2>10. pred'[p].idx = i /\ pred'[p].node = new BY <2>1, <2>9 DEF Snapshot
  <2>11. RegTypes' /\ OthersKept(p)
    <3>1. RegTypes' BY <1>0, <2>0, <2>9 DEF RegTypes
    <3>2. OthersKept(p) BY <1>0, <2>0 DEF OthersKept, GoTo, RegTypes
    <3> QED BY <3>1, <3>2
  <2>12. ValuesOK(p)'
    <3>1. PassedOK(md[p], pred'[p]) /\ Joinable(pred'[p])
      BY <2>1, <2>3, <2>5, <2>6, <2>10 DEF PassedOK, WordOK, Joinable
    <3> QED BY <2>0, <2>1, <2>5, <2>6, <2>9, <2>10, <3>1 DEF ValuesOK, PredAwaits
  <2>13. Result(p) BY <2>0, <2>9, <2>11, <2>12 DEF Result, SearchLabels
  <2>14. FreshOK(p)' BY <2>0, <2>1, <2>2, <2>8, <2>9, <2>10 DEF FreshOK
  <2>15. ASSUME NEW q \in Procs \ dead', q # p PROVE FreshOK(q)'
    <3>1. q \in Procs \ dead BY DEF MarkHead
    <3>2. PairKept(p, q)
      <4>1. SUFFICES ASSUME pc[q] = "join", Unmodified(pred[q]), Unmodified(pred[q])'
                     PROVE  /\ nodes'[curr[q].idx] = nodes[curr[q].idx]
                            /\ curr'[p].idx # curr[q].idx
        BY DEF PairKept
      <4>2. pred'[q] = pred[q] BY <2>11, <2>15 DEF OthersKept
      <4>3. pred[q].idx # i BY <2>6, <2>7, <4>1, <4>2 DEF Unmodified
      <4>4. /\ pred[q].idx \in Listed \ {NodeCount} /\ curr[q].idx = nodes[pred[q].idx].next
            /\ curr[q].idx \in Chunks /\ "tail" \in nodes[curr[q].idx].status
        BY <3>1, <4>1, PairListed
      <4>5. curr[q].idx # nodes[i].next BY <1>0, <2>2, <4>3, <4>4, OnePredecessor
      <4>6. curr[q].idx # i BY <2>1, <2>5, <4>4 DEF PassedOK
      <4> QED BY <2>0, <2>1, <2>5, <2>7, <4>4, <4>5, <4>6, Numbers
    <3>3. ListKeeps /\ dead \subseteq dead' BY <2>8 DEF ListKeeps, MarkHead
    <3> QED BY <2>11, <2>15, <3>2, <3>3, OthersFresh
  <2>16. \A k \in Chunks : held[k] > 0 => nodes'[k] = nodes[k]
    BY <1>0, <2>2, <2>7, FreeNotLent, Numbers
  <2> QED BY <1>0, <2>7, <2>8, <2>13, <2>14, <2>15, <2>16, SearchStep DEF MarkHead, SearchLabels
<1> QED BY <1>1, <1>2

LEMMA MarkTailStep ==
  ASSUME IInv, ~ WordReturns, NEW p \in Procs \ dead, MarkTail(p)
  PROVE  IInv'
<1>0. TypeOK /\ Shape /\ RegTypes /\ FreshOK(p) /\ ValuesOK(p) /\ pc[p] = "markTail"
  BY TypesOfRegs DEF IInv, MarkTail
<1>1. CASE ~ Unmodified(curr[p]) BY <1>0, <1>1, RestartStep DEF MarkTail, SearchLabels
<1>2. CASE Unmodified(curr[p])
  <2> DEFINE i == curr[p].idx
             new == ChangeStatus(curr[p].node, curr[p].node.status \cup {"tail"})
             s == [curr[p] EXCEPT !.node = new]
  <2>1. /\ pred[p] \in Snapshot /\ curr[p] \in Snapshot
        /\ PassedOK(md[p], pred[p]) /\ Joinable(pred[p]) /\ "head" \in pred[p].node.status
        /\ WordOK(md[p], curr[p]) /\ curr[p].idx = pred[p].node.next
    BY <1>0 DEF RegTypes, ValuesOK, PredAwaits
  <2>2. i \in Chunks /\ i \in OnList /\ i \in Index /\ i # 0 /\ i # NodeCount /\ i \in Listed
    BY <1>0, <1>2, <2>1, Numbers DEF FreshOK, CurrAwaits, WordOK, Listed
  <2>3. nodes[i] = curr[p].node /\ curr[p].node \in Node
        /\ curr[p].node.status \cup {"tail"} \in SUBSET {"head", "tail"}
    BY <1>2, <2>1, SnapshotTypes DEF Unmodified
  <2>4. /\ new \in Node /\ new # nodes[i] /\ new.status = curr[p].node.status \cup {"tail"}
        /\ new.next = nodes[i].next /\ new.count = nodes[i].count
    BY <2>3, ChangeStatusTypes
  <2>5. s \in Snapshot /\ s.idx = i /\ s.node = new BY <2>1, <2>4 DEF Snapshot
  <2>6. /\ nodes' = [nodes EXCEPT ![i] = new] /\ GoTo(p, "join")
        /\ pred' = [pred EXCEPT ![p] = pred[p]] /\ curr' = [curr EXCEPT ![p] = s]
        /\ UNCHANGED <<md, need, fast, retry, refs>>
    BY <1>2, <2>1, <2>4, <2>5 DEF MarkTail, Swap, JoinOrVisit
  <2>7. /\ nodes' \in [Index -> Node] /\ nodes'[i] = new
        /\ \A k \in Index \ {i} : nodes'[k] = nodes[k]
    BY <1>0, <2>2, <2>4, <2>6 DEF TypeOK
  <2>8. Shape' /\ OnList' = OnList /\ Listed' = Listed
    <3>1. SameList
      <4>1. \A k \in Listed \ {NodeCount} : k \in Index BY <1>0, ListFacts
      <4> QED BY <2>4, <2>7, <4>1 DEF SameList
    <3>2. nodes'[0] = nodes[0] BY <2>2, <2>7, Numbers
    <3>3. \A k \in OnList \cap Index :
            "head" \in nodes'[k].status => nodes'[k].next = k + nodes'[k].count
      BY <1>0, <2>3, <2>4, <2>7 DEF Shape, FreeOK
    <3>4. held' = held BY DEF MarkTail
    <3> QED BY <1>0, <3>1, <3>2, <3>3, <3>4, ShapeKept
  <2>9. /\ pc' \in [Procs -> Labels] /\ pc'[p] = "join"
        /\ curr'[p] = s /\ curr' \in [Procs -> Snapshot] /\ pred' = pred
    BY <1>0, <2>5, <2>6 DEF GoTo, RegTypes, Labels
  <2>10. RegTypes' /\ OthersKept(p)
    <3>1. RegTypes' BY <1>0, <2>6, <2>9 DEF RegTypes
    <3>2. OthersKept(p) BY <1>0, <2>6 DEF OthersKept, GoTo, RegTypes
    <3> QED BY <3>1, <3>2
  <2>11. ValuesOK(p)'
    <3>1. WordOK(md[p], s) BY <2>1, <2>3, <2>4, <2>5 DEF WordOK, Joinable
    <3>2. "tail" \in s.node.status BY <2>4, <2>5
    <3> QED BY <2>1, <2>5, <2>6, <2>9, <3>1, <3>2 DEF ValuesOK, PredAwaits
  <2>12. Result(p) BY <2>6, <2>9, <2>10, <2>11 DEF Result, SearchLabels
  <2>13. FreshOK(p)'
    <3>1. Unmodified(pred[p])' => pred[p].idx \in Listed
      <4>1. Unmodified(pred[p])' => Unmodified(pred[p])
        BY <1>0, <2>9, NothingReturns DEF PredAwaits
      <4> QED BY <1>0, <4>1 DEF FreshOK, PredAwaits
    <3>2. Unmodified(curr[p])' BY <2>5, <2>7, <2>9 DEF Unmodified
    <3>3. JoinsAlone(p)'
      <4> SUFFICES ASSUME NEW q \in Procs \ dead', pc'[q] = "markTail", curr'[q].idx = curr'[p].idx
                   PROVE  ~ Unmodified(curr[q])'
        BY DEF JoinsAlone
      <4>1. q # p /\ q \in Procs \ dead BY <2>9 DEF MarkTail
      <4>2. curr'[q] = curr[q] /\ pc[q] = "markTail" BY <2>10, <4>1 DEF OthersKept
      <4>3. curr[q].idx = i BY <2>5, <2>9, <4>2
      <4>4. Unmodified(curr[q])' => Unmodified(curr[q])
        BY <4>1, <4>2, NothingReturns DEF CurrAwaits
      <4> QED BY <2>4, <2>7, <4>2, <4>3, <4>4 DEF Unmodified
    <3> QED BY <2>8, <2>9, <3>1, <3>2, <3>3 DEF FreshOK, CurrAwaits
  <2>14. ASSUME NEW q \in Procs \ dead', q # p PROVE FreshOK(q)'
    <3>1. q \in Procs \ dead BY DEF MarkTail
    <3>2. PairKept(p, q)
      <4>1. SUFFICES ASSUME pc[q] = "join", Unmodified(pred[q])
                     PROVE  nodes'[curr[q].idx] = nodes[curr[q].idx]
        BY <2>9 DEF PairKept
      <4>2. JoinsAlone(q) /\ curr[q].idx \in Chunks BY <3>1, <4>1, PairListed
      <4>3. curr[q].idx # i BY <1>0, <1>2, <4>2 DEF JoinsAlone
      <4> QED BY <2>7, <4>2, <4>3, Numbers
    <3>3. ListKeeps /\ dead \subseteq dead' BY <2>8 DEF ListKeeps, MarkTail
    <3> QED BY <2>10, <2>14, <3>2, <3>3, OthersFresh
  <2>15. \A k \in Chunks : held[k] > 0 => nodes'[k] = nodes[k]
    BY <1>0, <2>2, <2>7, FreeNotLent, Numbers
  <2> QED BY <1>0, <2>7, <2>8, <2>12, <2>13, <2>14, <2>15, SearchStep DEF MarkTail, SearchLabels
<1> QED BY <1>1, <1>2

LEMMA JoinNodesStep ==
  ASSUME IInv, ~ WordReturns, NEW p \in Procs \ dead, JoinNodes(p)
  PROVE  IInv'
<1>0. TypeOK /\ Shape /\ RegTypes /\ FreshOK(p) /\ ValuesOK(p) /\ pc[p] = "join"
  BY TypesOfRegs DEF IInv, JoinNodes
<1>1. CASE ~ Unmodified(pred[p]) BY <1>0, <1>1, RestartStep DEF JoinNodes, SearchLabels
<1>2. CASE Unmodified(pred[p])
  <2> DEFINE i == pred[p].idx
             j == curr[p].idx
             new == Join(pred[p].node, curr[p].node)
             s == [pred[p] EXCEPT !.node = new]
  <2>0. /\ nodes' = [nodes EXCEPT ![i] = new] /\ Visit(p, s) /\ held' = held /\ dead' = dead
    BY <1>2 DEF JoinNodes, Swap
  <2>1. /\ pred[p] \in Snapshot /\ curr[p] \in Snapshot
        /\ PassedOK(md[p], pred[p]) /\ Joinable(pred[p]) /\ WordOK(md[p], curr[p])
        /\ md[p] \in Desc \cup {NONE}
    BY <1>0 DEF RegTypes, ValuesOK, PredAwaits
  <2>2. WordOK(md[p], pred[p]) BY <2>1 DEF PassedOK, Joinable, FirstSnapshot, Blank
  <2>3. /\ i \in Listed \ {NodeCount} /\ i \in Chunks /\ i \in OnList /\ nodes[i] = pred[p].node
        /\ j = nodes[i].next /\ j \in OnList /\ j \in Chunks /\ nodes[j] = curr[p].node
        /\ "tail" \in nodes[j].status /\ "tail" \notin nodes[i].status /\ JoinsAlone(p)
    BY <1>0, <1>2, PairListed
  <2>4. /\ i \in Nat /\ j \in Nat /\ i \in Index /\ j \in Index /\ i # NodeCount /\ j # NodeCount
        /\ nodes[i].count \in Nat /\ nodes[j].count \in Nat /\ nodes[j].next \in Nat
        /\ md[p] # NONE => md[p].idx \in Nat
    BY <1>0, <2>1, <2>3, NodeTypes, DescTypes, Numbers
  <2>5. j = i + nodes[i].count BY <2>1, <2>3 DEF Joinable
  <2>6. /\ j < nodes[j].next /\ nodes[j].next <= NodeCount /\ nodes[j].count > 0
        /\ j + nodes[j].count <= nodes[j].next
        /\ "head" \in nodes[j].status => nodes[j].next = j + nodes[j].count
        /\ md[p] # NONE /\ j <= md[p].idx => j + nodes[j].count <= md[p].idx
    BY <2>1, <2>3 DEF WordOK, Joinable
  <2>7. /\ new.next = nodes[j].next /\ new.count = nodes[i].count + nodes[j].count
        /\ "tail" \notin new.status /\ ("head" \in new.status => "head" \in nodes[j].status)
    BY <2>3 DEF Join
  <2>8. new \in Node /\ new # nodes[i]
    <3>1. NextVer(curr[p].node.ver) \in 0 .. Versions - 1
      BY <2>1, SnapshotTypes, VersionFacts
    <3>2. curr[p].node.next \in 0 .. NodeCount + MaxDups
      BY <2>1, SnapshotTypes DEF Node
    <3>3. pred[p].node.count + curr[p].node.count \in 0 .. NodeCount
      BY <2>3, <2>4, <2>5, <2>6, Numbers
    <3>4. (pred[p].node.status \ {"head"}) \cup (curr[p].node.status \ {"tail"})
            \in SUBSET {"head", "tail"}
      BY <2>1, SnapshotTypes
    <3>5. new \in Node BY <3>1, <3>2, <3>3, <3>4 DEF Join, Node
    <3>6. new.next # nodes[i].next BY <2>3, <2>4, <2>6, <2>7
    <3> QED BY <3>5, <3>6
  <2>9. s \in Snapshot /\ s.idx = i /\ s.node = new BY <2>1, <2>8 DEF Snapshot
  <2>10. WordOK(md[p], s)
    <3>1. md[p] # NONE /\ i <= md[p].idx => j <= md[p].idx
      BY <2>2, <2>3, <2>5 DEF WordOK
    <3>2. i + new.count = j + nodes[j].count BY <2>4, <2>5, <2>7
    <3>3. i < nodes[j].next BY <2>4, <2>5, <2>6
    <3>4. new.count > 0 BY <2>4, <2>6, <2>7
    <3> QED BY <2>3, <2>6, <2>7, <2>9, <3>1, <3>2, <3>3, <3>4 DEF WordOK, Joinable
  <2>11. Result(p) /\ Led(p, s)
    <3>1. md[p] # NONE => i <= md[p].idx
      <4>1. md[p] # NONE => j <= md[p].idx BY <2>1, <2>3 DEF PassedOK
      <4> QED BY <2>4, <2>5, <4>1
    <3> QED BY <1>0, <2>0, <2>7, <2>9, <2>10, <3>1, VisitResult
  <2>12. Shape' /\ OnList' = OnList \ {j} /\ i # j
    BY <1>0, <2>0, <2>3, <2>4, <2>5, <2>7, JoinShape
  <2>13. /\ nodes' \in [Index -> Node] /\ nodes'[i] = new
         /\ \A k \in Index \ {i} : nodes'[k] = nodes[k]
    BY <1>0, <2>0, <2>4, <2>8 DEF TypeOK
  <2>14. FreshOK(p)'
    <3>1. i \in OnList' /\ i \in Listed' BY <2>3, <2>12 DEF Listed
    <3> QED BY <2>9, <2>11, <3>1 DEF Led, FreshOK, PredAwaits, CurrAwaits
  <2>15. ASSUME NEW q \in Procs \ dead', q # p PROVE FreshOK(q)'
    <3>1. q \in Procs \ dead BY <2>0
    <3>2. PairKept(p, q)
      <4>0. pc'[p] # "markTail" BY <2>11 DEF Led
      <4>1. SUFFICES ASSUME pc[q] = "join", Unmodified(pred[q])
                     PROVE  nodes'[curr[q].idx] = nodes[curr[q].idx]
        BY <4>0 DEF PairKept
      <4>2. curr[q].idx \in Chunks /\ "tail" \in nodes[curr[q].idx].status
        BY <3>1, <4>1, PairListed
      <4>3. curr[q].idx # i BY <2>3, <4>2
      <4> QED BY <2>13, <4>2, <4>3, Numbers
    <3>3. ListKeeps
      <4>1. \A k \in Listed : k # j => k \in Listed' BY <2>12 DEF Listed
      <4>2. nodes'[j] = nodes[j] BY <2>4, <2>12, <2>13
      <4>3. \A r \in Procs \ dead :
              pc[r] = "markTail" /\ curr[r].idx = j => ~ Unmodified(curr[r])
        BY <2>3 DEF JoinsAlone
      <4> QED BY <2>3, <4>1, <4>2, <4>3 DEF ListKeeps
    <3> QED BY <2>0, <2>11, <2>15, <3>2, <3>3, OthersFresh DEF Result
  <2>16. \A k \in Chunks : held[k] > 0 => nodes'[k] = nodes[k]
    BY <1>0, <2>3, <2>13, FreeNotLent, Numbers
  <2> QED BY <1>0, <2>11, <2>12, <2>13, <2>14, <2>15, <2>16, SearchStep
         DEF JoinNodes, SearchLabels
<1> QED BY <1>1, <1>2
-----------------------------------------------------------------------------
(* Blocks carved off.                                                      *)

LEMMA CarveStep ==
  ASSUME IInv, ~ WordReturns, NEW p \in Procs \ dead, Carve(p)
  PROVE  IInv'
<1>0. /\ TypeOK /\ Shape /\ RegTypes /\ FreshOK(p) /\ ValuesOK(p) /\ OwnOK(p)
      /\ Blocks /\ pc[p] = "carve"
  BY TypesOfRegs DEF IInv, Blocks, Carve
<1>1. CASE ~ Unmodified(curr[p])
  <2>1. Search(p, RetryLimit) /\ UNCHANGED <<nodes, held, md, need, fast>> /\ refs' = refs
    BY <1>1 DEF Carve
  <2>2. Result(p) /\ pc'[p] = "start" BY <1>0, <2>1, BlankTypes, SearchResult
  <2>3. FreshOK(p)' BY <2>2 DEF FreshOK, PredAwaits, CurrAwaits
  <2> QED BY <1>0, <2>1, <2>2, <2>3, QuietStep DEF Carve
<1>2. CASE Unmodified(curr[p])
  <2> DEFINE i == curr[p].idx
             n == need[p]
             left == curr[p].node.count - n
             b == i + left
             w == ChangeCount(curr[p].node, left)
             d == [idx |-> b, ver |-> NextVer(nodes[b].ver)]
  <2>0. /\ nodes' = [nodes EXCEPT ![i] = w] /\ held' = [held EXCEPT ![b] = n]
        /\ md' = [md EXCEPT ![p] = d] /\ GoTo(p, "label")
        /\ UNCHANGED <<need, fast, retry, pred, curr, refs, allocs, dups, issued, dead>>
    BY <1>2 DEF Carve, Swap
  <2>1. /\ curr[p] \in Snapshot /\ WordOK(md[p], curr[p])
        /\ curr[p].node.status = {} /\ curr[p].node.count > n
        /\ n \in Nat \ {0} /\ md[p] = NONE
    BY <1>0, NeedsAssumption DEF RegTypes, ValuesOK, OwnOK
  <2>2. i \in Chunks /\ i \in OnList /\ i \in Index /\ i # NodeCount /\ i \in Nat
    BY <1>0, <1>2, <2>1, Numbers DEF FreshOK, CurrAwaits, WordOK
  <2>3. nodes[i] = curr[p].node /\ curr[p].node \in Node /\ curr[p].node.count \in Nat
        /\ curr[p].node.count <= NodeCount
    BY <1>2, <2>1, SnapshotTypes DEF Unmodified
  <2>4. left \in 0 .. NodeCount /\ n \in 0 .. NodeCount
    BY <2>1, <2>3, Numbers
  <2>5. /\ w \in Node /\ w.count = nodes[i].count - n
        /\ w.next = nodes[i].next /\ w.status = {}
    <3>1. /\ w \in Node /\ w.count = left
          /\ w.next = curr[p].node.next /\ w.status = curr[p].node.status
      BY <2>3, <2>4, ChangeCountTypes
    <3> QED BY <2>1, <2>3, <3>1
  <2>6. Shape' /\ OnList' = OnList /\ b \in Chunks /\ held[b] = 0 /\ b # i
    <3>1. b = i + (nodes[i].count - n) /\ n < nodes[i].count BY <2>1, <2>3
    <3>2. "head" \notin w.status BY <2>5
    <3>3. n \in Nat \ {0} BY <2>1
    <3> HIDE DEF n, w, b
    <3> QED BY <1>0, <2>0, <2>2, <2>5, <3>1, <3>2, <3>3, CarveShape
  <2>7. /\ nodes' \in [Index -> Node] /\ nodes'[i] = w
        /\ \A k \in Index \ {i} : nodes'[k] = nodes[k]
    BY <1>0, <2>0, <2>2, <2>5 DEF TypeOK
  <2>8. d \in Desc /\ d # NONE /\ d.idx = b
    <3>1. nodes[b].ver \in 0 .. Versions - 1 BY <1>0, <2>6, NodeTypes, Numbers
    <3>2. NextVer(nodes[b].ver) \in 0 .. Versions - 1 BY <3>1, VersionFacts
    <3> HIDE DEF b
    <3>3. d \in Desc BY <2>6, <3>2 DEF Desc
    <3> QED BY <3>3, BlankTypes
  <2>9. /\ pc' \in [Procs -> Labels] /\ pc'[p] = "label" /\ md' \in [Procs -> Desc \cup {NONE}]
        /\ md'[p] = d
    BY <1>0, <2>0, <2>8 DEF GoTo, RegTypes, Labels
  <2>10. /\ held' \in [Chunks -> 0 .. NodeCount] /\ held'[b] = n
         /\ \A k \in Chunks \ {b} : held'[k] = held[k]
    BY <1>0, <2>0, <2>4, <2>6 DEF TypeOK
  <2>11. TypeOK'
    BY <1>0, <2>0, <2>7, <2>9, <2>10 DEF TypeOK
  <2>12. OthersKept(p) BY <1>0, <2>0 DEF OthersKept, GoTo, RegTypes
  <2>13. \A k \in Chunks : held[k] > 0 =>
           k # b /\ k # i /\ nodes'[k] = nodes[k] /\ held'[k] = held[k]
    <3>1. \A k \in Chunks : held[k] > 0 => k # i
      BY <1>0, <2>2, FreeNotLent DEF Listed
    <3>2. \A k \in Chunks : held[k] > 0 => k # b BY <2>6
    <3> QED BY <2>7, <2>10, <3>1, <3>2, Numbers
  <2>14. \A q \in Procs : md[q] # NONE => md[q].idx \in Chunks /\ held[md[q].idx] > 0
    BY <1>0, DescTypes DEF RegTypes, Blocks, OwnOK, BlockOK
  <2>15. \A q \in Procs : md'[q].idx = b => q = p
    <3>1. \A q \in Procs : md[q].idx # b
      BY <2>6, <2>14, BlankTypes, Numbers
    <3> QED BY <2>12, <3>1 DEF OthersKept
  <2>16. LentOK'
    <3> SUFFICES ASSUME NEW k \in Chunks, held'[k] > 0
                 PROVE  \/ nodes'[k].count = held'[k]
                        \/ \E q \in Procs : pc'[q] = "label" /\ md'[q].idx = k
      BY DEF LentOK
    <3>1. CASE k = b BY <2>8, <2>9, <3>1
    <3>2. CASE k # b
      <4>1. held[k] > 0 BY <2>10, <3>2
      <4>2. CASE nodes[k].count = held[k] BY <2>13, <4>1, <4>2
      <4>3. CASE \E q \in Procs : pc[q] = "label" /\ md[q].idx = k
        <5>1. PICK q \in Procs : pc[q] = "label" /\ md[q].idx = k BY <4>3
        <5>2. q # p BY <1>0, <5>1
        <5> QED BY <2>12, <5>1, <5>2 DEF OthersKept
      <4> QED BY <1>0, <4>1, <4>2, <4>3 DEF LentOK, Blocks
    <3> QED BY <3>1, <3>2
  <2>17. HadOK'
    <3> SUFFICES ASSUME NEW k \in Chunks, held'[k] > 0
                 PROVE  \/ \E q \in Procs : md'[q].idx = k
                        \/ \E e \in Desc : e.idx = k /\ refs'[e] > 0
      BY DEF HadOK
    <3>1. CASE k = b BY <2>8, <2>9, <3>1
    <3>2. CASE k # b
      <4>1. held[k] > 0 BY <2>10, <3>2
      <4>2. \A q \in Procs : md[q].idx = k => q # p
        BY <2>1, BlankTypes, Numbers
      <4>3. \A q \in Procs : md[q].idx = k => md'[q].idx = k
        BY <2>12, <4>2 DEF OthersKept
      <4> QED BY <1>0, <2>0, <4>1, <4>3 DEF HadOK, Blocks
    <3> QED BY <3>1, <3>2
  <2>18. RefsOK'
    <3> SUFFICES ASSUME NEW e \in Desc, refs'[e] > 0 PROVE RefOK(e)' BY DEF RefsOK
    <3>1. RefOK(e) BY <1>0, <2>0 DEF Blocks, RefsOK
    <3>2. e.idx \in Chunks /\ held[e.idx] > 0 BY <3>1, DescTypes DEF RefOK
    <3>3. \A r \in Procs : md'[r].idx # e.idx
      <4>1. \A r \in Procs : md[r].idx # e.idx BY <3>1 DEF RefOK
      <4>2. md'[p].idx # e.idx BY <2>8, <2>9, <2>13, <3>2
      <4> QED BY <2>12, <4>1, <4>2 DEF OthersKept
    <3>4. dups \in Nat BY <1>0, LimitsAssumption DEF TypeOK
    <3> QED BY <1>0, <2>0, <2>13, <3>1, <3>2, <3>3, <3>4, RefKept
  <2>19. OwnOK(p)'
    <3>1. BlockOK(p)'
      <4>1. nodes'[b] = nodes[b] BY <2>6, <2>7, Numbers
      <4>2. held'[md'[p].idx] = need'[p] /\ need'[p] > 0 BY <2>0, <2>1, <2>8, <2>9, <2>10
      <4>3. md'[p].ver = NextVer(nodes'[md'[p].idx].ver) BY <2>8, <2>9, <4>1
      <4> QED BY <2>9, <4>2, <4>3 DEF BlockOK, SearchLabels
    <3>2. need'[p] \in Needs BY <1>0, <2>0 DEF OwnOK
    <3> QED BY <2>8, <2>9, <2>15, <3>1, <3>2 DEF OwnOK, OwnerLabels
  <2>20. ASSUME NEW q \in Procs, q # p PROVE OwnOK(q)'
    <3>1. /\ OwnOK(q) /\ pc'[q] = pc[q] /\ md'[q] = md[q] /\ need'[q] = need[q]
          /\ curr'[q] = curr[q]
      BY <1>0, <2>12, <2>20 DEF OthersKept, Blocks
    <3>2. ASSUME md[q] # NONE, NEW r \in Procs, md'[r].idx = md[q].idx PROVE r = q
      <4>1. r # p BY <2>8, <2>9, <2>13, <2>14, <3>2
      <4>2. md[r].idx = md[q].idx BY <2>12, <3>2, <4>1 DEF OthersKept
      <4> QED BY <3>1, <3>2, <4>2 DEF OwnOK
    <3> QED BY <2>13, <2>14, <3>1, <3>2, OwnKept
  <2>21. Blocks' BY <2>16, <2>17, <2>18, <2>19, <2>20 DEF Blocks
  <2>22. ValuesOK(p)' /\ FreshOK(p)'
    BY <2>9 DEF ValuesOK, FreshOK, PredAwaits, CurrAwaits
  <2>23. \A q \in Procs \ dead' : q # p => FreshOK(q)'
    <3>1. \A k \in OnList \cap Index : nodes'[k] # nodes[k] => "tail" \notin nodes[k].status
      BY <2>1, <2>3, <2>7
    <3> QED BY <2>0, <2>6, <2>9, <2>12, <3>1, OthersFreshKept
  <2> QED BY <2>6, <2>11, <2>12, <2>21, <2>22, <2>23, Combine
<1> QED BY <1>1, <1>2
-----------------------------------------------------------------------------
(* The steps of a call that owns a block.                                  *)

\* What such a step leaves alone, and what is left to show of it.
LEMMA OwnerStep ==
  ASSUME IInv, ~ WordReturns, NEW p \in Procs \ dead, md[p] # NONE, pc[p] # "carve",
         OthersKept(p), TypeOK', UNCHANGED <<dups, held, dead>>,
         md'[p] \in {md[p], NONE}, pc'[p] # "markTail",
         \A k \in Index : k # md[p].idx => nodes'[k] = nodes[k],
         \A d \in Desc : d # md[p] => refs'[d] = refs[d],
         pc[p] # "label" => nodes'[md[p].idx].count = nodes[md[p].idx].count,
         pc[p] = "label" => nodes'[md[p].idx].count = held[md[p].idx],
         md'[p] = NONE => refs'[md[p]] = 1 /\ nodes'[md[p].idx].ver = md[p].ver
                          /\ nodes'[md[p].idx].next \in {0, 1},
         md'[p] # NONE => refs'[md[p]] = refs[md[p]],
         pc'[p] \in {"idle", "carve"} => md'[p] = NONE,
         pc'[p] \in OwnerLabels => md'[p] # NONE,
         pc'[p] \in SearchLabels => md'[p] # NONE,
         pc'[p] \notin {"carve", "label"},
         md'[p] # NONE => BlockOK(p)',
         ValuesOK(p)', FreshOK(p)'
  PROVE  IInv'
<1> DEFINE b == md[p].idx
<1>0. TypeOK /\ Shape /\ Blocks /\ RegTypes /\ OwnOK(p) BY TypesOfRegs DEF IInv, Blocks
<1>1. /\ md[p] \in Desc /\ b \in Chunks /\ b \in Index /\ held[b] > 0
      /\ \A q \in Procs : md[q].idx = b => q = p
  BY <1>0, DescTypes, Numbers DEF RegTypes, OwnOK, BlockOK
<1>2. \A q \in Procs : md[q] # NONE => md[q].idx \in Chunks
  BY <1>0, DescTypes DEF RegTypes
<1>3. \A q \in Procs : \A k \in Chunks : md'[q].idx = k => md[q].idx = k
  BY BlankTypes, Numbers DEF OthersKept
<1>4. Shape' /\ OnList' = OnList
  <2>1. \A k \in Index : (k \in Chunks => held[k] = 0) => nodes'[k] = nodes[k] BY <1>1
  <2> QED BY <1>0, <2>1, ShapeKeptByOwner
<1>5. LentOK'
  <2> SUFFICES ASSUME NEW k \in Chunks, held[k] > 0
               PROVE  \/ nodes'[k].count = held[k]
                      \/ \E q \in Procs : pc'[q] = "label" /\ md'[q].idx = k
    BY DEF LentOK
  <2>1. CASE k = b /\ pc[p] = "label" BY <2>1
  <2>2. CASE k = b /\ pc[p] # "label"
    <3>1. nodes[b].count = held[b] BY <1>0, <1>1, <2>2 DEF Blocks, LentOK
    <3> QED BY <2>2, <3>1
  <2>3. CASE k # b
    <3>1. nodes'[k] = nodes[k] BY <2>3, Numbers
    <3>2. ASSUME NEW q \in Procs, pc[q] = "label", md[q].idx = k
          PROVE  pc'[q] = "label" /\ md'[q].idx = k
      <4>1. q # p BY <2>3, <3>2
      <4> QED BY <3>2, <4>1 DEF OthersKept
    <3> QED BY <1>0, <3>1, <3>2 DEF Blocks, LentOK
  <2> QED BY <2>1, <2>2, <2>3
<1>6. HadOK'
  <2> SUFFICES ASSUME NEW k \in Chunks, held[k] > 0
               PROVE  \/ \E q \in Procs : md'[q].idx = k
                      \/ \E d \in Desc : d.idx = k /\ refs'[d] > 0
    BY DEF HadOK
  <2>1. CASE k = b BY <1>1, <2>1
  <2>2. CASE k # b
    <3>1. CASE \E q \in Procs : md[q].idx = k
      <4>1. PICK q \in Procs : md[q].idx = k BY <3>1
      <4>2. md'[q] = md[q] BY <2>2, <4>1 DEF OthersKept
      <4> QED BY <4>1, <4>2
    <3>2. CASE \E d \in Desc : d.idx = k /\ refs[d] > 0
      <4>1. PICK d \in Desc : d.idx = k /\ refs[d] > 0 BY <3>2
      <4>2. refs'[d] = refs[d] BY <2>2, <4>1
      <4> QED BY <4>1, <4>2
    <3> QED BY <1>0, <3>1, <3>2 DEF HadOK, Blocks
  <2> QED BY <2>1, <2>2
<1>7. RefsOK'
  <2> SUFFICES ASSUME NEW d \in Desc, refs'[d] > 0 PROVE RefOK(d)' BY DEF RefsOK
  <2>0. dups \in Nat BY <1>0, LimitsAssumption DEF TypeOK
  <2>1. CASE refs[d] > 0 /\ refs'[d] = refs[d]
    <3>1. RefOK(d) BY <1>0, <2>1 DEF Blocks, RefsOK
    <3>2. d.idx # b /\ d.idx \in Chunks BY <3>1, DescTypes DEF RefOK
    <3>3. nodes'[d.idx] = nodes[d.idx] BY <3>2, Numbers
    <3>4. \A r \in Procs : md'[r].idx # d.idx BY <1>3, <3>1, <3>2 DEF RefOK
    <3> QED BY <1>0, <2>0, <2>1, <3>1, <3>3, <3>4, RefKept
  <2>2. CASE d = md[p] /\ md'[p] = NONE
    <3>1. \A q \in Procs : md'[q].idx # b
      BY <1>1, <1>3, <2>2, BlankTypes, Numbers
    <3>2. /\ held'[d.idx] > 0 /\ nodes'[d.idx].ver = d.ver /\ refs'[d] = 1
          /\ nodes'[d.idx].next \in {0, refs'[d]} /\ refs'[d] <= dups' + 1
      BY <1>1, <2>0, <2>2
    <3> QED BY <2>2, <3>1, <3>2 DEF RefOK
  <2> QED BY <2>1, <2>2
<1>8. OwnOK(p)'
  <2>1. md'[p] # NONE => \A q \in Procs : md'[q].idx = md'[p].idx => q = p
    BY <1>1, <1>3
  <2> QED BY <2>1 DEF OwnOK
<1>9. ASSUME NEW q \in Procs, q # p PROVE OwnOK(q)'
  <2>1. /\ OwnOK(q) /\ pc'[q] = pc[q] /\ md'[q] = md[q] /\ need'[q] = need[q]
        /\ curr'[q] = curr[q]
    BY <1>0, <1>9 DEF OthersKept, Blocks
  <2>2. ASSUME md[q] # NONE
        PROVE  /\ nodes'[md[q].idx] = nodes[md[q].idx]
               /\ \A r \in Procs : md'[r].idx = md[q].idx => r = q
    <3>1. md[q].idx \in Chunks /\ md[q].idx # b BY <1>1, <1>2, <1>9, <2>2
    <3>2. nodes'[md[q].idx] = nodes[md[q].idx] BY <3>1, Numbers
    <3> QED BY <1>3, <2>1, <2>2, <3>1, <3>2 DEF OwnOK
  <2> QED BY <2>1, <2>2, OwnKept
<1>10. Blocks' BY <1>5, <1>6, <1>7, <1>8, <1>9 DEF Blocks
<1>11. \A q \in Procs \ dead' : q # p => FreshOK(q)'
  <2>1. \A k \in OnList \cap Index : k # b
    BY <1>0, <1>1, FreeNotLent DEF Listed
  <2>2. \A k \in OnList \cap Index : nodes'[k] = nodes[k] BY <2>1
  <2> QED BY <1>4, <2>2, OthersFreshKept
<1> QED BY <1>4, <1>10, <1>11, Combine

LEMMA FinishTypes ==
  ASSUME TypeOK, NEW p \in Procs, Finish(p)
  PROVE  /\ pc' \in [Procs -> Labels] /\ pc'[p] = "idle"
         /\ md' \in [Procs -> Desc \cup {NONE}] /\ md'[p] = NONE
         /\ need' \in [Procs -> {0} \cup Needs] /\ fast' \in [Procs -> BOOLEAN]
         /\ retry' \in [Procs -> 0 .. RetryLimit + LightRetryLimit]
         /\ pred' \in [Procs -> Snapshot] /\ curr' \in [Procs -> Snapshot]
         /\ OthersKept(p)
<1>0. RegTypes BY TypesOfRegs
<1>1. /\ pc' \in [Procs -> Labels] /\ pc'[p] = "idle"
      /\ md' \in [Procs -> Desc \cup {NONE}] /\ md'[p] = NONE
  BY <1>0 DEF Finish, GoTo, RegTypes, Labels
<1>2. /\ need' \in [Procs -> {0} \cup Needs] /\ fast' \in [Procs -> BOOLEAN]
  BY <1>0 DEF Finish, RegTypes
<1>3. /\ retry' \in [Procs -> 0 .. RetryLimit + LightRetryLimit]
      /\ pred' \in [Procs -> Snapshot] /\ curr' \in [Procs -> Snapshot]
  BY <1>0, BlankTypes DEF Finish, RegTypes
<1>4. OthersKept(p) BY <1>0 DEF Finish, GoTo, RegTypes, OthersKept
<1> QED BY <1>1, <1>2, <1>3, <1>4

LEMMA LabelStep ==
  ASSUME IInv, ~ WordReturns, NEW p \in Procs \ dead, Label(p)
  PROVE  IInv'
<1> DEFINE b == md[p].idx
<1>0. TypeOK /\ RegTypes /\ OwnOK(p) /\ Blocks /\ pc[p] = "label"
  BY TypesOfRegs DEF IInv, Label, Blocks
<1>1. /\ md[p] \in Desc /\ md[p] # NONE /\ b \in Chunks /\ b \in Index
      /\ held[b] = need[p] /\ held[b] > 0 /\ md[p].ver = NextVer(nodes[b].ver)
      /\ held[b] \in 0 .. NodeCount /\ nodes[b] \in Node
  BY <1>0, DescTypes, Numbers DEF RegTypes, OwnOK, BlockOK, OwnerLabels, TypeOK
<1>2. refs[md[p]] = 0
  <2>1. ~ RefOK(md[p]) BY <1>1 DEF RefOK
  <2>2. refs[md[p]] \in Nat BY <1>0, <1>1 DEF TypeOK
  <2> QED BY <1>0, <1>1, <2>1, <2>2 DEF Blocks, RefsOK
<1>3. /\ \A k \in Index : k # b => nodes'[k] = nodes[k]
      /\ nodes'[b] = [nodes[b] EXCEPT !.ver = NextVer(@), !.count = need[p], !.next = 1]
      /\ nodes' \in [Index -> Node]
  <2>1. NextVer(nodes[b].ver) \in 0 .. Versions - 1 BY <1>1, VersionFacts DEF Node
  <2>2. 1 \in 0 .. NodeCount + MaxDups BY NodeCountAssumption, LimitsAssumption
  <2>3. [nodes[b] EXCEPT !.ver = NextVer(@), !.count = need[p], !.next = 1] \in Node
    BY <1>1, <2>1, <2>2 DEF Node
  <2>4. nodes' = [nodes EXCEPT ![b] = [nodes[b] EXCEPT !.ver = NextVer(@), !.count = need[p],
                                                       !.next = 1]]
    BY <1>0, <1>1 DEF Label, TypeOK
  <2> QED BY <1>0, <1>1, <2>3, <2>4 DEF TypeOK
<1>4. /\ nodes'[b].ver = md[p].ver /\ nodes'[b].next = 1 /\ nodes'[b].count = held[b]
  BY <1>1, <1>3 DEF Node
<1>5. Finish(p) /\ UNCHANGED <<allocs, dups, held, dead>> BY DEF Label
<1>6. /\ pc' \in [Procs -> Labels] /\ pc'[p] = "idle"
      /\ md' \in [Procs -> Desc \cup {NONE}] /\ md'[p] = NONE
      /\ need' \in [Procs -> {0} \cup Needs] /\ fast' \in [Procs -> BOOLEAN]
      /\ retry' \in [Procs -> 0 .. RetryLimit + LightRetryLimit]
      /\ pred' \in [Procs -> Snapshot] /\ curr' \in [Procs -> Snapshot]
      /\ OthersKept(p)
  BY <1>0, <1>5, FinishTypes
<1>7. /\ refs' \in [Desc -> Nat] /\ refs'[md[p]] = 1 /\ issued' \in [Desc -> Nat]
      /\ \A d \in Desc : d # md[p] => refs'[d] = refs[d]
  BY <1>0, <1>1, <1>2 DEF Label, TypeOK
<1>8. TypeOK' BY <1>0, <1>3, <1>5, <1>6, <1>7 DEF TypeOK, Snapshot
<1>9. ValuesOK(p)' /\ FreshOK(p)'
  BY <1>6 DEF ValuesOK, FreshOK, PredAwaits, CurrAwaits
<1> QED BY <1>0, <1>1, <1>3, <1>4, <1>5, <1>6, <1>7, <1>8, <1>9, OwnerStep
     DEF OwnerLabels, SearchLabels

\* A step that writes the word of the block and moves on.
LEMMA OwnerMoves ==
  ASSUME IInv, ~ WordReturns, NEW p \in Procs \ dead,
         NEW l \in {"raise", "insert", "lower", "clear"},
         pc[p] \in {"link", "raise", "insert", "lower"}, GoTo(p, l),
         UNCHANGED <<regs, refs, allocs, dups, held, issued, dead>>,
         NEW w \in Node, w.count = nodes[md[p].idx].count,
         nodes' = [nodes EXCEPT ![md[p].idx] = w],
         l = "raise" => pc[p] = "link" /\ w.ver = md[p].ver /\ LinkedOK(p)',
         l = "insert" => pc[p] = "raise" /\ w.ver = NextVer(md[p].ver) /\ LinkedOK(p)',
         l = "lower" => w.ver = NextVer(md[p].ver),
         l = "clear" => w.ver = md[p].ver
  PROVE  IInv'
<1> DEFINE b == md[p].idx
<1>0. /\ TypeOK /\ RegTypes /\ OwnOK(p) /\ Blocks /\ ValuesOK(p) /\ FreshOK(p) /\ Shape
  BY TypesOfRegs DEF IInv, Blocks
<1>1. /\ md[p] \in Desc /\ md[p] # NONE /\ b \in Chunks /\ b \in Index /\ held[b] > 0
  BY <1>0, DescTypes, Numbers DEF RegTypes, OwnOK, BlockOK, OwnerLabels
<1>2. /\ nodes' \in [Index -> Node] /\ nodes'[b] = w
      /\ \A k \in Index : k # b => nodes'[k] = nodes[k]
  BY <1>0, <1>1 DEF TypeOK
<1>3. /\ pc' \in [Procs -> Labels] /\ pc'[p] = l BY <1>0 DEF GoTo, RegTypes, Labels
<1>4. OthersKept(p) /\ md' = md /\ curr' = curr /\ pred' = pred /\ need' = need
  BY <1>0 DEF OthersKept, GoTo, RegTypes, regs
<1>5. TypeOK' BY <1>0, <1>2, <1>3 DEF TypeOK, regs
<1>6. BlockOK(p)' BY <1>1, <1>2, <1>3, <1>4 DEF BlockOK, SearchLabels
<1>7. ValuesOK(p)' BY <1>0, <1>3, <1>4 DEF ValuesOK, PredAwaits
<1>8. FreshOK(p)'
  <2>1. OnList' = OnList
    <3>1. \A k \in Index : (k \in Chunks => held[k] = 0) => nodes'[k] = nodes[k]
      BY <1>1, <1>2
    <3> QED BY <1>0, <3>1, ShapeKeptByOwner
  <2>2. pc'[p] \in {"raise", "insert"} => pc[p] \in {"link", "raise"} BY <1>3
  <2>3. pc[p] \in {"link", "raise"} /\ Unmodified(curr[p])' => curr[p].idx \in OnList
    <3>1. pc[p] \in {"link", "raise"} /\ Unmodified(curr[p])' => Unmodified(curr[p])
      BY <1>4, NothingReturns DEF CurrAwaits
    <3> QED BY <1>0, <3>1 DEF FreshOK, CurrAwaits
  <2> QED BY <1>3, <1>4, <2>1, <2>2, <2>3 DEF FreshOK, PredAwaits, CurrAwaits
<1> QED BY <1>0, <1>1, <1>2, <1>3, <1>4, <1>5, <1>6, <1>7, <1>8, OwnerStep
     DEF OwnerLabels, SearchLabels


LEMMA OwnFacts ==
  ASSUME IInv, NEW p \in Procs, md[p] # NONE
  PROVE  /\ md[p] \in Desc /\ md[p].idx \in Chunks /\ md[p].idx \in Index /\ md[p].idx \in Nat
         /\ md[p].ver \in 0 .. Versions - 1 /\ BlockOK(p) /\ held[md[p].idx] > 0
         /\ held[md[p].idx] \in Nat /\ held[md[p].idx] <= NodeCount
         /\ nodes[md[p].idx] \in Node
         /\ \A q \in Procs : md[q].idx = md[p].idx => q = p
         /\ pc[p] # "label" => nodes[md[p].idx].count = held[md[p].idx]
<1>0. TypeOK /\ OwnOK(p) /\ LentOK BY DEF IInv
<1>1. /\ md[p] \in Desc /\ md[p].idx \in Chunks /\ md[p].idx \in Index /\ md[p].idx \in Nat
      /\ md[p].ver \in 0 .. Versions - 1
  BY <1>0, DescTypes, Numbers DEF TypeOK
<1>2. /\ BlockOK(p) /\ held[md[p].idx] > 0
      /\ \A q \in Procs : md[q].idx = md[p].idx => q = p
  BY <1>0 DEF OwnOK, BlockOK
<1>3. held[md[p].idx] \in 0 .. NodeCount /\ nodes[md[p].idx] \in Node
  BY <1>0, <1>1 DEF TypeOK
<1>4. held[md[p].idx] \in Nat /\ held[md[p].idx] <= NodeCount BY <1>3, Numbers
<1>5. pc[p] # "label" => nodes[md[p].idx].count = held[md[p].idx]
  BY <1>0, <1>1, <1>2 DEF LentOK
<1> QED BY <1>1, <1>2, <1>3, <1>4, <1>5

LEMMA LinkStep ==
  ASSUME IInv, ~ WordReturns, NEW p \in Procs \ dead, Link(p)
  PROVE  IInv'
<1> DEFINE b == md[p].idx
           w == [nodes[b] EXCEPT !.next = curr[p].node.next, !.status = {}]
<1>0. TypeOK /\ RegTypes /\ OwnOK(p) /\ ValuesOK(p) /\ pc[p] = "link" /\ md[p] # NONE
  BY TypesOfRegs DEF IInv, Link, OwnOK, OwnerLabels
<1>1. b \in Index /\ nodes[b] \in Node /\ BlockOK(p) BY <1>0, OwnFacts
<1>2. curr[p].node.next \in 0 .. NodeCount + MaxDups
  BY <1>0, SnapshotTypes DEF RegTypes, Node
<1>3. w \in Node /\ w.count = nodes[b].count /\ w.ver = nodes[b].ver
      /\ w.next = curr[p].node.next /\ w.status = {}
  BY <1>1, <1>2 DEF Node
<1>4. nodes' = [nodes EXCEPT ![b] = w] BY <1>0, <1>1 DEF Link, TypeOK
<1>5. nodes'[b] = w BY <1>0, <1>1, <1>4 DEF TypeOK
<1>6. UNCHANGED <<regs, refs, allocs, dups, held, issued, dead>> /\ GoTo(p, "raise")
  BY DEF Link
<1>7. w.ver = md[p].ver /\ ~ IsNeighbor(p, curr[p]) BY <1>0, <1>1, <1>3 DEF BlockOK
<1>8. LinkedOK(p)' BY <1>3, <1>5, <1>6, <1>7 DEF LinkedOK, IsNeighbor, regs
<1> HIDE DEF w
<1> QED BY <1>0, <1>3, <1>4, <1>6, <1>7, <1>8, OwnerMoves

LEMMA RaiseStep ==
  ASSUME IInv, ~ WordReturns, NEW p \in Procs \ dead, Raise(p)
  PROVE  IInv'
<1> DEFINE b == md[p].idx
           w == [nodes[b] EXCEPT !.ver = NextVer(@)]
<1>0. TypeOK /\ OwnOK(p) /\ pc[p] = "raise" /\ md[p] # NONE
  BY DEF IInv, Raise, OwnOK, OwnerLabels
<1>1. b \in Index /\ nodes[b] \in Node /\ BlockOK(p) BY <1>0, OwnFacts
<1>2. NextVer(nodes[b].ver) \in 0 .. Versions - 1 BY <1>1, VersionFacts DEF Node
<1>3. w \in Node /\ w.count = nodes[b].count /\ w.ver = NextVer(nodes[b].ver)
      /\ w.next = nodes[b].next /\ w.status = nodes[b].status
  BY <1>1, <1>2 DEF Node
<1>4. nodes' = [nodes EXCEPT ![b] = w] BY <1>0, <1>1 DEF Raise, TypeOK
<1>5. nodes'[b] = w BY <1>0, <1>1, <1>4 DEF TypeOK
<1>6. UNCHANGED <<regs, refs, allocs, dups, held, issued, dead>> /\ GoTo(p, "insert")
  BY DEF Raise
<1>7. w.ver = NextVer(md[p].ver) /\ LinkedOK(p) BY <1>0, <1>1, <1>3 DEF BlockOK
<1>8. LinkedOK(p)' BY <1>3, <1>5, <1>6, <1>7 DEF LinkedOK, IsNeighbor, regs
<1> HIDE DEF w
<1> QED BY <1>0, <1>3, <1>4, <1>6, <1>7, <1>8, OwnerMoves

LEMMA LowerStep ==
  ASSUME IInv, ~ WordReturns, NEW p \in Procs \ dead, Lower(p)
  PROVE  IInv'
<1> DEFINE b == md[p].idx
           w == [nodes[b] EXCEPT !.ver = (@ + Versions - 1) % Versions]
<1>0. TypeOK /\ OwnOK(p) /\ pc[p] = "lower" /\ md[p] # NONE
  BY DEF IInv, Lower, OwnOK, OwnerLabels
<1>1. /\ b \in Index /\ nodes[b] \in Node /\ nodes[b].ver = NextVer(md[p].ver)
      /\ md[p].ver \in 0 .. Versions - 1
  BY <1>0, OwnFacts DEF BlockOK
<1>2. (nodes[b].ver + Versions - 1) % Versions = md[p].ver BY <1>1, VersionFacts
<1>3. w \in Node /\ w.count = nodes[b].count /\ w.ver = md[p].ver
  BY <1>1, <1>2 DEF Node
<1>4. nodes' = [nodes EXCEPT ![b] = w] BY <1>0, <1>1 DEF Lower, TypeOK
<1>5. UNCHANGED <<regs, refs, allocs, dups, held, issued, dead>> /\ GoTo(p, "clear")
  BY DEF Lower
<1> HIDE DEF w
<1> QED BY <1>0, <1>3, <1>4, <1>5, OwnerMoves

LEMMA ClearStep ==
  ASSUME IInv, ~ WordReturns, NEW p \in Procs \ dead, Clear(p)
  PROVE  IInv'
<1> DEFINE b == md[p].idx
           w == [nodes[b] EXCEPT !.next = 0]
<1>0. TypeOK /\ RegTypes /\ OwnOK(p) /\ pc[p] = "clear" /\ md[p] # NONE
  BY TypesOfRegs DEF IInv, Clear, OwnOK, OwnerLabels
<1>1. /\ b \in Index /\ nodes[b] \in Node /\ nodes[b].ver = md[p].ver /\ held[b] > 0
      /\ md[p] \in Desc
  BY <1>0, OwnFacts DEF BlockOK
<1>2. w \in Node /\ w.count = nodes[b].count /\ w.ver = md[p].ver /\ w.next = 0
  <2>1. 0 \in 0 .. NodeCount + MaxDups BY NodeCountAssumption, LimitsAssumption
  <2> QED BY <1>1, <2>1 DEF Node
<1>3. nodes' = [nodes EXCEPT ![b] = w] BY <1>0, <1>1 DEF Clear, TypeOK
<1>4. /\ nodes' \in [Index -> Node] /\ nodes'[b] = w
      /\ \A k \in Index : k # b => nodes'[k] = nodes[k]
  BY <1>0, <1>1, <1>2, <1>3 DEF TypeOK
<1>5. UNCHANGED <<allocs, dups, held, issued, dead>> BY DEF Clear
<1> HIDE DEF w
<1>6. CASE fast[p]
  <2>1. Fail(p) BY <1>6 DEF Clear
  <2>2. Result(p) /\ pc'[p] = "idle" BY <1>0, <2>1, FailResult
  <2>3. OthersKept(p) /\ RegTypes' /\ ValuesOK(p)' BY <2>2 DEF Result
  <2>4. md'[p] = NONE /\ refs' = [refs EXCEPT ![md[p]] = 1]
    BY <1>0, <2>1 DEF Fail, Finish, RegTypes
  <2>5. refs'[md[p]] = 1 /\ \A d \in Desc : d # md[p] => refs'[d] = refs[d]
    BY <1>0, <1>1, <2>4 DEF RegTypes
  <2>6. TypeOK' BY <1>0, <1>4, <1>5, <2>3 DEF TypeOK, RegTypes, Snapshot
  <2>7. FreshOK(p)' BY <2>2 DEF FreshOK, PredAwaits, CurrAwaits
  <2> QED BY <1>0, <1>2, <1>4, <1>5, <2>2, <2>3, <2>4, <2>5, <2>6, <2>7, OwnerStep
       DEF OwnerLabels, SearchLabels
<1>7. CASE ~ fast[p]
  <2>1. Search(p, RetryLimit) /\ UNCHANGED <<md, need, fast, refs>> BY <1>7 DEF Clear
  <2>2. Result(p) /\ pc'[p] = "start" BY <1>0, <2>1, BlankTypes, SearchResult
  <2>3. OthersKept(p) /\ RegTypes' /\ ValuesOK(p)' BY <2>2 DEF Result
  <2>4. BlockOK(p)' BY <1>1, <1>2, <1>4, <1>5, <2>1, <2>2 DEF BlockOK, SearchLabels
  <2>5. TypeOK' BY <1>0, <1>4, <1>5, <2>3 DEF TypeOK, RegTypes, Snapshot
  <2>6. FreshOK(p)' BY <2>2 DEF FreshOK, PredAwaits, CurrAwaits
  <2> QED BY <1>0, <1>2, <1>4, <1>5, <2>1, <2>2, <2>3, <2>4, <2>5, <2>6, OwnerStep
       DEF OwnerLabels, SearchLabels
<1> QED BY <1>6, <1>7

LEMMA InsertStep ==
  ASSUME IInv, ~ WordReturns, NEW p \in Procs \ dead, Insert(p)
  PROVE  IInv'
<1> DEFINE i == curr[p].idx
           b == md[p].idx
<1>0. /\ TypeOK /\ Shape /\ RegTypes /\ FreshOK(p) /\ ValuesOK(p) /\ OwnOK(p)
      /\ Blocks /\ pc[p] = "insert" /\ md[p] # NONE
  BY TypesOfRegs DEF IInv, Blocks, Insert, OwnOK, OwnerLabels
<1>1. /\ b \in Chunks /\ b \in Index /\ b \in Nat /\ nodes[b] \in Node /\ BlockOK(p)
      /\ held[b] \in Nat /\ held[b] > 0 /\ nodes[b].count = held[b] /\ md[p] \in Desc
      /\ \A q \in Procs : md[q].idx = b => q = p
  BY <1>0, OwnFacts
<1>2. CASE ~ Unmodified(curr[p])
  <2>1. GoTo(p, "lower") /\ UNCHANGED <<nodes, held, regs>>
        /\ UNCHANGED <<refs, allocs, dups, issued, dead>>
    BY <1>2 DEF Insert
  <2>2. nodes' = [nodes EXCEPT ![b] = nodes[b]] BY <1>0, <2>1 DEF TypeOK
  <2>3. nodes[b].ver = NextVer(md[p].ver) BY <1>0, <1>1 DEF BlockOK
  <2> QED BY <1>0, <1>1, <2>1, <2>2, <2>3, OwnerMoves
<1>3. CASE Unmodified(curr[p])
  <2> DEFINE w == IF IsNeighbor(p, curr[p])
                    THEN ChangeCount(curr[p].node, curr[p].node.count + nodes[b].count)
                    ELSE ChangeNext(curr[p].node, b)
  <2>0. /\ nodes' = [nodes EXCEPT ![i] = w] /\ held' = [held EXCEPT ![b] = 0] /\ Finish(p)
        /\ UNCHANGED <<refs, allocs, dups, issued, dead>>
    BY <1>3 DEF Insert, Swap
  <2>1. /\ curr[p] \in Snapshot /\ WordOK(md[p], curr[p]) /\ "tail" \notin curr[p].node.status
        /\ i + curr[p].node.count <= b /\ b < curr[p].node.next
    BY <1>0 DEF RegTypes, ValuesOK
  <2>2. /\ i \in Chunks /\ i \in OnList /\ i \in Index /\ i # NodeCount /\ i \in Nat
    BY <1>0, <1>3, <2>1, Numbers DEF FreshOK, CurrAwaits, WordOK
  <2>3. nodes[i] = curr[p].node /\ curr[p].node \in Node /\ curr[p].node.count \in Nat
        /\ curr[p].node.next \in Nat
    BY <1>3, <2>1, SnapshotTypes DEF Unmodified
  <2>4. "head" \notin nodes[i].status
    BY <1>1, <2>1, <2>2, <2>3 DEF WordOK, Joinable
  <2>5. b # i /\ b \notin OnList
    BY <1>0, <1>1, <2>2, FreeNotLent DEF Listed
  <2>6. /\ Shape' /\ OnList \subseteq OnList' /\ w \in Node
    <3>1. CASE IsNeighbor(p, curr[p])
      <4>1. b = i + nodes[i].count BY <2>3, <3>1 DEF IsNeighbor
      <4>2. b + held[b] <= NodeCount
        <5>1. b \in Starts /\ Sizes[b] = held[b] BY <1>1, <2>5 DEF Starts, Sizes
        <5>2. b + held[b] \in Starts \cup {NodeCount} BY <1>0, <5>1 DEF Shape, Tiles
        <5>3. \A x \in Starts \cup {NodeCount} : x <= NodeCount
          BY NodeCountAssumption DEF Starts, Chunks
        <5> QED BY <5>2, <5>3
      <4>3. curr[p].node.count + nodes[b].count \in 0 .. NodeCount
        BY <1>1, <2>2, <2>3, <4>1, <4>2, Numbers
      <4>4. w = ChangeCount(curr[p].node, curr[p].node.count + nodes[b].count) BY <3>1
      <4>5. /\ w \in Node /\ w.count = curr[p].node.count + nodes[b].count
            /\ w.next = curr[p].node.next /\ w.status = curr[p].node.status
        BY <2>3, <4>3, <4>4, ChangeCountTypes
      <4>6. w.count = nodes[i].count + held[b] /\ w.next = nodes[i].next /\ "head" \notin w.status
        BY <1>1, <2>3, <2>4, <4>5
      <4> HIDE DEF w
      <4>7. Shape' /\ OnList' = OnList
        BY <1>0, <1>1, <2>0, <2>2, <4>1, <4>6, GrowShape
      <4> QED BY <4>5, <4>7
    <3>2. CASE ~ IsNeighbor(p, curr[p])
      <4>1. b \in 0 .. NodeCount + MaxDups BY <1>1, Numbers, LimitsAssumption
      <4>2. w = ChangeNext(curr[p].node, b) BY <3>2
      <4>3. /\ w \in Node /\ w.next = b
            /\ w.count = nodes[i].count /\ w.status = nodes[i].status
        BY <2>3, <4>1, <4>2, ChangeNextTypes
      <4>4. nodes[b].next = nodes[i].next /\ nodes[b].status = {}
        BY <1>0, <1>1, <2>3, <3>2 DEF BlockOK, LinkedOK
      <4>5. i + nodes[i].count <= b /\ b < nodes[i].next BY <2>1, <2>3
      <4> HIDE DEF w
      <4>6. Shape' /\ OnList' = OnList \cup {b}
        BY <1>0, <1>1, <2>0, <2>2, <4>3, <4>4, <4>5, LinkShape
      <4> QED BY <4>3, <4>6
    <3> QED BY <3>1, <3>2
  <2> HIDE DEF w
  <2>7. /\ nodes' \in [Index -> Node] /\ nodes'[i] = w
        /\ \A k \in Index \ {i} : nodes'[k] = nodes[k]
    BY <1>0, <2>0, <2>2, <2>6 DEF TypeOK
  <2>8. /\ held' \in [Chunks -> 0 .. NodeCount] /\ held'[b] = 0
        /\ \A k \in Chunks \ {b} : held'[k] = held[k]
    BY <1>0, <1>1, <2>0, Numbers DEF TypeOK
  <2>9. /\ pc' \in [Procs -> Labels] /\ pc'[p] = "idle"
        /\ md' \in [Procs -> Desc \cup {NONE}] /\ md'[p] = NONE
        /\ need' \in [Procs -> {0} \cup Needs] /\ fast' \in [Procs -> BOOLEAN]
        /\ retry' \in [Procs -> 0 .. RetryLimit + LightRetryLimit]
        /\ pred' \in [Procs -> Snapshot] /\ curr' \in [Procs -> Snapshot]
        /\ OthersKept(p)
    BY <1>0, <2>0, FinishTypes
  <2>10. TypeOK' BY <1>0, <2>0, <2>7, <2>8, <2>9 DEF TypeOK, Snapshot
  <2>11. \A k \in Chunks : held[k] > 0 /\ k # b =>
           k # i /\ nodes'[k] = nodes[k] /\ held'[k] = held[k]
    <3>1. \A k \in Chunks : held[k] > 0 => k # i
      BY <1>0, <2>2, FreeNotLent DEF Listed
    <3> QED BY <2>7, <2>8, <3>1, Numbers
  <2>12. \A k \in Chunks : held'[k] > 0 => k # b /\ held[k] > 0 BY <2>8
  <2>13. \A q \in Procs : \A k \in Chunks : md'[q].idx = k => md[q].idx = k
    BY <2>9, BlankTypes, Numbers DEF OthersKept
  <2>14. LentOK'
    <3> SUFFICES ASSUME NEW k \in Chunks, held'[k] > 0
                 PROVE  \/ nodes'[k].count = held'[k]
                        \/ \E q \in Procs : pc'[q] = "label" /\ md'[q].idx = k
      BY DEF LentOK
    <3>1. k # b /\ held[k] > 0 BY <2>12
    <3>2. ASSUME NEW q \in Procs, pc[q] = "label", md[q].idx = k
          PROVE  pc'[q] = "label" /\ md'[q].idx = k
      <4>1. q # p BY <3>1, <3>2
      <4> QED BY <2>9, <3>2, <4>1 DEF OthersKept
    <3> QED BY <1>0, <2>11, <3>1, <3>2 DEF LentOK, Blocks
  <2>15. HadOK'
    <3> SUFFICES ASSUME NEW k \in Chunks, held'[k] > 0
                 PROVE  \/ \E q \in Procs : md'[q].idx = k
                        \/ \E e \in Desc : e.idx = k /\ refs'[e] > 0
      BY DEF HadOK
    <3>1. k # b /\ held[k] > 0 BY <2>12
    <3>2. ASSUME NEW q \in Procs, md[q].idx = k PROVE md'[q].idx = k
      <4>1. q # p BY <3>1, <3>2
      <4> QED BY <2>9, <3>2, <4>1 DEF OthersKept
    <3> QED BY <1>0, <2>0, <3>1, <3>2 DEF HadOK, Blocks
  <2>16. RefsOK'
    <3> SUFFICES ASSUME NEW e \in Desc, refs'[e] > 0 PROVE RefOK(e)' BY DEF RefsOK
    <3>1. RefOK(e) BY <1>0, <2>0 DEF Blocks, RefsOK
    <3>2. e.idx \in Chunks /\ held[e.idx] > 0 /\ e.idx # b BY <3>1, DescTypes DEF RefOK
    <3>3. \A r \in Procs : md'[r].idx # e.idx BY <2>13, <3>1, <3>2 DEF RefOK
    <3>4. dups \in Nat BY <1>0, LimitsAssumption DEF TypeOK
    <3> QED BY <1>0, <2>0, <2>11, <3>1, <3>2, <3>3, <3>4, RefKept
  <2>17. OwnOK(p)' BY <2>9 DEF OwnOK, SearchLabels, OwnerLabels
  <2>18. ASSUME NEW q \in Procs, q # p PROVE OwnOK(q)'
    <3>1. /\ OwnOK(q) /\ pc'[q] = pc[q] /\ md'[q] = md[q] /\ need'[q] = need[q]
          /\ curr'[q] = curr[q]
      BY <1>0, <2>9, <2>18 DEF OthersKept, Blocks
    <3>2. ASSUME md[q] # NONE
          PROVE  /\ held'[md[q].idx] = held[md[q].idx]
                 /\ nodes'[md[q].idx] = nodes[md[q].idx]
                 /\ \A r \in Procs : md'[r].idx = md[q].idx => r = q
      <4>1. md[q].idx \in Chunks /\ held[md[q].idx] > 0 /\ md[q].idx # b
        BY <1>1, <2>18, <3>2, OwnFacts
      <4> QED BY <2>11, <2>13, <3>1, <3>2, <4>1 DEF OwnOK
    <3> QED BY <3>1, <3>2, OwnKept
  <2>19. Blocks' BY <2>14, <2>15, <2>16, <2>17, <2>18 DEF Blocks
  <2>20. ValuesOK(p)' /\ FreshOK(p)'
    BY <2>9 DEF ValuesOK, FreshOK, PredAwaits, CurrAwaits
  <2>21. \A q \in Procs \ dead' : q # p => FreshOK(q)'
    <3>1. \A k \in OnList \cap Index : nodes'[k] # nodes[k] => "tail" \notin nodes[k].status
      BY <2>1, <2>3, <2>7
    <3> QED BY <2>0, <2>6, <2>9, <3>1, OthersFreshKept
  <2> QED BY <2>6, <2>9, <2>10, <2>19, <2>20, <2>21, Combine
<1> QED BY <1>2, <1>3
-----------------------------------------------------------------------------
(* Calls begin, and processes are killed.                                  *)

LEMMA AllocateStep ==
  ASSUME IInv, ~ WordReturns, NEW p \in Procs \ dead, NEW n \in Needs, Allocate(p, n)
  PROVE  IInv'
<1>0. /\ TypeOK /\ Shape /\ RegTypes /\ OwnOK(p) /\ Blocks /\ pc[p] = "idle" /\ md[p] = NONE
  BY TypesOfRegs DEF IInv, Blocks, Allocate, OwnOK
<1>1. /\ Search(p, RetryLimit) /\ allocs < MaxAlloc /\ allocs' = allocs + 1
      /\ need' = [need EXCEPT ![p] = n]
      /\ UNCHANGED <<nodes, md, fast, refs, dups, held, issued, dead>>
  BY DEF Allocate
<1>2. /\ pc' \in [Procs -> Labels] /\ pc'[p] = "start"
      /\ retry' \in [Procs -> 0 .. RetryLimit + LightRetryLimit]
      /\ pred' \in [Procs -> Snapshot] /\ curr' \in [Procs -> Snapshot]
      /\ \A q \in Procs \ {p} : pc'[q] = pc[q] /\ pred'[q] = pred[q] /\ curr'[q] = curr[q]
      /\ ValuesOK(p)'
  BY <1>0, <1>1, BlankTypes, SearchTypes
<1>3. need' \in [Procs -> {0} \cup Needs] /\ need'[p] = n BY <1>0, <1>1 DEF RegTypes
<1>4. allocs' \in 0 .. MaxAlloc BY <1>0, <1>1, LimitsAssumption DEF TypeOK
<1>5. TypeOK' BY <1>0, <1>1, <1>2, <1>3, <1>4 DEF TypeOK, Snapshot
<1>6. OthersKept(p) BY <1>0, <1>1, <1>2 DEF OthersKept, RegTypes
<1>7. Shape' /\ OnList' = OnList BY <1>0, <1>1, ShapeKeptByOwner
<1>8. LentOK'
  <2>1. \A q \in Procs : pc[q] = "label" => pc'[q] = "label" BY <1>0, <1>6 DEF OthersKept
  <2> QED BY <1>0, <1>1, <2>1 DEF Blocks, LentOK
<1>9. HadOK' BY <1>0, <1>1 DEF Blocks, HadOK
<1>10. RefsOK' BY <1>0, <1>1 DEF Blocks, RefsOK, RefOK
<1>11. OwnOK(p)' BY <1>0, <1>1, <1>2, <1>3 DEF OwnOK, SearchLabels, OwnerLabels
<1>12. ASSUME NEW q \in Procs, q # p PROVE OwnOK(q)'
  <2>1. /\ OwnOK(q) /\ pc'[q] = pc[q] /\ md'[q] = md[q] /\ need'[q] = need[q]
        /\ curr'[q] = curr[q]
    BY <1>0, <1>6, <1>12 DEF OthersKept, Blocks
  <2>2. md[q] # NONE => \A r \in Procs : md'[r].idx = md[q].idx => r = q
    BY <1>1, <2>1 DEF OwnOK
  <2> QED BY <1>1, <2>1, <2>2, OwnKept
<1>13. FreshOK(p)' BY <1>2 DEF FreshOK, PredAwaits, CurrAwaits
<1>14. \A q \in Procs \ dead' : q # p => FreshOK(q)'
  BY <1>1, <1>2, <1>6, <1>7, OthersFreshKept
<1>15. Blocks' BY <1>8, <1>9, <1>10, <1>11, <1>12 DEF Blocks
<1> QED BY <1>2, <1>5, <1>6, <1>7, <1>13, <1>14, <1>15, Combine

\* A client's call that writes the word of a block it has a reference to.
LEMMA ClientStep ==
  ASSUME IInv, ~ WordReturns, NEW p \in Procs \ dead, pc[p] = "idle", NEW d \in Desc, RefOK(d),
         OthersKept(p), TypeOK', UNCHANGED <<held, dead>>, dups <= dups',
         NEW w, nodes' = [nodes EXCEPT ![d.idx] = w], w.count = nodes[d.idx].count,
         \A e \in Desc : e # d => refs'[e] = refs[e],
         \/ md'[p] = NONE /\ pc'[p] = "idle" /\ refs'[d] > 0 /\ RefOK(d)'
         \/ /\ md'[p] = d /\ pc'[p] = "start" /\ refs'[d] = 0
            /\ w.ver = d.ver /\ w.next = 0,
         ValuesOK(p)', FreshOK(p)'
  PROVE  IInv'
<1> DEFINE b == d.idx
<1>0. /\ TypeOK /\ Shape /\ RegTypes /\ OwnOK(p) /\ Blocks /\ md[p] = NONE
  BY TypesOfRegs DEF IInv, Blocks, OwnOK
<1>1. /\ b \in Chunks /\ b \in Index /\ held[b] > 0 /\ \A q \in Procs : md[q].idx # b
  BY DescTypes, Numbers DEF RefOK
<1>2. nodes'[b] = w /\ \A k \in Index : k # b => nodes'[k] = nodes[k]
  BY <1>0, <1>1 DEF TypeOK
<1>3. Shape' /\ OnList' = OnList
  <2>1. \A k \in Index : (k \in Chunks => held[k] = 0) => nodes'[k] = nodes[k] BY <1>1, <1>2
  <2> QED BY <1>0, <2>1, ShapeKeptByOwner
<1>4. \A q \in Procs : md[q] # NONE => q # p /\ md[q].idx \in Chunks /\ md[q].idx # b
  BY <1>0, <1>1, OwnFacts DEF IInv
<1>5. \A q \in Procs : \A k \in Chunks : md[q].idx = k => md'[q].idx = k
  BY <1>0, BlankTypes, Numbers DEF OthersKept
<1>6. LentOK'
  <2> SUFFICES ASSUME NEW k \in Chunks, held[k] > 0
               PROVE  \/ nodes'[k].count = held[k]
                      \/ \E q \in Procs : pc'[q] = "label" /\ md'[q].idx = k
    BY DEF LentOK
  <2>1. nodes'[k].count = nodes[k].count BY <1>2, Numbers
  <2>2. \A q \in Procs : pc[q] = "label" => pc'[q] = "label" BY DEF OthersKept
  <2> QED BY <1>0, <1>5, <2>1, <2>2 DEF Blocks, LentOK
<1>7. HadOK'
  <2> SUFFICES ASSUME NEW k \in Chunks, held[k] > 0
               PROVE  \/ \E q \in Procs : md'[q].idx = k
                      \/ \E e \in Desc : e.idx = k /\ refs'[e] > 0
    BY DEF HadOK
  <2>1. CASE k = b BY <2>1
  <2>2. CASE k # b BY <1>0, <1>5, <2>2 DEF Blocks, HadOK
  <2> QED BY <2>1, <2>2
<1>8. RefsOK'
  <2> SUFFICES ASSUME NEW e \in Desc, refs'[e] > 0 PROVE RefOK(e)' BY DEF RefsOK
  <2>1. CASE e = d BY <2>1
  <2>2. CASE e # d
    <3>1. RefOK(e) /\ refs'[e] = refs[e] BY <1>0, <2>2 DEF Blocks, RefsOK
    <3>2. e.idx # b
      <4>1. e.idx = b => e.ver = d.ver BY <3>1 DEF RefOK
      <4> QED BY <2>2, <4>1 DEF Desc
    <3>3. nodes'[e.idx] = nodes[e.idx] BY <1>2, <3>2, DescTypes, Numbers
    <3>4. \A r \in Procs : md'[r].idx # e.idx
      <4>1. md'[p].idx # e.idx BY <3>2, DescTypes, BlankTypes, Numbers
      <4> QED BY <3>1, <4>1 DEF RefOK, OthersKept
    <3>5. dups' \in Nat BY LimitsAssumption DEF TypeOK
    <3> QED BY <1>0, <3>1, <3>3, <3>4, <3>5, RefKept
  <2> QED BY <2>1, <2>2
<1>9. OwnOK(p)'
  <2>1. CASE md'[p] = NONE /\ pc'[p] = "idle" BY <2>1 DEF OwnOK, SearchLabels, OwnerLabels
  <2>2. CASE md'[p] = d /\ pc'[p] = "start" /\ w.ver = d.ver /\ w.next = 0
    <3>1. BlockOK(p)' BY <1>1, <1>2, <2>2 DEF BlockOK, SearchLabels
    <3>2. \A q \in Procs : md'[q].idx = b => q = p BY <1>1 DEF OthersKept
    <3>3. d # NONE BY BlankTypes
    <3> QED BY <2>2, <3>1, <3>2, <3>3 DEF OwnOK, SearchLabels, OwnerLabels
  <2> QED BY <2>1, <2>2
<1>10. ASSUME NEW q \in Procs, q # p PROVE OwnOK(q)'
  <2>1. /\ OwnOK(q) /\ pc'[q] = pc[q] /\ md'[q] = md[q] /\ need'[q] = need[q]
        /\ curr'[q] = curr[q]
    BY <1>0, <1>10 DEF OthersKept, Blocks
  <2>2. ASSUME md[q] # NONE
        PROVE  /\ nodes'[md[q].idx] = nodes[md[q].idx]
               /\ \A r \in Procs : md'[r].idx = md[q].idx => r = q
    <3>1. md[q].idx \in Chunks /\ md[q].idx # b BY <1>4, <2>2
    <3>2. nodes'[md[q].idx] = nodes[md[q].idx] BY <1>2, <3>1, Numbers
    <3>3. md'[p].idx # md[q].idx BY <3>1, BlankTypes, Numbers
    <3>4. \A r \in Procs : md[r].idx = md[q].idx => r = q BY <2>1, <2>2 DEF OwnOK
    <3> QED BY <3>2, <3>3, <3>4 DEF OthersKept
  <2> QED BY <2>1, <2>2, OwnKept
<1>11. Blocks' BY <1>6, <1>7, <1>8, <1>9, <1>10 DEF Blocks
<1>12. \A q \in Procs \ dead' : q # p => FreshOK(q)'
  <2>1. \A k \in OnList \cap Index : nodes'[k] = nodes[k]
    BY <1>0, <1>1, <1>2, FreeNotLent DEF Listed
  <2> QED BY <1>3, <2>1, OthersFreshKept
<1> QED BY <1>3, <1>11, <1>12, Combine

LEMMA DupStep ==
  ASSUME IInv, ~ WordReturns, StaleDups = FALSE, NEW p \in Procs \ dead, NEW d \in Desc, Dup(p, d)
  PROVE  IInv'
<1> DEFINE b == d.idx
           w == [nodes[b] EXCEPT !.next = @ + 1]
<1>0. /\ TypeOK /\ RegTypes /\ OwnOK(p) /\ Blocks /\ pc[p] = "idle" /\ md[p] = NONE
  BY TypesOfRegs DEF IInv, Blocks, Dup, OwnOK
<1>1. /\ b \in Chunks /\ b \in Index /\ nodes[b] \in Node /\ nodes[b].next \in Nat
      /\ dups \in Nat /\ refs[d] \in Nat
  BY <1>0, DescTypes, NodeTypes, Numbers, LimitsAssumption DEF TypeOK
<1>2. /\ refs[d] > 0 /\ nodes[b].next # 0 /\ dups < MaxDups /\ dups' = dups + 1
      /\ refs' = [refs EXCEPT ![d] = @ + 1]
      /\ UNCHANGED <<pc, regs, allocs, held, issued, dead>>
  BY DEF Dup, DupSucceeds
<1>3. RefOK(d) /\ refs[d] > 0 BY <1>0, <1>2 DEF Blocks, RefsOK
<1>4. nodes[b].next = refs[d] /\ refs[d] <= dups + 1 /\ nodes[b].ver = d.ver
  BY <1>2, <1>3 DEF RefOK
<1>5. w \in Node /\ w.count = nodes[b].count /\ w.ver = d.ver /\ w.next = refs[d] + 1
  <2>1. nodes[b].next + 1 \in 0 .. NodeCount + MaxDups
    BY <1>1, <1>2, <1>4, LimitsAssumption, NodeCountAssumption
  <2> QED BY <1>1, <1>4, <2>1 DEF Node
<1>6. nodes' = [nodes EXCEPT ![b] = w] BY <1>0, <1>1 DEF Dup, TypeOK
<1>7. nodes' \in [Index -> Node] /\ nodes'[b] = w BY <1>0, <1>1, <1>5, <1>6 DEF TypeOK
<1>8. /\ refs' \in [Desc -> Nat] /\ refs'[d] = refs[d] + 1
      /\ \A e \in Desc : e # d => refs'[e] = refs[e]
  BY <1>0, <1>1, <1>2 DEF TypeOK
<1>9. TypeOK'
  <2>1. dups' \in 0 .. MaxDups BY <1>1, <1>2, LimitsAssumption
  <2> QED BY <1>0, <1>2, <1>7, <1>8, <2>1 DEF TypeOK, regs
<1>10. OthersKept(p) /\ md'[p] = NONE /\ pc'[p] = "idle"
  BY <1>0, <1>2 DEF OthersKept, regs
<1> HIDE DEF w
<1>11. RefOK(d)' /\ refs'[d] > 0
  <2>1. \A q \in Procs : md'[q].idx # d.idx BY <1>2, <1>3 DEF RefOK, regs
  <2>2. /\ held'[d.idx] > 0 /\ nodes'[d.idx].ver = d.ver /\ nodes'[d.idx].next = refs'[d]
        /\ refs'[d] > 0 /\ refs'[d] <= dups' + 1
    BY <1>1, <1>2, <1>3, <1>4, <1>5, <1>7, <1>8 DEF RefOK
  <2> QED BY <1>1, <2>1, <2>2 DEF RefOK
<1>12. ValuesOK(p)' /\ FreshOK(p)'
  BY <1>10 DEF ValuesOK, FreshOK, PredAwaits, CurrAwaits
<1>13. held' = held /\ dead' = dead /\ dups <= dups' BY <1>1, <1>2
<1> QED BY <1>0, <1>3, <1>5, <1>6, <1>8, <1>9, <1>10, <1>11, <1>12, <1>13, ClientStep

LEMMA ReleaseStep ==
  ASSUME IInv, ~ WordReturns, NEW p \in Procs \ dead, NEW d \in Desc, NEW light \in BOOLEAN,
         Release(p, d, light)
  PROVE  IInv'
<1> DEFINE b == d.idx
           w == [nodes[b] EXCEPT !.next = IF @ = 0 THEN 0 ELSE @ - 1]
<1>0. /\ TypeOK /\ RegTypes /\ OwnOK(p) /\ Blocks /\ pc[p] = "idle" /\ md[p] = NONE
  BY TypesOfRegs DEF IInv, Blocks, Release, OwnOK
<1>1. /\ b \in Chunks /\ b \in Index /\ nodes[b] \in Node /\ nodes[b].next \in Nat
      /\ nodes[b].next \in 0 .. NodeCount + MaxDups /\ dups \in Nat /\ refs[d] \in Nat
  BY <1>0, DescTypes, NodeTypes, Numbers, LimitsAssumption DEF TypeOK, Node
<1>2. /\ refs[d] > 0 /\ refs' = [refs EXCEPT ![d] = @ - 1]
      /\ UNCHANGED <<allocs, dups, held, issued, dead>>
  BY DEF Release
<1>3. RefOK(d) BY <1>0, <1>2 DEF Blocks, RefsOK
<1>4. /\ w \in Node /\ w.count = nodes[b].count /\ w.ver = d.ver
      /\ w.next = IF nodes[b].next = 0 THEN 0 ELSE nodes[b].next - 1
  <2>1. (IF nodes[b].next = 0 THEN 0 ELSE nodes[b].next - 1) \in 0 .. NodeCount + MaxDups
    BY <1>1, LimitsAssumption, NodeCountAssumption
  <2> QED BY <1>1, <1>3, <2>1 DEF Node, RefOK
<1>5. nodes' = [nodes EXCEPT ![b] = w] BY <1>0, <1>1 DEF Release, TypeOK
<1>6. nodes' \in [Index -> Node] /\ nodes'[b] = w BY <1>0, <1>1, <1>4, <1>5 DEF TypeOK
<1>7. /\ refs' \in [Desc -> Nat] /\ refs'[d] = refs[d] - 1
      /\ \A e \in Desc : e # d => refs'[e] = refs[e]
  BY <1>0, <1>1, <1>2 DEF TypeOK
<1> HIDE DEF w
<1>8. CASE nodes[b].next > 1
  <2>1. UNCHANGED <<pc, regs>> BY <1>8 DEF Release
  <2>2. TypeOK' BY <1>0, <1>2, <1>6, <1>7, <2>1 DEF TypeOK, regs
  <2>3. OthersKept(p) /\ md'[p] = NONE /\ pc'[p] = "idle"
    BY <1>0, <2>1 DEF OthersKept, regs
  <2>4. nodes[b].next = refs[d] BY <1>1, <1>3, <1>8 DEF RefOK
  <2>5. RefOK(d)' /\ refs'[d] > 0
    <3>1. \A q \in Procs : md'[q].idx # d.idx BY <1>3, <2>1 DEF RefOK, regs
    <3>2. /\ held'[d.idx] > 0 /\ nodes'[d.idx].ver = d.ver /\ nodes'[d.idx].next = refs'[d]
          /\ refs'[d] > 0 /\ refs'[d] <= dups' + 1
      BY <1>1, <1>2, <1>3, <1>4, <1>6, <1>7, <1>8, <2>4 DEF RefOK
    <3> QED BY <1>1, <3>1, <3>2 DEF RefOK
  <2>6. ValuesOK(p)' /\ FreshOK(p)'
    BY <2>3 DEF ValuesOK, FreshOK, PredAwaits, CurrAwaits
  <2>7. held' = held /\ dead' = dead /\ dups <= dups' BY <1>1, <1>2
  <2> QED BY <1>0, <1>3, <1>4, <1>5, <1>7, <2>2, <2>3, <2>5, <2>6, <2>7, ClientStep
<1>9. CASE ~ (nodes[b].next > 1)
  <2> DEFINE n == IF light THEN LightRetryLimit ELSE RetryLimit
  <2>1. /\ md' = [md EXCEPT ![p] = d] /\ fast' = [fast EXCEPT ![p] = light]
        /\ Search(p, n) /\ UNCHANGED need
    BY <1>9 DEF Release
  <2>2. /\ pc' \in [Procs -> Labels] /\ pc'[p] = "start"
        /\ retry' \in [Procs -> 0 .. RetryLimit + LightRetryLimit]
        /\ pred' \in [Procs -> Snapshot] /\ curr' \in [Procs -> Snapshot]
        /\ \A q \in Procs \ {p} : pc'[q] = pc[q] /\ pred'[q] = pred[q] /\ curr'[q] = curr[q]
        /\ ValuesOK(p)'
    <3>1. n \in 0 .. RetryLimit + LightRetryLimit BY BlankTypes
    <3> HIDE DEF n
    <3> QED BY <1>0, <2>1, <3>1, SearchTypes
  <2>3. /\ md' \in [Procs -> Desc \cup {NONE}] /\ md'[p] = d
        /\ fast' \in [Procs -> BOOLEAN]
    BY <1>0, <2>1 DEF RegTypes
  <2>4. TypeOK' BY <1>0, <1>2, <1>6, <1>7, <2>1, <2>2, <2>3 DEF TypeOK, Snapshot
  <2>5. OthersKept(p) BY <1>0, <2>1, <2>2 DEF OthersKept, RegTypes
  <2>6. refs'[d] = 0 /\ w.next = 0
    <3>1. nodes[b].next = 0 \/ nodes[b].next = 1 BY <1>1, <1>9
    <3>2. refs[d] = 1 BY <1>1, <1>3, <3>1 DEF RefOK
    <3> QED BY <1>4, <1>7, <3>1, <3>2
  <2>7. FreshOK(p)' BY <2>2 DEF FreshOK, PredAwaits, CurrAwaits
  <2>8. held' = held /\ dead' = dead /\ dups <= dups' BY <1>1, <1>2
  <2> QED BY <1>0, <1>3, <1>4, <1>5, <1>7, <2>2, <2>3, <2>4, <2>5, <2>6, <2>7, <2>8, ClientStep
<1> QED BY <1>8, <1>9

LEMMA CrashStep ==
  ASSUME IInv, NEW p \in Procs \ dead, Crash(p)
  PROVE  IInv'
<1>0. /\ UNCHANGED <<nodes, pc, regs, refs, allocs, dups, held, issued>>
      /\ dead' = dead \cup {p}
  BY DEF Crash
<1>1. TypeOK' BY <1>0 DEF IInv, TypeOK, regs
<1>2. Shape' /\ OnList' = OnList
  <2>1. OnList' = OnList BY <1>0 DEF OnList
  <2> QED BY <1>0, <2>1
       DEF IInv, Shape, Listed, IsList, Tiles, Starts, Sizes, FreeOK
<1>3. LentOK' /\ HadOK' /\ RefsOK'
  BY <1>0 DEF IInv, LentOK, HadOK, RefsOK, RefOK, regs
<1>4. ASSUME NEW q \in Procs PROVE OwnOK(q)' /\ ValuesOK(q)'
  <2>1. OwnOK(q) /\ ValuesOK(q) BY DEF IInv
  <2>2. OwnOK(q)'
    BY <1>0, <2>1 DEF OwnOK, BlockOK, LinkedOK, IsNeighbor, regs
  <2>3. ValuesOK(q)' BY <1>0, <2>1 DEF ValuesOK, regs
  <2> QED BY <2>2, <2>3
<1>5. ASSUME NEW q \in Procs \ dead' PROVE FreshOK(q)'
  <2>1. FreshOK(q) BY <1>0 DEF IInv
  <2> QED BY <1>0, <1>2, <2>1 DEF FreshOK, JoinsAlone, Unmodified, Listed, regs
<1> QED BY <1>1, <1>2, <1>3, <1>4, <1>5 DEF IInv
-----------------------------------------------------------------------------
(* The invariant.                                                          *)

LEMMA InitIInv ==
  ASSUME Init
  PROVE  IInv
<1> DEFINE L == {0, 1, NodeCount}
<1>0. /\ \A p \in Procs : /\ pc[p] = "idle" /\ md[p] = NONE /\ need[p] = 0
                          /\ pred[p] = NoSnapshot /\ curr[p] = NoSnapshot
      /\ \A d \in Desc : refs[d] = 0
      /\ \A i \in Chunks : held[i] = 0
  BY DEF Init
<1>1. nodes[0] = FirstSnapshot.node /\ nodes[1] = [Blank EXCEPT !.next = NodeCount,
                                                                !.count = NodeCount - 1]
  <2>1. 0 \in Index /\ 1 \in Index BY NodeCountAssumption DEF Index
  <2> QED BY <2>1 DEF Init, FirstSnapshot
<1>2. nodes[0].next = 1 /\ nodes[1].next = NodeCount /\ nodes[1].count = NodeCount - 1
      /\ nodes[1].status = {}
  BY <1>1 DEF FirstSnapshot, Blank
<1>3. TypeOK
  <2>1. Blank \in Node /\ [Blank EXCEPT !.next = 1] \in Node
        /\ [Blank EXCEPT !.next = NodeCount, !.count = NodeCount - 1] \in Node
    <3>1. /\ 0 \in 0 .. Versions - 1 /\ 0 \in 0 .. NodeCount + MaxDups
          /\ 1 \in 0 .. NodeCount + MaxDups /\ NodeCount \in 0 .. NodeCount + MaxDups
          /\ 0 \in 0 .. NodeCount /\ NodeCount - 1 \in 0 .. NodeCount
      BY NodeCountAssumption, LimitsAssumption
    <3> QED BY <3>1 DEF Blank, Node
  <2>2. nodes \in [Index -> Node] BY <2>1 DEF Init
  <2>3. 0 \in 0 .. MaxAlloc /\ 0 \in 0 .. MaxDups /\ 0 \in 0 .. NodeCount
    BY NodeCountAssumption, LimitsAssumption
  <2>4. pred \in [Procs -> Snapshot] /\ curr \in [Procs -> Snapshot]
        /\ retry \in [Procs -> 0 .. RetryLimit + LightRetryLimit]
    BY BlankTypes DEF Init
  <2> QED BY <2>2, <2>3, <2>4 DEF Init, TypeOK, Labels, Snapshot
<1>4. IsList(nodes, L)
  <2>1. 1 < NodeCount /\ NodeCount \in Nat BY NodeCountAssumption
  <2> QED BY <1>2, <2>1 DEF IsList
<1>5. ListFrom(nodes) = L \ {0} BY <1>4, ListIs
<1>6. OnList = {1, NodeCount}
  <2>1. L \ {0} = {1, NodeCount} BY NodeCountAssumption
  <2> QED BY <1>5, <2>1 DEF OnList
<1>7. Shape
  <2>1. IsList(nodes, Listed)
    <3>1. Listed = L BY <1>6 DEF Listed
    <3> QED BY <1>4, <3>1
  <2>2. 1 \in Chunks BY NodeCountAssumption DEF Chunks
  <2>3. Starts = {1}
    <3>1. \A i \in Starts : i = 1 BY <1>0, <1>6, Numbers DEF Starts
    <3>2. 1 \in Starts BY <1>6, <2>2 DEF Starts
    <3> QED BY <3>1, <3>2
  <2>4. Sizes[1] = NodeCount - 1 BY <1>2, <1>6, <2>2 DEF Sizes
  <2>5. Tiles(Starts, Sizes) BY <2>2, <2>3, <2>4, NodeCountAssumption DEF Tiles
  <2>6. FreeOK BY <1>0, <1>1, <1>2, <1>6, <2>2, Numbers DEF FreeOK
  <2> QED BY <2>1, <2>5, <2>6 DEF Shape
<1>8. LentOK /\ HadOK BY <1>0 DEF LentOK, HadOK
<1>9. RefsOK BY <1>0 DEF RefsOK
<1>10. \A p \in Procs : OwnOK(p) /\ ValuesOK(p) /\ FreshOK(p)
  BY <1>0 DEF OwnOK, ValuesOK, FreshOK, PredAwaits, CurrAwaits, SearchLabels, OwnerLabels
<1> QED BY <1>3, <1>7, <1>8, <1>9, <1>10 DEF IInv

LEMMA QuietIInv ==
  ASSUME IInv, UNCHANGED vars
  PROVE  IInv'
<1>0. /\ UNCHANGED <<nodes, pc, md, need, fast, retry, pred, curr, refs, allocs, dups, held>>
      /\ UNCHANGED <<issued, dead>>
  BY DEF vars, regs
<1>1. TypeOK' BY <1>0 DEF IInv, TypeOK
<1>2. Shape' /\ OnList' = OnList
  <2>1. OnList' = OnList BY <1>0 DEF OnList
  <2> QED BY <1>0, <2>1 DEF IInv, Shape, Listed, IsList, Tiles, Starts, Sizes, FreeOK
<1>3. LentOK' /\ HadOK' /\ RefsOK' BY <1>0 DEF IInv, LentOK, HadOK, RefsOK, RefOK
<1>4. \A q \in Procs : OwnOK(q)'
  BY <1>0 DEF IInv, OwnOK, BlockOK, LinkedOK, IsNeighbor
<1>5. \A q \in Procs : ValuesOK(q)' BY <1>0 DEF IInv, ValuesOK
<1>6. \A q \in Procs \ dead' : FreshOK(q)'
  BY <1>0, <1>2 DEF IInv, FreshOK, JoinsAlone, Unmodified, Listed
<1> QED BY <1>1, <1>2, <1>3, <1>4, <1>5, <1>6 DEF IInv

LEMMA NextIInv ==
  ASSUME StaleDups = FALSE, IInv, [Next]_vars, [~ WordReturns]_vars
  PROVE  IInv'
<1>1. CASE UNCHANGED vars BY <1>1, QuietIInv
<1>2. CASE Next /\ ~ WordReturns
  <2>1. PICK p \in Procs \ dead : Step(p) \/ Begins(p) \/ Crash(p) BY <1>2 DEF Next
  <2>2. CASE Step(p)
    BY <1>2, <2>2, StartStep, FetchNextStep, CheckStep, MarkHeadStep, MarkTailStep,
       JoinNodesStep, CarveStep, LabelStep, LinkStep, RaiseStep, InsertStep, LowerStep,
       ClearStep DEF Step
  <2>3. CASE Begins(p) BY <1>2, <2>3, AllocateStep, DupStep, ReleaseStep DEF Begins
  <2>4. CASE Crash(p) BY <2>4, CrashStep
  <2> QED BY <2>1, <2>2, <2>3, <2>4
<1> QED BY <1>1, <1>2

\* As long as no word comes back, and clients dup what they have references to.
LEMMA SpecIInv ==
  ASSUME StaleDups = FALSE
  PROVE  Spec /\ NoWordReturns => []IInv
<1>1. Init => IInv BY InitIInv
<1>2. IInv /\ [Next]_vars /\ [~ WordReturns]_vars => IInv' BY NextIInv
<1> QED BY <1>1, <1>2, PTL DEF Spec, NoWordReturns

(***************************************************************************)
(* Every word of a node, every snapshot and every register is of its type: *)
(* no count of chunks and no count of references outgrows its field.       *)
(***************************************************************************)
THEOREM TypeOKHolds ==
  ASSUME StaleDups = FALSE
  PROVE  Spec /\ NoWordReturns => []TypeOK
<1>1. IInv => TypeOK BY DEF IInv
<1> QED BY <1>1, SpecIInv, PTL

(***************************************************************************)
(* The free nodes and the allocated blocks share out the chunks: whatever  *)
(* joins, carvings and releases meet, and whoever is killed, no chunk is   *)
(* allocated twice, none is free and allocated, and none is lost.          *)
(***************************************************************************)
THEOREM PartitionHolds ==
  ASSUME StaleDups = FALSE
  PROVE  Spec /\ NoWordReturns => []Partition
<1>1. IInv => Partition BY ShapePartition DEF IInv
<1> QED BY <1>1, SpecIInv, PTL

(***************************************************************************)
(* The free list is in the order of the addresses and ends with the last   *)
(* index, and no node on it is empty.                                      *)
(***************************************************************************)
THEOREM SortedHolds ==
  ASSUME StaleDups = FALSE
  PROVE  Spec /\ NoWordReturns => []Sorted
<1>1. ASSUME IInv PROVE Sorted
  <2>0. TypeOK /\ Shape BY <1>1 DEF IInv
  <2>1. NodeCount \in OnList BY <2>0, ListFacts
  <2>2. ASSUME NEW i \in OnList \cap Index PROVE nodes[i].next > i /\ nodes[i].count > 0
    <3>1. i # NodeCount /\ NONE \in Desc \cup {NONE} BY Numbers
    <3>2. WordOK(NONE, Fetch(i)) BY <2>0, <3>1, ListWord
    <3>3. nodes[i].next \in Nat /\ i \in Nat BY <2>0, NodeTypes, Numbers
    <3> QED BY <3>2, <3>3 DEF WordOK, Fetch
  <2> QED BY <2>1, <2>2 DEF Sorted
<1>2. IInv => Sorted BY <1>1
<1> QED BY <1>2, SpecIInv, PTL

(***************************************************************************)
(* The assertions of undup, getNextSnapshot, joinNodesIfNeed and           *)
(* releaseImpl hold at the steps that evaluate them: of the block that is  *)
(* released, next to the node found or not, of every node that is fetched, *)
(* and of snapshots whose node was changed by others since.                *)
(***************************************************************************)
THEOREM AssertionsHoldAlways ==
  ASSUME StaleDups = FALSE
  PROVE  Spec /\ NoWordReturns => []AssertionsHold
<1>1. ASSUME IInv PROVE AssertionsHold
  <2>1. ASSUME NEW p \in Procs \ dead
        PROVE  /\ pc[p] = "next" => pred[p].node.next # NodeCount
               /\ pc[p] = "check" /\ Unmodified(pred[p]) /\ "head" \in curr[p].node.status
                    => Joinable(curr[p])
               /\ pc[p] = "join" => Joinable(pred[p])
               /\ pc[p] \in {"link", "raise", "insert"}
                    => md[p].idx >= curr[p].idx + curr[p].node.count
               /\ ChecksBlock(p) => /\ nodes[md[p].idx].ver = md[p].ver
                                    /\ nodes[md[p].idx].next = 0
    <3>0. TypeOK /\ RegTypes /\ ValuesOK(p) /\ OwnOK(p) /\ FreshOK(p)
      BY <1>1, <2>1, TypesOfRegs DEF IInv
    <3>1. ASSUME pc[p] = "next" PROVE pred[p].node.next # NodeCount
      <4>1. pred[p].node.next \in Nat BY <2>1, <3>0, SnapshotTypes DEF RegTypes
      <4>2. pred[p].node.next < NodeCount BY <3>0, <3>1 DEF ValuesOK, PredAwaits, PassedOK
      <4> QED BY <4>1, <4>2, Numbers
    <3>2. ASSUME pc[p] = "check", Unmodified(pred[p]), "head" \in curr[p].node.status
          PROVE  Joinable(curr[p])
      BY <3>0, <3>2 DEF FreshOK, WordOK
    <3>3. pc[p] = "join" => Joinable(pred[p]) BY <3>0 DEF ValuesOK
    <3>4. ASSUME pc[p] \in {"link", "raise", "insert"}
          PROVE  md[p].idx >= curr[p].idx + curr[p].node.count
      <4>1. md[p].idx \in Nat BY <1>1, <3>0, <3>4, OwnFacts DEF OwnOK, OwnerLabels
      <4>2. curr[p].idx \in Nat /\ curr[p].node.count \in Nat
        BY <2>1, <3>0, SnapshotTypes DEF RegTypes
      <4> QED BY <3>0, <3>4, <4>1, <4>2 DEF ValuesOK
    <3>5. ASSUME ChecksBlock(p)
          PROVE  nodes[md[p].idx].ver = md[p].ver /\ nodes[md[p].idx].next = 0
      <4>1. pc[p] \in {"link", "raise"} BY <3>5 DEF ChecksBlock
      <4>2. BlockOK(p) BY <3>0, <4>1 DEF OwnOK, OwnerLabels
      <4> QED BY <3>5, <4>2 DEF ChecksBlock, BlockOK, LinkedOK
    <3> QED BY <3>1, <3>2, <3>3, <3>4, <3>5
  <2>2. \A d \in Desc : refs[d] > 0 => nodes[d.idx].ver = d.ver
    BY <1>1 DEF IInv, RefsOK, RefOK
  <2> QED BY <2>1, <2>2 DEF AssertionsHold
<1>2. IInv => AssertionsHold BY <1>1
<1> QED BY <1>2, SpecIInv, PTL

(***************************************************************************)
(* The count of a block is the references that the clients have, whoever   *)
(* dups what it holds and releases it at once; only a lightRelease that    *)
(* failed leaves its caller a reference that is not counted.               *)
(***************************************************************************)
THEOREM ReferencesCountedHolds ==
  ASSUME StaleDups = FALSE
  PROVE  Spec /\ NoWordReturns => []ReferencesCounted
<1>1. IInv => ReferencesCounted BY DEF IInv, RefsOK, RefOK, ReferencesCounted
<1> QED BY <1>1, SpecIInv, PTL

(***************************************************************************)
(* No block is lost: whoever is killed and whatever fails, each is of a    *)
(* call that has yet to label, insert or give it back, or some client has  *)
(* a reference to it.                                                      *)
(***************************************************************************)
THEOREM BlocksHaveOwners ==
  ASSUME StaleDups = FALSE
  PROVE  Spec /\ NoWordReturns => []HadOK
<1>1. IInv => HadOK BY DEF IInv
<1> QED BY <1>1, SpecIInv, PTL
=============================================================================
