---------------------------- MODULE MCStaleJoin ----------------------------
(***************************************************************************)
(* A schedule of the variable allocator, too long to be come upon by       *)
(* search: every step is a step of Next, and the schedule only says whose. *)
(*                                                                         *)
(* The sleeper is about to join node 1 and node 3, which node 4 follows,  *)
(* and rests.  The runner joins them itself, which sets the version of     *)
(* node 1 back, and carves and releases until node 1 has the very word the *)
(* sleeper has seen, its version counted up from there; but the chunk of   *)
(* node 4 is lent, and node 3 is the last.  Then the compare-and-swap of   *)
(* the sleeper succeeds, and the list leads from node 1 to the lent block. *)
(***************************************************************************)
EXTENDS VariableAllocator, Sequences

CONSTANTS runner, sleeper

VARIABLE begun          \* how many calls of the schedule have begun

\* A request for n chunks, and the release of the block at place i.
Ask(n)  == [need |-> n, place |-> 0]
Free(i) == [need |-> 0, place |-> i]

Before == <<Ask(1), Ask(1), Ask(1), Ask(1), Free(2), Ask(1), Free(4), Free(3), Free(2)>>
After  == <<Ask(1), Ask(1), Free(3), Ask(1), Free(2), Ask(2)>>

\* The call between the two is the sleeper's.
Schedule == Before \o <<Ask(2)>> \o After
Caller(i) == IF i = Len(Before) + 1 THEN sleeper ELSE runner

Rests(p) == p = sleeper /\ pc[p] = "join"

\* The word has come back: the runner has marked node 1 in its last call.
Wakes == begun = Len(Schedule) /\ pc[runner] = "markTail"

Call(p, c) == \/ c.need # 0 /\ Allocate(p, c.need)
              \/ \E d \in Desc : d.idx = c.place /\ Release(p, d, FALSE)

ScheduledNext ==
  \/ /\ \A p \in Procs : pc[p] = "idle" \/ Rests(p)
     /\ begun < Len(Schedule)
     /\ begun' = begun + 1
     /\ Call(Caller(begun + 1), Schedule[begun + 1])
  \/ /\ \E p \in Procs : ~ Rests(p) /\ ~ Wakes /\ Step(p)
     /\ UNCHANGED begun
  \/ /\ Wakes
     /\ JoinNodes(sleeper)
     /\ UNCHANGED begun

ScheduledSpec == Init /\ begun = 0 /\ [][ScheduledNext]_<<vars, begun>>
=============================================================================
