----------------------------- MODULE FifoQueue -----------------------------
(***************************************************************************)
(* What the message queue of common/msgque promises its callers: one FIFO  *)
(* shared by all processes, each operation taking effect at one instant    *)
(* between its call and its return.  Nothing is said of memory.  Imque is  *)
(* shown to implement this module.                                         *)
(***************************************************************************)
EXTENDS Naturals, Sequences

CONSTANTS Procs,        \* the processes that map the shared memory
          MaxEnq        \* how many enqueues are started (bounds the model)

EMPTY == 0              \* the answer of a deq on an empty queue

VARIABLES queue,        \* the messages waiting, oldest first
          taken,        \* how many messages have been dequeued
          drops,        \* the value of Queue::overflowedCount
          sent,         \* how many enqueues have started
          call,         \* what each process is doing
          dead          \* the processes that were killed

fifoVars == <<queue, taken, drops, sent, call, dead>>

IDLE == [kind |-> "idle"]

Calls == [kind : {"idle", "enqueued"}]
           \cup [kind : {"enq"}, msg : 1..MaxEnq]
           \cup [kind : {"deq"}]
           \cup [kind : {"dequeued"}, msg : 0..MaxEnq]
           \cup [kind : {"peek"}, mark : Nat]
           \cup [kind : {"peeked"}, empty : BOOLEAN]

FifoInit == /\ queue = << >>
            /\ taken = 0
            /\ drops = 0
            /\ sent = 0
            /\ call = [p \in Procs |-> IDLE]
            /\ dead = {}

Becomes(p, c) == call' = [call EXCEPT ![p] = c]

\* A process calls enq with a message of its own.
CallEnq(p) == /\ call[p] = IDLE
              /\ sent < MaxEnq
              /\ sent' = sent + 1
              /\ Becomes(p, [kind |-> "enq", msg |-> sent + 1])
              /\ UNCHANGED <<queue, taken, drops, dead>>

\* The message joins the queue.
Enq(p) == /\ call[p].kind = "enq"
          /\ queue' = Append(queue, call[p].msg)
          /\ Becomes(p, [kind |-> "enqueued"])
          /\ UNCHANGED <<taken, drops, sent, dead>>

\* enq returns false: the message is dropped, and counted.
RefuseEnq(p) == /\ call[p].kind = "enq"
                /\ drops' = drops + 1
                /\ Becomes(p, IDLE)
                /\ UNCHANGED <<queue, taken, sent, dead>>

CallDeq(p) == /\ call[p] = IDLE
              /\ Becomes(p, [kind |-> "deq"])
              /\ UNCHANGED <<queue, taken, drops, sent, dead>>

\* The oldest message leaves the queue.
Deq(p) == /\ call[p].kind = "deq"
          /\ queue # << >>
          /\ queue' = Tail(queue)
          /\ taken' = taken + 1
          /\ Becomes(p, [kind |-> "dequeued", msg |-> Head(queue)])
          /\ UNCHANGED <<drops, sent, dead>>

\* deq returns false only at an instant when no message waits.
DeqEmpty(p) == /\ call[p].kind = "deq"
               /\ queue = << >>
               /\ Becomes(p, [kind |-> "dequeued", msg |-> EMPTY])
               /\ UNCHANGED <<queue, taken, drops, sent, dead>>

CallPeek(p) == /\ call[p] = IDLE
               /\ Becomes(p, [kind |-> "peek", mark |-> taken])
               /\ UNCHANGED <<queue, taken, drops, sent, dead>>

(***************************************************************************)
(* isEmpty is true only when no message waits; it is false when one waits  *)
(* or one was dequeued since the call, so that at some instant of the call *)
(* the queue was not empty.                                                *)
(***************************************************************************)
Peek(p) == /\ call[p].kind = "peek"
           /\ \/ /\ queue = << >>
                 /\ Becomes(p, [kind |-> "peeked", empty |-> TRUE])
              \/ /\ queue # << >> \/ taken > call[p].mark
                 /\ Becomes(p, [kind |-> "peeked", empty |-> FALSE])
           /\ UNCHANGED <<queue, taken, drops, sent, dead>>

Return(p) == /\ call[p].kind \in {"enqueued", "dequeued", "peeked"}
             /\ Becomes(p, IDLE)
             /\ UNCHANGED <<queue, taken, drops, sent, dead>>

\* Some process reads and clears the count of dropped messages.
ClearDrops(p) == /\ call[p] = IDLE
                 /\ drops' = 0
                 /\ UNCHANGED <<queue, taken, sent, call, dead>>

CallStep(p) == \/ CallEnq(p) \/ Enq(p) \/ RefuseEnq(p)
               \/ CallDeq(p) \/ Deq(p) \/ DeqEmpty(p)
               \/ CallPeek(p) \/ Peek(p)
               \/ Return(p) \/ ClearDrops(p)

\* Any process may be killed, at any time.
Kill(p) == /\ dead' = dead \cup {p}
           /\ UNCHANGED <<queue, taken, drops, sent, call>>

FifoNext == \E p \in Procs \ dead : CallStep(p) \/ Kill(p)

FifoSpec == FifoInit /\ [][FifoNext]_fifoVars
=============================================================================
