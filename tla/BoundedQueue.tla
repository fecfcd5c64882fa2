---------------------------- MODULE BoundedQueue ----------------------------
(***************************************************************************)
(* What guacamole/fifo.h promises of a guac_fifo, with no mutex, no flag   *)
(* and no ring buffer: a bounded queue of copied items that many threads   *)
(* put into and take from atomically, until it is invalidated once and for *)
(* all and its contents freeze.                                            *)
(***************************************************************************)
EXTENDS Naturals, Sequences

CONSTANTS Callers,   \* the threads using the queue
          Item,      \* the items that may be queued
          NoItem,    \* what a thread has received before its first removal
          Capacity   \* max_items

VARIABLES queue,     \* the items, oldest first
          valid,     \* FALSE once invalidated
          received   \* the last item copied out to each thread

vars == <<queue, valid, received>>

Init ==
  /\ queue = << >>
  /\ valid = TRUE
  /\ received = [t \in Callers |-> NoItem]

Put(i) ==
  /\ valid
  /\ Len(queue) < Capacity
  /\ queue' = Append(queue, i)
  /\ UNCHANGED <<valid, received>>

Take(t) ==
  /\ valid
  /\ queue # << >>
  /\ received' = [received EXCEPT ![t] = Head(queue)]
  /\ queue' = Tail(queue)
  /\ UNCHANGED valid

Invalidate ==
  /\ valid' = FALSE
  /\ UNCHANGED <<queue, received>>

Next ==
  \/ \E i \in Item : Put(i)
  \/ \E t \in Callers : Take(t)
  \/ Invalidate

Spec == Init /\ [][Next]_vars

=============================================================================
