------------------------------ MODULE GuacFifo ------------------------------
(***************************************************************************)
(* The guac_fifo of src/libguac/fifo.c: a ring buffer of copied items      *)
(* guarded by one guac_flag, shared by any number of producing and         *)
(* consuming threads, and invalidated when its users shut down.            *)
(*                                                                         *)
(* Everything a call does between locking the flag and unlocking it (or    *)
(* going to sleep on its condition) is one action: all fields but          *)
(* state.value are read and written only under the lock, and the one       *)
(* unlocked read of state.value, guac_fifo_is_valid(), tests a bit that is *)
(* never cleared.  A thread that is asleep is described by call[t], the    *)
(* arguments of the call it sleeps in.                                     *)
(***************************************************************************)
EXTENDS GuacFlag, Integers, Sequences

CONSTANTS Item,        \* the items that may be enqueued
          NoItem,      \* the content of storage never written
          NoCall,      \* call[t] of a thread that is not asleep in the FIFO
          max_items,   \* the number of slots of the ring
          MaxDepth,    \* bound: recursive locks one thread takes
          NestedWait   \* may callers block in the FIFO while holding its lock?

ASSUME SizeAssumption == max_items \in Nat \ {0}
ASSUME DepthAssumption == MaxDepth \in Nat \ {0}
ASSUME ItemAssumption == NoItem \notin Item
ASSUME NestedAssumption == NestedWait \in BOOLEAN

VARIABLES state,       \* the guac_flag
          head,        \* index of the oldest item
          item_count,  \* number of items stored
          items,       \* the ring
          call,        \* the call each sleeping thread is in
          received,    \* the caller's buffer: last item copied out to it
          held,        \* history: locks each caller has been told it holds
          aborted      \* TRUE once abort() was called

fifoVars == <<head, item_count, items>>
vars == <<state, head, item_count, items, call, received, held, aborted>>

\* GUAC_FIFO_STATE_READY, _NONEMPTY and _INVALID
READY    == "READY"
NONEMPTY == "NONEMPTY"
INVALID  == "INVALID"
Bits     == {READY, NONEMPTY, INVALID}

Slot == 0 .. max_items - 1

\* The bits for which each kind of call waits.
Wanted(kind) ==
  {INVALID, IF kind = "enqueue" THEN READY ELSE NONEMPTY}

\* A call that has gone to sleep: guac_fifo_enqueue* (with its item),
\* guac_fifo_dequeue* or guac_fifo_timed_dequeue*.  keep says whether it is the
\* _and_lock variant, which leaves the FIFO locked when it succeeds.
Call == [kind : {"enqueue", "dequeue", "timed"},
         keep : BOOLEAN,
         item : Item \cup {NoItem}]

ASSUME NoCallAssumption == NoCall \notin Call

TypeOK ==
  /\ state \in FlagType(Bits)
  /\ head \in Slot
  /\ item_count \in 0 .. max_items
  /\ items \in [Slot -> Item \cup {NoItem}]
  /\ call \in [Threads -> Call \cup {NoCall}]
  /\ received \in [Threads -> Item \cup {NoItem}]
  /\ held \in [Threads -> 0 .. MaxDepth]
  /\ aborted \in BOOLEAN

\* guac_fifo_init()
Init ==
  /\ state = guac_flag_init({READY})
  /\ head = 0
  /\ item_count = 0
  /\ items = [s \in Slot |-> NoItem]
  /\ call = [t \in Threads |-> NoCall]
  /\ received = [t \in Threads |-> NoItem]
  /\ held = [t \in Threads |-> 0]
  /\ aborted = FALSE

-----------------------------------------------------------------------------
(* The bodies of the calls, entered with the flag f locked by t and at     *)
(* least one wanted bit set.                                               *)

\* The plain variants unlock after success, the _and_lock variants do not.
Leave(t, f, keep) ==
  /\ state' = IF keep THEN f ELSE guac_flag_unlock(f)
  /\ held' = [held EXCEPT ![t] = IF keep THEN @ + 1 ELSE @]

\* Both bodies bail out, unlocked, if the FIFO was invalidated meanwhile.
FailInvalid(f) ==
  /\ INVALID \in f.value
  /\ state' = guac_flag_unlock(f)
  /\ UNCHANGED <<fifoVars, received, held, aborted>>

MutantSilentEnqueue(f) ==
  [(IF item_count + 1 = max_items THEN guac_flag_clear(f, {READY}) ELSE f)
     EXCEPT !.value = @ \cup {NONEMPTY}]

NextFlagEnqueue(f) ==
  guac_flag_set(IF item_count + 1 = max_items
                THEN guac_flag_clear(f, {READY}) ELSE f, {NONEMPTY})

guac_fifo_enqueue_and_lock(t, f, i, keep) ==
  \/ FailInvalid(f)
  \/ /\ INVALID \notin f.value
     /\ IF item_count >= max_items
        THEN /\ aborted' = TRUE
             /\ state' = f
             /\ UNCHANGED <<item_count, items, held>>
        ELSE /\ item_count' = item_count + 1
             /\ items' = [items EXCEPT ![(head + item_count) % max_items] = i]
             /\ Leave(t, NextFlagEnqueue(f), keep)
             /\ UNCHANGED aborted
     /\ UNCHANGED <<head, received>>

NextFlagDequeue(f) ==
  guac_flag_set(IF item_count = 1
                THEN guac_flag_clear(f, {NONEMPTY}) ELSE f, {READY})

\* The static dequeue(): copy the head out, advance, bring the bits up to date.
MutantTakesNewest(t, f, keep) ==
  /\ received' = [received EXCEPT
                    ![t] = items[(head + item_count - 1) % max_items]]
  /\ item_count' = item_count - 1
  /\ UNCHANGED head
  /\ Leave(t, NextFlagDequeue(f), keep)
  /\ UNCHANGED <<items, aborted>>

dequeue(t, f, keep) ==
  /\ received' = [received EXCEPT ![t] = items[head]]
  /\ item_count' = item_count - 1
  /\ head' = (head + 1) % max_items
  /\ Leave(t, NextFlagDequeue(f), keep)
  /\ UNCHANGED <<items, aborted>>

guac_fifo_dequeue_and_lock(t, f, keep) ==
  \/ FailInvalid(f)
  \/ INVALID \notin f.value /\ dequeue(t, f, keep)

Body(t, f, c) ==
  IF c.kind = "enqueue"
  THEN guac_fifo_enqueue_and_lock(t, f, c.item, c.keep)
  ELSE guac_fifo_dequeue_and_lock(t, f, c.keep)

-----------------------------------------------------------------------------
Running(t) == ~aborted /\ call[t] = NoCall

\* pthread_cond_wait() or pthread_cond_timedwait() inside call c.
Sleep(t, f, c) ==
  /\ state' = pthread_cond_wait(f, t)
  /\ call' = [call EXCEPT ![t] = c]
  /\ UNCHANGED <<fifoVars, received, held, aborted>>

\* t makes call c, gets the lock, and runs the body or goes to sleep.
Begin(t, c) ==
  /\ Running(t)
  /\ Lockable(state, t)
  /\ state.depth < MaxDepth
  /\ LET f == guac_flag_lock(state, t) IN
       \/ /\ AnySet(f, Wanted(c.kind))
          /\ Body(t, f, c)
          /\ UNCHANGED call
       \/ /\ ~AnySet(f, Wanted(c.kind))
          /\ NestedWait \/ state.owner # t
          /\ Sleep(t, f, c)

Enqueue(t, i, keep) ==
  Begin(t, [kind |-> "enqueue", keep |-> keep, item |-> i])

Dequeue(t, keep) ==
  Begin(t, [kind |-> "dequeue", keep |-> keep, item |-> NoItem])

TimedDequeue(t, keep) ==
  Begin(t, [kind |-> "timed", keep |-> keep, item |-> NoItem])

\* guac_fifo_timed_dequeue*() with a timeout of zero, which only tests.
PollDequeue(t, keep) ==
  /\ Running(t)
  /\ Lockable(state, t)
  /\ state.depth < MaxDepth
  /\ LET f == guac_flag_lock(state, t) IN
       \/ /\ AnySet(f, Wanted("timed"))
          /\ guac_fifo_dequeue_and_lock(t, f, keep)
          /\ UNCHANGED call
       \/ /\ ~AnySet(f, Wanted("timed"))
          /\ state' = guac_flag_unlock(f)
          /\ UNCHANGED <<fifoVars, call, received, held, aborted>>

\* A sleeper wakes although nobody signalled it.
SpuriousWakeup(t) ==
  /\ ~aborted
  /\ t \in state.waiters
  /\ state' = [state EXCEPT !.waiters = @ \ {t}]
  /\ UNCHANGED <<fifoVars, call, received, held, aborted>>

\* A thread that was woken takes the lock back and tests its bits again.
Resume(t) ==
  /\ ~aborted
  /\ call[t] # NoCall
  /\ t \notin state.waiters
  /\ Lockable(state, t)
  /\ LET f == Wakeup(state, t) IN
       \/ /\ AnySet(f, Wanted(call[t].kind))
          /\ Body(t, f, call[t])
          /\ call' = [call EXCEPT ![t] = NoCall]
       \/ /\ ~AnySet(f, Wanted(call[t].kind))
          /\ Sleep(t, f, call[t])

\* The deadline of a timed call passes.  It may do so before or after another
\* thread signals it; the flag is not tested again.
Timeout(t) ==
  /\ ~aborted
  /\ call[t] # NoCall
  /\ call[t].kind = "timed"
  /\ Lockable(state, t)
  /\ state' = guac_flag_unlock(Wakeup(state, t))
  /\ call' = [call EXCEPT ![t] = NoCall]
  /\ UNCHANGED <<fifoVars, received, held, aborted>>

guac_fifo_lock(t) ==
  /\ Running(t)
  /\ Lockable(state, t)
  /\ state.depth < MaxDepth
  /\ state' = guac_flag_lock(state, t)
  /\ held' = [held EXCEPT ![t] = @ + 1]
  /\ UNCHANGED <<fifoVars, call, received, aborted>>

guac_fifo_unlock(t) ==
  /\ Running(t)
  /\ held[t] > 0
  /\ state' = guac_flag_unlock(state)
  /\ held' = [held EXCEPT ![t] = @ - 1]
  /\ UNCHANGED <<fifoVars, call, received, aborted>>

guac_fifo_invalidate(t) ==
  /\ Running(t)
  /\ Lockable(state, t)
  /\ state' = guac_flag_unlock(guac_flag_set(guac_flag_lock(state, t), {INVALID}))
  /\ UNCHANGED <<fifoVars, call, received, held, aborted>>

Next ==
  \E t \in Threads :
    \/ \E i \in Item, keep \in BOOLEAN : Enqueue(t, i, keep)
    \/ \E keep \in BOOLEAN : Dequeue(t, keep)
    \/ \E keep \in BOOLEAN : TimedDequeue(t, keep)
    \/ \E keep \in BOOLEAN : PollDequeue(t, keep)
    \/ SpuriousWakeup(t)
    \/ Resume(t)
    \/ Timeout(t)
    \/ guac_fifo_lock(t)
    \/ guac_fifo_unlock(t)
    \/ guac_fifo_invalidate(t)

Spec == Init /\ [][Next]_vars

\* A signalled thread is not passed over for the mutex for ever, and no caller
\* keeps the FIFO locked for ever.  Nothing is assumed of spurious wakeups.
Fairness ==
  \A t \in Threads :
    /\ SF_vars(Resume(t))
    /\ WF_vars(guac_fifo_unlock(t))
    /\ SF_vars(guac_fifo_unlock(t) /\ state'.owner = NoThread)

FairSpec == Spec /\ Fairness

-----------------------------------------------------------------------------
(* Safety *)

\* READY and NONEMPTY say exactly what item_count says, whatever sequence of
\* enqueues, dequeues and failures led here: enqueue and dequeue trust the bits
\* and never look at the count.
FlagsMatchCount ==
  /\ READY \in state.value    <=> item_count < max_items
  /\ NONEMPTY \in state.value <=> item_count > 0

\* The abort() of guac_fifo_enqueue_and_lock() ("this should never happen and
\* indicates a bug") is never reached.
NoAbort == ~aborted

\* No thread stays asleep on the condition while a bit it waits for is set:
\* guac_flag_set() broadcasts only on a change, so a missed one is never made up.
NoLostWakeup ==
  \A t \in state.waiters : /\ call[t] # NoCall
                           /\ ~AnySet(state, Wanted(call[t].kind))

\* The recursive mutex is held exactly as deeply as its callers were told: the
\* _and_lock variants hand over one level on success only, and no timeout, no
\* failure and no retry leaks a level or gives up one of the caller's.
LockDiscipline ==
  \A t \in Threads :
    /\ state.owner = t <=> held[t] > 0
    /\ state.owner = t => state.depth = held[t]

\* The ring slots from head on hold real items, never storage no enqueue wrote.
StoredItemsWritten ==
  \A k \in 0 .. item_count - 1 : items[(head + k) % max_items] # NoItem

\* guac_fifo.h: "preventing any further additions or removals".  No step after
\* invalidation changes the contents, or copies an item out, and the FIFO never
\* becomes valid again.
FrozenOnceInvalid ==
  [][(INVALID \in state.value) =>
       (INVALID \in state'.value /\ UNCHANGED <<fifoVars, received>>)]_vars

(* Refinement: the ring and its flag implement a bounded queue. *)
Queue == INSTANCE BoundedQueue WITH
  Callers  <- Threads,
  Capacity <- max_items,
  queue    <- [k \in 1 .. item_count |-> items[(head + k - 1) % max_items]],
  valid    <- INVALID \notin state.value

\* Every step of the FIFO is one atomic step of a bounded queue, or none.
ImplementsBoundedQueue == Queue!Spec

-----------------------------------------------------------------------------
(* Liveness *)

\* A thread asleep in the FIFO when it is invalidated returns, which is what
\* makes it safe to destroy the FIFO afterwards.
InvalidateReleases ==
  \A t \in Threads :
    (call[t] # NoCall /\ INVALID \in state.value) ~> (call[t] = NoCall)

\* A sleeper for which something it waits for is there does not sleep on: it
\* returns, unless other threads take what it waited for.
SleeperServed ==
  \A t \in Threads :
    (call[t] # NoCall /\ AnySet(state, Wanted(call[t].kind)))
      ~> (call[t] = NoCall \/ ~AnySet(state, Wanted(call[t].kind)))

\* What fifo.c relies on after any sequence of calls by any threads: the state
\* bits say what the item count says, so that enqueue never reaches its
\* abort(); no thread sleeps on while what it waits for is there and no wakeup
\* is on its way; every lock level is held by a call in progress or was asked
\* for by its caller; the slots counted as items have been written.
FifoSound ==
  /\ TypeOK
  /\ FlagsMatchCount
  /\ NoAbort
  /\ NoLostWakeup
  /\ LockDiscipline
  /\ StoredItemsWritten

\* A thread asleep in the FIFO returns once the FIFO is invalidated, and does
\* not sleep on for ever beside what it waits for.
SleepersReturn ==
  /\ InvalidateReleases
  /\ SleeperServed

=============================================================================
