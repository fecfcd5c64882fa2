---------------------------- MODULE LockingProofs ----------------------------
(***************************************************************************)
(* Proofs about event flags, their two users, and the readers-writer lock. *)
(*                                                                         *)
(* The FIFO of GuacFifo keeps its safety invariants and implements a       *)
(* bounded queue, for any set of threads, any items, any capacity and any  *)
(* depth of locking, and whether or not callers block while holding the    *)
(* lock.                                                                   *)
(*                                                                         *)
(* The render thread of DisplayRender loses no frame boundary and no       *)
(* movement of the mouse it does not know of, however many changes,        *)
(* movements and boundaries there are and however long a frame may last.   *)
(*                                                                         *)
(* The lock of GuacRWLock excludes, and its packed words tell the truth,   *)
(* for any set of threads and any size of word.                            *)
(***************************************************************************)
EXTENDS GuacFifo, DisplayRender, GuacRWLock, SequenceTheorems, TLAPS

-----------------------------------------------------------------------------
(* The FIFO.                                                               *)

\* A free mutex has depth zero, and a sleeper still has room for the lock level
\* an _and_lock call hands over.
LockRoom ==
  /\ state.owner = NoThread => state.depth = 0
  /\ \A t \in Threads : call[t] # NoCall => held[t] < MaxDepth

FifoInv ==
  /\ TypeOK
  /\ FlagsMatchCount
  /\ NoAbort
  /\ NoLostWakeup
  /\ LockDiscipline
  /\ LockRoom

\* f is the flag as t sees it once inside a call: locked one level deeper than
\* t was told, with t itself awake.
Inside(t, f) ==
  /\ f \in FlagType(Bits)
  /\ f.value = state.value
  /\ f.owner = t
  /\ f.depth = held[t] + 1
  /\ f.waiters = state.waiters \ {t}
  /\ held[t] < MaxDepth
  /\ \A u \in Threads \ {t} : held[u] = 0

-----------------------------------------------------------------------------
(* What the operations of a flag do to each of its fields. *)

\* guac_flag_lock() takes the mutex of a flag for its caller and leaves the
\* value and the waiting threads alone.
LEMMA LockFacts ==
  ASSUME NEW f \in FlagType(Bits), NEW t \in Threads
  PROVE  /\ guac_flag_lock(f, t) \in FlagType(Bits)
         /\ guac_flag_lock(f, t).value = f.value
         /\ guac_flag_lock(f, t).owner = t
         /\ guac_flag_lock(f, t).depth = f.depth + 1
         /\ guac_flag_lock(f, t).waiters = f.waiters
  <1>1. f.depth \in Nat /\ f.depth + 1 \in Nat
    BY DEF FlagType
  <1> QED
    BY <1>1 DEF guac_flag_lock, FlagType

\* guac_flag_unlock() gives the mutex back once it was unlocked as often as it
\* was locked, and changes nothing else.
LEMMA UnlockFacts ==
  ASSUME NEW f \in FlagType(Bits), f.depth > 0
  PROVE  /\ guac_flag_unlock(f) \in FlagType(Bits)
         /\ guac_flag_unlock(f).value = f.value
         /\ guac_flag_unlock(f).owner = IF f.depth = 1 THEN NoThread ELSE f.owner
         /\ guac_flag_unlock(f).depth = f.depth - 1
         /\ guac_flag_unlock(f).waiters = f.waiters
  <1>1. f.depth \in Nat /\ f.depth - 1 \in Nat
    BY DEF FlagType
  <1>2. (IF f.depth = 1 THEN NoThread ELSE f.owner) \in Threads \cup {NoThread}
    BY DEF FlagType
  <1> QED
    BY <1>1, <1>2 DEF guac_flag_unlock, FlagType

\* guac_flag_set() adds its bits to the value, wakes those waiting for one of
\* them, and keeps who holds the mutex.
LEMMA SetFacts ==
  ASSUME NEW f \in FlagType(Bits), NEW bits \in SUBSET Bits
  PROVE  /\ guac_flag_set(f, bits) \in FlagType(Bits)
         /\ guac_flag_set(f, bits).value = f.value \cup bits
         /\ guac_flag_set(f, bits).owner = f.owner
         /\ guac_flag_set(f, bits).depth = f.depth
         /\ guac_flag_set(f, bits).waiters
              = IF bits \subseteq f.value THEN f.waiters ELSE {}
  BY DEF guac_flag_set, FlagType

\* guac_flag_clear() takes its bits from the value and wakes nobody.
LEMMA ClearFacts ==
  ASSUME NEW f \in FlagType(Bits), NEW bits \in SUBSET Bits
  PROVE  /\ guac_flag_clear(f, bits) \in FlagType(Bits)
         /\ guac_flag_clear(f, bits).value = f.value \ bits
         /\ guac_flag_clear(f, bits).owner = f.owner
         /\ guac_flag_clear(f, bits).depth = f.depth
         /\ guac_flag_clear(f, bits).waiters = f.waiters
  BY DEF guac_flag_clear, FlagType

\* pthread_cond_wait() in guac_flag_wait_and_lock() gives up one level of the
\* mutex and adds the caller to the waiting threads.
LEMMA SleepFacts ==
  ASSUME NEW f \in FlagType(Bits), f.depth > 0, NEW t \in Threads
  PROVE  /\ pthread_cond_wait(f, t) \in FlagType(Bits)
         /\ pthread_cond_wait(f, t).value = f.value
         /\ pthread_cond_wait(f, t).owner
              = IF f.depth = 1 THEN NoThread ELSE f.owner
         /\ pthread_cond_wait(f, t).depth = f.depth - 1
         /\ pthread_cond_wait(f, t).waiters = f.waiters \cup {t}
  BY UnlockFacts DEF pthread_cond_wait, FlagType

\* A thread that returns from pthread_cond_wait() has the mutex again and waits
\* no more.
LEMMA WakeupFacts ==
  ASSUME NEW f \in FlagType(Bits), NEW t \in Threads
  PROVE  /\ Wakeup(f, t) \in FlagType(Bits)
         /\ Wakeup(f, t).value = f.value
         /\ Wakeup(f, t).owner = t
         /\ Wakeup(f, t).depth = f.depth + 1
         /\ Wakeup(f, t).waiters = f.waiters \ {t}
  <1> DEFINE g == [f EXCEPT !.waiters = @ \ {t}]
  <1>1. /\ g \in FlagType(Bits)
        /\ g.value = f.value
        /\ g.depth = f.depth
        /\ g.waiters = f.waiters \ {t}
    BY DEF FlagType
  <1>2. Wakeup(f, t) = guac_flag_lock(g, t)
    BY DEF Wakeup
  <1> HIDE DEF g
  <1> QED
    BY <1>1, <1>2, LockFacts

-----------------------------------------------------------------------------
(* Entering a call, and the ways out of one. *)

\* A thread that takes the lock of a FIFO outside any call is inside it, with
\* the queue as the invariant says (guac_fifo_lock()).
LEMMA LockGivesInside ==
  ASSUME FifoInv, NEW t \in Threads, Lockable(state, t), held[t] < MaxDepth,
         call[t] = NoCall
  PROVE  Inside(t, guac_flag_lock(state, t))
  <1>1. state \in FlagType(Bits)
    BY DEF FifoInv, TypeOK
  <1>2. t \notin state.waiters
    BY DEF FifoInv, NoLostWakeup
  <1>3. state.depth = held[t] /\ \A u \in Threads \ {t} : held[u] = 0
    BY NoThreadAssumption
    DEF FifoInv, TypeOK, LockDiscipline, LockRoom, Lockable
  <1> QED
    BY <1>1, <1>2, <1>3, LockFacts DEF Inside

\* A thread that wakes up within a call of a FIFO is inside it again
\* (guac_flag_wait_and_lock()).
LEMMA WakeupGivesInside ==
  ASSUME FifoInv, NEW t \in Threads, Lockable(state, t), call[t] # NoCall
  PROVE  Inside(t, Wakeup(state, t))
  <1>1. state \in FlagType(Bits)
    BY DEF FifoInv, TypeOK
  <1>2. held[t] < MaxDepth
    BY DEF FifoInv, LockRoom
  <1>3. state.depth = held[t] /\ \A u \in Threads \ {t} : held[u] = 0
    BY NoThreadAssumption
    DEF FifoInv, TypeOK, LockDiscipline, LockRoom, Lockable
  <1> QED
    BY <1>1, <1>2, <1>3, WakeupFacts DEF Inside

\* Unlocking once restores the lock levels callers know of.
LEMMA UnlockRestores ==
  ASSUME FifoInv, NEW t \in Threads, NEW f, Inside(t, f),
         state' = guac_flag_unlock(f),
         call' = [call EXCEPT ![t] = NoCall],
         UNCHANGED <<fifoVars, received, held, aborted>>
  PROVE  FifoInv'
  <1>1. f \in FlagType(Bits) /\ f.depth > 0
    BY DEF Inside, FifoInv, TypeOK
  <1>2. /\ state' \in FlagType(Bits)
        /\ state'.value = state.value
        /\ state'.owner = IF f.depth = 1 THEN NoThread ELSE t
        /\ state'.depth = held[t]
        /\ state'.waiters = state.waiters \ {t}
    BY <1>1, UnlockFacts DEF Inside, FifoInv, TypeOK
  <1>3. TypeOK'
    BY <1>2 DEF FifoInv, TypeOK, fifoVars, Call
  <1>4. FlagsMatchCount' /\ NoAbort'
    BY <1>2 DEF FifoInv, FlagsMatchCount, NoAbort, fifoVars
  <1>5. NoLostWakeup'
    BY <1>2 DEF FifoInv, TypeOK, NoLostWakeup, AnySet, FlagType
  <1>6. LockDiscipline' /\ LockRoom'
    BY <1>2, NoThreadAssumption
    DEF FifoInv, TypeOK, LockDiscipline, LockRoom, Inside, FlagType
  <1> QED
    BY <1>3, <1>4, <1>5, <1>6 DEF FifoInv

\* A call of a FIFO that must wait, and sleeps, keeps the invariant
\* (guac_flag_wait_and_lock()).
LEMMA SleepPreserves ==
  ASSUME FifoInv, NEW t \in Threads, NEW f, Inside(t, f), NEW c \in Call,
         ~AnySet(f, Wanted(c.kind)), Sleep(t, f, c)
  PROVE  FifoInv'
  <1>1. f \in FlagType(Bits) /\ f.depth > 0
    BY DEF Inside, FifoInv, TypeOK
  <1>2. /\ state' \in FlagType(Bits)
        /\ state'.value = state.value
        /\ state'.owner = IF f.depth = 1 THEN NoThread ELSE t
        /\ state'.depth = held[t]
        /\ state'.waiters = state.waiters \cup {t}
    BY <1>1, SleepFacts DEF Sleep, Inside, FifoInv, TypeOK
  <1>3. TypeOK'
    BY <1>2 DEF FifoInv, TypeOK, fifoVars, Sleep
  <1>4. FlagsMatchCount' /\ NoAbort'
    BY <1>2 DEF FifoInv, FlagsMatchCount, NoAbort, fifoVars, Sleep
  <1>5. NoLostWakeup'
    BY <1>2, NoCallAssumption
    DEF FifoInv, TypeOK, NoLostWakeup, AnySet, FlagType, Sleep, Inside
  <1>6. LockDiscipline' /\ LockRoom'
    BY <1>2, NoThreadAssumption
    DEF FifoInv, TypeOK, LockDiscipline, LockRoom, Inside, FlagType, Sleep
  <1> QED
    BY <1>3, <1>4, <1>5, <1>6 DEF FifoInv

\* What is left to check once the flag is known bit for bit.
LEMMA EnqueueFlag ==
  ASSUME FifoInv, NEW t \in Threads, NEW f, Inside(t, f), item_count < max_items
  PROVE  LET g == NextFlagEnqueue(f) IN
         /\ g \in FlagType(Bits)
         /\ g.value = IF item_count + 1 = max_items
                      THEN (f.value \ {READY}) \cup {NONEMPTY}
                      ELSE f.value \cup {NONEMPTY}
         /\ g.owner = t
         /\ g.depth = held[t] + 1
         /\ g.waiters = IF NONEMPTY \in f.value THEN f.waiters ELSE {}
  <1> DEFINE h == IF item_count + 1 = max_items
                  THEN guac_flag_clear(f, {READY}) ELSE f
  <1>1. {READY} \in SUBSET Bits /\ {NONEMPTY} \in SUBSET Bits /\ READY # NONEMPTY
    BY DEF Bits, READY, NONEMPTY
  <1>2. /\ h \in FlagType(Bits)
        /\ h.value = IF item_count + 1 = max_items THEN f.value \ {READY} ELSE f.value
        /\ h.owner = t
        /\ h.depth = held[t] + 1
        /\ h.waiters = f.waiters
    BY <1>1, ClearFacts DEF Inside
  <1>3. NextFlagEnqueue(f) = guac_flag_set(h, {NONEMPTY})
    BY DEF NextFlagEnqueue
  <1> HIDE DEF h
  <1>4. {NONEMPTY} \subseteq h.value <=> NONEMPTY \in f.value
    BY <1>1, <1>2
  <1> DEFINE k == guac_flag_set(h, {NONEMPTY})
  <1>5. /\ k \in FlagType(Bits)
        /\ k.value = h.value \cup {NONEMPTY}
        /\ k.owner = h.owner
        /\ k.depth = h.depth
        /\ k.waiters = IF {NONEMPTY} \subseteq h.value THEN h.waiters ELSE {}
    BY <1>1, <1>2, SetFacts
  <1> HIDE DEF k
  <1> QED
    BY <1>2, <1>3, <1>4, <1>5 DEF k

\* The flag after guac_fifo_dequeue_and_lock(): there is room, and the bit for
\* items is cleared with the last of them.
LEMMA DequeueFlag ==
  ASSUME FifoInv, NEW t \in Threads, NEW f, Inside(t, f)
  PROVE  LET g == NextFlagDequeue(f) IN
         /\ g \in FlagType(Bits)
         /\ g.value = IF item_count = 1
                      THEN (f.value \ {NONEMPTY}) \cup {READY}
                      ELSE f.value \cup {READY}
         /\ g.owner = t
         /\ g.depth = held[t] + 1
         /\ g.waiters = IF READY \in f.value THEN f.waiters ELSE {}
  <1> DEFINE h == IF item_count = 1 THEN guac_flag_clear(f, {NONEMPTY}) ELSE f
  <1>1. {READY} \in SUBSET Bits /\ {NONEMPTY} \in SUBSET Bits /\ READY # NONEMPTY
    BY DEF Bits, READY, NONEMPTY
  <1>2. /\ h \in FlagType(Bits)
        /\ h.value = IF item_count = 1 THEN f.value \ {NONEMPTY} ELSE f.value
        /\ h.owner = t
        /\ h.depth = held[t] + 1
        /\ h.waiters = f.waiters
    BY <1>1, ClearFacts DEF Inside
  <1>3. NextFlagDequeue(f) = guac_flag_set(h, {READY})
    BY DEF NextFlagDequeue
  <1> HIDE DEF h
  <1>4. {READY} \subseteq h.value <=> READY \in f.value
    BY <1>1, <1>2
  <1> DEFINE k == guac_flag_set(h, {READY})
  <1>5. /\ k \in FlagType(Bits)
        /\ k.value = h.value \cup {READY}
        /\ k.owner = h.owner
        /\ k.depth = h.depth
        /\ k.waiters = IF {READY} \subseteq h.value THEN h.waiters ELSE {}
    BY <1>1, <1>2, SetFacts
  <1> HIDE DEF k
  <1> QED
    BY <1>2, <1>3, <1>4, <1>5 DEF k

\* Returning with success hands over one level or gives it back.
LEMMA LeaveFacts ==
  ASSUME FifoInv, NEW t \in Threads, NEW f, Inside(t, f),
         NEW g \in FlagType(Bits), g.owner = t, g.depth = held[t] + 1,
         NEW keep \in BOOLEAN, Leave(t, g, keep),
         call' = [call EXCEPT ![t] = NoCall]
  PROVE  /\ state' \in FlagType(Bits)
         /\ state'.value = g.value
         /\ state'.waiters = g.waiters
         /\ held' \in [Threads -> 0 .. MaxDepth]
         /\ LockDiscipline'
         /\ LockRoom'
  <1>1. g.depth > 0
    BY DEF FifoInv, TypeOK
  <1>2. CASE keep
    <2>1. state' = g /\ held' = [held EXCEPT ![t] = @ + 1]
      BY <1>2 DEF Leave
    <2>2. /\ held' \in [Threads -> 0 .. MaxDepth]
          /\ held'[t] = held[t] + 1
          /\ \A u \in Threads \ {t} : held'[u] = 0
      BY <2>1, DepthAssumption DEF Inside, FifoInv, TypeOK
    <2>3. LockDiscipline'
      BY <2>1, <2>2 DEF LockDiscipline, FifoInv, TypeOK
    <2>4. LockRoom'
      BY <2>1, <2>2, NoThreadAssumption, DepthAssumption
      DEF LockRoom, FifoInv, TypeOK
    <2> QED
      BY <2>1, <2>2, <2>3, <2>4
  <1>3. CASE ~keep
    <2>1. state' = guac_flag_unlock(g) /\ held' = held
      BY <1>3 DEF Leave, FifoInv, TypeOK
    <2>2. /\ state' \in FlagType(Bits)
          /\ state'.value = g.value
          /\ state'.waiters = g.waiters
          /\ state'.owner = IF held[t] = 0 THEN NoThread ELSE t
          /\ state'.depth = held[t]
      BY <1>1, <2>1, UnlockFacts DEF FifoInv, TypeOK
    <2> QED
      BY <2>1, <2>2, NoThreadAssumption
      DEF Inside, FifoInv, TypeOK, LockDiscipline, LockRoom
  <1> QED
    BY <1>2, <1>3

\* guac_fifo_enqueue_and_lock() with room in the queue keeps the invariant.
LEMMA EnqueuePreserves ==
  ASSUME FifoInv, NEW t \in Threads, NEW f, Inside(t, f), NEW i \in Item \cup {NoItem},
         NEW keep \in BOOLEAN, AnySet(f, Wanted("enqueue")),
         guac_fifo_enqueue_and_lock(t, f, i, keep),
         call' = [call EXCEPT ![t] = NoCall]
  PROVE  FifoInv'
  <1>1. CASE FailInvalid(f)
    BY <1>1, UnlockRestores DEF FailInvalid
  <1>2. CASE ~FailInvalid(f)
    <2>1. INVALID \notin f.value /\ READY \in f.value /\ item_count < max_items
      BY <1>2 DEF guac_fifo_enqueue_and_lock, AnySet, Wanted, FifoInv, FlagsMatchCount,
                  Inside
    <2>2. /\ item_count' = item_count + 1
          /\ items' = [items EXCEPT ![(head + item_count) % max_items] = i]
          /\ Leave(t, NextFlagEnqueue(f), keep)
          /\ UNCHANGED <<head, received, aborted>>
      BY <1>2, <2>1, SizeAssumption
      DEF guac_fifo_enqueue_and_lock, FifoInv, TypeOK
    <2> DEFINE g == NextFlagEnqueue(f)
    <2>3. /\ g \in FlagType(Bits)
          /\ g.value = IF item_count + 1 = max_items
                       THEN (f.value \ {READY}) \cup {NONEMPTY}
                       ELSE f.value \cup {NONEMPTY}
          /\ g.owner = t
          /\ g.depth = held[t] + 1
          /\ g.waiters = IF NONEMPTY \in f.value THEN f.waiters ELSE {}
      BY <2>1, EnqueueFlag
    <2> HIDE DEF g
    <2>4. /\ state' \in FlagType(Bits)
          /\ state'.value = g.value
          /\ state'.waiters = g.waiters
          /\ held' \in [Threads -> 0 .. MaxDepth]
          /\ LockDiscipline'
          /\ LockRoom'
      BY <2>2, <2>3, LeaveFacts DEF g
    <2>5. TypeOK'
      <3>1. /\ item_count' \in 0 .. max_items
            /\ head' \in Slot
            /\ aborted' \in BOOLEAN
            /\ received' \in [Threads -> Item \cup {NoItem}]
        BY <2>1, <2>2, SizeAssumption DEF FifoInv, TypeOK
      <3>2. items' \in [Slot -> Item \cup {NoItem}]
        BY <2>2 DEF FifoInv, TypeOK
      <3>3. call' \in [Threads -> Call \cup {NoCall}]
        BY DEF FifoInv, TypeOK
      <3> QED
        BY <2>4, <3>1, <3>2, <3>3 DEF TypeOK
    <2>6. FlagsMatchCount' /\ NoAbort'
      BY <2>1, <2>2, <2>3, <2>4, SizeAssumption
      DEF FifoInv, TypeOK, FlagsMatchCount, NoAbort, Inside, READY, NONEMPTY
    <2>7. NoLostWakeup'
      BY <2>1, <2>3, <2>4
      DEF FifoInv, TypeOK, NoLostWakeup, AnySet, Wanted, Inside, FlagType, Call,
          READY, NONEMPTY, INVALID
    <2> QED
      BY <2>4, <2>5, <2>6, <2>7 DEF FifoInv
  <1> QED
    BY <1>1, <1>2

\* guac_fifo_dequeue_and_lock() with an item in the queue keeps the invariant.
LEMMA DequeuePreserves ==
  ASSUME FifoInv, NEW t \in Threads, NEW f, Inside(t, f), NEW keep \in BOOLEAN,
         AnySet(f, Wanted("dequeue")), guac_fifo_dequeue_and_lock(t, f, keep),
         call' = [call EXCEPT ![t] = NoCall]
  PROVE  FifoInv'
  <1>1. CASE FailInvalid(f)
    BY <1>1, UnlockRestores DEF FailInvalid
  <1>2. CASE ~FailInvalid(f)
    <2>1. INVALID \notin f.value /\ NONEMPTY \in f.value /\ item_count > 0
      BY <1>2 DEF guac_fifo_dequeue_and_lock, AnySet, Wanted, FifoInv, FlagsMatchCount,
                  Inside
    <2>2. dequeue(t, f, keep)
      BY <1>2 DEF guac_fifo_dequeue_and_lock
    <2> DEFINE g == NextFlagDequeue(f)
    <2>3. /\ g \in FlagType(Bits)
          /\ g.value = IF item_count = 1
                       THEN (f.value \ {NONEMPTY}) \cup {READY}
                       ELSE f.value \cup {READY}
          /\ g.owner = t
          /\ g.depth = held[t] + 1
          /\ g.waiters = IF READY \in f.value THEN f.waiters ELSE {}
      BY DequeueFlag
    <2> HIDE DEF g
    <2>4. /\ state' \in FlagType(Bits)
          /\ state'.value = g.value
          /\ state'.waiters = g.waiters
          /\ held' \in [Threads -> 0 .. MaxDepth]
          /\ LockDiscipline'
          /\ LockRoom'
      BY <2>2, <2>3, LeaveFacts DEF g, dequeue
    <2>5. TypeOK'
      <3>1. /\ item_count' \in 0 .. max_items
            /\ aborted' \in BOOLEAN
            /\ items' \in [Slot -> Item \cup {NoItem}]
        BY <2>1, <2>2, SizeAssumption DEF FifoInv, TypeOK, dequeue
      <3>2. received' \in [Threads -> Item \cup {NoItem}]
        BY <2>2 DEF FifoInv, TypeOK, dequeue
      <3>3. call' \in [Threads -> Call \cup {NoCall}]
        BY DEF FifoInv, TypeOK
      <3>4. head' \in Slot
        BY <2>2, SizeAssumption DEF FifoInv, TypeOK, Slot, dequeue
      <3> QED
        BY <2>4, <3>1, <3>2, <3>3, <3>4 DEF TypeOK
    <2>6. FlagsMatchCount' /\ NoAbort'
      BY <2>1, <2>2, <2>3, <2>4, SizeAssumption
      DEF FifoInv, TypeOK, FlagsMatchCount, NoAbort, Inside, READY, NONEMPTY, dequeue
    <2>7. NoLostWakeup'
      BY <2>1, <2>3, <2>4
      DEF FifoInv, TypeOK, NoLostWakeup, AnySet, Wanted, Inside, FlagType, Call,
          READY, NONEMPTY, INVALID
    <2> QED
      BY <2>4, <2>5, <2>6, <2>7 DEF FifoInv
  <1> QED
    BY <1>1, <1>2

\* Success or failure of a call, once something it waits for is there.
LEMMA BodyPreserves ==
  ASSUME FifoInv, NEW t \in Threads, NEW f, Inside(t, f), NEW c \in Call,
         AnySet(f, Wanted(c.kind)), Body(t, f, c),
         call' = [call EXCEPT ![t] = NoCall]
  PROVE  FifoInv'
  <1>1. c.keep \in BOOLEAN /\ c.item \in Item \cup {NoItem}
    BY DEF Call
  <1>2. CASE c.kind = "enqueue"
    BY <1>1, <1>2, EnqueuePreserves DEF Body
  <1>3. CASE c.kind # "enqueue"
    <2>1. Wanted(c.kind) = Wanted("dequeue")
      BY <1>3 DEF Wanted
    <2> QED
      BY <1>1, <1>3, <2>1, DequeuePreserves DEF Body
  <1> QED
    BY <1>2, <1>3

\* A thread that may lock the FIFO is told of no more levels than there are.
LEMMA DepthIsHeld ==
  ASSUME FifoInv, NEW t \in Threads, Lockable(state, t)
  PROVE  state.depth = held[t]
  BY NoThreadAssumption DEF FifoInv, TypeOK, LockDiscipline, LockRoom, Lockable

\* The start of a call of a FIFO, whether it goes on, waits or finds the FIFO
\* invalid, keeps the invariant (fifo.c).
LEMMA BeginPreserves ==
  ASSUME FifoInv, NEW t \in Threads, NEW c \in Call, Begin(t, c)
  PROVE  FifoInv'
  <1> DEFINE f == guac_flag_lock(state, t)
  <1>1. call[t] = NoCall /\ Lockable(state, t) /\ held[t] < MaxDepth
    BY DepthIsHeld DEF Begin, Running
  <1>2. Inside(t, f)
    BY <1>1, LockGivesInside
  <1> HIDE DEF f
  <1>3. CASE AnySet(f, Wanted(c.kind))
    <2>1. Body(t, f, c) /\ call' = call
      BY <1>3 DEF Begin, f
    <2>2. call' = [call EXCEPT ![t] = NoCall]
      BY <1>1, <2>1 DEF FifoInv, TypeOK
    <2> QED
      BY <1>2, <1>3, <2>1, <2>2, BodyPreserves
  <1>4. CASE ~AnySet(f, Wanted(c.kind))
    <2>1. Sleep(t, f, c)
      BY <1>4 DEF Begin, f
    <2> QED
      BY <1>2, <1>4, <2>1, SleepPreserves
  <1> QED
    BY <1>3, <1>4

\* guac_fifo_timed_dequeue_and_lock() without waiting keeps the invariant.
LEMMA PollPreserves ==
  ASSUME FifoInv, NEW t \in Threads, NEW keep \in BOOLEAN, PollDequeue(t, keep)
  PROVE  FifoInv'
  <1> DEFINE f == guac_flag_lock(state, t)
  <1>1. call[t] = NoCall /\ Lockable(state, t) /\ held[t] < MaxDepth
    BY DepthIsHeld DEF PollDequeue, Running
  <1>2. Inside(t, f)
    BY <1>1, LockGivesInside
  <1>3. call' = call
    BY DEF PollDequeue
  <1>4. call' = [call EXCEPT ![t] = NoCall]
    BY <1>1, <1>3 DEF FifoInv, TypeOK
  <1>5. Wanted("timed") = Wanted("dequeue")
    BY DEF Wanted
  <1> HIDE DEF f
  <1>6. CASE AnySet(f, Wanted("timed"))
    <2>1. guac_fifo_dequeue_and_lock(t, f, keep)
      BY <1>6 DEF PollDequeue, f
    <2> QED
      BY <1>2, <1>4, <1>5, <1>6, <2>1, DequeuePreserves
  <1>7. CASE ~AnySet(f, Wanted("timed"))
    <2>1. /\ state' = guac_flag_unlock(f)
          /\ UNCHANGED <<fifoVars, received, held, aborted>>
      BY <1>7 DEF PollDequeue, f
    <2> QED
      BY <1>2, <1>4, <2>1, UnlockRestores
  <1> QED
    BY <1>6, <1>7

\* A call of a FIFO that wakes up to a bit it waits for keeps the invariant
\* (guac_flag_wait_and_lock()).
LEMMA ResumePreserves ==
  ASSUME FifoInv, NEW t \in Threads, Resume(t)
  PROVE  FifoInv'
  <1> DEFINE f == Wakeup(state, t)
  <1>1. call[t] # NoCall /\ call[t] \in Call /\ Lockable(state, t)
    BY DEF Resume, FifoInv, TypeOK
  <1>2. Inside(t, f)
    BY <1>1, WakeupGivesInside
  <1> HIDE DEF f
  <1>3. CASE AnySet(f, Wanted(call[t].kind))
    <2>1. Body(t, f, call[t]) /\ call' = [call EXCEPT ![t] = NoCall]
      BY <1>3 DEF Resume, f
    <2> QED
      BY <1>1, <1>2, <1>3, <2>1, BodyPreserves
  <1>4. CASE ~AnySet(f, Wanted(call[t].kind))
    <2>1. Sleep(t, f, call[t])
      BY <1>4 DEF Resume, f
    <2> QED
      BY <1>1, <1>2, <1>4, <2>1, SleepPreserves
  <1> QED
    BY <1>3, <1>4

\* A call of a FIFO that gives up after its time keeps the invariant
\* (guac_flag_timedwait_and_lock()).
LEMMA TimeoutPreserves ==
  ASSUME FifoInv, NEW t \in Threads, Timeout(t)
  PROVE  FifoInv'
  <1>1. Inside(t, Wakeup(state, t))
    BY WakeupGivesInside DEF Timeout
  <1> QED
    BY <1>1, UnlockRestores DEF Timeout

\* A wakeup with no bit set, after which the thread sleeps again, keeps the
\* invariant (guac_flag_wait_and_lock()).
LEMMA SpuriousPreserves ==
  ASSUME FifoInv, NEW t \in Threads, SpuriousWakeup(t)
  PROVE  FifoInv'
  <1>1. /\ state' \in FlagType(Bits)
        /\ state'.value = state.value
        /\ state'.owner = state.owner
        /\ state'.depth = state.depth
        /\ state'.waiters = state.waiters \ {t}
    BY DEF SpuriousWakeup, FifoInv, TypeOK, FlagType
  <1>2. UNCHANGED <<head, item_count, items, call, received, held, aborted>>
    BY DEF SpuriousWakeup, fifoVars
  <1> QED
    BY <1>1, <1>2
    DEF FifoInv, TypeOK, FlagsMatchCount, NoAbort, NoLostWakeup, AnySet,
        LockDiscipline, LockRoom

\* guac_fifo_lock() keeps the invariant.
LEMMA LockPreserves ==
  ASSUME FifoInv, NEW t \in Threads, guac_fifo_lock(t)
  PROVE  FifoInv'
  <1> DEFINE f == guac_flag_lock(state, t)
  <1>1. call[t] = NoCall /\ Lockable(state, t) /\ held[t] < MaxDepth
    BY DepthIsHeld DEF guac_fifo_lock, Running
  <1>2. Inside(t, f)
    BY <1>1, LockGivesInside
  <1>3. state' = f /\ held' = [held EXCEPT ![t] = @ + 1]
    BY DEF guac_fifo_lock
  <1>4. UNCHANGED <<head, item_count, items, call, received, aborted>>
    BY DEF guac_fifo_lock, fifoVars
  <1> HIDE DEF f
  <1>5. Leave(t, f, TRUE)
    BY <1>3 DEF Leave
  <1>6. call' = [call EXCEPT ![t] = NoCall]
    BY <1>1, <1>4 DEF FifoInv, TypeOK
  <1>7. f \in FlagType(Bits) /\ f.owner = t /\ f.depth = held[t] + 1
    BY <1>2 DEF Inside
  <1>8. /\ state' \in FlagType(Bits)
        /\ state'.value = f.value
        /\ state'.waiters = f.waiters
        /\ held' \in [Threads -> 0 .. MaxDepth]
        /\ LockDiscipline'
        /\ LockRoom'
    BY <1>2, <1>5, <1>6, <1>7, LeaveFacts
  <1> QED
    BY <1>2, <1>4, <1>8
    DEF Inside, FifoInv, TypeOK, FlagsMatchCount, NoAbort, NoLostWakeup, AnySet

\* guac_fifo_unlock() keeps the invariant.
LEMMA UnlockPreserves ==
  ASSUME FifoInv, NEW t \in Threads, guac_fifo_unlock(t)
  PROVE  FifoInv'
  <1>1. state \in FlagType(Bits) /\ state.owner = t /\ state.depth = held[t]
        /\ held[t] \in 1 .. MaxDepth
    BY DepthAssumption DEF guac_fifo_unlock, FifoInv, TypeOK, LockDiscipline
  <1>2. /\ state' \in FlagType(Bits)
        /\ state'.value = state.value
        /\ state'.owner = IF held[t] = 1 THEN NoThread ELSE t
        /\ state'.depth = held[t] - 1
        /\ state'.waiters = state.waiters
    BY <1>1, UnlockFacts, DepthAssumption DEF guac_fifo_unlock
  <1>3. UNCHANGED <<head, item_count, items, call, received, aborted>>
    BY DEF guac_fifo_unlock, fifoVars
  <1>4. held' \in [Threads -> 0 .. MaxDepth] /\ held'[t] = held[t] - 1
        /\ \A u \in Threads \ {t} : held'[u] = held[u]
    BY <1>1, DepthAssumption DEF guac_fifo_unlock, FifoInv, TypeOK
  <1>5. \A u \in Threads \ {t} : held[u] = 0
    BY <1>1 DEF FifoInv, TypeOK, LockDiscipline
  <1>6. LockDiscipline' /\ LockRoom'
    BY <1>1, <1>2, <1>3, <1>4, <1>5, NoThreadAssumption, DepthAssumption
    DEF FifoInv, TypeOK, LockDiscipline, LockRoom
  <1> QED
    BY <1>2, <1>3, <1>4, <1>6
    DEF FifoInv, TypeOK, FlagsMatchCount, NoAbort, NoLostWakeup, AnySet

\* guac_fifo_invalidate() keeps the invariant.
LEMMA InvalidatePreserves ==
  ASSUME FifoInv, NEW t \in Threads, guac_fifo_invalidate(t)
  PROVE  FifoInv'
  <1> DEFINE f == guac_flag_lock(state, t)
             g == guac_flag_set(f, {INVALID})
  <1>1. state \in FlagType(Bits) /\ state.depth = held[t] /\ held[t] \in Nat
    BY DepthIsHeld DEF guac_fifo_invalidate, FifoInv, TypeOK
  <1>2. /\ f \in FlagType(Bits)
        /\ f.value = state.value
        /\ f.owner = t
        /\ f.depth = held[t] + 1
        /\ f.waiters = state.waiters
    BY <1>1, LockFacts
  <1>3. state' = guac_flag_unlock(g)
    BY DEF guac_fifo_invalidate
  <1> HIDE DEF f
  <1>4. {INVALID} \in SUBSET Bits
    BY DEF Bits
  <1>5. /\ g \in FlagType(Bits)
        /\ g.value = state.value \cup {INVALID}
        /\ g.owner = t
        /\ g.depth = held[t] + 1
        /\ g.waiters = IF {INVALID} \subseteq state.value THEN state.waiters ELSE {}
    BY <1>2, <1>4, SetFacts
  <1> HIDE DEF g
  <1>6. /\ state' \in FlagType(Bits)
        /\ state'.value = state.value \cup {INVALID}
        /\ state'.owner = IF held[t] = 0 THEN NoThread ELSE t
        /\ state'.depth = held[t]
        /\ state'.waiters = IF INVALID \in state.value THEN state.waiters ELSE {}
    BY <1>1, <1>3, <1>5, UnlockFacts
  <1>7. UNCHANGED <<head, item_count, items, call, received, held, aborted>>
    BY DEF guac_fifo_invalidate, fifoVars
  <1>8. TypeOK' /\ NoAbort'
    BY <1>6, <1>7 DEF FifoInv, TypeOK, NoAbort
  <1>9. FlagsMatchCount'
    BY <1>6, <1>7 DEF FifoInv, FlagsMatchCount, READY, NONEMPTY, INVALID
  <1>10. NoLostWakeup'
    BY <1>6, <1>7 DEF FifoInv, NoLostWakeup, AnySet
  <1>11. \A u \in Threads \ {t} : held[u] = 0
    BY NoThreadAssumption
    DEF guac_fifo_invalidate, Lockable, FifoInv, TypeOK, LockDiscipline
  <1>12. LockDiscipline' /\ LockRoom'
    BY <1>1, <1>6, <1>7, <1>11, NoThreadAssumption
    DEF FifoInv, TypeOK, LockDiscipline, LockRoom
  <1> QED
    BY <1>8, <1>9, <1>10, <1>12 DEF FifoInv

-----------------------------------------------------------------------------
\* guac_fifo_init() establishes the invariant.
LEMMA FifoInitInv == Init => FifoInv
  <1> SUFFICES ASSUME Init PROVE FifoInv
    OBVIOUS
  <1>1. state = [value |-> {READY}, owner |-> NoThread, depth |-> 0, waiters |-> {}]
    BY DEF Init, guac_flag_init
  <1>2. state \in FlagType(Bits)
    BY <1>1 DEF FlagType, Bits
  <1>3. TypeOK
    <2>1. head \in Slot /\ item_count \in 0 .. max_items /\ 0 \in 0 .. MaxDepth
      BY SizeAssumption, DepthAssumption DEF Init, Slot
    <2>2. /\ items \in [Slot -> Item \cup {NoItem}]
          /\ call \in [Threads -> Call \cup {NoCall}]
          /\ received \in [Threads -> Item \cup {NoItem}]
          /\ held \in [Threads -> 0 .. MaxDepth]
          /\ aborted \in BOOLEAN
      BY <2>1, Zenon DEF Init
    <2> QED
      BY <1>2, <2>1, <2>2 DEF TypeOK
  <1>4. FlagsMatchCount /\ NoAbort
    BY <1>1, SizeAssumption
    DEF Init, FlagsMatchCount, NoAbort, READY, NONEMPTY
  <1>5. /\ state.waiters = {} /\ state.owner = NoThread /\ state.depth = 0
        /\ \A t \in Threads : held[t] = 0 /\ call[t] = NoCall
    BY <1>1 DEF Init
  <1>6. NoLostWakeup
    BY <1>5 DEF NoLostWakeup
  <1>7. LockDiscipline
    <2>1. ASSUME NEW t \in Threads
          PROVE  state.owner # t /\ ~(held[t] > 0)
      BY <1>5, NoThreadAssumption
    <2> QED
      BY <2>1 DEF LockDiscipline
  <1>8. LockRoom
    BY <1>5 DEF LockRoom
  <1> QED
    BY <1>3, <1>4, <1>6, <1>7, <1>8 DEF FifoInv

\* No step of any thread breaks the invariant.
LEMMA FifoNextInv == FifoInv /\ [Next]_vars => FifoInv'
  <1> SUFFICES ASSUME FifoInv, [Next]_vars PROVE FifoInv'
    OBVIOUS
  <1>1. CASE UNCHANGED vars
    BY <1>1
    DEF vars, FifoInv, TypeOK, FlagsMatchCount, NoAbort, NoLostWakeup, AnySet,
        LockDiscipline, LockRoom
  <1>2. ASSUME NEW t \in Threads, NEW i \in Item, NEW keep \in BOOLEAN,
               Enqueue(t, i, keep)
        PROVE  FifoInv'
    <2>1. [kind |-> "enqueue", keep |-> keep, item |-> i] \in Call
      BY DEF Call
    <2> QED
      BY <1>2, <2>1, BeginPreserves DEF Enqueue
  <1>3. ASSUME NEW t \in Threads, NEW keep \in BOOLEAN, Dequeue(t, keep)
        PROVE  FifoInv'
    <2>1. [kind |-> "dequeue", keep |-> keep, item |-> NoItem] \in Call
      BY DEF Call
    <2> QED
      BY <1>3, <2>1, BeginPreserves DEF Dequeue
  <1>4. ASSUME NEW t \in Threads, NEW keep \in BOOLEAN, TimedDequeue(t, keep)
        PROVE  FifoInv'
    <2>1. [kind |-> "timed", keep |-> keep, item |-> NoItem] \in Call
      BY DEF Call
    <2> QED
      BY <1>4, <2>1, BeginPreserves DEF TimedDequeue
  <1> QED
    BY <1>1, <1>2, <1>3, <1>4, PollPreserves, SpuriousPreserves, ResumePreserves,
       TimeoutPreserves, LockPreserves, UnlockPreserves, InvalidatePreserves
    DEF Next

-----------------------------------------------------------------------------
(* What a step does to the contents. *)

\* A thread asleep in guac_fifo_enqueue*() sleeps there with an item to copy in.
CallItems ==
  \A t \in Threads :
    call[t] # NoCall /\ call[t].kind = "enqueue" => call[t].item \in Item

\* The three things a step can do to the contents of the FIFO.
PutEffect ==
  /\ INVALID \notin state.value
  /\ INVALID \notin state'.value
  /\ item_count < max_items
  /\ item_count' = item_count + 1
  /\ \E i \in Item : items' = [items EXCEPT ![(head + item_count) % max_items] = i]
  /\ UNCHANGED <<head, received>>

TakeEffect ==
  /\ INVALID \notin state.value
  /\ INVALID \notin state'.value
  /\ item_count > 0
  /\ item_count' = item_count - 1
  /\ head' = (head + 1) % max_items
  /\ \E t \in Threads : received' = [received EXCEPT ![t] = items[head]]
  /\ UNCHANGED items

NoEffect ==
  /\ INVALID \in state.value => INVALID \in state'.value
  /\ UNCHANGED <<head, item_count, items, received>>

Effect == PutEffect \/ TakeEffect \/ NoEffect

\* What a call may leave in call[t]: nothing new but calls with their items.
CallStep(t) ==
  \/ call' = call
  \/ call' = [call EXCEPT ![t] = NoCall]
  \/ \E c \in Call : /\ c.kind = "enqueue" => c.item \in Item
                     /\ call' = [call EXCEPT ![t] = c]

\* Leaving a FIFO, with or without its lock, keeps the value of its flag.
LEMMA LeaveValue ==
  ASSUME NEW t, NEW g \in FlagType(Bits), g.depth > 0,
         NEW keep \in BOOLEAN, Leave(t, g, keep)
  PROVE  state'.value = g.value
  BY UnlockFacts DEF Leave

\* A call that finds the FIFO invalid changes nothing in the queue.
LEMMA FailEffect ==
  ASSUME FifoInv, NEW t \in Threads, NEW f, Inside(t, f), FailInvalid(f)
  PROVE  NoEffect
  <1>1. f \in FlagType(Bits) /\ f.depth > 0
    BY DEF Inside, FifoInv, TypeOK
  <1>2. state'.value = state.value
    BY <1>1, UnlockFacts DEF FailInvalid, Inside
  <1> QED
    BY <1>2 DEF NoEffect, FailInvalid, fifoVars

\* guac_fifo_enqueue_and_lock() appends its item to the abstract queue.
LEMMA EnqueueEffect ==
  ASSUME FifoInv, NEW t \in Threads, NEW f, Inside(t, f), NEW i \in Item,
         NEW keep \in BOOLEAN, AnySet(f, Wanted("enqueue")),
         guac_fifo_enqueue_and_lock(t, f, i, keep)
  PROVE  Effect
  <1>1. CASE FailInvalid(f)
    BY <1>1, FailEffect DEF Effect
  <1>2. CASE ~FailInvalid(f)
    <2>1. INVALID \notin f.value /\ READY \in f.value /\ item_count < max_items
      BY <1>2 DEF guac_fifo_enqueue_and_lock, AnySet, Wanted, FifoInv, FlagsMatchCount,
                  Inside
    <2>2. /\ item_count' = item_count + 1
          /\ items' = [items EXCEPT ![(head + item_count) % max_items] = i]
          /\ Leave(t, NextFlagEnqueue(f), keep)
          /\ UNCHANGED <<head, received, aborted>>
      BY <1>2, <2>1, SizeAssumption
      DEF guac_fifo_enqueue_and_lock, FifoInv, TypeOK
    <2> DEFINE g == NextFlagEnqueue(f)
    <2>3. /\ g \in FlagType(Bits)
          /\ g.value = IF item_count + 1 = max_items
                       THEN (f.value \ {READY}) \cup {NONEMPTY}
                       ELSE f.value \cup {NONEMPTY}
          /\ g.depth = held[t] + 1
      BY <2>1, EnqueueFlag
    <2> HIDE DEF g
    <2>4. state'.value = g.value
      BY <2>2, <2>3, LeaveValue DEF g, FifoInv, TypeOK
    <2>5. INVALID \notin state.value /\ INVALID \notin state'.value
      BY <2>1, <2>3, <2>4 DEF Inside, INVALID, NONEMPTY
    <2> QED
      BY <2>1, <2>2, <2>5 DEF Effect, PutEffect
  <1> QED
    BY <1>1, <1>2

\* guac_fifo_dequeue_and_lock() takes the first item of the abstract queue.
LEMMA DequeueEffect ==
  ASSUME FifoInv, NEW t \in Threads, NEW f, Inside(t, f), NEW keep \in BOOLEAN,
         AnySet(f, Wanted("dequeue")), guac_fifo_dequeue_and_lock(t, f, keep)
  PROVE  Effect
  <1>1. CASE FailInvalid(f)
    BY <1>1, FailEffect DEF Effect
  <1>2. CASE ~FailInvalid(f)
    <2>1. INVALID \notin f.value /\ NONEMPTY \in f.value /\ item_count > 0
      BY <1>2 DEF guac_fifo_dequeue_and_lock, AnySet, Wanted, FifoInv, FlagsMatchCount,
                  Inside
    <2>2. dequeue(t, f, keep)
      BY <1>2 DEF guac_fifo_dequeue_and_lock
    <2> DEFINE g == NextFlagDequeue(f)
    <2>3. /\ g \in FlagType(Bits)
          /\ g.value = IF item_count = 1
                       THEN (f.value \ {NONEMPTY}) \cup {READY}
                       ELSE f.value \cup {READY}
          /\ g.depth = held[t] + 1
      BY DequeueFlag
    <2> HIDE DEF g
    <2>4. state'.value = g.value
      BY <2>2, <2>3, LeaveValue DEF g, dequeue, FifoInv, TypeOK
    <2>5. INVALID \notin state.value /\ INVALID \notin state'.value
      BY <2>1, <2>3, <2>4 DEF Inside, INVALID, READY
    <2> QED
      BY <2>1, <2>2, <2>5 DEF Effect, TakeEffect, dequeue
  <1> QED
    BY <1>1, <1>2

\* What a call of a FIFO does once it need not wait is one step of the abstract
\* queue (fifo.c).
LEMMA BodyEffect ==
  ASSUME FifoInv, NEW t \in Threads, NEW f, Inside(t, f), NEW c \in Call,
         c.kind = "enqueue" => c.item \in Item,
         AnySet(f, Wanted(c.kind)), Body(t, f, c)
  PROVE  Effect
  <1>1. c.keep \in BOOLEAN
    BY DEF Call
  <1>2. CASE c.kind = "enqueue"
    BY <1>1, <1>2, EnqueueEffect DEF Body
  <1>3. CASE c.kind # "enqueue"
    <2>1. Wanted(c.kind) = Wanted("dequeue")
      BY <1>3 DEF Wanted
    <2> QED
      BY <1>1, <1>3, <2>1, DequeueEffect DEF Body
  <1> QED
    BY <1>2, <1>3

\* A thread that goes to sleep in a FIFO changes nothing in the queue.
LEMMA SleepEffect ==
  ASSUME FifoInv, NEW t \in Threads, NEW f, Inside(t, f), NEW c, Sleep(t, f, c)
  PROVE  NoEffect
  <1>1. f \in FlagType(Bits) /\ f.depth > 0
    BY DEF Inside, FifoInv, TypeOK
  <1>2. state'.value = state.value
    BY <1>1, SleepFacts DEF Sleep, Inside
  <1> QED
    BY <1>2 DEF NoEffect, Sleep, fifoVars

\* The start of a call of a FIFO is a step of the abstract queue, or none
\* (fifo.c).
LEMMA BeginEffect ==
  ASSUME FifoInv, NEW t \in Threads, NEW c \in Call,
         c.kind = "enqueue" => c.item \in Item, Begin(t, c)
  PROVE  Effect /\ CallStep(t)
  <1> DEFINE f == guac_flag_lock(state, t)
  <1>1. call[t] = NoCall /\ Lockable(state, t) /\ held[t] < MaxDepth
    BY DepthIsHeld DEF Begin, Running
  <1>2. Inside(t, f)
    BY <1>1, LockGivesInside
  <1> HIDE DEF f
  <1>3. CASE AnySet(f, Wanted(c.kind))
    <2>1. Body(t, f, c) /\ call' = call
      BY <1>3 DEF Begin, f
    <2> QED
      BY <1>2, <1>3, <2>1, BodyEffect DEF CallStep
  <1>4. CASE ~AnySet(f, Wanted(c.kind))
    <2>1. Sleep(t, f, c)
      BY <1>4 DEF Begin, f
    <2>2. call' = [call EXCEPT ![t] = c]
      BY <2>1 DEF Sleep
    <2> QED
      BY <1>2, <2>1, <2>2, SleepEffect DEF CallStep, Effect
  <1> QED
    BY <1>3, <1>4

\* guac_fifo_timed_dequeue_and_lock() without waiting is a step of the abstract
\* queue, or none.
LEMMA PollEffect ==
  ASSUME FifoInv, NEW t \in Threads, NEW keep \in BOOLEAN, PollDequeue(t, keep)
  PROVE  Effect /\ CallStep(t)
  <1> DEFINE f == guac_flag_lock(state, t)
  <1>1. call[t] = NoCall /\ Lockable(state, t) /\ held[t] < MaxDepth
    BY DepthIsHeld DEF PollDequeue, Running
  <1>2. Inside(t, f)
    BY <1>1, LockGivesInside
  <1>3. CallStep(t)
    BY DEF PollDequeue, CallStep
  <1>4. Wanted("timed") = Wanted("dequeue")
    BY DEF Wanted
  <1> HIDE DEF f
  <1>5. CASE AnySet(f, Wanted("timed"))
    <2>1. guac_fifo_dequeue_and_lock(t, f, keep)
      BY <1>5 DEF PollDequeue, f
    <2> QED
      BY <1>2, <1>3, <1>4, <1>5, <2>1, DequeueEffect
  <1>6. CASE ~AnySet(f, Wanted("timed"))
    <2>1. state' = guac_flag_unlock(f) /\ UNCHANGED <<fifoVars, received>>
      BY <1>6 DEF PollDequeue, f
    <2>2. f \in FlagType(Bits) /\ f.depth > 0 /\ f.value = state.value
      BY <1>2 DEF Inside, FifoInv, TypeOK
    <2>3. state'.value = state.value
      BY <2>1, <2>2, UnlockFacts
    <2> QED
      BY <1>3, <2>1, <2>3 DEF Effect, NoEffect, fifoVars
  <1> QED
    BY <1>5, <1>6

\* A call of a FIFO that goes on after it waited is a step of the abstract
\* queue (guac_flag_wait_and_lock()).
LEMMA ResumeEffect ==
  ASSUME FifoInv, CallItems, NEW t \in Threads, Resume(t)
  PROVE  Effect /\ CallStep(t)
  <1> DEFINE f == Wakeup(state, t)
  <1>1. /\ call[t] # NoCall /\ call[t] \in Call /\ Lockable(state, t)
        /\ call[t].kind = "enqueue" => call[t].item \in Item
    BY DEF Resume, FifoInv, TypeOK, CallItems
  <1>2. Inside(t, f)
    BY <1>1, WakeupGivesInside
  <1> HIDE DEF f
  <1>3. CASE AnySet(f, Wanted(call[t].kind))
    <2>1. Body(t, f, call[t]) /\ call' = [call EXCEPT ![t] = NoCall]
      BY <1>3 DEF Resume, f
    <2> QED
      BY <1>1, <1>2, <1>3, <2>1, BodyEffect DEF CallStep
  <1>4. CASE ~AnySet(f, Wanted(call[t].kind))
    <2>1. Sleep(t, f, call[t])
      BY <1>4 DEF Resume, f
    <2>2. call' = [call EXCEPT ![t] = call[t]]
      BY <2>1 DEF Sleep
    <2> QED
      BY <1>1, <1>2, <2>1, <2>2, SleepEffect DEF CallStep, Effect
  <1> QED
    BY <1>3, <1>4

\* A call of a FIFO that gives up changes nothing in the queue
\* (guac_flag_timedwait_and_lock()).
LEMMA TimeoutEffect ==
  ASSUME FifoInv, NEW t \in Threads, Timeout(t)
  PROVE  Effect /\ CallStep(t)
  <1> DEFINE f == Wakeup(state, t)
  <1>1. Inside(t, f) /\ state' = guac_flag_unlock(f)
    BY WakeupGivesInside DEF Timeout
  <1> HIDE DEF f
  <1>2. f \in FlagType(Bits) /\ f.depth > 0 /\ f.value = state.value
    BY <1>1 DEF Inside, FifoInv, TypeOK
  <1>3. state'.value = state.value
    BY <1>1, <1>2, UnlockFacts
  <1> QED
    BY <1>3 DEF Timeout, Effect, NoEffect, CallStep, fifoVars

\* A wakeup for nothing changes nothing in the queue
\* (guac_flag_wait_and_lock()).
LEMMA SpuriousEffect ==
  ASSUME FifoInv, NEW t \in Threads, SpuriousWakeup(t)
  PROVE  Effect /\ CallStep(t)
  BY DEF SpuriousWakeup, Effect, NoEffect, CallStep, fifoVars, FifoInv, TypeOK, FlagType

\* guac_fifo_lock() changes nothing in the queue.
LEMMA LockEffect ==
  ASSUME FifoInv, NEW t \in Threads, guac_fifo_lock(t)
  PROVE  Effect /\ CallStep(t)
  BY LockFacts DEF guac_fifo_lock, Effect, NoEffect, CallStep, fifoVars, FifoInv, TypeOK

\* guac_fifo_unlock() changes nothing in the queue.
LEMMA UnlockEffect ==
  ASSUME FifoInv, NEW t \in Threads, guac_fifo_unlock(t)
  PROVE  Effect /\ CallStep(t)
  <1>1. state \in FlagType(Bits) /\ state.depth > 0
    BY DepthAssumption DEF guac_fifo_unlock, FifoInv, TypeOK, LockDiscipline
  <1> QED
    BY <1>1, UnlockFacts DEF guac_fifo_unlock, Effect, NoEffect, CallStep, fifoVars

\* guac_fifo_invalidate() changes nothing in the queue: it makes the queue
\* refuse more.
LEMMA InvalidateEffect ==
  ASSUME FifoInv, NEW t \in Threads, guac_fifo_invalidate(t)
  PROVE  Effect /\ CallStep(t)
  <1> DEFINE f == guac_flag_lock(state, t)
             g == guac_flag_set(f, {INVALID})
  <1>1. f \in FlagType(Bits) /\ f.value = state.value /\ f.depth > 0
    BY LockFacts DEF FifoInv, TypeOK, FlagType
  <1>2. state' = guac_flag_unlock(g)
    BY DEF guac_fifo_invalidate
  <1> HIDE DEF f
  <1>a. {INVALID} \in SUBSET Bits
    BY DEF Bits
  <1>3. g \in FlagType(Bits) /\ g.value = state.value \cup {INVALID} /\ g.depth > 0
    BY <1>1, <1>a, SetFacts
  <1> HIDE DEF g
  <1>4. state'.value = state.value \cup {INVALID}
    BY <1>2, <1>3, UnlockFacts
  <1> QED
    BY <1>4 DEF guac_fifo_invalidate, Effect, NoEffect, CallStep, fifoVars

\* Every step puts one item, takes one, or leaves the contents as they are.
LEMMA StepEffect ==
  ASSUME FifoInv, CallItems, [Next]_vars
  PROVE  Effect /\ (call' = call \/ \E t \in Threads : CallStep(t))
  <1>1. CASE UNCHANGED vars
    BY <1>1 DEF vars, Effect, NoEffect
  <1>2. ASSUME NEW t \in Threads, NEW i \in Item, NEW keep \in BOOLEAN,
               Enqueue(t, i, keep)
        PROVE  Effect /\ CallStep(t)
    <2>1. [kind |-> "enqueue", keep |-> keep, item |-> i] \in Call
      BY DEF Call
    <2> QED
      BY <1>2, <2>1, BeginEffect DEF Enqueue
  <1>3. ASSUME NEW t \in Threads, NEW keep \in BOOLEAN, Dequeue(t, keep)
        PROVE  Effect /\ CallStep(t)
    <2>1. [kind |-> "dequeue", keep |-> keep, item |-> NoItem] \in Call
      BY DEF Call
    <2> QED
      BY <1>3, <2>1, BeginEffect DEF Dequeue
  <1>4. ASSUME NEW t \in Threads, NEW keep \in BOOLEAN, TimedDequeue(t, keep)
        PROVE  Effect /\ CallStep(t)
    <2>1. [kind |-> "timed", keep |-> keep, item |-> NoItem] \in Call
      BY DEF Call
    <2> QED
      BY <1>4, <2>1, BeginEffect DEF TimedDequeue
  <1> QED
    BY <1>1, <1>2, <1>3, <1>4, PollEffect, SpuriousEffect, ResumeEffect,
       TimeoutEffect, LockEffect, UnlockEffect, InvalidateEffect
    DEF Next

-----------------------------------------------------------------------------
(* The ring and the queue it stands for. *)

\* The k-th slot from h on.
LEMMA RingSlot ==
  ASSUME NEW h \in Slot, NEW k \in 0 .. max_items
  PROVE  /\ (h + k) % max_items = IF h + k < max_items THEN h + k
                                  ELSE h + k - max_items
         /\ (h + k) % max_items \in Slot
  BY SizeAssumption DEF Slot

\* Distinct offsets within the ring are distinct slots.
LEMMA RingDistinct ==
  ASSUME NEW h \in Slot, NEW j \in 0 .. max_items - 1, NEW k \in 0 .. max_items - 1,
         j # k
  PROVE  (h + j) % max_items # (h + k) % max_items
  <1>1. j \in 0 .. max_items /\ k \in 0 .. max_items
    BY SizeAssumption
  <1>2. (h + j) % max_items = IF h + j < max_items THEN h + j ELSE h + j - max_items
    BY <1>1, RingSlot
  <1>3. (h + k) % max_items = IF h + k < max_items THEN h + k ELSE h + k - max_items
    BY <1>1, RingSlot
  <1> DEFINE a == (h + j) % max_items
             b == (h + k) % max_items
  <1>4. a = (IF h + j < max_items THEN h + j ELSE h + j - max_items)
        /\ b = (IF h + k < max_items THEN h + k ELSE h + k - max_items)
    BY <1>2, <1>3
  <1> HIDE DEF a, b
  <1>5. a # b
    BY <1>4, SizeAssumption DEF Slot
  <1> QED
    BY <1>5 DEF a, b

\* Advancing the head by one shifts every offset by one.
LEMMA RingShift ==
  ASSUME NEW h \in Slot, NEW k \in 0 .. max_items - 1
  PROVE  (((h + 1) % max_items) + k) % max_items = (h + k + 1) % max_items
  <1>0. 1 \in 0 .. max_items /\ 0 \in Slot
    BY SizeAssumption DEF Slot
  <1>a. (h + 1) % max_items \in Slot
        /\ (h + 1) % max_items = IF h + 1 < max_items THEN h + 1
                                 ELSE h + 1 - max_items
    BY <1>0, RingSlot
  <1>1. (h + 1) % max_items \in Slot
        /\ (h + 1) % max_items = IF h + 1 < max_items THEN h + 1 ELSE 0
    BY <1>a, SizeAssumption DEF Slot
  <1>2. (h + (k + 1)) % max_items = IF h + (k + 1) < max_items THEN h + (k + 1)
                                    ELSE h + (k + 1) - max_items
    BY RingSlot, SizeAssumption
  <1>3. k \in 0 .. max_items
    BY SizeAssumption
  <1>4. CASE h + 1 < max_items
    <2>1. ((h + 1) + k) % max_items = IF (h + 1) + k < max_items THEN (h + 1) + k
                                    ELSE (h + 1) + k - max_items
      BY <1>1, <1>3, <1>4, RingSlot
    <2> QED
      BY <1>1, <1>2, <1>4, <2>1 DEF Slot
  <1>5. CASE ~(h + 1 < max_items)
    <2>1. h = max_items - 1
      BY <1>5, SizeAssumption DEF Slot
    <2>2. (0 + k) % max_items = IF 0 + k < max_items THEN 0 + k
                                ELSE 0 + k - max_items
      BY <1>0, <1>3, RingSlot
    <2> QED
      BY <1>1, <1>2, <1>5, <2>1, <2>2, SizeAssumption
  <1> QED
    BY <1>4, <1>5

\* The items a ring holds, oldest first: n of them in its from slot h on.
RingQueue(h, n, its) == [k \in 1 .. n |-> its[(h + k - 1) % max_items]]

\* The ring of n items from the head, read in order, is a sequence of n items
\* (guac_fifo.items).
LEMMA RingQueueType ==
  ASSUME NEW S, NEW h \in Slot, NEW n \in 0 .. max_items, NEW its \in [Slot -> S]
  PROVE  RingQueue(h, n, its) \in [1 .. n -> S]
  <1>1. \A k \in 1 .. n : its[(h + k - 1) % max_items] \in S
    <2> TAKE k \in 1 .. n
    <2>1. k - 1 \in 0 .. max_items /\ h + (k - 1) = h + k - 1
      BY SizeAssumption DEF Slot
    <2>2. (h + (k - 1)) % max_items \in Slot
      BY <2>1, RingSlot
    <2> QED
      BY <2>1, <2>2
  <1> QED
    BY <1>1 DEF RingQueue

\* The k-th item of the ring is k - 1 slots after the head, modulo its size
\* (guac_fifo_dequeue_and_lock()).
LEMMA RingQueueItem ==
  ASSUME NEW h, NEW n, NEW its, NEW k \in 1 .. n
  PROVE  RingQueue(h, n, its)[k] = its[(h + k - 1) % max_items]
  BY DEF RingQueue

\* A function on 1 .. n is a sequence of length n.
LEMMA SeqOfFunction ==
  ASSUME NEW S, NEW n \in Nat, NEW q \in [1 .. n -> S]
  PROVE  q \in Seq(S) /\ Len(q) = n
  OBVIOUS

-----------------------------------------------------------------------------
\* The contents stay items: what StoredItemsWritten needs beside FifoInv.
ContentInv == CallItems /\ StoredItemsWritten

\* A step of one thread keeps that every call under way that enqueues has an
\* item (guac_fifo_enqueue_and_lock()).
LEMMA CallItemsKept ==
  ASSUME FifoInv, CallItems, NEW t \in Threads, CallStep(t)
  PROVE  CallItems'
  BY NoCallAssumption DEF FifoInv, TypeOK, CallItems, CallStep

\* A step with an effect of the abstract queue keeps that every slot in use was
\* written (guac_fifo_enqueue_and_lock()).
LEMMA StoredKept ==
  ASSUME FifoInv, FifoInv', StoredItemsWritten, Effect
  PROVE  StoredItemsWritten'
  <1>1. /\ head \in Slot /\ item_count \in 0 .. max_items
        /\ items \in [Slot -> Item \cup {NoItem}]
    BY DEF FifoInv, TypeOK
  <1>2. CASE PutEffect
    <2>1. PICK i \in Item :
            items' = [items EXCEPT ![(head + item_count) % max_items] = i]
      BY <1>2 DEF PutEffect
    <2>2. item_count' = item_count + 1 /\ head' = head /\ item_count < max_items
      BY <1>2 DEF PutEffect
    <2>3. (head + item_count) % max_items \in Slot
      BY <1>1, RingSlot
    <2>4. ASSUME NEW k \in 0 .. item_count
          PROVE  items'[(head + k) % max_items] # NoItem
      <3>1. k \in 0 .. max_items - 1 /\ item_count \in 0 .. max_items - 1
            /\ k \in 0 .. max_items
        BY <1>1, <2>2, SizeAssumption
      <3>2. (head + k) % max_items \in Slot
        BY <1>1, <3>1, RingSlot
      <3>3. CASE k = item_count
        BY <1>1, <2>1, <2>3, <3>3, ItemAssumption
      <3>4. CASE k # item_count
        <4>1. (head + k) % max_items # (head + item_count) % max_items
          BY <1>1, <3>1, <3>4, RingDistinct
        <4>2. k \in 0 .. item_count - 1
          BY <1>1, <3>4
        <4> QED
          BY <1>1, <2>1, <3>2, <4>1, <4>2 DEF StoredItemsWritten
      <3> QED
        BY <3>3, <3>4
    <2>5. item_count' - 1 = item_count
      BY <1>1, <2>2
    <2> QED
      BY <2>2, <2>4, <2>5 DEF StoredItemsWritten
  <1>3. CASE TakeEffect
    <2>1. /\ item_count > 0 /\ item_count' = item_count - 1 /\ items' = items
          /\ head' = (head + 1) % max_items
      BY <1>3 DEF TakeEffect
    <2>2. ASSUME NEW k \in 0 .. item_count - 1 - 1
          PROVE  items[(((head + 1) % max_items) + k) % max_items] # NoItem
      <3>1. k \in 0 .. max_items - 1 /\ k + 1 \in 0 .. item_count - 1
            /\ head + (k + 1) = head + k + 1
        BY <1>1, <2>1, SizeAssumption DEF Slot
      <3>2. (((head + 1) % max_items) + k) % max_items = (head + k + 1) % max_items
        BY <1>1, <3>1, RingShift
      <3> QED
        BY <3>1, <3>2 DEF StoredItemsWritten
    <2> QED
      BY <2>1, <2>2 DEF StoredItemsWritten
  <1>4. CASE NoEffect
    BY <1>4 DEF NoEffect, StoredItemsWritten
  <1> QED
    BY <1>2, <1>3, <1>4 DEF Effect

\* guac_fifo_init() leaves no slot in use and no call under way.
LEMMA ContentInit == Init => ContentInv
  BY SizeAssumption DEF Init, ContentInv, CallItems, StoredItemsWritten

\* Every step of the FIFO keeps what its slots and its calls hold (fifo.c).
LEMMA ContentNext == FifoInv /\ ContentInv /\ [Next]_vars => ContentInv'
  <1> SUFFICES ASSUME FifoInv, ContentInv, [Next]_vars PROVE ContentInv'
    OBVIOUS
  <1>1. Effect /\ (call' = call \/ \E t \in Threads : CallStep(t))
    BY StepEffect DEF ContentInv
  <1>2. StoredItemsWritten'
    BY <1>1, FifoNextInv, StoredKept DEF ContentInv
  <1>3. CallItems'
    BY <1>1, CallItemsKept DEF ContentInv, CallItems
  <1> QED
    BY <1>2, <1>3 DEF ContentInv

-----------------------------------------------------------------------------
\* Putting and taking an item, seen through the queue the ring stands for.
LEMMA PutQueue ==
  ASSUME head \in Slot, item_count \in 0 .. max_items, NEW T, NEW i \in T,
         items \in [Slot -> T], item_count < max_items,
         item_count' = item_count + 1, head' = head,
         items' = [items EXCEPT ![(head + item_count) % max_items] = i]
  PROVE  /\ Len(RingQueue(head, item_count, items)) < max_items
         /\ RingQueue(head', item_count', items')
              = Append(RingQueue(head, item_count, items), i)
  <1> DEFINE q == RingQueue(head, item_count, items)
             r == RingQueue(head, item_count', items')
  <1>1. item_count + 1 \in 0 .. max_items /\ item_count \in 0 .. max_items - 1 /\ item_count \in Nat
    BY SizeAssumption
  <1>2. (head + item_count) % max_items \in Slot
    BY RingSlot
  <1>4. q \in Seq(T) /\ Len(q) = item_count
        /\ \A k \in 1 .. item_count : q[k] = items[(head + k - 1) % max_items]
    <2>1. q \in [1 .. item_count -> T]
      BY RingQueueType
    <2>2. item_count \in Nat
      BY SizeAssumption
    <2>3. \A k \in 1 .. item_count : q[k] = items[(head + k - 1) % max_items]
      BY RingQueueItem
    <2> HIDE DEF q
    <2> QED
      BY <2>1, <2>2, <2>3, SeqOfFunction
  <1>5. items'[(head + item_count) % max_items] = i
        /\ \A s \in Slot : s # (head + item_count) % max_items => items'[s] = items[s]
    BY <1>2
  <1>6. r \in Seq(T) /\ Len(r) = item_count'
        /\ \A k \in 1 .. item_count' : r[k] = items'[(head + k - 1) % max_items]
    <2>1. r \in [1 .. item_count' -> T]
      <3>1. \A k \in 1 .. item_count' : items'[(head + k - 1) % max_items] \in T
        <4> TAKE k \in 1 .. item_count'
        <4>1. k - 1 \in 0 .. max_items /\ head + (k - 1) = head + k - 1
          BY <1>1, SizeAssumption DEF Slot
        <4>2. (head + (k - 1)) % max_items \in Slot
          BY <4>1, RingSlot
        <4> QED
          BY <4>1, <4>2
      <3> QED
        BY <3>1 DEF RingQueue
    <2>2. item_count' \in Nat
      BY SizeAssumption
    <2>3. \A k \in 1 .. item_count' : r[k] = items'[(head + k - 1) % max_items]
      BY DEF RingQueue
    <2> HIDE DEF r
    <2> QED
      BY <2>1, <2>2, <2>3, SeqOfFunction
  <1> HIDE DEF q, r
  <1>7. Append(q, i) \in Seq(T) /\ Len(Append(q, i)) = item_count'
        /\ (\A k \in 1 .. item_count : Append(q, i)[k] = q[k]) /\ Append(q, i)[item_count + 1] = i
    BY <1>4, AppendProperties
  <1>8. ASSUME NEW k \in 1 .. item_count
        PROVE  r[k] = Append(q, i)[k]
    <2>1. k - 1 \in 0 .. max_items - 1 /\ k - 1 \in 0 .. max_items
          /\ k - 1 # item_count /\ head + (k - 1) = head + k - 1
      BY <1>1, SizeAssumption DEF Slot
    <2>2. (head + (k - 1)) % max_items # (head + item_count) % max_items
      BY <1>1, <2>1, RingDistinct
    <2>3. (head + (k - 1)) % max_items \in Slot
      BY <2>1, RingSlot
    <2>4. items'[(head + k - 1) % max_items] = items[(head + k - 1) % max_items]
      BY <1>5, <2>1, <2>2, <2>3
    <2>5. k \in 1 .. item_count'
      BY <1>1
    <2> QED
      BY <1>4, <1>6, <1>7, <2>4, <2>5
  <1>9. r[item_count + 1] = Append(q, i)[item_count + 1]
    <2>1. head + (item_count + 1) - 1 = head + item_count /\ item_count + 1 \in 1 .. item_count'
      BY <1>1 DEF Slot
    <2> QED
      BY <1>5, <1>6, <1>7, <2>1
  <1>a. 1 .. item_count' = (1 .. item_count) \cup {item_count + 1}
    BY <1>1
  <1>10. \A k \in 1 .. item_count' : r[k] = Append(q, i)[k]
    BY <1>8, <1>9, <1>a, Zenon
  <1> QED
    <2>1. r = Append(q, i)
      BY <1>6, <1>7, <1>10, SeqEqual
    <2>2. Len(q) < max_items
      BY <1>4
    <2> QED
      BY <2>1, <2>2 DEF q, r

\* Moving the head by one slot takes the first item of the ring
\* (guac_fifo_dequeue_and_lock()).
LEMMA TakeQueue ==
  ASSUME head \in Slot, item_count \in 0 .. max_items, NEW T,
         items \in [Slot -> T], item_count > 0,
         item_count' = item_count - 1, head' = (head + 1) % max_items, items' = items
  PROVE  /\ RingQueue(head, item_count, items) # << >>
         /\ Head(RingQueue(head, item_count, items)) = items[head]
         /\ Tail(RingQueue(head, item_count, items))
              = RingQueue(head', item_count', items')
  <1> DEFINE q == RingQueue(head, item_count, items)
             r == RingQueue(head', item_count', items)
  <1>1. item_count' \in Nat /\ item_count = item_count' + 1 /\ 1 \in 1 .. item_count /\ 1 \in 0 .. max_items
    BY SizeAssumption
  <1>b. head' \in Slot
    BY <1>1, RingSlot
  <1>2. q \in Seq(T) /\ Len(q) = item_count
        /\ \A k \in 1 .. item_count : q[k] = items[(head + k - 1) % max_items]
    <2>1. q \in [1 .. item_count -> T]
      BY RingQueueType
    <2>2. item_count \in Nat
      BY SizeAssumption
    <2>3. \A k \in 1 .. item_count : q[k] = items[(head + k - 1) % max_items]
      BY RingQueueItem
    <2> HIDE DEF q
    <2> QED
      BY <2>1, <2>2, <2>3, SeqOfFunction
  <1>3. \A k \in 1 .. item_count' : (head' + k - 1) % max_items = (head + k) % max_items
    <2> TAKE k \in 1 .. item_count'
    <2>1. k - 1 \in 0 .. max_items - 1 /\ head + (k - 1) + 1 = head + k
      BY <1>1, SizeAssumption DEF Slot
    <2>2. (head' + (k - 1)) % max_items = (head + (k - 1) + 1) % max_items
      BY <2>1, RingShift
    <2>3. head' + (k - 1) = head' + k - 1
      BY <1>1 DEF Slot
    <2> QED
      BY <2>1, <2>2, <2>3
  <1>4. r \in Seq(T) /\ Len(r) = item_count'
        /\ \A k \in 1 .. item_count' : r[k] = items[(head' + k - 1) % max_items]
    <2>1. r \in [1 .. item_count' -> T]
      <3>1. \A k \in 1 .. item_count' : items[(head' + k - 1) % max_items] \in T
        <4> TAKE k \in 1 .. item_count'
        <4>1. k - 1 \in 0 .. max_items /\ head' + (k - 1) = head' + k - 1
          BY <1>1, <1>b, SizeAssumption DEF Slot
        <4>2. (head' + (k - 1)) % max_items \in Slot
          BY <1>b, <4>1, RingSlot
        <4> QED
          BY <4>1, <4>2
      <3> QED
        BY <3>1 DEF RingQueue
    <2>2. item_count' \in Nat
      BY SizeAssumption
    <2>3. \A k \in 1 .. item_count' : r[k] = items[(head' + k - 1) % max_items]
      BY RingQueueItem
    <2> HIDE DEF r
    <2> QED
      BY <2>1, <2>2, <2>3, SeqOfFunction
  <1> HIDE DEF q, r
  <1>5. q # << >>
    BY <1>2
  <1>6. Tail(q) \in Seq(T) /\ Len(Tail(q)) = item_count'
        /\ \A k \in 1 .. item_count' : Tail(q)[k] = q[k + 1]
    BY <1>1, <1>2, <1>5, HeadTailProperties
  <1>7. Head(q) = items[head]
    <2>1. Head(q) = q[1]
      BY <1>2, <1>5
    <2>2. head + 1 - 1 = head /\ head % max_items = head
      BY SizeAssumption DEF Slot
    <2> QED
      BY <1>1, <1>2, <2>1, <2>2
  <1>8. ASSUME NEW k \in 1 .. item_count'
        PROVE  Tail(q)[k] = r[k]
    <2>1. k + 1 \in 1 .. item_count /\ head + (k + 1) - 1 = head + k
      BY <1>1 DEF Slot
    <2> QED
      <3>1. Tail(q)[k] = items[(head + k) % max_items]
        BY <1>2, <1>6, <2>1
      <3>2. r[k] = items[(head' + k - 1) % max_items]
        BY <1>4
      <3> QED
        BY <1>3, <3>1, <3>2
  <1>9. Tail(q) = r
    BY <1>4, <1>6, <1>8, SeqEqual
  <1> QED
    BY <1>5, <1>7, <1>9 DEF q, r

-----------------------------------------------------------------------------
\* The safety of the FIFO, for any number of threads and any capacity: the
\* fields are well typed, READY and NONEMPTY agree with item_count, the abort()
\* of guac_fifo_enqueue_and_lock() is unreachable, no sleeper misses the bit it
\* waits for, the recursive mutex is as deep as its callers believe, and every
\* slot counted as an item holds one.
THEOREM FifoSafe == Spec => []FifoSound
  <1>1. FifoInv /\ ContentInv => FifoSound
    BY DEF FifoInv, ContentInv, FifoSound
  <1> QED
    BY <1>1, FifoInitInv, FifoNextInv, ContentInit, ContentNext, PTL DEF Spec

\* guac_fifo_invalidate() is final: nothing is added, copied out or removed after it,
\* not even by a call that was already asleep in the FIFO.
THEOREM FifoFrozen == Spec => FrozenOnceInvalid
  <1>1. FifoInv /\ ContentInv /\ [Next]_vars =>
          [(INVALID \in state.value) =>
             (INVALID \in state'.value /\ UNCHANGED <<fifoVars, received>>)]_vars
    BY StepEffect
    DEF ContentInv, Effect, PutEffect, TakeEffect, NoEffect, fifoVars
  <1> QED
    BY <1>1, FifoInitInv, FifoNextInv, ContentInit, ContentNext, PTL
    DEF Spec, FrozenOnceInvalid

\* fifo.h's queue: whatever the threads do, the ring, its flag and its mutex behave as
\* one bounded queue whose items come out in the order they went in, each once.
THEOREM FifoImplementsQueue == Spec => ImplementsBoundedQueue
  <1>1. Init => Queue!Init
    <2> SUFFICES ASSUME Init PROVE Queue!Init
      OBVIOUS
    <2>1. item_count = 0 /\ state.value = {READY} /\ received = [t \in Threads |-> NoItem]
      BY DEF Init, guac_flag_init
    <2>2. [k \in 1 .. item_count |-> items[(head + k - 1) % max_items]] = << >>
      BY <2>1
    <2>3. INVALID \notin state.value
      BY <2>1 DEF INVALID, READY
    <2> QED
      BY <2>1, <2>2, <2>3 DEF Queue!Init
  <1>2. FifoInv /\ ContentInv /\ [Next]_vars => [Queue!Next]_(Queue!vars)
    <2> SUFFICES ASSUME FifoInv, ContentInv, [Next]_vars
                 PROVE  [Queue!Next]_(Queue!vars)
      OBVIOUS
    <2> DEFINE q == RingQueue(head, item_count, items)
    <2>1. /\ head \in Slot /\ item_count \in 0 .. max_items
          /\ items \in [Slot -> Item \cup {NoItem}]
      BY DEF FifoInv, TypeOK
    <2>2. Effect
      BY StepEffect DEF ContentInv
    <2>3. CASE PutEffect
      <3>1. PICK i \in Item :
              items' = [items EXCEPT ![(head + item_count) % max_items] = i]
        BY <2>3 DEF PutEffect
      <3>a. /\ item_count < max_items /\ item_count' = item_count + 1 /\ head' = head
            /\ i \in Item \cup {NoItem}
        BY <2>3 DEF PutEffect
      <3>2. Len(q) < max_items /\ RingQueue(head', item_count', items') = Append(q, i)
        BY <2>1, <3>1, <3>a, PutQueue
      <3>4. Queue!Put(i)
        BY <2>3, <3>2 DEF Queue!Put, PutEffect, RingQueue
      <3> QED
        BY <3>4 DEF Queue!Next
    <2>4. CASE TakeEffect
      <3>1. PICK t \in Threads : received' = [received EXCEPT ![t] = items[head]]
        BY <2>4 DEF TakeEffect
      <3>2. q # << >> /\ Head(q) = items[head]
            /\ Tail(q) = RingQueue(head', item_count', items')
        <4>1. /\ item_count > 0 /\ item_count' = item_count - 1
              /\ head' = (head + 1) % max_items /\ items' = items
          BY <2>4 DEF TakeEffect
        <4> QED
          BY <2>1, <4>1, TakeQueue
      <3>3. Queue!Take(t)
        BY <2>4, <3>1, <3>2 DEF Queue!Take, TakeEffect, RingQueue
      <3> QED
        BY <3>3 DEF Queue!Next
    <2>5. CASE NoEffect
      <3>1. UNCHANGED <<head, item_count, items, received>>
        BY <2>5 DEF NoEffect
      <3>2. CASE INVALID \in state'.value
        BY <3>1, <3>2 DEF Queue!Next, Queue!Invalidate
      <3>3. CASE INVALID \notin state'.value
        BY <2>5, <3>1, <3>3 DEF NoEffect, Queue!vars
      <3> QED
        BY <3>2, <3>3
    <2> QED
      BY <2>2, <2>3, <2>4, <2>5 DEF Effect
  <1> QED
    BY <1>1, <1>2, FifoInitInv, FifoNextInv, ContentInit, ContentNext, PTL
    DEF Spec, ImplementsBoundedQueue, Queue!Spec

-----------------------------------------------------------------------------
(* The render thread.                                                      *)

RenderFlag == [value : SUBSET {STOPPING, MODIFIED, FRAME_READY}, owner : {NoThread},
               depth : {0}, waiters : SUBSET {Renderer}]

\* Outside a pass over a frame the loop owes nobody a boundary: the count is
\* handed over, and reset, before it waits again.
NothingTaken ==
  loop.at \in {"wait", "asleep", "sleep", "lull"} => loop.rendered_frames = 0

\* Where the cursor of the pending frame stands while the loop is under way: the
\* copy made for the frame is the mouse's position, unless a modification is still
\* to be seen or a boundary has cleared it.
CopyCurrent ==
  loop.at \in {"sleep", "lull", "pass", "end"} =>
    \/ MODIFIED \in render.state.value
    \/ loop.cursor_state = render.cursor_state
    \/ loop.behind

CopyPassed == loop.at = "end" => pending.cursor = loop.cursor_state

PassedCurrent ==
  loop.at \in {"wait", "asleep"} =>
    \/ MODIFIED \in render.state.value
    \/ pending.cursor = render.cursor_state
    \/ loop.behind

RenderInv ==
  /\ RenderTypeOK
  /\ FramesAccounted
  /\ NothingTaken
  /\ CopyCurrent
  /\ CopyPassed
  /\ PassedCurrent

-----------------------------------------------------------------------------
(* The operations of the flag, on a flag that nobody holds. *)

\* guac_flag_set() on the state of the render thread leaves it unlocked and
\* adds the bits.
LEMMA SetRenderFlag ==
  ASSUME NEW f \in RenderFlag, NEW bits \in SUBSET {STOPPING, MODIFIED, FRAME_READY}
  PROVE  /\ guac_flag_set(f, bits) \in RenderFlag
         /\ guac_flag_set(f, bits).value = f.value \cup bits
  BY DEF guac_flag_set, RenderFlag

\* guac_flag_clear() on the state of the render thread leaves it unlocked and
\* takes the bits.
LEMMA ClearRenderFlag ==
  ASSUME NEW f \in RenderFlag, NEW bits
  PROVE  /\ guac_flag_clear(f, bits) \in RenderFlag
         /\ guac_flag_clear(f, bits).value = f.value \ bits
  BY DEF guac_flag_clear, RenderFlag

\* The render thread that waits for its state keeps the bits
\* (guac_flag_timedwait_and_lock()).
LEMMA SleepRenderFlag ==
  ASSUME NEW f \in RenderFlag
  PROVE  /\ pthread_cond_wait(guac_flag_lock(f, Renderer), Renderer) \in RenderFlag
         /\ pthread_cond_wait(guac_flag_lock(f, Renderer), Renderer).value = f.value
  <1> DEFINE g == guac_flag_lock(f, Renderer)
             h == guac_flag_unlock(g)
  <1>0. f.depth + 1 = 1
    BY DEF RenderFlag
  <1>1. /\ g \in [value : SUBSET {STOPPING, MODIFIED, FRAME_READY}, owner : {Renderer},
                  depth : {1}, waiters : SUBSET {Renderer}]
        /\ g.value = f.value
    BY <1>0 DEF guac_flag_lock, RenderFlag
  <1> HIDE DEF g
  <1>2. g.depth - 1 = 0 /\ g.depth = 1
    BY <1>1
  <1>3. h \in RenderFlag /\ h.value = f.value
    BY <1>1, <1>2 DEF guac_flag_unlock, RenderFlag
  <1> HIDE DEF h
  <1>4. pthread_cond_wait(g, Renderer) = [h EXCEPT !.waiters = @ \cup {Renderer}]
    BY DEF pthread_cond_wait, h
  <1>5. /\ pthread_cond_wait(g, Renderer) \in RenderFlag
        /\ pthread_cond_wait(g, Renderer).value = f.value
    BY <1>3, <1>4 DEF RenderFlag
  <1> QED
    BY <1>5 DEF g

\* The fields of the state, one by one.
LEMMA RenderTypes ==
  ASSUME RenderTypeOK
  PROVE  /\ render.state \in RenderFlag
         /\ render = [state |-> render.state, frames |-> render.frames,
                      cursor_state |-> render.cursor_state]
         /\ render.frames \in 0 .. MaxMarked /\ render.frames \in Nat
         /\ render.cursor_state \in 0 .. MaxMoves /\ render.cursor_state \in Nat
         /\ loop.rendered_frames \in 0 .. MaxMarked /\ loop.rendered_frames \in Nat
         /\ loop.duration \in 0 .. MaxDuration + 1
         /\ loop.cursor_state \in 0 .. MaxMoves
         /\ loop.behind \in BOOLEAN
         /\ pending.drawn \in 0 .. MaxDrawn /\ pending.drawn \in Nat
         /\ pending.cursor \in 0 .. MaxMoves
         /\ ended.frames \in 0 .. MaxMarked /\ ended.frames \in Nat
         /\ ended.drawn \in 0 .. MaxDrawn
         /\ marked \in Nat
  BY RenderAssumption DEF RenderTypeOK, RenderFlag

\* The state the loop and the plugins leave is well typed if its parts are.
LEMMA RenderTyped ==
  ASSUME NEW s \in RenderFlag, NEW f \in 0 .. MaxMarked, NEW c \in 0 .. MaxMoves
  PROVE  [state |-> s, frames |-> f, cursor_state |-> c] \in
           [state : [value : SUBSET {STOPPING, MODIFIED, FRAME_READY}, owner : {NoThread},
                     depth : {0}, waiters : SUBSET {Renderer}],
            frames : 0 .. MaxMarked, cursor_state : 0 .. MaxMoves]
  BY DEF RenderFlag

-----------------------------------------------------------------------------
(* Plugins and users *)

\* A change of the display by another thread keeps the invariant (display-
\* render-thread.c).
LEMMA DrawPreserves == RenderInv /\ DrawChange => RenderInv'
  <1> SUFFICES ASSUME RenderInv, DrawChange PROVE RenderInv'
    OBVIOUS
  <1>1. RenderTypeOK'
    BY RenderAssumption DEF RenderInv, RenderTypeOK, DrawChange
  <1>2. pending'.cursor = pending.cursor
    BY DEF RenderInv, RenderTypeOK, DrawChange
  <1> QED
    BY <1>1, <1>2
    DEF RenderInv, DrawChange, FramesAccounted, NothingTaken, CopyCurrent, CopyPassed,
        PassedCurrent

\* What the plugins' and users' calls do to the flag and its counts.
LEMMA NotifyTyped ==
  ASSUME RenderInv, NEW bits \in SUBSET {STOPPING, MODIFIED, FRAME_READY},
         NEW f \in 0 .. MaxMarked, NEW c \in 0 .. MaxMoves,
         render' = [state |-> guac_flag_set(render.state, bits), frames |-> f,
                    cursor_state |-> c]
  PROVE  /\ render' \in
              [state : [value : SUBSET {STOPPING, MODIFIED, FRAME_READY}, owner : {NoThread},
                        depth : {0}, waiters : SUBSET {Renderer}],
               frames : 0 .. MaxMarked, cursor_state : 0 .. MaxMoves]
         /\ render'.state.value = render.state.value \cup bits
         /\ render'.frames = f
         /\ render'.cursor_state = c
  <1>1. /\ guac_flag_set(render.state, bits) \in RenderFlag
        /\ guac_flag_set(render.state, bits).value = render.state.value \cup bits
    BY RenderTypes, SetRenderFlag DEF RenderInv
  <1> QED
    BY <1>1, RenderTyped

\* guac_display_render_thread_notify_modified() keeps the invariant.
LEMMA ModifiedPreserves ==
  RenderInv /\ guac_display_render_thread_notify_modified => RenderInv'
  <1> SUFFICES ASSUME RenderInv, guac_display_render_thread_notify_modified
               PROVE  RenderInv'
    OBVIOUS
  <1>1. /\ UNCHANGED <<loop, pending, destroying, marked, ended>>
        /\ notifying' = FALSE /\ noticed' = pending.drawn
    BY DEF guac_display_render_thread_notify_modified
  <1>2. render' = [state |-> guac_flag_set(render.state, {MODIFIED}),
                   frames |-> render.frames, cursor_state |-> render.cursor_state]
    BY RenderTypes DEF guac_display_render_thread_notify_modified, RenderInv
  <1>3. /\ render' \in
             [state : [value : SUBSET {STOPPING, MODIFIED, FRAME_READY}, owner : {NoThread},
                       depth : {0}, waiters : SUBSET {Renderer}],
              frames : 0 .. MaxMarked, cursor_state : 0 .. MaxMoves]
        /\ render'.state.value = render.state.value \cup {MODIFIED}
        /\ render'.frames = render.frames
        /\ render'.cursor_state = render.cursor_state
    BY <1>2, NotifyTyped, RenderTypes DEF RenderInv
  <1>4. RenderTypeOK'
    BY <1>1, <1>3, RenderTypes DEF RenderInv, RenderTypeOK
  <1> QED
    BY <1>1, <1>3, <1>4
    DEF RenderInv, FramesAccounted, NothingTaken, CopyCurrent, CopyPassed, PassedCurrent

\* guac_display_render_thread_notify_frame() keeps the invariant.
LEMMA FramePreserves ==
  RenderInv /\ guac_display_render_thread_notify_frame => RenderInv'
  <1> SUFFICES ASSUME RenderInv, guac_display_render_thread_notify_frame
               PROVE  RenderInv'
    OBVIOUS
  <1>1. /\ UNCHANGED <<loop, pending, destroying, ended>>
        /\ notifying' = FALSE /\ noticed' = pending.drawn
        /\ marked < MaxMarked /\ marked' = marked + 1
    BY DEF guac_display_render_thread_notify_frame
  <1>2. render' = [state |-> guac_flag_set(render.state, {FRAME_READY}),
                   frames |-> render.frames + 1, cursor_state |-> render.cursor_state]
    BY RenderTypes DEF guac_display_render_thread_notify_frame, RenderInv
  <1>a. render.frames + 1 \in 0 .. MaxMarked
    BY <1>1, RenderTypes, RenderAssumption DEF RenderInv, FramesAccounted
  <1>3. /\ render' \in
             [state : [value : SUBSET {STOPPING, MODIFIED, FRAME_READY}, owner : {NoThread},
                       depth : {0}, waiters : SUBSET {Renderer}],
              frames : 0 .. MaxMarked, cursor_state : 0 .. MaxMoves]
        /\ render'.state.value = render.state.value \cup {FRAME_READY}
        /\ render'.frames = render.frames + 1
        /\ render'.cursor_state = render.cursor_state
    BY <1>2, <1>a, NotifyTyped, RenderTypes DEF RenderInv
  <1>b. marked' \in 0 .. MaxMarked
    BY <1>1, RenderTypes, RenderAssumption DEF RenderInv
  <1>4. RenderTypeOK'
    BY <1>1, <1>3, <1>b, RenderTypes DEF RenderInv, RenderTypeOK
  <1>5. FramesAccounted'
    BY <1>1, <1>3, RenderTypes DEF RenderInv, FramesAccounted
  <1> QED
    BY <1>1, <1>3, <1>4, <1>5
    DEF RenderInv, NothingTaken, CopyCurrent, CopyPassed, PassedCurrent

\* guac_display_render_thread_notify_user_moved_mouse() keeps the invariant.
LEMMA MousePreserves ==
  RenderInv /\ guac_display_render_thread_notify_user_moved_mouse => RenderInv'
  <1> SUFFICES ASSUME RenderInv, guac_display_render_thread_notify_user_moved_mouse
               PROVE  RenderInv'
    OBVIOUS
  <1>1. /\ UNCHANGED <<loop, pending, notifying, destroying, noticed, marked, ended>>
        /\ render.cursor_state < MaxMoves
    BY DEF guac_display_render_thread_notify_user_moved_mouse
  <1>2. render' = [state |-> guac_flag_set(render.state, {MODIFIED}),
                   frames |-> render.frames, cursor_state |-> render.cursor_state + 1]
    BY RenderTypes DEF guac_display_render_thread_notify_user_moved_mouse, RenderInv
  <1>a. render.cursor_state + 1 \in 0 .. MaxMoves
    BY <1>1, RenderTypes, RenderAssumption DEF RenderInv
  <1>3. /\ render' \in
             [state : [value : SUBSET {STOPPING, MODIFIED, FRAME_READY}, owner : {NoThread},
                       depth : {0}, waiters : SUBSET {Renderer}],
              frames : 0 .. MaxMarked, cursor_state : 0 .. MaxMoves]
        /\ render'.state.value = render.state.value \cup {MODIFIED}
        /\ render'.frames = render.frames
    BY <1>2, <1>a, NotifyTyped, RenderTypes DEF RenderInv
  <1>4. RenderTypeOK'
    BY <1>1, <1>3 DEF RenderInv, RenderTypeOK
  <1> QED
    BY <1>1, <1>3, <1>4
    DEF RenderInv, FramesAccounted, NothingTaken, CopyCurrent, CopyPassed, PassedCurrent

\* guac_display_render_thread_destroy(), up to its pthread_join(), keeps the
\* invariant.
LEMMA DestroyPreserves == RenderInv /\ Destroy => RenderInv'
  <1> SUFFICES ASSUME RenderInv, Destroy
               PROVE  RenderInv'
    OBVIOUS
  <1>1. /\ UNCHANGED <<loop, pending, notifying, noticed, marked, ended>>
        /\ destroying' = "joining"
    BY DEF Destroy
  <1>2. render' = [state |-> guac_flag_set(render.state, {STOPPING}),
                   frames |-> render.frames, cursor_state |-> render.cursor_state]
    BY RenderTypes DEF Destroy, RenderInv
  <1>3. /\ render' \in
             [state : [value : SUBSET {STOPPING, MODIFIED, FRAME_READY}, owner : {NoThread},
                       depth : {0}, waiters : SUBSET {Renderer}],
              frames : 0 .. MaxMarked, cursor_state : 0 .. MaxMoves]
        /\ render'.state.value = render.state.value \cup {STOPPING}
        /\ render'.frames = render.frames
        /\ render'.cursor_state = render.cursor_state
    BY <1>2, NotifyTyped, RenderTypes DEF RenderInv
  <1>4. RenderTypeOK'
    BY <1>1, <1>3 DEF RenderInv, RenderTypeOK
  <1> QED
    BY <1>1, <1>3, <1>4
    DEF RenderInv, FramesAccounted, NothingTaken, CopyCurrent, CopyPassed, PassedCurrent

\* The return of pthread_join() in guac_display_render_thread_destroy() keeps
\* the invariant.
LEMMA JoinPreserves == RenderInv /\ DestroyJoined => RenderInv'
  BY DEF DestroyJoined, RenderInv, RenderTypeOK, FramesAccounted, NothingTaken,
         CopyCurrent, CopyPassed, PassedCurrent

-----------------------------------------------------------------------------
(* The loop *)

\* Starting to gather the changes of a frame keeps the invariant
\* (guac_display_render_loop()).
LEMMA AccumulatePreserves ==
  ASSUME RenderInv, NEW d \in 0 .. MaxDuration + 1, Accumulate(d, 0),
         loop.rendered_frames = 0, Beside, UNCHANGED <<pending, ended>>
  PROVE  RenderInv'
  <1>1. loop' = [at |-> "sleep", cursor_state |-> render.cursor_state,
                 rendered_frames |-> 0, duration |-> d, behind |-> FALSE]
    BY DEF Accumulate
  <1>2. render' = [state |-> guac_flag_clear(render.state, {MODIFIED}),
                   frames |-> render.frames, cursor_state |-> render.cursor_state]
    BY RenderTypes DEF Accumulate, RenderInv
  <1>3. guac_flag_clear(render.state, {MODIFIED}) \in RenderFlag
    BY RenderTypes, ClearRenderFlag DEF RenderInv
  <1>4. /\ render' \in
             [state : [value : SUBSET {STOPPING, MODIFIED, FRAME_READY}, owner : {NoThread},
                       depth : {0}, waiters : SUBSET {Renderer}],
              frames : 0 .. MaxMarked, cursor_state : 0 .. MaxMoves]
        /\ render'.frames = render.frames
        /\ render'.cursor_state = render.cursor_state
    <2>1. render.frames \in 0 .. MaxMarked /\ render.cursor_state \in 0 .. MaxMoves
      BY RenderTypes DEF RenderInv
    <2> DEFINE f == guac_flag_clear(render.state, {MODIFIED})
    <2>2. f \in RenderFlag /\ render' = [state |-> f, frames |-> render.frames,
                                         cursor_state |-> render.cursor_state]
      BY <1>2, <1>3
    <2> HIDE DEF f
    <2>3. render'.frames = render.frames /\ render'.cursor_state = render.cursor_state
      BY <2>2
    <2> QED
      BY <2>1, <2>2, <2>3, RenderTyped
  <1>5. loop' \in
          [at : {"wait", "asleep", "sleep", "lull", "pass", "end", "returned"},
           cursor_state : 0 .. MaxMoves, rendered_frames : 0 .. MaxMarked,
           duration : 0 .. MaxDuration + 1, behind : BOOLEAN]
    BY <1>1, RenderTypes, RenderAssumption DEF RenderInv
  <1>6. RenderTypeOK'
    BY <1>4, <1>5 DEF RenderInv, RenderTypeOK, Beside
  <1> QED
    BY <1>1, <1>4, <1>6
    DEF RenderInv, FramesAccounted, NothingTaken, CopyCurrent, CopyPassed, PassedCurrent,
        Beside

\* Only the place in the loop changes.
LEMMA MovesOn ==
  ASSUME RenderInv, NEW l \in {"asleep", "returned", "lull", "pass"},
         loop' = [loop EXCEPT !.at = l]
  PROVE  /\ loop' \in
              [at : {"wait", "asleep", "sleep", "lull", "pass", "end", "returned"},
               cursor_state : 0 .. MaxMoves, rendered_frames : 0 .. MaxMarked,
               duration : 0 .. MaxDuration + 1, behind : BOOLEAN]
         /\ loop'.at = l
         /\ loop'.cursor_state = loop.cursor_state
         /\ loop'.rendered_frames = loop.rendered_frames
         /\ loop'.behind = loop.behind
  BY DEF RenderInv, RenderTypeOK

\* The wait of guac_display_render_loop() for a change keeps the invariant.
LEMMA WaitPreserves == RenderInv /\ WaitChange => RenderInv'
  <1> SUFFICES ASSUME RenderInv, WaitChange PROVE RenderInv'
    OBVIOUS
  <1>1. /\ loop.at \in {"wait", "asleep"} /\ Beside /\ UNCHANGED <<pending, ended>>
        /\ loop.rendered_frames = 0
    BY DEF WaitChange, RenderInv, NothingTaken
  <1>2. CASE ~AnySet(render.state, AnyChange)
    <2>1. loop' = [loop EXCEPT !.at = "asleep"]
      BY <1>2 DEF WaitChange
    <2> DEFINE s == pthread_cond_wait(guac_flag_lock(render.state, Renderer), Renderer)
    <2>2. render' = [state |-> s, frames |-> render.frames,
                     cursor_state |-> render.cursor_state]
      BY <1>2, RenderTypes DEF WaitChange, RenderInv
    <2>3. s \in RenderFlag /\ s.value = render.state.value
      BY RenderTypes, SleepRenderFlag DEF RenderInv
    <2> HIDE DEF s
    <2>4. /\ render' \in
             [state : [value : SUBSET {STOPPING, MODIFIED, FRAME_READY}, owner : {NoThread},
                       depth : {0}, waiters : SUBSET {Renderer}],
              frames : 0 .. MaxMarked, cursor_state : 0 .. MaxMoves]
          /\ render'.state.value = render.state.value
          /\ render'.frames = render.frames
          /\ render'.cursor_state = render.cursor_state
      BY <2>2, <2>3, RenderTypes, RenderTyped DEF RenderInv
    <2>5. RenderTypeOK'
      BY <1>1, <2>1, <2>4, MovesOn DEF RenderInv, RenderTypeOK, Beside
    <2> QED
      BY <1>1, <2>1, <2>4, <2>5, MovesOn
      DEF RenderInv, FramesAccounted, NothingTaken, CopyCurrent, CopyPassed,
          PassedCurrent, Beside
  <1>3. CASE AnySet(render.state, AnyChange) /\ STOPPING \in render.state.value
    <2>1. loop' = [loop EXCEPT !.at = "returned"] /\ render' = render
      BY <1>3 DEF WaitChange
    <2>2. RenderTypeOK'
      BY <1>1, <2>1, MovesOn DEF RenderInv, RenderTypeOK, Beside
    <2> QED
      BY <1>1, <2>1, <2>2, MovesOn
      DEF RenderInv, FramesAccounted, NothingTaken, CopyCurrent, CopyPassed,
          PassedCurrent, Beside
  <1>4. CASE AnySet(render.state, AnyChange) /\ STOPPING \notin render.state.value
    <2>1. Accumulate(0, 0)
      BY <1>4 DEF WaitChange
    <2>2. 0 \in 0 .. MaxDuration + 1
      BY RenderAssumption
    <2> QED
      BY <1>1, <2>1, <2>2, AccumulatePreserves
  <1> QED
    BY <1>2, <1>3, <1>4

\* The look for an explicit end of frame in guac_display_render_loop() keeps
\* the invariant.
LEMMA BoundaryPreserves == RenderInv /\ CheckBoundary => RenderInv'
  <1> SUFFICES ASSUME RenderInv, CheckBoundary PROVE RenderInv'
    OBVIOUS
  <1>1. /\ loop.at = "sleep" /\ Beside /\ UNCHANGED <<pending, ended>>
        /\ loop.rendered_frames = 0
    BY DEF CheckBoundary, RenderInv, NothingTaken
  <1>2. CASE FRAME_READY \in render.state.value
    <2>1. /\ loop' \in
                [at : {"wait", "asleep", "sleep", "lull", "pass", "end", "returned"},
                 cursor_state : 0 .. MaxMoves, rendered_frames : 0 .. MaxMarked,
                 duration : 0 .. MaxDuration + 1, behind : BOOLEAN]
          /\ loop'.at = "pass"
          /\ loop'.cursor_state = loop.cursor_state
          /\ loop'.rendered_frames = render.frames
          /\ loop'.behind = (loop.cursor_state # render.cursor_state)
      <3>1. loop' = [loop EXCEPT !.at = "pass", !.rendered_frames = @ + render.frames,
                                 !.behind = loop.cursor_state # render.cursor_state]
        BY <1>2 DEF CheckBoundary
      <3>2. loop.rendered_frames + render.frames = render.frames
        BY <1>1, RenderTypes DEF RenderInv
      <3> QED
        BY <3>1, <3>2, RenderTypes DEF RenderInv, RenderTypeOK
    <2> DEFINE s == guac_flag_clear(render.state, {FRAME_READY, MODIFIED})
    <2>2. render' = [state |-> s, frames |-> 0, cursor_state |-> render.cursor_state]
      BY <1>2, RenderTypes DEF CheckBoundary, RenderInv
    <2>3. s \in RenderFlag
      BY RenderTypes, ClearRenderFlag DEF RenderInv
    <2> HIDE DEF s
    <2>4. /\ render' \in
             [state : [value : SUBSET {STOPPING, MODIFIED, FRAME_READY}, owner : {NoThread},
                       depth : {0}, waiters : SUBSET {Renderer}],
              frames : 0 .. MaxMarked, cursor_state : 0 .. MaxMoves]
          /\ render'.frames = 0
          /\ render'.cursor_state = render.cursor_state
      BY <2>2, <2>3, RenderTypes, RenderTyped, RenderAssumption DEF RenderInv
    <2>5. RenderTypeOK'
      BY <1>1, <2>1, <2>4 DEF RenderInv, RenderTypeOK, Beside
    <2>6. FramesAccounted'
      BY <1>1, <2>1, <2>4, RenderTypes DEF RenderInv, FramesAccounted, Beside
    <2> QED
      BY <1>1, <2>1, <2>4, <2>5, <2>6
      DEF RenderInv, NothingTaken, CopyCurrent, CopyPassed, PassedCurrent
  <1>3. CASE FRAME_READY \notin render.state.value
    <2>1. loop' = [loop EXCEPT !.at = "lull"] /\ render' = render
      BY <1>3 DEF CheckBoundary
    <2>2. RenderTypeOK'
      BY <1>1, <2>1, MovesOn DEF RenderInv, RenderTypeOK, Beside
    <2> QED
      BY <1>1, <2>1, <2>2, MovesOn
      DEF RenderInv, FramesAccounted, NothingTaken, CopyCurrent, CopyPassed,
          PassedCurrent, Beside
  <1> QED
    BY <1>2, <1>3

\* The look for a lull between changes in guac_display_render_loop() keeps the
\* invariant.
LEMMA LullPreserves == RenderInv /\ CheckLull => RenderInv'
  <1> SUFFICES ASSUME RenderInv, CheckLull PROVE RenderInv'
    OBVIOUS
  <1>1. /\ loop.at = "lull" /\ Beside /\ UNCHANGED <<pending, ended>>
        /\ loop.rendered_frames = 0
    BY DEF CheckLull, RenderInv, NothingTaken
  <1>2. CASE AnySet(render.state, AnyChange) /\ loop.duration <= MaxDuration
    <2>1. Accumulate(loop.duration, 0)
      BY <1>1, <1>2 DEF CheckLull
    <2> QED
      BY <1>1, <2>1, AccumulatePreserves, RenderTypes DEF RenderInv
  <1>3. CASE ~(AnySet(render.state, AnyChange) /\ loop.duration <= MaxDuration)
    <2>1. loop' = [loop EXCEPT !.at = "pass"] /\ render' = render
      BY <1>3 DEF CheckLull
    <2>2. RenderTypeOK'
      BY <1>1, <2>1, MovesOn DEF RenderInv, RenderTypeOK, Beside
    <2> QED
      BY <1>1, <2>1, <2>2, MovesOn
      DEF RenderInv, FramesAccounted, NothingTaken, CopyCurrent, CopyPassed,
          PassedCurrent, Beside
  <1> QED
    BY <1>2, <1>3

\* Taking over the position of the cursor in guac_display_render_loop() keeps
\* the invariant.
LEMMA PassPreserves == RenderInv /\ PassCursor => RenderInv'
  <1> SUFFICES ASSUME RenderInv, PassCursor PROVE RenderInv'
    OBVIOUS
  <1>1. /\ loop.at = "pass" /\ Beside /\ UNCHANGED <<render, ended>>
        /\ loop' = [loop EXCEPT !.at = "end"]
        /\ pending' = [pending EXCEPT !.cursor = loop.cursor_state]
    BY DEF PassCursor
  <1>2. RenderTypeOK'
    BY <1>1 DEF RenderInv, RenderTypeOK, Beside
  <1>3. /\ loop'.at = "end"
        /\ loop'.cursor_state = loop.cursor_state
        /\ loop'.rendered_frames = loop.rendered_frames
        /\ loop'.behind = loop.behind
        /\ pending'.cursor = loop.cursor_state
    BY <1>1 DEF RenderInv, RenderTypeOK
  <1> QED
    BY <1>1, <1>2, <1>3
    DEF RenderInv, FramesAccounted, NothingTaken, CopyCurrent, CopyPassed,
        PassedCurrent, Beside

\* guac_display_end_multiple_frames() by the render thread keeps the invariant.
LEMMA EndPreserves == RenderInv /\ EndMultipleFrames => RenderInv'
  <1> SUFFICES ASSUME RenderInv, EndMultipleFrames PROVE RenderInv'
    OBVIOUS
  <1>1. /\ loop.at = "end" /\ Beside /\ UNCHANGED <<pending, render>>
        /\ loop' = [loop EXCEPT !.at = "wait", !.rendered_frames = 0]
        /\ ended' = [frames |-> ended.frames + loop.rendered_frames,
                     drawn |-> pending.drawn]
    BY DEF EndMultipleFrames
  <1>2. /\ loop'.at = "wait"
        /\ loop'.cursor_state = loop.cursor_state
        /\ loop'.rendered_frames = 0
        /\ loop'.behind = loop.behind
    BY <1>1 DEF RenderInv, RenderTypeOK
  <1>3. ended.frames + loop.rendered_frames \in 0 .. MaxMarked
    BY RenderTypes, RenderAssumption DEF RenderInv, RenderTypeOK, FramesAccounted
  <1>4. loop' \in
          [at : {"wait", "asleep", "sleep", "lull", "pass", "end", "returned"},
           cursor_state : 0 .. MaxMoves, rendered_frames : 0 .. MaxMarked,
           duration : 0 .. MaxDuration + 1, behind : BOOLEAN]
    <2>1. 0 \in 0 .. MaxMarked
      BY RenderAssumption
    <2> QED
      BY <1>1, <2>1 DEF RenderInv, RenderTypeOK
  <1>5. ended' \in [frames : 0 .. MaxMarked, drawn : 0 .. MaxDrawn]
    BY <1>1, <1>3, RenderTypes DEF RenderInv
  <1>6. RenderTypeOK'
    BY <1>1, <1>4, <1>5 DEF RenderInv, RenderTypeOK, Beside
  <1>7. FramesAccounted'
    BY <1>1, <1>2, RenderTypes DEF RenderInv, FramesAccounted, Beside
  <1> QED
    BY <1>1, <1>2, <1>6, <1>7
    DEF RenderInv, NothingTaken, CopyCurrent, CopyPassed, PassedCurrent

\* A render thread woken with nothing to do keeps the invariant
\* (guac_display_render_loop()).
LEMMA IdlePreserves == RenderInv /\ WokenIdly => RenderInv'
  <1> SUFFICES ASSUME RenderInv, WokenIdly PROVE RenderInv'
    OBVIOUS
  <1>1. /\ Beside /\ UNCHANGED <<loop, pending, ended>>
        /\ render' = [render EXCEPT !.state.waiters = {}]
    BY DEF WokenIdly
  <1>2. /\ render' \in
             [state : [value : SUBSET {STOPPING, MODIFIED, FRAME_READY}, owner : {NoThread},
                       depth : {0}, waiters : SUBSET {Renderer}],
              frames : 0 .. MaxMarked, cursor_state : 0 .. MaxMoves]
        /\ render'.state.value = render.state.value
        /\ render'.frames = render.frames
        /\ render'.cursor_state = render.cursor_state
    BY <1>1 DEF RenderInv, RenderTypeOK
  <1>3. RenderTypeOK'
    BY <1>1, <1>2 DEF RenderInv, RenderTypeOK, Beside
  <1> QED
    BY <1>1, <1>2, <1>3
    DEF RenderInv, FramesAccounted, NothingTaken, CopyCurrent, CopyPassed,
        PassedCurrent, Beside

\* The time that goes by keeps the invariant of the render thread.
LEMMA TimePreserves == RenderInv /\ TimeGoesOn => RenderInv'
  <1> SUFFICES ASSUME RenderInv, TimeGoesOn PROVE RenderInv'
    OBVIOUS
  <1>1. /\ Beside /\ UNCHANGED <<render, pending, ended>>
        /\ loop.duration <= MaxDuration
        /\ loop' = [loop EXCEPT !.duration = @ + 1]
    BY DEF TimeGoesOn
  <1>2. loop.duration + 1 \in 0 .. MaxDuration + 1
    BY <1>1, RenderTypes, RenderAssumption DEF RenderInv
  <1>3. /\ loop' \in
              [at : {"wait", "asleep", "sleep", "lull", "pass", "end", "returned"},
               cursor_state : 0 .. MaxMoves, rendered_frames : 0 .. MaxMarked,
               duration : 0 .. MaxDuration + 1, behind : BOOLEAN]
        /\ loop'.at = loop.at
        /\ loop'.cursor_state = loop.cursor_state
        /\ loop'.rendered_frames = loop.rendered_frames
        /\ loop'.behind = loop.behind
    BY <1>1, <1>2 DEF RenderInv, RenderTypeOK
  <1>4. RenderTypeOK'
    BY <1>1, <1>3 DEF RenderInv, RenderTypeOK, Beside
  <1> QED
    BY <1>1, <1>3, <1>4
    DEF RenderInv, FramesAccounted, NothingTaken, CopyCurrent, CopyPassed,
        PassedCurrent, Beside

-----------------------------------------------------------------------------
\* guac_display_render_thread_create() establishes the invariant.
LEMMA RenderInitInv == RenderInit => RenderInv
  <1> SUFFICES ASSUME RenderInit PROVE RenderInv
    OBVIOUS
  <1>1. render = [state |-> [value |-> {}, owner |-> NoThread, depth |-> 0, waiters |-> {}],
                  frames |-> 0, cursor_state |-> 0]
    BY DEF RenderInit, guac_flag_init
  <1>2. RenderTypeOK
    <2>1. /\ 0 \in 0 .. MaxMarked /\ 0 \in 0 .. MaxMoves /\ 0 \in 0 .. MaxDrawn
          /\ 0 \in 0 .. MaxDuration + 1
      BY RenderAssumption
    <2>2. render \in
             [state : [value : SUBSET {STOPPING, MODIFIED, FRAME_READY}, owner : {NoThread},
                       depth : {0}, waiters : SUBSET {Renderer}],
              frames : 0 .. MaxMarked, cursor_state : 0 .. MaxMoves]
      BY <1>1, <2>1
    <2>3. loop \in
             [at : {"wait", "asleep", "sleep", "lull", "pass", "end", "returned"},
              cursor_state : 0 .. MaxMoves, rendered_frames : 0 .. MaxMarked,
              duration : 0 .. MaxDuration + 1, behind : BOOLEAN]
      BY <2>1 DEF RenderInit
    <2>4. /\ pending \in [drawn : 0 .. MaxDrawn, cursor : 0 .. MaxMoves]
          /\ ended \in [frames : 0 .. MaxMarked, drawn : 0 .. MaxDrawn]
      BY <2>1 DEF RenderInit
    <2> QED
      BY <2>1, <2>2, <2>3, <2>4 DEF RenderInit, RenderTypeOK
  <1> QED
    BY <1>1, <1>2
    DEF RenderInit, RenderInv, FramesAccounted, NothingTaken, CopyCurrent, CopyPassed,
        PassedCurrent

\* No step of the loop, a plugin or a user breaks it.
LEMMA RenderNextInv == RenderInv /\ [RenderNext]_renderVars => RenderInv'
  <1>1. RenderInv /\ UNCHANGED renderVars => RenderInv'
    BY DEF renderVars, RenderInv, RenderTypeOK, FramesAccounted, NothingTaken, CopyCurrent,
           CopyPassed, PassedCurrent
  <1>2. Freed => UNCHANGED renderVars
    BY DEF Freed
  <1> QED
    BY <1>1, <1>2, DrawPreserves, ModifiedPreserves, FramePreserves, MousePreserves,
       DestroyPreserves, JoinPreserves, WaitPreserves, BoundaryPreserves, LullPreserves,
       PassPreserves, EndPreserves, IdlePreserves, TimePreserves
    DEF RenderNext, LoopStep

\* The safety of the render thread, for any number of changes, mouse movements and
\* boundaries and any longest frame: every boundary marked is counted once, wherever
\* the loop is when it is marked, and with nothing left to be seen the pending frame
\* has the mouse where it is, except behind a boundary that cut a movement off.
THEOREM RenderSafe == RenderSpec => []RenderSound
  <1>1. RenderInv => RenderSound
    BY DEF RenderInv, RenderSound, PassedCurrent, CursorCurrent
  <1> QED
    BY <1>1, RenderInitInv, RenderNextInv, PTL DEF RenderSpec

-----------------------------------------------------------------------------
(* The readers-writer lock.                                                *)

\* What a thread inside pthread_rwlock_rdlock() or wrlock() has left behind in
\* its word: nothing when it waits to read; what it had read-locked, and room
\* for one more, when it waits to write.
WaiterWord ==
  \A t \in Lockers :
    /\ blocked[t] = "rd" => Flag(t) = NO_LOCK /\ Count(t) = 0
    /\ blocked[t] = "wr" => /\ Flag(t) # WRITE_LOCK
                            /\ Count(t) < UINTPTR_MAX \div 16

\* The pthread lock is held for writing or for reading.
PthreadLock == writer # NoLocker => readers = {}

\* Only the three flags are ever packed.
KnownFlags == \A t \in Lockers : Flag(t) \in {NO_LOCK, READ_LOCK, WRITE_LOCK}

RWLockInv ==
  /\ RWLockTypeOK
  /\ KeyMatchesLock
  /\ Balanced
  /\ WaiterWord
  /\ PthreadLock
  /\ KnownFlags

-----------------------------------------------------------------------------
(* Packing a flag and a count into a word, and taking them out again. *)

\* A number is its own remainder by a larger one.
LEMMA SmallModulus ==
  ASSUME NEW v \in Nat, NEW m \in Nat, v < m
  PROVE  v % m = v
  BY SMT

\* What get_value_from_flag_and_count() packs into the thread-local value of a
\* lock, get_lock_flag() and get_lock_count() read back.
LEMMA PackFacts ==
  ASSUME NEW flag \in {NO_LOCK, READ_LOCK, WRITE_LOCK},
         NEW count \in 0 .. UINTPTR_MAX \div 16
  PROVE  LET v == get_value_from_flag_and_count(flag, count)
         IN  /\ v \in 0 .. UINTPTR_MAX
             /\ get_lock_flag(v) = flag
             /\ get_lock_count(v) = count
  <1> DEFINE k == (UINTPTR_MAX + 1) \div 16
             w == flag + count * 16
  <1>1. k \in Nat /\ UINTPTR_MAX = 16 * k - 1 /\ UINTPTR_MAX \div 16 = k - 1
    BY WordAssumption
  <1>2. flag % 16 = flag /\ flag \in 0 .. 2
    BY DEF NO_LOCK, READ_LOCK, WRITE_LOCK
  <1>3. w \in Nat /\ w < UINTPTR_MAX + 1
    BY <1>1, <1>2
  <1>4. w % (UINTPTR_MAX + 1) = w
    BY <1>3, WordAssumption, SmallModulus
  <1>5. w % 16 = flag /\ w \div 16 = count
    BY <1>1, <1>2
  <1> HIDE DEF w
  <1>6. get_value_from_flag_and_count(flag, count) = w
    BY <1>2, <1>4 DEF get_value_from_flag_and_count, w
  <1> QED
    BY <1>3, <1>5, <1>6, WordAssumption DEF get_lock_flag, get_lock_count

\* What setspecific() does to the flags and the counts.
LEMMA SetspecificFacts ==
  ASSUME RWLockInv, NEW t \in Lockers,
         NEW flag \in {NO_LOCK, READ_LOCK, WRITE_LOCK},
         NEW count \in 0 .. UINTPTR_MAX \div 16,
         setspecific(t, flag, count)
  PROVE  /\ key' \in [Lockers -> 0 .. UINTPTR_MAX]
         /\ Flag(t)' = flag
         /\ Count(t)' = count
         /\ \A u \in Lockers \ {t} : Flag(u)' = Flag(u) /\ Count(u)' = Count(u)
  <1> DEFINE v == get_value_from_flag_and_count(flag, count)
  <1>1. /\ v \in 0 .. UINTPTR_MAX
        /\ get_lock_flag(v) = flag
        /\ get_lock_count(v) = count
    BY PackFacts
  <1> HIDE DEF v
  <1>2. key \in [Lockers -> 0 .. UINTPTR_MAX] /\ key' = [key EXCEPT ![t] = v]
    BY DEF RWLockInv, RWLockTypeOK, setspecific, v
  <1> QED
    BY <1>1, <1>2 DEF Flag, Count

\* The counts are numbers that fit, and one below the limit may grow.
LEMMA CountFacts ==
  ASSUME RWLockInv, NEW t \in Lockers
  PROVE  /\ Count(t) \in 0 .. UINTPTR_MAX \div 16
         /\ Flag(t) \in {NO_LOCK, READ_LOCK, WRITE_LOCK}
         /\ ~would_overflow_count(Count(t)) => Count(t) < UINTPTR_MAX \div 16
  BY WordAssumption
     DEF RWLockInv, RWLockTypeOK, Balanced, KnownFlags, Count, get_lock_count, would_overflow_count

-----------------------------------------------------------------------------

\* A lock that guac_rwlock_init() made is held by nobody, and no thread has a
\* count for it.
LEMMA RWLockInitInv == RWLockInit => RWLockInv
  <1> SUFFICES ASSUME RWLockInit PROVE RWLockInv
    OBVIOUS
  <1>1. \A t \in Lockers : Flag(t) = NO_LOCK /\ Count(t) = 0
    BY DEF RWLockInit, Flag, Count, get_lock_flag, get_lock_count, NO_LOCK
  <1> QED
    BY <1>1, ThreadAssumption, WordAssumption
       DEF RWLockInit, RWLockInv, RWLockTypeOK, KeyMatchesLock, Balanced, WaiterWord, PthreadLock,
           KnownFlags, NO_LOCK, READ_LOCK, WRITE_LOCK

\* The steps that only move a thread's count: reentry, and a release that is not
\* the last.
LEMMA ReenterInv ==
  ASSUME RWLockInv, NEW t \in Lockers, NEW flags \in SUBSET {READ_LOCK, WRITE_LOCK},
         Reenter(t, flags)
  PROVE  RWLockInv'
  <1>1. Count(t) + 1 \in 0 .. UINTPTR_MAX \div 16 /\ Flag(t) \in {READ_LOCK, WRITE_LOCK}
    BY CountFacts, WordAssumption DEF Reenter
  <1>2. /\ key' \in [Lockers -> 0 .. UINTPTR_MAX]
        /\ Flag(t)' = Flag(t)
        /\ Count(t)' = Count(t) + 1
        /\ \A u \in Lockers \ {t} : Flag(u)' = Flag(u) /\ Count(u)' = Count(u)
    BY <1>1, SetspecificFacts DEF Reenter
  <1>3. depth' = [depth EXCEPT ![t] = @ + 1] /\ depth[t] = Count(t)
    BY DEF Reenter, Acquired, RWLockInv, Balanced
  <1>4. blocked[t] = "no" /\ UNCHANGED <<readers, writer, blocked>>
    BY DEF Reenter
  <1>5. RWLockTypeOK'
    BY <1>1, <1>2, <1>3, <1>4 DEF RWLockInv, RWLockTypeOK
  <1>6. KeyMatchesLock' /\ KnownFlags'
    BY <1>1, <1>2, <1>4, CountFacts
       DEF RWLockInv, KeyMatchesLock, KnownFlags, NO_LOCK, READ_LOCK, WRITE_LOCK
  <1>7. Balanced'
    BY <1>2, <1>3 DEF RWLockInv, RWLockTypeOK, Balanced
  <1>8. WaiterWord' /\ PthreadLock'
    BY <1>2, <1>4 DEF RWLockInv, WaiterWord, PthreadLock
  <1> QED
    BY <1>5, <1>6, <1>7, <1>8 DEF RWLockInv

\* guac_rwlock_acquire_write_lock(), up to the lock it must wait for, keeps the
\* invariant.
LEMMA AcquireWriteBeginInv ==
  ASSUME RWLockInv, NEW t \in Lockers, AcquireWriteBegin(t)
  PROVE  RWLockInv'
  <1>1. /\ blocked[t] = "no" /\ Flag(t) # WRITE_LOCK
        /\ Count(t) < UINTPTR_MAX \div 16
        /\ blocked' = [blocked EXCEPT ![t] = "wr"]
        /\ UNCHANGED <<key, depth>>
    BY CountFacts DEF AcquireWriteBegin
  <1>2. \A u \in Lockers : Flag(u)' = Flag(u) /\ Count(u)' = Count(u)
    BY <1>1 DEF Flag, Count
  <1>3. t \notin readers' /\ writer' = writer /\ writer # t
    BY <1>1, ThreadAssumption
       DEF AcquireWriteBegin, Unlocked, RWLockInv, KeyMatchesLock, RWLockTypeOK
  <1>4. readers' \subseteq readers /\ readers \ {t} \subseteq readers'
    BY DEF AcquireWriteBegin, Unlocked
  <1>5. RWLockTypeOK'
    BY <1>1, <1>3, <1>4 DEF RWLockInv, RWLockTypeOK
  <1>6. KeyMatchesLock'
    BY <1>1, <1>2, <1>3, <1>4 DEF RWLockInv, RWLockTypeOK, KeyMatchesLock
  <1>7. Balanced' /\ KnownFlags' /\ WaiterWord'
    BY <1>1, <1>2 DEF RWLockInv, RWLockTypeOK, Balanced, KnownFlags, WaiterWord
  <1>8. PthreadLock'
    BY <1>3, <1>4 DEF RWLockInv, PthreadLock
  <1> QED
    BY <1>5, <1>6, <1>7, <1>8 DEF RWLockInv

\* guac_rwlock_acquire_write_lock() that gets the lock keeps the invariant.
LEMMA AcquireWriteEndInv ==
  ASSUME RWLockInv, NEW t \in Lockers, AcquireWriteEnd(t)
  PROVE  RWLockInv'
  <1>1. Count(t) + 1 \in 0 .. UINTPTR_MAX \div 16
    BY CountFacts, WordAssumption DEF AcquireWriteEnd, RWLockInv, WaiterWord
  <1>2. /\ key' \in [Lockers -> 0 .. UINTPTR_MAX]
        /\ Flag(t)' = WRITE_LOCK
        /\ Count(t)' = Count(t) + 1
        /\ \A u \in Lockers \ {t} : Flag(u)' = Flag(u) /\ Count(u)' = Count(u)
    BY <1>1, SetspecificFacts DEF AcquireWriteEnd
  <1>3. /\ writer = NoLocker /\ readers = {} /\ writer' = t /\ readers' = readers
        /\ blocked' = [blocked EXCEPT ![t] = "no"]
        /\ depth' = [depth EXCEPT ![t] = @ + 1] /\ depth[t] = Count(t)
    BY DEF AcquireWriteEnd, CanWrite, Acquired, RWLockInv, Balanced
  <1>4. RWLockTypeOK'
    BY <1>1, <1>2, <1>3 DEF RWLockInv, RWLockTypeOK
  <1>5. KeyMatchesLock' /\ KnownFlags'
    BY <1>1, <1>2, <1>3, CountFacts, ThreadAssumption
       DEF RWLockInv, RWLockTypeOK, KeyMatchesLock, KnownFlags, NO_LOCK, READ_LOCK, WRITE_LOCK
  <1>6. Balanced'
    BY <1>2, <1>3 DEF RWLockInv, RWLockTypeOK, Balanced
  <1>7. WaiterWord' /\ PthreadLock'
    BY <1>2, <1>3 DEF RWLockInv, RWLockTypeOK, WaiterWord, PthreadLock
  <1> QED
    BY <1>4, <1>5, <1>6, <1>7 DEF RWLockInv

\* guac_rwlock_acquire_read_lock(), up to the lock it must wait for, keeps the
\* invariant.
LEMMA AcquireReadBeginInv ==
  ASSUME RWLockInv, NEW t \in Lockers, AcquireReadBegin(t)
  PROVE  RWLockInv'
  <1>1. /\ blocked[t] = "no" /\ Flag(t) = NO_LOCK
        /\ blocked' = [blocked EXCEPT ![t] = "rd"]
        /\ UNCHANGED <<readers, writer, key, depth>>
    BY CountFacts DEF AcquireReadBegin
  <1>2. \A u \in Lockers : Flag(u)' = Flag(u) /\ Count(u)' = Count(u)
    BY <1>1 DEF Flag, Count
  <1>3. t \notin readers /\ writer # t /\ Count(t) = 0
    BY <1>1 DEF RWLockInv, KeyMatchesLock, NO_LOCK, READ_LOCK, WRITE_LOCK
  <1>4. RWLockTypeOK' /\ PthreadLock'
    BY <1>1 DEF RWLockInv, RWLockTypeOK, PthreadLock
  <1>5. KeyMatchesLock'
    BY <1>1, <1>2, <1>3 DEF RWLockInv, RWLockTypeOK, KeyMatchesLock
  <1>6. Balanced' /\ KnownFlags' /\ WaiterWord'
    BY <1>1, <1>2, <1>3 DEF RWLockInv, RWLockTypeOK, Balanced, KnownFlags, WaiterWord
  <1> QED
    BY <1>4, <1>5, <1>6 DEF RWLockInv

\* guac_rwlock_acquire_read_lock() that gets the lock keeps the invariant.
LEMMA AcquireReadEndInv ==
  ASSUME RWLockInv, NEW t \in Lockers, AcquireReadEnd(t)
  PROVE  RWLockInv'
  <1>1. Count(t) = 0 /\ 1 \in 0 .. UINTPTR_MAX \div 16
    BY WordAssumption DEF AcquireReadEnd, RWLockInv, WaiterWord
  <1>2. /\ key' \in [Lockers -> 0 .. UINTPTR_MAX]
        /\ Flag(t)' = READ_LOCK
        /\ Count(t)' = 1
        /\ \A u \in Lockers \ {t} : Flag(u)' = Flag(u) /\ Count(u)' = Count(u)
    BY <1>1, SetspecificFacts DEF AcquireReadEnd
  <1>3. /\ writer = NoLocker /\ writer' = writer /\ readers' = readers \cup {t}
        /\ blocked' = [blocked EXCEPT ![t] = "no"]
        /\ depth' = [depth EXCEPT ![t] = @ + 1] /\ depth[t] = Count(t)
    BY DEF AcquireReadEnd, CanRead, Acquired, RWLockInv, Balanced
  <1>4. RWLockTypeOK'
    BY <1>1, <1>2, <1>3 DEF RWLockInv, RWLockTypeOK
  <1>5. KeyMatchesLock' /\ KnownFlags'
    BY <1>2, <1>3, ThreadAssumption
       DEF RWLockInv, RWLockTypeOK, KeyMatchesLock, KnownFlags, NO_LOCK, READ_LOCK, WRITE_LOCK
  <1>6. Balanced'
    BY <1>1, <1>2, <1>3 DEF RWLockInv, RWLockTypeOK, Balanced
  <1>7. WaiterWord' /\ PthreadLock'
    BY <1>2, <1>3 DEF RWLockInv, RWLockTypeOK, WaiterWord, PthreadLock
  <1> QED
    BY <1>4, <1>5, <1>6, <1>7 DEF RWLockInv

\* guac_rwlock_release_lock() keeps the invariant.
LEMMA ReleaseInv ==
  ASSUME RWLockInv, NEW t \in Lockers, guac_rwlock_release_lock(t)
  PROVE  RWLockInv'
  <1> DEFINE flag == IF Count(t) = 1 THEN NO_LOCK ELSE Flag(t)
  <1>1. /\ Count(t) \in 1 .. UINTPTR_MAX \div 16
        /\ Count(t) - 1 \in 0 .. UINTPTR_MAX \div 16
        /\ flag \in {NO_LOCK, READ_LOCK, WRITE_LOCK}
    BY CountFacts, WordAssumption DEF guac_rwlock_release_lock
  <1>2. setspecific(t, flag, Count(t) - 1)
    BY <1>1 DEF guac_rwlock_release_lock
  <1>3. /\ key' \in [Lockers -> 0 .. UINTPTR_MAX]
        /\ Flag(t)' = flag
        /\ Count(t)' = Count(t) - 1
        /\ \A u \in Lockers \ {t} : Flag(u)' = Flag(u) /\ Count(u)' = Count(u)
    BY <1>1, <1>2, SetspecificFacts
  <1>4. /\ blocked[t] = "no" /\ blocked' = blocked
        /\ depth' = [depth EXCEPT ![t] = @ - 1] /\ depth[t] = Count(t)
    BY DEF guac_rwlock_release_lock, RWLockInv, Balanced
  <1>5. /\ readers' \subseteq readers /\ readers \ {t} \subseteq readers'
        /\ writer' \in {writer, NoLocker}
        /\ \A u \in Lockers \ {t} : writer' = u <=> writer = u
        /\ Count(t) = 1 => t \notin readers' /\ writer' # t
        /\ Count(t) # 1 => readers' = readers /\ writer' = writer
    BY ThreadAssumption DEF guac_rwlock_release_lock, Unlocked
  <1>6. RWLockTypeOK'
    BY <1>1, <1>3, <1>4, <1>5 DEF RWLockInv, RWLockTypeOK
  <1>7. KeyMatchesLock' /\ KnownFlags'
    <2>1. ASSUME NEW u \in Lockers, u # t
          PROVE  /\ u \in readers' <=> u \in readers
                 /\ writer' = u <=> writer = u
                 /\ blocked'[u] = blocked[u]
                 /\ Flag(u)' = Flag(u) /\ Count(u)' = Count(u)
      BY <2>1, <1>3, <1>4, <1>5
    <2>2. /\ t \in readers' <=> Flag(t)' = READ_LOCK
          /\ writer' = t <=> Flag(t)' = WRITE_LOCK
          /\ Flag(t)' = NO_LOCK <=> Count(t)' = 0
      BY <1>1, <1>3, <1>4, <1>5
         DEF RWLockInv, KeyMatchesLock, NO_LOCK, READ_LOCK, WRITE_LOCK
    <2>3. KnownFlags'
      BY <1>1, <1>3 DEF RWLockInv, KnownFlags
    <2> QED
      BY <2>1, <2>2, <2>3, <1>4 DEF RWLockInv, KeyMatchesLock
  <1>8. Balanced'
    BY <1>1, <1>3, <1>4 DEF RWLockInv, RWLockTypeOK, Balanced
  <1>9. WaiterWord' /\ PthreadLock'
    BY <1>3, <1>4, <1>5 DEF RWLockInv, WaiterWord, PthreadLock
  <1> QED
    BY <1>6, <1>7, <1>8, <1>9 DEF RWLockInv

\* Every call of rwlock.c keeps the invariant.
LEMMA RWLockNextInv == RWLockInv /\ [RWLockNext]_rwVars => RWLockInv'
  <1> SUFFICES ASSUME RWLockInv, [RWLockNext]_rwVars PROVE RWLockInv'
    OBVIOUS
  <1>1. CASE UNCHANGED rwVars
    BY <1>1 DEF rwVars, RWLockInv, RWLockTypeOK, KeyMatchesLock, Balanced, WaiterWord, PthreadLock,
                KnownFlags, Flag, Count
  <1>2. ASSUME NEW t \in Lockers,
               AcquireTooMany(t) \/ ReleaseNotHeld(t)
        PROVE  RWLockInv'
    BY <1>1, <1>2 DEF AcquireTooMany, ReleaseNotHeld
  <1>3. ASSUME NEW t \in Lockers, Reenter(t, {WRITE_LOCK}) PROVE RWLockInv'
    BY <1>3, ReenterInv
  <1>4. ASSUME NEW t \in Lockers, Reenter(t, {READ_LOCK, WRITE_LOCK}) PROVE RWLockInv'
    BY <1>4, ReenterInv
  <1> QED
    BY <1>1, <1>2, <1>3, <1>4, AcquireWriteBeginInv, AcquireWriteEndInv,
       AcquireReadBeginInv, AcquireReadEndInv, ReleaseInv DEF RWLockNext

\* What the threads have counted keeps a writer from everybody else (rwlock.c).
LEMMA InvExclusion == RWLockInv => Exclusion
  <1> SUFFICES ASSUME RWLockInv, NEW t \in Lockers, NEW u \in Lockers, t # u,
                      blocked[t] = "no", Flag(t) = WRITE_LOCK, blocked[u] = "no"
               PROVE  Flag(u) = NO_LOCK
    BY DEF Exclusion
  <1>1. writer = t
    BY DEF RWLockInv, KeyMatchesLock
  <1>2. readers = {}
    BY <1>1, ThreadAssumption DEF RWLockInv, PthreadLock
  <1> QED
    BY <1>1, <1>2 DEF RWLockInv, KeyMatchesLock, KnownFlags

\* For any threads and any size of word, whatever acquisitions, upgrades and releases
\* they make: the thread-local words of rwlock.c agree with the pthread lock, a
\* writer is alone, and the packed count is the number of acquisitions not yet
\* released.
THEOREM RWLockSafe == RWLockSpec => []LockSound
  <1>1. RWLockInit => RWLockInv
    BY RWLockInitInv
  <1>2. RWLockInv /\ [RWLockNext]_rwVars => RWLockInv'
    BY RWLockNextInv
  <1>3. RWLockInv => LockSound
    BY InvExclusion DEF RWLockInv, LockSound
  <1> QED
    BY <1>1, <1>2, <1>3, PTL DEF RWLockSpec

=============================================================================
