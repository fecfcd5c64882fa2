------------------------------ MODULE GuacFlag ------------------------------
(***************************************************************************)
(* The guac_flag of src/libguac/flag.c: a set of bits guarded by a         *)
(* recursive, process-shared mutex, with one condition variable that is    *)
(* broadcast whenever a bit becomes set.  A flag is a record               *)
(*                                                                         *)
(*   value    the bits that are set,                                       *)
(*   owner    the thread holding value_mutex, or NoThread,                 *)
(*   depth    how often the owner has locked the recursive mutex,          *)
(*   waiters  the threads asleep on value_changed.                         *)
(*                                                                         *)
(* The operators are the effects of the functions of flag.c on such a      *)
(* record.  They are pure so that the modules built on flags (the FIFO,    *)
(* the display) can hold several of them.                                  *)
(***************************************************************************)
EXTENDS Naturals

CONSTANTS Threads,  \* the threads that may touch a flag
          NoThread  \* the owner of an unlocked mutex

ASSUME NoThreadAssumption == NoThread \notin Threads

FlagType(Bits) ==
  [ value   : SUBSET Bits,
    owner   : Threads \cup {NoThread},
    depth   : Nat,
    waiters : SUBSET Threads ]

\* guac_flag_init() followed by guac_flag_set() of the bits in initial.
guac_flag_init(initial) ==
  [value |-> initial, owner |-> NoThread, depth |-> 0, waiters |-> {}]

\* pthread_mutex_lock() on the recursive mutex returns for t exactly when this
\* holds; otherwise t blocks.
Lockable(f, t) == f.owner \in {NoThread, t}

guac_flag_lock(f, t) ==
  [f EXCEPT !.owner = t, !.depth = @ + 1]

guac_flag_unlock(f) ==
  [f EXCEPT !.owner = IF f.depth = 1 THEN NoThread ELSE @, !.depth = @ - 1]

\* guac_flag_set() that wakes one waiter only (pthread_cond_signal).
MutantSignalOne(f, bits) ==
  [f EXCEPT !.value   = @ \cup bits,
            !.waiters = IF bits \subseteq f.value \/ @ = {} THEN @
                        ELSE @ \ {CHOOSE t \in @ : TRUE}]

\* Sets the bits and broadcasts only if that changed the value.
guac_flag_set(f, bits) ==
  [f EXCEPT !.value   = @ \cup bits,
            !.waiters = IF bits \subseteq f.value THEN @ ELSE {}]

\* Clearing never broadcasts: threads wait only for bits to be set.
guac_flag_clear(f, bits) ==
  [f EXCEPT !.value = @ \ bits]

\* The loop test of guac_flag_wait_and_lock and guac_flag_timedwait_and_lock.
AnySet(f, bits) == f.value \cap bits # {}

\* pthread_cond_wait(): go to sleep, giving up ONE level of the recursive
\* mutex.  A thread that had locked the flag before waiting keeps owning it.
pthread_cond_wait(f, t) ==
  [guac_flag_unlock(f) EXCEPT !.waiters = @ \cup {t}]

\* The sleeper leaves the condition (a spurious wakeup or a timeout; a
\* broadcast has already removed it) and takes the mutex back.
Wakeup(f, t) ==
  guac_flag_lock([f EXCEPT !.waiters = @ \ {t}], t)

=============================================================================
