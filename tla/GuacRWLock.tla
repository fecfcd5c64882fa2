----------------------------- MODULE GuacRWLock -----------------------------
(***************************************************************************)
(* The reentrant readers-writer lock of src/libguac/rwlock.c.  A pthread   *)
(* rwlock (external: the set of threads reading and the thread writing) is *)
(* wrapped with a thread-local word per thread, which packs a flag saying  *)
(* how the thread holds the lock into its low nibble and the number of     *)
(* acquisitions into the rest.                                             *)
(*                                                                         *)
(* An acquisition that must wait has two steps: the part before            *)
(* pthread_rwlock_rdlock()/wrlock(), which for an upgrade gives up the     *)
(* read lock, and the grant of the pthread lock with what follows it.      *)
(***************************************************************************)
EXTENDS Integers, FiniteSets

CONSTANTS Lockers,
          NoLocker,
          UINTPTR_MAX   \* the largest thread-local word

ASSUME ThreadAssumption == NoLocker \notin Lockers
ASSUME WordAssumption == /\ UINTPTR_MAX \in Nat
                         /\ UINTPTR_MAX > 16
                         /\ (UINTPTR_MAX + 1) % 16 = 0

VARIABLES readers,   \* threads holding the pthread lock for reading
          writer,    \* the thread holding it for writing
          key,       \* the thread-local word of each thread
          blocked,   \* "rd" or "wr" while inside pthread_rwlock_rdlock/wrlock
          depth      \* history: acquisitions less releases that succeeded

rwVars == <<readers, writer, key, blocked, depth>>

NO_LOCK    == 0
READ_LOCK  == 1
WRITE_LOCK == 2

get_lock_flag(v)  == v % 16
get_lock_count(v) == v \div 16

get_value_from_flag_and_count(flag, count) ==
  ((flag % 16) + count * 16) % (UINTPTR_MAX + 1)

would_overflow_count(count) == count >= UINTPTR_MAX \div 16

Flag(t)  == get_lock_flag(key[t])
Count(t) == get_lock_count(key[t])

RWLockTypeOK ==
  /\ readers \in SUBSET Lockers
  /\ writer \in Lockers \cup {NoLocker}
  /\ key \in [Lockers -> 0 .. UINTPTR_MAX]
  /\ blocked \in [Lockers -> {"no", "rd", "wr"}]
  /\ depth \in [Lockers -> 0 .. UINTPTR_MAX \div 16]

\* guac_rwlock_init()
RWLockInit ==
  /\ readers = {}
  /\ writer = NoLocker
  /\ key = [t \in Lockers |-> 0]
  /\ blocked = [t \in Lockers |-> "no"]
  /\ depth = [t \in Lockers |-> 0]

-----------------------------------------------------------------------------
(* The pthread rwlock *)

CanRead     == writer = NoLocker
CanWrite    == writer = NoLocker /\ readers = {}
Unlocked(t) == /\ readers' = readers \ {t}
               /\ writer' = IF writer = t THEN NoLocker ELSE writer

-----------------------------------------------------------------------------
setspecific(t, flag, count) ==
  key' = [key EXCEPT ![t] = get_value_from_flag_and_count(flag, count)]

Acquired(t) == depth' = [depth EXCEPT ![t] = @ + 1]

\* Both acquisitions refuse, changing nothing, when the count is at its limit.
AcquireTooMany(t) ==
  /\ blocked[t] = "no"
  /\ would_overflow_count(Count(t))
  /\ UNCHANGED rwVars

\* Either lock held allows reading, and the write lock another write: only the
\* count goes up.
Reenter(t, flags) ==
  /\ blocked[t] = "no"
  /\ ~would_overflow_count(Count(t))
  /\ Flag(t) \in flags
  /\ setspecific(t, Flag(t), Count(t) + 1)
  /\ Acquired(t)
  /\ UNCHANGED <<readers, writer, blocked>>

\* guac_rwlock_acquire_write_lock() up to pthread_rwlock_wrlock().
AcquireWriteBegin(t) ==
  /\ blocked[t] = "no"
  /\ ~would_overflow_count(Count(t))
  /\ Flag(t) # WRITE_LOCK
  /\ IF Flag(t) = READ_LOCK THEN Unlocked(t) ELSE UNCHANGED <<readers, writer>>
  /\ blocked' = [blocked EXCEPT ![t] = "wr"]
  /\ UNCHANGED <<key, depth>>

MutantUpgradeForgetsDepth(t) ==
  /\ blocked[t] = "wr"
  /\ CanWrite
  /\ writer' = t
  /\ setspecific(t, WRITE_LOCK, 1)
  /\ blocked' = [blocked EXCEPT ![t] = "no"]
  /\ Acquired(t)
  /\ UNCHANGED readers

\* ... and from its return on.
AcquireWriteEnd(t) ==
  /\ blocked[t] = "wr"
  /\ CanWrite
  /\ writer' = t
  /\ setspecific(t, WRITE_LOCK, Count(t) + 1)
  /\ blocked' = [blocked EXCEPT ![t] = "no"]
  /\ Acquired(t)
  /\ UNCHANGED readers

\* guac_rwlock_acquire_read_lock() up to pthread_rwlock_rdlock().
AcquireReadBegin(t) ==
  /\ blocked[t] = "no"
  /\ ~would_overflow_count(Count(t))
  /\ Flag(t) \notin {READ_LOCK, WRITE_LOCK}
  /\ blocked' = [blocked EXCEPT ![t] = "rd"]
  /\ UNCHANGED <<readers, writer, key, depth>>

AcquireReadEnd(t) ==
  /\ blocked[t] = "rd"
  /\ CanRead
  /\ readers' = readers \cup {t}
  /\ setspecific(t, READ_LOCK, 1)
  /\ blocked' = [blocked EXCEPT ![t] = "no"]
  /\ Acquired(t)
  /\ UNCHANGED writer

\* guac_rwlock_release_lock(): an error without the lock, the pthread lock
\* given back at the last level, one level less before that.
\* Mutant: the last level is never left.
MutantNeverUnlocks(t) ==
  /\ blocked[t] = "no"
  /\ Count(t) > 0
  /\ IF Count(t) = 1 THEN UNCHANGED <<key, depth>>
     ELSE /\ setspecific(t, Flag(t), Count(t) - 1)
          /\ depth' = [depth EXCEPT ![t] = @ - 1]
  /\ UNCHANGED <<readers, writer, blocked>>

guac_rwlock_release_lock(t) ==
  /\ blocked[t] = "no"
  /\ Count(t) > 0
  /\ IF Count(t) = 1
     THEN Unlocked(t) /\ setspecific(t, NO_LOCK, 0)
     ELSE setspecific(t, Flag(t), Count(t) - 1) /\ UNCHANGED <<readers, writer>>
  /\ depth' = [depth EXCEPT ![t] = @ - 1]
  /\ UNCHANGED blocked

ReleaseNotHeld(t) ==
  /\ blocked[t] = "no"
  /\ Count(t) <= 0
  /\ UNCHANGED rwVars

RWLockNext ==
  \E t \in Lockers :
    \/ AcquireTooMany(t)
    \/ Reenter(t, {WRITE_LOCK})
    \/ Reenter(t, {READ_LOCK, WRITE_LOCK})
    \/ AcquireWriteBegin(t)
    \/ AcquireWriteEnd(t)
    \/ AcquireReadBegin(t)
    \/ AcquireReadEnd(t)
    \/ guac_rwlock_release_lock(t)
    \/ ReleaseNotHeld(t)

RWLockSpec == RWLockInit /\ [][RWLockNext]_rwVars

\* No thread keeps the lock for ever: it releases each level it has taken, and
\* does not go on nesting for ever above one it holds.  A thread for which the
\* pthread lock is free again and again is not passed over for ever.
RWLockFairness ==
  \A t \in Lockers :
    /\ \A d \in 0 .. UINTPTR_MAX \div 16 :
         SF_rwVars(guac_rwlock_release_lock(t) /\ depth'[t] = d)
    /\ SF_rwVars(AcquireWriteEnd(t))
    /\ SF_rwVars(AcquireReadEnd(t))

RWLockFairSpec == RWLockSpec /\ RWLockFairness

-----------------------------------------------------------------------------
\* The thread-local word tells the truth about the pthread lock, except for a
\* thread in the middle of an acquisition, which holds nothing at all: an upgrade
\* that waited while still reading would wait for itself.
KeyMatchesLock ==
  \A t \in Lockers :
    IF blocked[t] = "no"
    THEN /\ t \in readers <=> Flag(t) = READ_LOCK
         /\ writer = t <=> Flag(t) = WRITE_LOCK
         /\ Flag(t) = NO_LOCK <=> Count(t) = 0
    ELSE t \notin readers /\ writer # t

\* A thread that believes it may write shares the lock with nobody that believes
\* it may read or write, through any nesting of acquisitions, upgrades and
\* releases.
Exclusion ==
  \A t, u \in Lockers :
    ( /\ t # u
      /\ blocked[t] = "no" /\ Flag(t) = WRITE_LOCK
      /\ blocked[u] = "no" ) => Flag(u) = NO_LOCK

\* rwlock.h: the lock is released "once the number of unlock requests matches
\* the number of lock requests".  The packed count is exactly their difference,
\* at the limit of the word and across upgrades too.
Balanced == \A t \in Lockers : Count(t) = depth[t]

\* A thread waiting to read gets the lock, however often other threads write or
\* upgrade.  (A waiting writer has no such promise: the pthread lock may be held
\* by an unbroken succession of readers.)
ReaderGetsLock ==
  \A t \in Lockers : (blocked[t] = "rd") ~> (blocked[t] = "no")

\* The word each thread keeps says what that thread holds of the pthread lock,
\* a writer is alone, and each thread is as deep as its acquisitions less its
\* releases, through upgrades and up to the limit of the word.
LockSound ==
  /\ RWLockTypeOK
  /\ KeyMatchesLock
  /\ Exclusion
  /\ Balanced

=============================================================================
