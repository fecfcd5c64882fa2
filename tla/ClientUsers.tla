---------------------------- MODULE ClientUsers ----------------------------
(***************************************************************************)
(* The users of one connection: the child process of guacd (src/guacd/     *)
(* proc.c) and the user lists of its guac_client (src/libguac/client.c).   *)
(*                                                                         *)
(* Threads: one per user, from handshake to departure; Promoter, which     *)
(* moves pending users to the list of full users; Caster, any thread that  *)
(* walks the full users (every write to the broadcast socket does); Main,  *)
(* which receives users' file descriptors and ends the process; and Freer, *)
(* which runs guac_client_free() while Main waits for a limited time.      *)
(*                                                                         *)
(* The two lists are guarded by two reentrant readers-writer locks, each   *)
(* here the thread that writes and the threads that read.  What a thread   *)
(* does between two waits is one action.                                   *)
(***************************************************************************)
EXTENDS Integers, Sequences, FiniteSets, SequencesExt

CONSTANTS Users,      \* the users that may connect
          Owner,      \* the one whose descriptor arrives first
          NoUser,
          Nobody

Promoter == "promoter"
Caster   == "caster"
Main     == "main"
Freer    == "freer"
Workers  == {Promoter, Caster, Main, Freer}
ClientThreads  == Users \cup Workers

PENDING == "pending_users_lock"
USERS   == "users_lock"
Locks   == {PENDING, USERS}

Labels == {"absent", "handshake", "adding", "joined", "input", "remove", "remove2",
           "leave", "check", "done", "unstarted", "loop", "lock", "promote", "idle",
           "iterate", "recv", "wait", "exit", "lock2", "free"}

ASSUME UsersAssumption ==
  /\ IsFiniteSet(Users)
  /\ Owner \in Users
  /\ NoUser \notin Users
  /\ Users \cap Workers = {}
  /\ Nobody \notin ClientThreads

VARIABLES client_state,            \* client->state
          fd_open,          \* proc->fd_socket is open
          __pending_users,  \* the lists, first user first
          __users,
          connected_users,
          __owner,
          list_writer,           \* who holds each lock for writing
          list_readers,          \* who holds it for reading
          pc,               \* where each thread is
          batch,            \* the users Promoter is moving
          cursor,           \* the user Caster is looking at
          left,             \* history: users whose leave handler has run
          freed             \* users freed by their thread, NoUser: the client

listVars == <<__pending_users, __users, connected_users, __owner>>
lockVars == <<list_writer, list_readers>>
clientVars == <<client_state, fd_open, listVars, lockVars, pc, batch, cursor, left, freed>>

ClientTypeOK ==
  /\ client_state \in {"RUNNING", "STOPPING"}
  /\ fd_open \in BOOLEAN
  /\ __pending_users \in Seq(Users) /\ __users \in Seq(Users)
  /\ connected_users \in -Cardinality(Users) .. Cardinality(Users)
  /\ __owner \in Users \cup {NoUser}
  /\ list_writer \in [Locks -> ClientThreads \cup {Nobody}]
  /\ list_readers \in [Locks -> SUBSET ClientThreads]
  /\ pc \in [ClientThreads -> Labels]
  /\ batch \in Seq(Users)
  /\ cursor \in Nat
  /\ left \in [Users -> 0 .. 2]
  /\ freed \in SUBSET (Users \cup {NoUser})

\* guac_client_alloc() and guacd_create_proc()
ClientInit ==
  /\ client_state = "RUNNING"
  /\ fd_open = TRUE
  /\ __pending_users = << >>
  /\ __users = << >>
  /\ connected_users = 0
  /\ __owner = NoUser
  /\ list_writer = [l \in Locks |-> Nobody]
  /\ list_readers = [l \in Locks |-> {}]
  /\ pc = [t \in ClientThreads |->
             CASE t \in Users  -> "absent"
               [] t = Promoter -> "unstarted"
               [] t = Caster   -> "idle"
               [] t = Main     -> "recv"
               [] OTHER        -> "unstarted"]
  /\ batch = << >>
  /\ cursor = 0
  /\ left = [u \in Users |-> 0]
  /\ freed = {}

-----------------------------------------------------------------------------
(* Locks (rwlock.c, see GuacRWLock) *)

ListCanWrite(l, t) == list_writer[l] \in {Nobody, t} /\ list_readers[l] \subseteq {t}
ListCanRead(l, t)  == list_writer[l] \in {Nobody, t}

LockWrite(l, t) == list_writer' = [list_writer EXCEPT ![l] = t] /\ UNCHANGED list_readers
LockRead(l, t)  == /\ list_readers' = [list_readers EXCEPT ![l] = @ \cup {t}]
                   /\ UNCHANGED list_writer

UnlockAll(ls, t) ==
  /\ list_writer' = [l \in Locks |->
                  IF l \in ls /\ list_writer[l] = t THEN Nobody ELSE list_writer[l]]
  /\ list_readers' = [l \in Locks |->
                   IF l \in ls THEN list_readers[l] \ {t} ELSE list_readers[l]]

GoTo(t, label) == pc' = [pc EXCEPT ![t] = label]

\* The client's memory is still there.
Alive == NoUser \notin freed
Ended == pc[Main] = "exit"

-----------------------------------------------------------------------------
(* A user's thread: guacd_user_thread() and guac_user_handle_connection() *)

\* The handshake ends: with a user the plugin's join handler accepts, or without
\* (it failed, timed out, or the handler refused the user).
Handshake(u) ==
  /\ pc[u] = "handshake"
  /\ \E label \in {"adding", "check"} : GoTo(u, label)
  /\ UNCHANGED <<client_state, fd_open, listVars, lockVars, batch, cursor, left, freed>>

\* guac_client_add_pending_user(), all of it under the pending lock.
MutantNotStarted(u) ==
  /\ Alive
  /\ pc[u] = "adding"
  /\ ListCanWrite(PENDING, u)
  /\ __pending_users' = <<u>> \o __pending_users
  /\ connected_users' = connected_users + 1
  /\ GoTo(u, "joined")
  /\ UNCHANGED <<client_state, fd_open, __users, __owner, lockVars, batch, cursor,
                 left, freed>>

AddPendingUser(u) ==
  /\ Alive
  /\ pc[u] = "adding"
  /\ ListCanWrite(PENDING, u)
  /\ __pending_users' = <<u>> \o __pending_users
  /\ connected_users' = connected_users + 1
  /\ pc' = [pc EXCEPT ![u] = "joined",
                      ![Promoter] = IF @ = "unstarted" THEN "loop" ELSE @]
  /\ UNCHANGED <<client_state, fd_open, __users, __owner, lockVars, batch, cursor,
                 left, freed>>

\* The rest of guac_client_add_user(): the owner pointer is set without a lock;
\* for another user, the owner is notified under the read lock of the full users.
SetOwner(u) ==
  /\ Alive
  /\ pc[u] = "joined"
  /\ \/ u = Owner /\ __owner' = u
     \/ u # Owner /\ ListCanRead(USERS, u) /\ UNCHANGED __owner
  /\ GoTo(u, "input")
  /\ UNCHANGED <<client_state, fd_open, __pending_users, __users, connected_users,
                 lockVars, batch, cursor, left, freed>>

\* guac_user_input_thread() ends: the user disconnected, failed or timed out, or
\* the client is no longer running.
InputEnds(u) ==
  /\ pc[u] = "input"
  /\ GoTo(u, "remove")
  /\ UNCHANGED <<client_state, fd_open, listVars, lockVars, batch, cursor, left, freed>>

\* guac_client_remove_user(): both locks, then the lists.
RemoveLockPending(u) ==
  /\ Alive
  /\ pc[u] = "remove"
  /\ ListCanWrite(PENDING, u)
  /\ LockWrite(PENDING, u)
  /\ GoTo(u, "remove2")
  /\ UNCHANGED <<client_state, fd_open, listVars, batch, cursor, left, freed>>

Unlink(u) ==
  /\ __users' = RemoveFirst(__users, u)
  /\ __pending_users' = RemoveFirst(__pending_users, u)
  /\ connected_users' = connected_users - 1
  /\ __owner' = IF u = Owner THEN NoUser ELSE __owner

MutantRemoveUnlocked(u) ==
  /\ Alive
  /\ pc[u] = "remove2"
  /\ Unlink(u)
  /\ UnlockAll(Locks, u)
  /\ GoTo(u, "leave")
  /\ UNCHANGED <<client_state, fd_open, batch, cursor, left, freed>>

RemoveUser(u) ==
  /\ Alive
  /\ pc[u] = "remove2"
  /\ ListCanWrite(USERS, u)
  /\ Unlink(u)
  /\ UnlockAll(Locks, u)
  /\ GoTo(u, "leave")
  /\ UNCHANGED <<client_state, fd_open, batch, cursor, left, freed>>

\* The owner is notified, then the leave handler called.
LeaveHandler(u) ==
  /\ Alive
  /\ pc[u] = "leave"
  /\ u = Owner \/ ListCanRead(USERS, u)
  /\ left' = [left EXCEPT ![u] = @ + 1]
  /\ GoTo(u, "check")
  /\ UNCHANGED <<client_state, fd_open, listVars, lockVars, batch, cursor, freed>>

\* The end of guacd_user_thread(): whoever finds the connection without users
\* stops it (guacd_proc_stop() in the child); the user is freed.
CheckLastUser(u) ==
  /\ Alive
  /\ pc[u] = "check"
  /\ IF connected_users = 0
     THEN client_state' = "STOPPING" /\ fd_open' = FALSE
     ELSE UNCHANGED <<client_state, fd_open>>
  /\ freed' = freed \cup {u}
  /\ GoTo(u, "done")
  /\ UNCHANGED <<listVars, lockVars, batch, cursor, left>>

UserStep(u) ==
  /\ ~Ended
  /\ \/ Handshake(u)
     \/ AddPendingUser(u)
     \/ SetOwner(u)
     \/ InputEnds(u)
     \/ RemoveLockPending(u)
     \/ RemoveUser(u)
     \/ LeaveHandler(u)
     \/ CheckLastUser(u)

-----------------------------------------------------------------------------
(* guac_client_pending_users_thread(), guac_client_promote_pending_users() *)

PromoterLoop ==
  /\ pc[Promoter] = "loop"
  /\ GoTo(Promoter, IF client_state = "RUNNING" THEN "lock" ELSE "done")
  /\ UNCHANGED <<client_state, fd_open, listVars, lockVars, batch, cursor, left, freed>>

\* The pending lock is taken; nothing to do if nobody is pending or the plugin's
\* join_pending_handler fails, in which case the users stay pending.
PromoteNothing ==
  /\ pc[Promoter] = "lock"
  /\ ListCanWrite(PENDING, Promoter)
  /\ GoTo(Promoter, "loop")
  /\ UNCHANGED <<client_state, fd_open, listVars, lockVars, batch, cursor, left, freed>>

\* The handler succeeded: the pending list is emptied, under its lock.
MutantPromoteUnlocked ==
  /\ pc[Promoter] = "lock"
  /\ __pending_users # << >>
  /\ ListCanWrite(PENDING, Promoter)
  /\ batch' = __pending_users
  /\ __pending_users' = << >>
  /\ GoTo(Promoter, "promote")
  /\ UNCHANGED <<client_state, fd_open, __users, connected_users, __owner, lockVars,
                 cursor, left, freed>>

PromoteTake ==
  /\ pc[Promoter] = "lock"
  /\ __pending_users # << >>
  /\ ListCanWrite(PENDING, Promoter)
  /\ LockWrite(PENDING, Promoter)
  /\ batch' = __pending_users
  /\ __pending_users' = << >>
  /\ GoTo(Promoter, "promote")
  /\ UNCHANGED <<client_state, fd_open, __users, connected_users, __owner, cursor,
                 left, freed>>

\* ... and its users put in front of the full users, under both locks.
PromotePut ==
  /\ pc[Promoter] = "promote"
  /\ ListCanWrite(USERS, Promoter)
  /\ __users' = batch \o __users
  /\ batch' = << >>
  /\ UnlockAll({PENDING}, Promoter)
  /\ GoTo(Promoter, "loop")
  /\ UNCHANGED <<client_state, fd_open, __pending_users, connected_users, __owner,
                 cursor, left, freed>>

PromoterStep ==
  ~Ended /\ (PromoterLoop \/ PromoteNothing \/ PromoteTake \/ PromotePut)

-----------------------------------------------------------------------------
(* guac_client_foreach_user() *)

ForeachBegin ==
  /\ Alive
  /\ pc[Caster] = "idle"
  /\ ListCanRead(USERS, Caster)
  /\ LockRead(USERS, Caster)
  /\ cursor' = 1
  /\ GoTo(Caster, "iterate")
  /\ UNCHANGED <<client_state, fd_open, listVars, batch, left, freed>>

ForeachNext ==
  /\ Alive
  /\ pc[Caster] = "iterate"
  /\ cursor < Len(__users)
  /\ cursor' = cursor + 1
  /\ UNCHANGED <<client_state, fd_open, listVars, lockVars, pc, batch, left, freed>>

ForeachEnd ==
  /\ Alive
  /\ pc[Caster] = "iterate"
  /\ cursor >= Len(__users)
  /\ UnlockAll({USERS}, Caster)
  /\ cursor' = 0
  /\ GoTo(Caster, "idle")
  /\ UNCHANGED <<client_state, fd_open, listVars, batch, left, freed>>

CasterStep == ~Ended /\ (ForeachBegin \/ ForeachNext \/ ForeachEnd)

-----------------------------------------------------------------------------
(* guacd_exec_proc(): the process's main thread *)

\* A descriptor arrives: guacd_proc_add_user().  The owner's comes first.
ReceiveUser(u) ==
  /\ pc[Main] = "recv"
  /\ fd_open
  /\ pc[u] = "absent"
  /\ u = Owner \/ pc[Owner] # "absent"
  /\ GoTo(u, "handshake")
  /\ UNCHANGED <<client_state, fd_open, listVars, lockVars, batch, cursor, left, freed>>

\* SIGINT or SIGTERM: signal_stop_handler().
Signal ==
  /\ pc[Main] = "recv"
  /\ fd_open
  /\ client_state' = "STOPPING"
  /\ fd_open' = FALSE
  /\ UNCHANGED <<listVars, lockVars, pc, batch, cursor, left, freed>>

\* A thread of the plugin gives up: guac_client_abort().  The socket stays open;
\* the users' input threads notice.
Abort ==
  /\ Alive /\ ~Ended
  /\ \E u \in Users : pc[u] \in {"adding", "joined", "input", "remove", "remove2", "leave"}
  /\ client_state = "RUNNING"
  /\ client_state' = "STOPPING"
  /\ UNCHANGED <<fd_open, listVars, lockVars, pc, batch, cursor, left, freed>>

\* The socket is closed: stop the client, start guacd_client_free_thread().
StartFree ==
  /\ pc[Main] = "recv"
  /\ ~fd_open
  /\ client_state' = "STOPPING"
  /\ pc' = [pc EXCEPT ![Main] = "wait", ![Freer] = "lock"]
  /\ UNCHANGED <<fd_open, listVars, lockVars, batch, cursor, left, freed>>

\* guacd_timed_client_free() returns: the client was freed, or the time is up
\* and guacd_kill_current_proc_group() ends the process.
ExitProcess ==
  /\ pc[Main] = "wait"
  /\ GoTo(Main, "exit")
  /\ UNCHANGED <<client_state, fd_open, listVars, lockVars, batch, cursor, left, freed>>

MainStep ==
  \/ \E u \in Users : ReceiveUser(u)
  \/ Signal
  \/ Abort
  \/ StartFree
  \/ ExitProcess

-----------------------------------------------------------------------------
(* guac_client_free() *)

FreeLockPending ==
  /\ pc[Freer] = "lock"
  /\ ListCanWrite(PENDING, Freer)
  /\ LockWrite(PENDING, Freer)
  /\ GoTo(Freer, "lock2")
  /\ UNCHANGED <<client_state, fd_open, listVars, batch, cursor, left, freed>>

FreeLockUsers ==
  /\ pc[Freer] = "lock2"
  /\ ListCanWrite(USERS, Freer)
  /\ LockWrite(USERS, Freer)
  /\ GoTo(Freer, "remove")
  /\ UNCHANGED <<client_state, fd_open, listVars, batch, cursor, left, freed>>

\* One turn of either loop: guac_client_remove_user() of the first user, the
\* pending ones before the full ones.  The locks are held already.
FreeRemoveUser ==
  /\ pc[Freer] = "remove"
  /\ __pending_users \o __users # << >>
  /\ LET u == Head(__pending_users \o __users) IN
       /\ Unlink(u)
       /\ left' = [left EXCEPT ![u] = @ + 1]
  /\ UNCHANGED <<client_state, fd_open, lockVars, pc, batch, cursor, freed>>

\* pthread_join() of the pending users thread, still holding both locks.
FreeJoinPromoter ==
  /\ pc[Freer] = "remove"
  /\ __pending_users \o __users = << >>
  /\ pc[Promoter] \in {"unstarted", "done"}
  /\ UnlockAll(Locks, Freer)
  /\ GoTo(Freer, "free")
  /\ UNCHANGED <<client_state, fd_open, listVars, batch, cursor, left, freed>>

\* The plugin's free_handler has returned; locks, sockets and the client are freed.
FreeMemory ==
  /\ pc[Freer] = "free"
  /\ freed' = freed \cup {NoUser}
  /\ GoTo(Freer, "done")
  /\ UNCHANGED <<client_state, fd_open, listVars, lockVars, batch, cursor, left>>

FreerStep ==
  /\ ~Ended
  /\ \/ FreeLockPending
     \/ FreeLockUsers
     \/ FreeRemoveUser
     \/ FreeJoinPromoter
     \/ FreeMemory

-----------------------------------------------------------------------------
\* The process has ended.
Finished == Ended /\ UNCHANGED clientVars

ClientNext ==
  \/ \E u \in Users : UserStep(u)
  \/ PromoterStep
  \/ CasterStep
  \/ MainStep
  \/ FreerStep
  \/ Finished

ClientSpec == ClientInit /\ [][ClientNext]_clientVars

\* Every thread keeps running, and is not passed over for a lock for ever.  The
\* join_pending_handler does not fail for ever.  A user's input thread looks at the
\* state at the latest when reading times out.  No fairness for users arriving,
\* completing the handshake or leaving, nor for signals, nor (without TimeLimit)
\* for Main giving up waiting.
ClientFairness ==
  /\ \A u \in Users :
       /\ SF_clientVars(UserStep(u) /\ pc[u] \notin {"handshake", "input"})
       /\ WF_clientVars(UserStep(u) /\ pc[u] = "input" /\ client_state = "STOPPING")
  /\ SF_clientVars(PromoterStep)
  /\ SF_clientVars(~Ended /\ PromoteTake)
  /\ WF_clientVars(CasterStep /\ pc[Caster] = "iterate")
  /\ WF_clientVars(StartFree)
  /\ SF_clientVars(FreerStep)

\* GUACD_CLIENT_FREE_TIMEOUT: Main does not wait for ever.
TimeLimit == WF_clientVars(ExitProcess)

ClientFairSpec == ClientSpec /\ ClientFairness

ClientLiveSpec == ClientFairSpec /\ TimeLimit

-----------------------------------------------------------------------------
Member(u) == pc[u] \in {"joined", "input", "remove", "remove2"}

Occurs(u, s) == Cardinality({n \in 1 .. Len(s) : s[n] = u})

\* guac_client_free() has not begun to remove users under their threads' feet.
NotFreeing == pc[Freer] \in {"unstarted", "lock", "lock2"}

\* client.c: "all users are always on exactly one of these lists".  That is what
\* any thread sees that holds the pending lock, for exactly the users that have
\* joined and whose thread has not removed them.
OnExactlyOneList ==
  (NotFreeing /\ (list_writer[PENDING] = Nobody \/ pc[Promoter] # "promote")) =>
    \A u \in Users :
      Occurs(u, __pending_users) + Occurs(u, __users) = IF Member(u) THEN 1 ELSE 0

\* A thread walking the full users under the read lock never comes to a user whose
\* own thread has freed it, nor past the end of the list.
IterationSafe ==
  pc[Caster] = "iterate" =>
    /\ cursor <= Len(__users) \/ __users = << >>
    /\ \A n \in 1 .. Len(__users) : __users[n] \notin freed

\* The owner to be notified (guac_client_for_owner()) is never a freed user, though
\* the pointer is set without the lock under which it is read.
OwnerAlive == __owner \notin freed \ {NoUser}

\* Whoever holds the read lock of the full users sees neither the list nor a
\* known owner change.
StableWhileIterated ==
  [][(pc[Caster] = "iterate" /\ pc'[Caster] = "iterate") =>
        /\ __users' = __users
        /\ __owner # NoUser => __owner' = __owner]_clientVars

\* client.h: connected_users is "the number of currently-connected users", which
\* guacd_user_thread() reads without a lock to decide whether to stop.
CountMatches ==
  NotFreeing => connected_users = Cardinality({u \in Users : Member(u)})

\* The connection does not outlive its users: when the last one is gone the process
\* accepts no others, whatever the order in which they left.
StopsWhenEmpty ==
  (\A u \in Users : pc[u] = "done") => ~fd_open

\* A user does not stay pending for ever: it is promoted or removed, even one that
\* joined after the pending users thread has stopped.
PendingPromoted ==
  \A u \in Users :
    (u \in ToSet(__pending_users)) ~> (u \notin ToSet(__pending_users) \/ Ended)

\* Once the client is told to stop, by a signal, by the last user leaving or by its
\* plugin, the process ends, whatever its threads are waiting for.
ProcessEnds == (client_state = "STOPPING") ~> Ended

\* Wherever the threads are: a user that has joined is on one list exactly
\* once, the count of connected users is that of the lists, a running client
\* has users or one still on its way, and neither a walker nor the owner
\* pointer leads to a user that was freed.
ListsSound ==
  /\ ClientTypeOK
  /\ OnExactlyOneList
  /\ CountMatches
  /\ StopsWhenEmpty
  /\ IterationSafe
  /\ OwnerAlive

\* A pending user is promoted, or leaves, or the client stops; and a process
\* whose client stops ends.
UsersProgress ==
  /\ PendingPromoted
  /\ ProcessEnds

=============================================================================
