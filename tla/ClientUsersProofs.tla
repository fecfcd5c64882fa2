------------------------- MODULE ClientUsersProofs --------------------------
(***************************************************************************)
(* Theorems about the users of a connection: for any number of users, a    *)
(* user that has joined is on one list exactly once, the count of users is *)
(* right, the connection closes with its last user, and nobody comes       *)
(* across a user that was freed.                                           *)
(***************************************************************************)
EXTENDS ClientUsers, ListLemmas, FiniteSetTheorems

\* Who holds the locks, by where the threads are.
LocksHeld ==
  /\ list_readers[PENDING] = {}
  /\ list_readers[USERS] = IF pc[Caster] = "iterate" THEN {Caster} ELSE {}
  /\ list_writer[USERS] = IF pc[Freer] = "remove" THEN Freer ELSE Nobody
  /\ pc[Caster] = "iterate" => pc[Freer] # "remove"
  /\ pc[Promoter] = "promote" => list_writer[PENDING] = Promoter
  /\ pc[Freer] \in {"lock2", "remove"} => list_writer[PENDING] = Freer
  /\ \A u \in Users : pc[u] = "remove2" => list_writer[PENDING] = u

Listed(u) ==
  Contains(__pending_users, u) \/ Contains(batch, u) \/ Contains(__users, u)

\* The lists, and the users on their way from one to the other, are disjoint
\* and hold members only; all of them until guac_client_free() removes some.
ListsDisjoint ==
  /\ Once(__pending_users) /\ Once(batch) /\ Once(__users)
  /\ Apart(__pending_users, batch)
  /\ Apart(__pending_users, __users)
  /\ Apart(batch, __users)
  /\ pc[Promoter] # "promote" => batch = << >>
  /\ \A u \in Users : Listed(u) => Member(u) /\ left[u] = 0
  /\ \A u \in Users : NotFreeing /\ Member(u) => Listed(u)

\* guac_client_free() has removed the user, whose own thread does so again.
RemovedByFreer(u) ==
  \/ (Member(u) \/ pc[u] = "leave") /\ left[u] = 1
  \/ left[u] = 2

Members == {u \in Users : Member(u)}
Removed == {u \in Users : RemovedByFreer(u)}

\* How often the leave handler of a user has run.
LeftOnce ==
  \A u \in Users :
    /\ pc[u] \in {"absent", "handshake", "adding"} => left[u] = 0
    /\ Member(u) \/ pc[u] = "leave" => left[u] <= 1
    /\ NotFreeing => ~RemovedByFreer(u)

\* The count is that of the members, less those that were subtracted already.
CountExact == connected_users = Cardinality(Members) - Cardinality(Removed)

FreedDone == \A u \in Users : u \in freed => pc[u] = "done"

\* guac_client_free() is started once, when nobody can connect any more.
FreeingClosed ==
  /\ pc[Freer] # "unstarted" => ~fd_open
  /\ pc[Main] = "recv" => pc[Freer] = "unstarted"

OwnerPresent ==
  /\ __owner \in {NoUser, Owner}
  /\ __owner = Owner => pc[Owner] \in {"input", "remove", "remove2"}

CursorInside == pc[Caster] = "iterate" => cursor <= Len(__users) \/ __users = << >>

ClientInv ==
  /\ ClientTypeOK
  /\ LocksHeld
  /\ ListsDisjoint
  /\ LeftOnce
  /\ CountExact
  /\ FreedDone
  /\ FreeingClosed
  /\ OwnerPresent
  /\ CursorInside
  /\ StopsWhenEmpty

-----------------------------------------------------------------------------
\* How often a user occurs on a list without repetition.
LEMMA OccursOnce ==
  ASSUME NEW s \in Seq(Users), Once(s), NEW u
  PROVE  Occurs(u, s) = IF Contains(s, u) THEN 1 ELSE 0
<1>1. CASE Contains(s, u)
  <2>1. PICK n \in 1 .. Len(s) : s[n] = u
    BY <1>1 DEF Contains
  <2>2. {i \in 1 .. Len(s) : s[i] = u} = {n}
    BY <2>1 DEF Once
  <2> QED  BY <1>1, <2>2, FS_Singleton DEF Occurs
<1>2. CASE ~Contains(s, u)
  <2>1. {i \in 1 .. Len(s) : s[i] = u} = {}
    BY <1>2 DEF Contains
  <2> QED  BY <1>2, <2>1, FS_EmptySet DEF Occurs
<1> QED  BY <1>1, <1>2

-----------------------------------------------------------------------------
(* The steps *)

\* The users and the threads of the client are different threads (client.c).
LEMMA ThreadsApart ==
  /\ \A u \in Users : /\ u # Promoter /\ u # Caster /\ u # Main /\ u # Freer
                      /\ u \in ClientThreads /\ u # Nobody /\ u # NoUser
  /\ Promoter \in ClientThreads /\ Caster \in ClientThreads
  /\ Main \in ClientThreads /\ Freer \in ClientThreads
  /\ Promoter # Caster /\ Promoter # Main /\ Promoter # Freer
  /\ Caster # Main /\ Caster # Freer /\ Main # Freer
  /\ Nobody \notin ClientThreads /\ PENDING # USERS
  /\ PENDING \in Locks /\ USERS \in Locks
BY UsersAssumption DEF Workers, Promoter, Caster, Main, Freer, ClientThreads, PENDING, USERS, Locks

\* The types the invariant gives to the variables.
LEMMA TypesKnown ==
  ASSUME ClientInv
  PROVE  /\ pc \in [ClientThreads -> Labels]
         /\ list_writer \in [Locks -> ClientThreads \cup {Nobody}]
         /\ list_readers \in [Locks -> SUBSET ClientThreads]
         /\ left \in [Users -> 0 .. 2]
         /\ __pending_users \in Seq(Users) /\ batch \in Seq(Users) /\ __users \in Seq(Users)
BY DEF ClientInv, ClientTypeOK

\* The members and the removed users are finitely many, so that their
\* difference is a bounded number (guac_client.connected_users).
LEMMA CountsFinite ==
  /\ IsFiniteSet(Members) /\ IsFiniteSet(Removed)
  /\ Cardinality(Members) - Cardinality(Removed)
       \in -Cardinality(Users) .. Cardinality(Users)
<1>1. Members \in SUBSET Users /\ Removed \in SUBSET Users
  BY DEF Members, Removed
<1>2. /\ IsFiniteSet(Members) /\ Cardinality(Members) <= Cardinality(Users)
      /\ IsFiniteSet(Removed) /\ Cardinality(Removed) <= Cardinality(Users)
  BY <1>1, UsersAssumption, FS_Subset
<1>3. /\ Cardinality(Members) \in Nat /\ Cardinality(Removed) \in Nat
      /\ Cardinality(Users) \in Nat
  BY <1>2, UsersAssumption, FS_CardinalityType
<1> QED  BY <1>2, <1>3

\* The count after a step.
LEMMA CountInRange ==
  ASSUME CountExact'
  PROVE  connected_users' \in -Cardinality(Users) .. Cardinality(Users)
<1>1. Members' \in SUBSET Users /\ Removed' \in SUBSET Users
  BY DEF Members, Removed
<1>2. /\ IsFiniteSet(Members') /\ Cardinality(Members') <= Cardinality(Users)
      /\ IsFiniteSet(Removed') /\ Cardinality(Removed') <= Cardinality(Users)
  BY <1>1, UsersAssumption, FS_Subset
<1>3. /\ Cardinality(Members') \in Nat /\ Cardinality(Removed') \in Nat
      /\ Cardinality(Users) \in Nat
  BY <1>2, UsersAssumption, FS_CardinalityType
<1> QED  BY <1>2, <1>3 DEF CountExact

\* Steps of users' threads, and of Main for one, that leave the lists alone.
LEMMA UserMoves ==
  ASSUME ClientInv, NEW u \in Users,
         Handshake(u) \/ SetOwner(u) \/ InputEnds(u) \/ RemoveLockPending(u) \/ ReceiveUser(u)
  PROVE  ClientInv'
<1> USE ThreadsApart, TypesKnown
    DEF Handshake, SetOwner, InputEnds, RemoveLockPending, ReceiveUser, listVars, lockVars,
        GoTo, LockWrite
<1>1. ClientTypeOK'
  BY DEF ClientInv, ClientTypeOK, Labels
<1>2. LocksHeld'
  BY DEF ClientInv, LocksHeld, ListCanWrite
<1>3. ListsDisjoint'
  BY DEF ClientInv, ListsDisjoint, Listed, Member, NotFreeing
<1>4. LeftOnce'
  BY DEF ClientInv, LeftOnce, RemovedByFreer, Member, NotFreeing
<1>5. CountExact'
  <2>1. Members' = Members
    BY DEF Members, Member
  <2>2. Removed' = Removed
    BY DEF Removed, RemovedByFreer, Member
  <2> QED  BY <2>1, <2>2 DEF ClientInv, CountExact
<1>6. FreedDone' /\ FreeingClosed'
  BY DEF ClientInv, FreedDone, FreeingClosed
<1>7. OwnerPresent' /\ CursorInside'
  BY UsersAssumption DEF ClientInv, OwnerPresent, CursorInside
<1>8. StopsWhenEmpty'
  BY DEF ClientInv, StopsWhenEmpty
<1> QED  BY <1>1, <1>2, <1>3, <1>4, <1>5, <1>6, <1>7, <1>8 DEF ClientInv

\* Steps of the other threads that do.
LEMMA WorkersMove ==
  ASSUME ClientInv,
         \/ PromoterLoop \/ PromoteNothing \/ Signal \/ Abort \/ ExitProcess
         \/ ForeachBegin \/ ForeachNext \/ ForeachEnd
  PROVE  ClientInv'
<1> USE ThreadsApart, TypesKnown
    DEF PromoterLoop, PromoteNothing, Signal, Abort, ExitProcess, ForeachBegin, ForeachNext,
        ForeachEnd, listVars, lockVars, GoTo, LockRead, UnlockAll
<1>1. ClientTypeOK'
  <2>1. CASE PromoterLoop \/ PromoteNothing \/ Signal \/ Abort \/ ExitProcess
    BY <2>1 DEF ClientInv, ClientTypeOK, Labels
  <2>2. CASE ForeachBegin
    BY <2>2 DEF ClientInv, ClientTypeOK, Labels
  <2>3. CASE ForeachNext
    BY <2>3 DEF ClientInv, ClientTypeOK, Labels
  <2>4. CASE ForeachEnd
    BY <2>4 DEF ClientInv, ClientTypeOK, Labels
  <2> QED  BY <2>1, <2>2, <2>3, <2>4
<1>2. LocksHeld'
  <2>1. CASE PromoterLoop \/ PromoteNothing \/ Signal \/ Abort \/ ExitProcess
    BY <2>1 DEF ClientInv, LocksHeld
  <2>2. CASE ForeachBegin
    BY <2>2 DEF ClientInv, LocksHeld, ListCanRead
  <2>3. CASE ForeachNext
    BY <2>3 DEF ClientInv, LocksHeld
  <2>4. CASE ForeachEnd
    BY <2>4 DEF ClientInv, LocksHeld
  <2> QED  BY <2>1, <2>2, <2>3, <2>4
<1>3. ListsDisjoint'
  BY DEF ClientInv, ListsDisjoint, Listed, Member, NotFreeing
<1>4. LeftOnce'
  BY DEF ClientInv, LeftOnce, RemovedByFreer, Member, NotFreeing
<1>5. CountExact'
  <2>1. Members' = Members
    BY DEF Members, Member
  <2>2. Removed' = Removed
    BY DEF Removed, RemovedByFreer, Member
  <2> QED  BY <2>1, <2>2 DEF ClientInv, CountExact
<1>6. FreedDone' /\ FreeingClosed' /\ OwnerPresent'
  BY UsersAssumption DEF ClientInv, FreedDone, FreeingClosed, OwnerPresent
<1>7. CursorInside'
  <2>1. cursor \in Nat /\ Len(__users) \in Nat /\ (__users # << >> => Len(__users) # 0)
    BY EmptySeq, LenProperties DEF ClientInv, ClientTypeOK
  <2>2. CASE ForeachNext
    <3>1. cursor' = cursor + 1 /\ cursor < Len(__users) /\ __users' = __users
      BY <2>2
    <3> QED  BY <2>1, <3>1 DEF CursorInside
  <2>3. CASE ForeachBegin
    <3>1. cursor' = 1 /\ __users' = __users
      BY <2>3
    <3> QED  BY <2>1, <3>1 DEF CursorInside
  <2>4. CASE ~ForeachNext /\ ~ForeachBegin
    BY <2>4 DEF ClientInv, CursorInside
  <2> QED  BY <2>2, <2>3, <2>4
<1>8. StopsWhenEmpty'
  BY DEF ClientInv, StopsWhenEmpty
<1> QED  BY <1>1, <1>2, <1>3, <1>4, <1>5, <1>6, <1>7, <1>8 DEF ClientInv

\* The steps of guac_client_free() that do not remove a user.
LEMMA FreerMoves ==
  ASSUME ClientInv,
         StartFree \/ FreeLockPending \/ FreeLockUsers \/ FreeJoinPromoter \/ FreeMemory
  PROVE  ClientInv'
<1> USE ThreadsApart, TypesKnown
<1>0. /\ \A t \in ClientThreads \ {Main, Freer} : pc'[t] = pc[t]
      /\ pc'[Freer] \in {"lock", "lock2", "remove", "free", "done"}
      /\ pc' \in [ClientThreads -> Labels]
      /\ NotFreeing' => NotFreeing
      /\ listVars' = listVars /\ batch' = batch /\ cursor' = cursor /\ left' = left
      /\ fd_open' = fd_open /\ (pc[Freer] = "unstarted" => ~fd_open)
      /\ freed' \in {freed, freed \cup {NoUser}}
      /\ client_state' \in {client_state, "STOPPING"}
  <2>1. CASE StartFree
    <3>1. /\ pc' = [pc EXCEPT ![Main] = "wait", ![Freer] = "lock"]
          /\ pc[Freer] = "unstarted"
      BY <2>1 DEF StartFree, ClientInv, FreeingClosed
    <3>2. /\ pc'[Freer] = "lock"
          /\ \A t \in ClientThreads \ {Main, Freer} : pc'[t] = pc[t]
          /\ pc' \in [ClientThreads -> Labels]
      BY <3>1 DEF Labels
    <3> QED  BY <2>1, <3>1, <3>2 DEF StartFree, NotFreeing, listVars
  <2>2. CASE FreeLockPending \/ FreeLockUsers \/ FreeJoinPromoter \/ FreeMemory
    BY <2>2 DEF FreeLockPending, FreeLockUsers, FreeJoinPromoter, FreeMemory, GoTo,
                NotFreeing, listVars, Labels
  <2> QED  BY <2>1, <2>2
<1>1. ClientTypeOK'
  BY <1>0 DEF ClientInv, ClientTypeOK, listVars, lockVars, LockWrite, UnlockAll, StartFree,
              FreeLockPending, FreeLockUsers, FreeJoinPromoter, FreeMemory
<1>2. LocksHeld'
  <2>1. CASE StartFree
    <3>1. list_writer' = list_writer /\ list_readers' = list_readers
      BY <2>1 DEF StartFree, lockVars
    <3>2. pc[Freer] = "unstarted" /\ pc'[Freer] = "lock"
      BY <2>1 DEF StartFree, ClientInv, FreeingClosed
    <3> QED  BY <1>0, <3>1, <3>2 DEF ClientInv, LocksHeld
  <2>2. CASE FreeLockPending \/ FreeLockUsers \/ FreeJoinPromoter \/ FreeMemory
    BY <2>2 DEF ClientInv, LocksHeld, FreeLockPending, FreeLockUsers, FreeJoinPromoter,
                FreeMemory, GoTo, LockWrite, UnlockAll, ListCanWrite, lockVars
  <2> QED  BY <2>1, <2>2
<1>3. ListsDisjoint'
  BY <1>0 DEF ClientInv, ListsDisjoint, Listed, Member, listVars
<1>4. LeftOnce'
  BY <1>0 DEF ClientInv, LeftOnce, RemovedByFreer, Member
<1>5. CountExact'
  <2>1. Members' = Members
    BY <1>0 DEF Members, Member
  <2>2. Removed' = Removed
    BY <1>0 DEF Removed, RemovedByFreer, Member
  <2> QED  BY <1>0, <2>1, <2>2 DEF ClientInv, CountExact, listVars
<1>6. FreedDone' /\ OwnerPresent' /\ CursorInside'
  BY <1>0, UsersAssumption DEF ClientInv, FreedDone, OwnerPresent, CursorInside, listVars
<1>7. FreeingClosed'
  <2>1. pc[Freer] = "unstarted" => pc[Main] = "recv" /\ StartFree
    BY DEF StartFree, FreeLockPending, FreeLockUsers, FreeJoinPromoter, FreeMemory
  <2>2. pc'[Main] # "recv"
    BY DEF StartFree, FreeLockPending, FreeLockUsers, FreeJoinPromoter, FreeMemory, GoTo,
           ClientInv, FreeingClosed
  <2> QED  BY <1>0, <2>1, <2>2 DEF ClientInv, FreeingClosed
<1>8. StopsWhenEmpty'
  BY <1>0 DEF ClientInv, StopsWhenEmpty
<1> QED  BY <1>1, <1>2, <1>3, <1>4, <1>5, <1>6, <1>7, <1>8 DEF ClientInv

\* guac_client_add_pending_user() keeps the invariant.
LEMMA AddPendingUserKept ==
  ASSUME ClientInv, NEW u \in Users, AddPendingUser(u)
  PROVE  ClientInv'
<1> USE ThreadsApart, TypesKnown
<1>0. /\ __pending_users' = <<u>> \o __pending_users
      /\ __users' = __users /\ batch' = batch /\ __owner' = __owner /\ left' = left
      /\ list_writer' = list_writer /\ list_readers' = list_readers
      /\ connected_users' = connected_users + 1
      /\ pc[u] = "adding" /\ pc'[u] = "joined"
      /\ pc'[Promoter] = IF pc[Promoter] = "unstarted" THEN "loop" ELSE pc[Promoter]
      /\ \A t \in ClientThreads \ {u, Promoter} : pc'[t] = pc[t]
      /\ pc' \in [ClientThreads -> Labels]
      /\ NotFreeing' = NotFreeing
  BY DEF AddPendingUser, listVars, lockVars, Labels, NotFreeing
<1>1. ~Member(u) /\ left[u] = 0 /\ ~Listed(u)
  BY <1>0 DEF Member, ClientInv, LeftOnce, ListsDisjoint
<1>2. CountExact'
  <2>1. Members' = Members \cup {u} /\ u \notin Members
    BY <1>0, <1>1 DEF Members, Member
  <2>2. Removed' = Removed
    BY <1>0, <1>1 DEF Removed, RemovedByFreer, Member
  <2>3. Cardinality(Members') = Cardinality(Members) + 1
    BY <2>1, CountsFinite, FS_AddElement
  <2>4. Cardinality(Members) \in Nat /\ Cardinality(Removed) \in Nat
    BY CountsFinite, FS_CardinalityType
  <2> QED  BY <1>0, <2>2, <2>3, <2>4 DEF ClientInv, CountExact
<1>3. ClientTypeOK'
  <2>1. __pending_users' \in Seq(Users)
    BY <1>0, PutInFront
  <2> QED  BY <1>0, <1>2, <2>1, CountInRange DEF ClientInv, ClientTypeOK, AddPendingUser, listVars, lockVars
<1>4. LocksHeld'
  BY <1>0 DEF ClientInv, LocksHeld
<1>5. ListsDisjoint'
  <2>1. /\ \A v : Contains(__pending_users', v) <=> v = u \/ Contains(__pending_users, v)
        /\ Once(__pending_users')
    BY <1>0, <1>1, PutInFront DEF Listed, ClientInv, ListsDisjoint
  <2>2. \A v \in Users : (Listed(v)' <=> v = u \/ Listed(v))
    BY <1>0, <2>1 DEF Listed
  <2>3. \A v \in Users : Member(v)' <=> v = u \/ Member(v)
    BY <1>0 DEF Member
  <2>4. Apart(__pending_users', batch') /\ Apart(__pending_users', __users')
    BY <1>0, <1>1, <2>1 DEF ClientInv, ListsDisjoint, Apart, Listed
  <2> QED  BY <1>0, <1>1, <2>1, <2>2, <2>3, <2>4 DEF ClientInv, ListsDisjoint
<1>6. LeftOnce'
  BY <1>0, <1>1 DEF ClientInv, LeftOnce, RemovedByFreer, Member
<1>7. FreedDone' /\ FreeingClosed'
  BY <1>0 DEF ClientInv, FreedDone, FreeingClosed, AddPendingUser
<1>8. OwnerPresent' /\ CursorInside'
  BY <1>0, UsersAssumption DEF ClientInv, OwnerPresent, CursorInside, AddPendingUser
<1>9. StopsWhenEmpty'
  BY <1>0 DEF StopsWhenEmpty
<1> QED  BY <1>2, <1>3, <1>4, <1>5, <1>6, <1>7, <1>8, <1>9 DEF ClientInv

\* Unlinking a user from the lists, by its own thread or by guac_client_free().
LEMMA UnlinkLists ==
  ASSUME ClientInv, NEW u \in Users, Unlink(u)
  PROVE  /\ __pending_users' \in Seq(Users) /\ __users' \in Seq(Users)
         /\ Once(__pending_users') /\ Once(__users')
         /\ \A v : /\ Contains(__pending_users', v) <=> v # u /\ Contains(__pending_users, v)
                   /\ Contains(__users', v) <=> v # u /\ Contains(__users, v)
         /\ Apart(__pending_users', batch) /\ Apart(__pending_users', __users')
         /\ Apart(batch, __users')
<1>1. /\ __pending_users \in Seq(Users) /\ __users \in Seq(Users)
      /\ Once(__pending_users) /\ Once(__users)
  BY TypesKnown DEF ClientInv, ListsDisjoint
<1>2. /\ __pending_users' = RemoveFirst(__pending_users, u)
      /\ __users' = RemoveFirst(__users, u)
  BY DEF Unlink
<1>3. /\ __pending_users' \in Seq(Users) /\ Once(__pending_users')
      /\ \A v : Contains(__pending_users', v) <=> v # u /\ Contains(__pending_users, v)
  BY <1>1, <1>2, TakenOut
<1>4. /\ __users' \in Seq(Users) /\ Once(__users')
      /\ \A v : Contains(__users', v) <=> v # u /\ Contains(__users, v)
  BY <1>1, <1>2, TakenOut
<1> QED  BY <1>3, <1>4 DEF ClientInv, ListsDisjoint, Apart

\* guac_client_remove_user() keeps the invariant.
LEMMA RemoveUserKept ==
  ASSUME ClientInv, NEW u \in Users, RemoveUser(u)
  PROVE  ClientInv'
<1> USE ThreadsApart, TypesKnown
<1>0. /\ Unlink(u) /\ batch' = batch /\ left' = left /\ cursor' = cursor /\ freed' = freed
      /\ client_state' = client_state /\ fd_open' = fd_open
      /\ connected_users' = connected_users - 1
      /\ __owner' = IF u = Owner THEN NoUser ELSE __owner
      /\ pc[u] = "remove2" /\ pc'[u] = "leave"
      /\ \A t \in ClientThreads \ {u} : pc'[t] = pc[t]
      /\ pc' \in [ClientThreads -> Labels]
      /\ NotFreeing' = NotFreeing
  BY DEF RemoveUser, Unlink, GoTo, Labels, NotFreeing
<1>1. Member(u) /\ left[u] <= 1 /\ list_writer[PENDING] = u
  BY <1>0 DEF Member, ClientInv, LeftOnce, LocksHeld
<1>2. batch = << >> /\ pc[Caster] # "iterate" /\ pc[Freer] # "remove"
  BY <1>1 DEF RemoveUser, ListCanWrite, ClientInv, LocksHeld, ListsDisjoint
<1>3. CountExact'
  <2>1. Members' = Members \ {u} /\ u \in Members
    BY <1>0, <1>1 DEF Members, Member
  <2>2. Removed' = Removed
    <3>1. RemovedByFreer(u)' <=> RemovedByFreer(u)
      BY <1>0, <1>1 DEF RemovedByFreer
    <3>2. \A v \in Users \ {u} : RemovedByFreer(v)' <=> RemovedByFreer(v)
      BY <1>0 DEF RemovedByFreer, Member
    <3> QED  BY <3>1, <3>2 DEF Removed
  <2>3. Cardinality(Members') = Cardinality(Members) - 1
    BY <2>1, CountsFinite, FS_RemoveElement
  <2>4. Cardinality(Members) \in Nat /\ Cardinality(Removed) \in Nat
    BY CountsFinite, FS_CardinalityType
  <2> QED  BY <1>0, <2>2, <2>3, <2>4 DEF ClientInv, CountExact
<1>4. ClientTypeOK'
  <2>1. __owner' \in Users \cup {NoUser}
    BY <1>0 DEF ClientInv, ClientTypeOK
  <2>2. list_writer' \in [Locks -> ClientThreads \cup {Nobody}]
    BY DEF RemoveUser, UnlockAll
  <2>3. list_readers' \in [Locks -> SUBSET ClientThreads]
    BY DEF RemoveUser, UnlockAll
  <2> QED  BY <1>0, <1>3, <2>1, <2>2, <2>3, UnlinkLists, CountInRange DEF ClientInv, ClientTypeOK
<1>5. LocksHeld'
  BY <1>0, <1>1, <1>2 DEF ClientInv, LocksHeld, RemoveUser, UnlockAll
<1>6. ListsDisjoint'
  <2>1. \A v \in Users : Listed(v)' <=> v # u /\ Listed(v)
    BY <1>0, <1>2, UnlinkLists, EmptyList DEF Listed
  <2>2. \A v \in Users : Member(v)' <=> v # u /\ Member(v)
    BY <1>0 DEF Member
  <2> QED  BY <1>0, <1>2, <2>1, <2>2, UnlinkLists, EmptyList DEF ClientInv, ListsDisjoint
<1>7. LeftOnce'
  BY <1>0, <1>1 DEF ClientInv, LeftOnce, RemovedByFreer, Member
<1>8. FreedDone' /\ FreeingClosed' /\ CursorInside'
  BY <1>0, <1>2 DEF ClientInv, FreedDone, FreeingClosed, CursorInside
<1>9. OwnerPresent'
  BY <1>0, UsersAssumption DEF ClientInv, OwnerPresent
<1>10. StopsWhenEmpty'
  BY <1>0 DEF StopsWhenEmpty
<1> QED  BY <1>3, <1>4, <1>5, <1>6, <1>7, <1>8, <1>9, <1>10 DEF ClientInv


\* The call of the leave handler in guac_client_remove_user() keeps the
\* invariant.
LEMMA LeaveHandlerKept ==
  ASSUME ClientInv, NEW u \in Users, LeaveHandler(u)
  PROVE  ClientInv'
<1> USE ThreadsApart, TypesKnown
<1>0. /\ __pending_users' = __pending_users /\ __users' = __users /\ batch' = batch
      /\ connected_users' = connected_users /\ __owner' = __owner
      /\ list_writer' = list_writer /\ list_readers' = list_readers
      /\ cursor' = cursor /\ freed' = freed /\ fd_open' = fd_open
      /\ client_state' = client_state
      /\ pc[u] = "leave" /\ pc'[u] = "check"
      /\ \A t \in ClientThreads \ {u} : pc'[t] = pc[t]
      /\ pc' \in [ClientThreads -> Labels]
      /\ NotFreeing' = NotFreeing
  BY DEF LeaveHandler, listVars, lockVars, GoTo, Labels, NotFreeing
<1>1. left[u] \in {0, 1}
  BY <1>0 DEF ClientInv, LeftOnce
<1>2. /\ left' = [left EXCEPT ![u] = left[u] + 1]
      /\ left'[u] = left[u] + 1 /\ left'[u] \in {1, 2}
      /\ \A v \in Users \ {u} : left'[v] = left[v]
  BY <1>1 DEF LeaveHandler
<1>3. left' \in [Users -> 0 .. 2]
  BY <1>1, <1>2
<1>4. \A v \in Users : Member(v)' <=> Member(v)
  BY <1>0 DEF Member
<1>5. \A v \in Users : RemovedByFreer(v)' <=> RemovedByFreer(v)
  <2>1. RemovedByFreer(u)' <=> RemovedByFreer(u)
    BY <1>0, <1>1, <1>2 DEF RemovedByFreer, Member
  <2>2. \A v \in Users \ {u} : RemovedByFreer(v)' <=> RemovedByFreer(v)
    BY <1>0, <1>2 DEF RemovedByFreer, Member
  <2> QED  BY <2>1, <2>2
<1>6. ClientTypeOK' /\ LocksHeld'
  BY <1>0, <1>3 DEF ClientInv, ClientTypeOK, LocksHeld
<1>7. ListsDisjoint'
  <2>1. \A v \in Users : Listed(v)' <=> Listed(v)
    BY <1>0 DEF Listed
  <2>2. ~Member(u)
    BY <1>0 DEF Member
  <2> QED  BY <1>0, <1>2, <1>4, <2>1, <2>2 DEF ClientInv, ListsDisjoint
<1>8. LeftOnce'
  BY <1>0, <1>1, <1>2, <1>4, <1>5 DEF ClientInv, LeftOnce, Member
<1>9. CountExact'
  BY <1>0, <1>4, <1>5 DEF ClientInv, CountExact, Members, Removed
<1>10. FreedDone' /\ FreeingClosed' /\ OwnerPresent' /\ CursorInside' /\ StopsWhenEmpty'
  BY <1>0, UsersAssumption DEF ClientInv, FreedDone, FreeingClosed, OwnerPresent, CursorInside,
                               StopsWhenEmpty
<1> QED  BY <1>6, <1>7, <1>8, <1>9, <1>10 DEF ClientInv

\* The thread that finds no user connected is the last one, unless
\* guac_client_free() is already at work.
LEMMA CheckLastUserKept ==
  ASSUME ClientInv, NEW u \in Users, CheckLastUser(u)
  PROVE  ClientInv'
<1> USE ThreadsApart, TypesKnown
<1>0. /\ __pending_users' = __pending_users /\ __users' = __users /\ batch' = batch
      /\ connected_users' = connected_users /\ __owner' = __owner
      /\ list_writer' = list_writer /\ list_readers' = list_readers
      /\ cursor' = cursor /\ left' = left /\ freed' = freed \cup {u}
      /\ IF connected_users = 0
         THEN client_state' = "STOPPING" /\ fd_open' = FALSE
         ELSE client_state' = client_state /\ fd_open' = fd_open
      /\ pc[u] = "check" /\ pc'[u] = "done"
      /\ \A t \in ClientThreads \ {u} : pc'[t] = pc[t]
      /\ pc' \in [ClientThreads -> Labels]
      /\ NotFreeing' = NotFreeing
  BY DEF CheckLastUser, listVars, lockVars, GoTo, Labels, NotFreeing
<1>1. \A v \in Users : (Member(v)' <=> Member(v)) /\ (RemovedByFreer(v)' <=> RemovedByFreer(v))
  BY <1>0 DEF Member, RemovedByFreer
<1>2. ClientTypeOK' /\ LocksHeld'
  BY <1>0 DEF ClientInv, ClientTypeOK, LocksHeld
<1>3. ListsDisjoint'
  <2>1. \A v \in Users : Listed(v)' <=> Listed(v)
    BY <1>0 DEF Listed
  <2> QED  BY <1>0, <1>1, <2>1 DEF ClientInv, ListsDisjoint
<1>4. LeftOnce'
  BY <1>0, <1>1 DEF ClientInv, LeftOnce, Member
<1>5. CountExact'
  BY <1>0, <1>1 DEF ClientInv, CountExact, Members, Removed
<1>6. FreedDone' /\ FreeingClosed' /\ OwnerPresent' /\ CursorInside'
  BY <1>0, UsersAssumption DEF ClientInv, FreedDone, FreeingClosed, OwnerPresent, CursorInside
<1>7. StopsWhenEmpty'
  <2> SUFFICES ASSUME \A v \in Users : pc'[v] = "done"  PROVE ~fd_open'
    BY DEF StopsWhenEmpty
  <2>1. CASE NotFreeing
    <3>1. Members = {}
      BY <1>0 DEF Members, Member
    <3>2. Removed = {}
      BY <2>1 DEF Removed, ClientInv, LeftOnce
    <3>3. connected_users = Cardinality({}) - Cardinality({})
      BY <3>1, <3>2 DEF ClientInv, CountExact
    <3>4. Cardinality({}) = 0
      BY FS_EmptySet
    <3> QED  BY <1>0, <3>3, <3>4
  <2>2. CASE ~NotFreeing
    BY <1>0, <2>2 DEF NotFreeing, ClientInv, FreeingClosed
  <2> QED  BY <2>1, <2>2
<1> QED  BY <1>2, <1>3, <1>4, <1>5, <1>6, <1>7 DEF ClientInv

\* The pending users are taken under their lock.
LEMMA PromoteTakeKept ==
  ASSUME ClientInv, PromoteTake
  PROVE  ClientInv'
<1> USE ThreadsApart, TypesKnown
<1>0. /\ batch' = __pending_users /\ __pending_users' = << >> /\ __users' = __users
      /\ connected_users' = connected_users /\ __owner' = __owner
      /\ list_writer' = [list_writer EXCEPT ![PENDING] = Promoter]
      /\ list_readers' = list_readers
      /\ cursor' = cursor /\ left' = left /\ freed' = freed /\ fd_open' = fd_open
      /\ client_state' = client_state
      /\ pc[Promoter] = "lock" /\ pc'[Promoter] = "promote"
      /\ \A t \in ClientThreads \ {Promoter} : pc'[t] = pc[t]
      /\ pc' \in [ClientThreads -> Labels]
      /\ NotFreeing' = NotFreeing
      /\ list_writer[PENDING] \in {Nobody, Promoter}
  BY DEF PromoteTake, ListCanWrite, LockWrite, GoTo, Labels, NotFreeing
<1>1. \A v \in Users : (Member(v)' <=> Member(v)) /\ (RemovedByFreer(v)' <=> RemovedByFreer(v))
  BY <1>0 DEF Member, RemovedByFreer
<1>2. batch = << >>
  BY <1>0 DEF ClientInv, ListsDisjoint
<1>3. ClientTypeOK'
  BY <1>0, EmptyList DEF ClientInv, ClientTypeOK
<1>4. LocksHeld'
  BY <1>0 DEF ClientInv, LocksHeld
<1>5. ListsDisjoint'
  <2>1. \A v \in Users : Listed(v)' <=> Listed(v)
    BY <1>0, <1>2, EmptyList DEF Listed
  <2>2. Once(<< >>) /\ \A v : ~Contains(<< >>, v)
    BY EmptyList
  <2> QED  BY <1>0, <1>1, <2>1, <2>2 DEF ClientInv, ListsDisjoint, Apart
<1>6. LeftOnce'
  BY <1>0, <1>1 DEF ClientInv, LeftOnce, Member
<1>7. CountExact'
  BY <1>0, <1>1 DEF ClientInv, CountExact, Members, Removed
<1>8. FreedDone' /\ FreeingClosed' /\ OwnerPresent' /\ CursorInside' /\ StopsWhenEmpty'
  BY <1>0, UsersAssumption DEF ClientInv, FreedDone, FreeingClosed, OwnerPresent, CursorInside,
                               StopsWhenEmpty
<1> QED  BY <1>3, <1>4, <1>5, <1>6, <1>7, <1>8 DEF ClientInv

\* ... and put in front of the full users while nobody walks these.
LEMMA PromotePutKept ==
  ASSUME ClientInv, PromotePut
  PROVE  ClientInv'
<1> USE ThreadsApart, TypesKnown
<1>0. /\ __users' = batch \o __users /\ batch' = << >> /\ __pending_users' = __pending_users
      /\ connected_users' = connected_users /\ __owner' = __owner
      /\ cursor' = cursor /\ left' = left /\ freed' = freed /\ fd_open' = fd_open
      /\ client_state' = client_state
      /\ pc[Promoter] = "promote" /\ pc'[Promoter] = "loop"
      /\ \A t \in ClientThreads \ {Promoter} : pc'[t] = pc[t]
      /\ pc' \in [ClientThreads -> Labels]
      /\ NotFreeing' = NotFreeing
      /\ list_writer[PENDING] = Promoter /\ pc[Caster] # "iterate"
  BY DEF PromotePut, ListCanWrite, GoTo, Labels, NotFreeing, ClientInv, LocksHeld
<1>1. \A v \in Users : (Member(v)' <=> Member(v)) /\ (RemovedByFreer(v)' <=> RemovedByFreer(v))
  BY <1>0 DEF Member, RemovedByFreer
<1>2. __users' \in Seq(Users) /\ << >> \in Seq(Users)
  BY <1>0, EmptyList, ConcatProperties
<1>3. /\ list_writer' \in [Locks -> ClientThreads \cup {Nobody}]
      /\ list_readers' \in [Locks -> SUBSET ClientThreads]
  BY DEF PromotePut, UnlockAll
<1>4. ClientTypeOK'
  BY <1>0, <1>2, <1>3 DEF ClientInv, ClientTypeOK
<1>5. LocksHeld'
  BY <1>0 DEF ClientInv, LocksHeld, PromotePut, UnlockAll
<1>6. ListsDisjoint'
  <2>1. \A v : Contains(__users', v) <=> Contains(batch, v) \/ Contains(__users, v)
    BY <1>0, ContainsConcat
  <2>2. Once(__users')
    BY <1>0, OnceConcat DEF ClientInv, ListsDisjoint
  <2>3. Once(<< >>) /\ \A v : ~Contains(<< >>, v)
    BY EmptyList
  <2>4. \A v \in Users : Listed(v)' <=> Listed(v)
    BY <1>0, <2>1, <2>3 DEF Listed
  <2> QED  BY <1>0, <1>1, <2>1, <2>2, <2>3, <2>4 DEF ClientInv, ListsDisjoint, Apart
<1>7. LeftOnce'
  BY <1>0, <1>1 DEF ClientInv, LeftOnce, Member
<1>8. CountExact'
  BY <1>0, <1>1 DEF ClientInv, CountExact, Members, Removed
<1>9. FreedDone' /\ FreeingClosed' /\ OwnerPresent' /\ CursorInside' /\ StopsWhenEmpty'
  BY <1>0, UsersAssumption DEF ClientInv, FreedDone, FreeingClosed, OwnerPresent, CursorInside,
                               StopsWhenEmpty
<1> QED  BY <1>4, <1>5, <1>6, <1>7, <1>8, <1>9 DEF ClientInv

\* guac_client_free() removes a user that is still on a list.
LEMMA FreeRemoveUserKept ==
  ASSUME ClientInv, FreeRemoveUser
  PROVE  ClientInv'
<1> USE ThreadsApart, TypesKnown
<1>u. PICK u : /\ u = Head(__pending_users \o __users)
               /\ Unlink(u) /\ left' = [left EXCEPT ![u] = @ + 1]
  BY DEF FreeRemoveUser
<1>1. u \in Users /\ (Contains(__pending_users, u) \/ Contains(__users, u))
  <2>1. /\ __pending_users \o __users \in Seq(Users) /\ __pending_users \o __users # << >>
        /\ \A v : Contains(__pending_users \o __users, v)
                    <=> Contains(__pending_users, v) \/ Contains(__users, v)
    BY ContainsConcat, ConcatProperties DEF FreeRemoveUser
  <2>2. /\ Len(__pending_users \o __users) \in Nat
        /\ Len(__pending_users \o __users) # 0
        /\ u = (__pending_users \o __users)[1]
    BY <1>u, <2>1, EmptySeq, LenProperties, HeadTailProperties
  <2>3. 1 \in 1 .. Len(__pending_users \o __users)
    BY <2>2
  <2>4. u \in Users
    BY <2>1, <2>2, <2>3, ElementOfSeq
  <2>5. Contains(__pending_users \o __users, u)
    BY <2>2, <2>3 DEF Contains
  <2> QED  BY <2>1, <2>4, <2>5
<1>2. Unlink(u) /\ left' = [left EXCEPT ![u] = @ + 1] /\ pc[Freer] = "remove"
  BY <1>u DEF FreeRemoveUser
<1>0. /\ batch' = batch /\ cursor' = cursor /\ freed' = freed /\ fd_open' = fd_open
      /\ client_state' = client_state /\ pc' = pc
      /\ list_writer' = list_writer /\ list_readers' = list_readers
      /\ connected_users' = connected_users - 1
      /\ __owner' = IF u = Owner THEN NoUser ELSE __owner
      /\ NotFreeing' = NotFreeing /\ ~NotFreeing
  BY <1>2 DEF FreeRemoveUser, lockVars, Unlink, NotFreeing
<1>3. Member(u) /\ left[u] = 0
  BY <1>1 DEF ClientInv, ListsDisjoint, Listed
<1>4. /\ left'[u] = 1 /\ \A v \in Users \ {u} : left'[v] = left[v]
      /\ left' \in [Users -> 0 .. 2]
  BY <1>1, <1>2, <1>3
<1>5. \A v \in Users : Member(v)' <=> Member(v)
  BY <1>0 DEF Member
<1>6. batch = << >> /\ pc[Caster] # "iterate"
  BY <1>2 DEF ClientInv, LocksHeld, ListsDisjoint
<1>7. CountExact'
  <2>1. Members' = Members
    BY <1>5 DEF Members
  <2>2. Removed' = Removed \cup {u} /\ u \notin Removed
    <3>1. RemovedByFreer(u)' /\ ~RemovedByFreer(u)
      BY <1>1, <1>3, <1>4, <1>5 DEF RemovedByFreer, Member
    <3>2. \A v \in Users \ {u} : RemovedByFreer(v)' <=> RemovedByFreer(v)
      BY <1>0, <1>4, <1>5 DEF RemovedByFreer
    <3> QED  BY <1>1, <3>1, <3>2 DEF Removed
  <2>3. Cardinality(Removed') = Cardinality(Removed) + 1
    BY <2>2, CountsFinite, FS_AddElement
  <2>4. Cardinality(Members) \in Nat /\ Cardinality(Removed) \in Nat
    BY CountsFinite, FS_CardinalityType
  <2> QED  BY <1>0, <2>1, <2>3, <2>4 DEF ClientInv, CountExact
<1>8. ClientTypeOK'
  <2>1. __owner' \in Users \cup {NoUser}
    BY <1>0 DEF ClientInv, ClientTypeOK
  <2> QED  BY <1>0, <1>1, <1>2, <1>4, <1>7, <2>1, UnlinkLists, CountInRange DEF ClientInv, ClientTypeOK
<1>9. LocksHeld'
  BY <1>0 DEF ClientInv, LocksHeld
<1>10. ListsDisjoint'
  <2>1. /\ Once(__pending_users') /\ Once(__users')
        /\ \A v : /\ Contains(__pending_users', v) <=> v # u /\ Contains(__pending_users, v)
                  /\ Contains(__users', v) <=> v # u /\ Contains(__users, v)
        /\ Apart(__pending_users', batch) /\ Apart(__pending_users', __users')
        /\ Apart(batch, __users')
    BY <1>1, <1>2, UnlinkLists
  <2>2. \A v \in Users : Listed(v)' <=> v # u /\ Listed(v)
    BY <1>0, <1>6, <2>1, EmptyList DEF Listed
  <2> QED  BY <1>0, <1>4, <1>5, <2>1, <2>2 DEF ClientInv, ListsDisjoint
<1>11. LeftOnce'
  BY <1>0, <1>3, <1>4, <1>5 DEF ClientInv, LeftOnce, Member
<1>12. FreedDone' /\ FreeingClosed' /\ CursorInside' /\ StopsWhenEmpty'
  BY <1>0, <1>6 DEF ClientInv, FreedDone, FreeingClosed, CursorInside, StopsWhenEmpty
<1>13. OwnerPresent'
  BY <1>0, UsersAssumption DEF ClientInv, OwnerPresent
<1> QED  BY <1>7, <1>8, <1>9, <1>10, <1>11, <1>12, <1>13 DEF ClientInv

-----------------------------------------------------------------------------
(* The specification *)

\* guac_client_alloc() leaves both lists empty.
LEMMA ClientInitInv ==
  ASSUME ClientInit
  PROVE  ClientInv
<1> USE ThreadsApart
<1>0. /\ \A u \in Users : pc[u] = "absent" /\ left[u] = 0
      /\ pc[Promoter] = "unstarted" /\ pc[Caster] = "idle" /\ pc[Main] = "recv"
      /\ pc[Freer] = "unstarted"
      /\ pc \in [ClientThreads -> Labels]
  BY DEF ClientInit, Labels
<1>1. CountExact
  <2>1. Members = {} /\ Removed = {}
    BY <1>0 DEF Members, Removed, Member, RemovedByFreer
  <2>2. Cardinality({}) = 0
    BY FS_EmptySet
  <2> QED  BY <2>1, <2>2 DEF CountExact, ClientInit
<1>2. ClientTypeOK
  <2>1. Cardinality(Users) \in Nat
    BY UsersAssumption, FS_CardinalityType
  <2>2. 0 \in -Cardinality(Users) .. Cardinality(Users)
    BY <2>1
  <2>3. left \in [Users -> 0 .. 2]
    BY DEF ClientInit
  <2>4. /\ list_writer \in [Locks -> ClientThreads \cup {Nobody}]
        /\ list_readers \in [Locks -> SUBSET ClientThreads]
    BY DEF ClientInit
  <2> QED  BY <1>0, <2>2, <2>3, <2>4, EmptyList DEF ClientInit, ClientTypeOK
<1>3. LocksHeld
  BY <1>0 DEF ClientInit, LocksHeld
<1>4. ListsDisjoint
  <2>1. Once(<< >>) /\ \A v : ~Contains(<< >>, v)
    BY EmptyList
  <2> QED  BY <1>0, <2>1 DEF ClientInit, ListsDisjoint, Apart, Listed, Member
<1>5. LeftOnce
  BY <1>0 DEF LeftOnce, RemovedByFreer, Member
<1>6. FreedDone /\ FreeingClosed /\ OwnerPresent /\ CursorInside
  BY <1>0, UsersAssumption DEF ClientInit, FreedDone, FreeingClosed, OwnerPresent, CursorInside
<1>7. StopsWhenEmpty
  BY <1>0, UsersAssumption DEF StopsWhenEmpty
<1> QED  BY <1>1, <1>2, <1>3, <1>4, <1>5, <1>6, <1>7 DEF ClientInv

\* Every step of the client keeps the invariant (client.c).
LEMMA ClientStep ==
  ASSUME ClientInv, [ClientNext]_clientVars
  PROVE  ClientInv'
<1>1. CASE UNCHANGED clientVars
  BY <1>1 DEF clientVars, listVars, lockVars, ClientInv, ClientTypeOK, LocksHeld, ListsDisjoint,
              Listed, Member, NotFreeing, LeftOnce, RemovedByFreer, CountExact, Members, Removed,
              FreedDone, FreeingClosed, OwnerPresent, CursorInside, StopsWhenEmpty
<1>2. ASSUME NEW u \in Users, UserStep(u)  PROVE ClientInv'
  BY <1>2, UserMoves, AddPendingUserKept, RemoveUserKept, LeaveHandlerKept, CheckLastUserKept
     DEF UserStep
<1>3. CASE PromoterStep
  BY <1>3, WorkersMove, PromoteTakeKept, PromotePutKept DEF PromoterStep
<1>4. CASE CasterStep
  BY <1>4, WorkersMove DEF CasterStep
<1>5. CASE MainStep
  BY <1>5, UserMoves, WorkersMove, FreerMoves DEF MainStep
<1>6. CASE FreerStep
  BY <1>6, FreerMoves, FreeRemoveUserKept DEF FreerStep
<1>7. CASE Finished
  BY <1>1, <1>7 DEF Finished
<1> QED  BY <1>1, <1>2, <1>3, <1>4, <1>5, <1>6, <1>7 DEF ClientNext

\* The invariant says that the lists are sound: each user once, on one list,
\* linked while it is there (client.c).
LEMMA ClientInvImplies ==
  ASSUME ClientInv
  PROVE  ListsSound
<1>1. /\ __pending_users \in Seq(Users) /\ batch \in Seq(Users) /\ __users \in Seq(Users)
      /\ Once(__pending_users) /\ Once(__users)
      /\ \A v \in Users : ~(Contains(__pending_users, v) /\ Contains(__users, v))
      /\ \A v \in Users : Listed(v) => Member(v)
      /\ \A v \in Users : NotFreeing /\ Member(v) => Listed(v)
      /\ pc[Promoter] # "promote" => batch = << >>
      /\ pc[Promoter] = "promote" => list_writer[PENDING] = Promoter
  BY TypesKnown DEF ClientInv, ListsDisjoint, LocksHeld, Apart
<1>2. OnExactlyOneList
  <2> SUFFICES ASSUME NotFreeing, list_writer[PENDING] = Nobody \/ pc[Promoter] # "promote",
                      NEW v \in Users
               PROVE  Occurs(v, __pending_users) + Occurs(v, __users)
                        = IF Member(v) THEN 1 ELSE 0
    BY DEF OnExactlyOneList
  <2>1. ~Contains(batch, v)
    BY <1>1, ThreadsApart, EmptyList
  <2>2. Member(v) <=> Contains(__pending_users, v) \/ Contains(__users, v)
    BY <1>1, <2>1 DEF Listed
  <2>3. /\ Occurs(v, __pending_users) = IF Contains(__pending_users, v) THEN 1 ELSE 0
        /\ Occurs(v, __users) = IF Contains(__users, v) THEN 1 ELSE 0
    BY <1>1, OccursOnce
  <2> QED  BY <1>1, <2>2, <2>3
<1>3. CountMatches
  <2> SUFFICES ASSUME NotFreeing  PROVE connected_users = Cardinality(Members)
    BY DEF CountMatches, Members
  <2>1. Removed = {}
    BY DEF Removed, ClientInv, LeftOnce
  <2>2. Cardinality({}) = 0
    BY FS_EmptySet
  <2>3. Cardinality(Members) \in Nat
    BY CountsFinite, FS_CardinalityType
  <2>4. connected_users = Cardinality(Members) - Cardinality({})
    BY <2>1 DEF ClientInv, CountExact
  <2> QED  BY <2>2, <2>3, <2>4
<1>4. IterationSafe
  <2>1. ASSUME NEW n \in 1 .. Len(__users)  PROVE __users[n] \notin freed
    <3>1. __users[n] \in Users
      BY <1>1, ElementOfSeq
    <3>2. Member(__users[n])
      BY <1>1, <3>1 DEF Listed, Contains
    <3> QED  BY <3>1, <3>2 DEF Member, ClientInv, FreedDone
  <2> QED  BY <2>1 DEF IterationSafe, ClientInv, CursorInside
<1>5. OwnerAlive
  BY UsersAssumption DEF OwnerAlive, ClientInv, OwnerPresent, FreedDone
<1> QED  BY <1>2, <1>3, <1>4, <1>5 DEF ClientInv, ListsSound

\* From connecting to disconnecting and while the client is freed, whatever the
\* order of the threads: a user that has joined is on exactly one list, the
\* count is right, no walker and no owner pointer comes to a freed user, and
\* the process whose last user left accepts no other (guac_client_add_user(),
\* guac_client_remove_user(), guac_client_promote_pending_users() in client.c).
THEOREM ClientSafe == ClientSpec => []ListsSound
<1>1. ClientInit => ClientInv
  BY ClientInitInv
<1>2. ClientInv /\ [ClientNext]_clientVars => ClientInv'
  BY ClientStep
<1>3. ClientInv => ListsSound
  BY ClientInvImplies
<1> QED  BY <1>1, <1>2, <1>3, PTL DEF ClientSpec

\* While a thread walks the full users under the read lock of rwlock.c, none of
\* the steps that change this list or the known owner can be taken.
LEMMA StepStable ==
  ASSUME ClientInv, [ClientNext]_clientVars, pc[Caster] = "iterate", pc'[Caster] = "iterate"
  PROVE  /\ __users' = __users
         /\ __owner # NoUser => __owner' = __owner
<1> USE ThreadsApart, TypesKnown
<1>0. list_readers[USERS] = {Caster} /\ pc[Freer] # "remove"
  BY DEF ClientInv, LocksHeld
<1>1. CASE UNCHANGED clientVars
  BY <1>1 DEF clientVars, listVars
<1>2. ASSUME NEW u \in Users, UserStep(u)
      PROVE  __users' = __users /\ (__owner # NoUser => __owner' = __owner)
  <2>1. CASE SetOwner(u)
    BY <2>1 DEF SetOwner, ClientInv, OwnerPresent
  <2>2. CASE RemoveUser(u)
    BY <1>0, <2>2 DEF RemoveUser, ListCanWrite
  <2>3. CASE \/ Handshake(u) \/ AddPendingUser(u) \/ InputEnds(u) \/ RemoveLockPending(u)
             \/ LeaveHandler(u) \/ CheckLastUser(u)
    BY <2>3 DEF Handshake, AddPendingUser, InputEnds, RemoveLockPending, LeaveHandler,
                CheckLastUser, listVars
  <2> QED  BY <1>2, <2>1, <2>2, <2>3 DEF UserStep
<1>3. CASE PromoterStep
  <2>1. ~PromotePut
    BY <1>0 DEF PromotePut, ListCanWrite
  <2> QED  BY <1>3, <2>1 DEF PromoterStep, PromoterLoop, PromoteNothing, PromoteTake, listVars
<1>4. CASE CasterStep
  BY <1>4 DEF CasterStep, ForeachBegin, ForeachNext, ForeachEnd, listVars
<1>5. CASE MainStep
  BY <1>5 DEF MainStep, ReceiveUser, Signal, Abort, StartFree, ExitProcess, listVars
<1>6. CASE FreerStep
  BY <1>0, <1>6 DEF FreerStep, FreeLockPending, FreeLockUsers, FreeRemoveUser, FreeJoinPromoter,
                    FreeMemory, listVars
<1>7. CASE Finished
  BY <1>1, <1>7 DEF Finished
<1> QED  BY <1>1, <1>2, <1>3, <1>4, <1>5, <1>6, <1>7 DEF ClientNext

\* A walk over the full users (guac_client_foreach_user()) sees one list and one
\* owner from its first step to its last.
THEOREM ClientStable == ClientSpec => StableWhileIterated
<1>1. ClientInit => ClientInv
  BY ClientInitInv
<1>2. ClientInv /\ [ClientNext]_clientVars => ClientInv'
  BY ClientStep
<1>3. ClientInv /\ [ClientNext]_clientVars =>
        [(pc[Caster] = "iterate" /\ pc'[Caster] = "iterate") =>
            /\ __users' = __users
            /\ __owner # NoUser => __owner' = __owner]_clientVars
  BY StepStable
<1> QED  BY <1>1, <1>2, <1>3, PTL DEF ClientSpec, StableWhileIterated
=============================================================================
