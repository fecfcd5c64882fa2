------------------------- MODULE GuacdRoutingProofs -------------------------
(***************************************************************************)
(* Theorems about the parent process of guacd: for any number of           *)
(* connections and processes and any map, what the map leads to has not    *)
(* been freed, users join a process after its owner, and the socket and    *)
(* the parser of a connection are freed by one thread.                     *)
(***************************************************************************)
EXTENDS GuacdRouting, ListLemmas

\* A process is in the map from guacd_proc_map_add() to guacd_proc_map_remove().
InMap(c) == pc[c] \in {"wait", "map_remove", "map_removed"}

\* The routing thread of a connection that has created a process and sent it
\* its own descriptor.
Serves(c) ==
  pc[c] \in {"map_add", "map_added", "wait", "map_remove", "map_removed", "kill", "reap"}

\* Both indexes hold the processes whose threads say so, once each.
Indexed ==
  /\ Once(processes)
  /\ Up => \A c \in Conns : /\ Contains(processes, c) <=> InMap(c)
                            /\ c \in entries <=> InMap(c)

\* guacd_proc_map_foreach() holds the lock of the list it walks.
WalkLocked ==
  /\ processes_lock \in {None, Daemon}
  /\ Up => (processes_lock = Daemon <=> loop = "foreach")
  /\ \A c : Contains(cursor, c) => loop = "foreach" /\ Contains(processes, c)

\* The process of a thread is there until the thread frees it.
Living ==
  \A c \in Conns :
    /\ Serves(c) => target[c] = c
    /\ pc[c] = "add" => target[c] \in Conns
    /\ (Up /\ (Serves(c) \/ (pc[c] = "add" /\ target[c] = c))) => mem[c] = "allocated"

\* Who owns the parser and the socket of a connection, by where its thread is.
Owned(c) ==
  /\ c \in io => parser[c] = 0 /\ socket[c] = 0
  /\ parser[c] \in {0, 1} /\ socket[c] \in {0, 1}
  /\ add_user_failed[c] => c \notin io /\ pc[c] \in {"kill", "reap", "failed", "done"}
  /\ pc[c] \in {"absent", "select", "add"} => c \notin io /\ parser[c] = 0 /\ socket[c] = 0
  /\ pc[c] = "failed" => c \notin io /\ socket[c] = 0
  /\ pc[c] \in {"kill", "reap"} /\ add_user_failed[c] => parser[c] = 1 /\ socket[c] = 0
  /\ (Up /\ Serves(c) /\ ~add_user_failed[c] /\ c \notin io) => socket[c] = 1
  /\ (Up /\ pc[c] = "done" /\ c \notin io) => socket[c] = 1

OwnedOnce == \A c \in Conns : Owned(c)

\* A descriptor was sent once at most, and after that of the connection whose
\* process its own was sent to.
Unsent(c) == pc[c] \in {"absent", "select", "add"}

NotSentYet ==
  \A p, c \in Conns : Unsent(c) => c \notin users[p] /\ ~Contains(queue[p], c)

BehindOwner ==
  \A p, c \in Conns :
    (c # p /\ target[c] = p) =>
      /\ ~Unsent(p)
      /\ c \in users[p] => ~Contains(queue[p], p)
      /\ \A i, j \in 1 .. Len(queue[p]) : queue[p][i] = p /\ queue[p][j] = c => i < j

RoutingInv ==
  /\ TypeOK
  /\ Indexed
  /\ WalkLocked
  /\ Living
  /\ OwnedOnce
  /\ NotSentYet
  /\ BehindOwner

-----------------------------------------------------------------------------
(* The steps *)

\* The types the invariant gives to the variables.
LEMMA TypesKnown ==
  ASSUME RoutingInv
  PROVE  /\ stop_everything \in BOOLEAN /\ loop \in {"accept", "lock", "foreach", "exited"}
         /\ pc \in [Conns -> Labels]
         /\ target \in [Conns -> Conns \cup {None}]
         /\ add_user_failed \in [Conns -> BOOLEAN]
         /\ mem \in [Conns -> {"none", "allocated", "freed"}]
         /\ child \in [Conns -> {"none", "forked", "grouped", "serving", "stopping", "exited"}]
         /\ queue \in [Conns -> Seq(Conns)] /\ users \in [Conns -> SUBSET Conns]
         /\ cursor \in Seq(Conns) /\ processes \in Seq(Conns) /\ entries \subseteq Conns
         /\ bucket_lock \in [Buckets -> Conns \cup {None}]
         /\ processes_lock \in Conns \cup {None, Daemon}
         /\ io \subseteq Conns /\ parser \in [Conns -> 0 .. 2] /\ socket \in [Conns -> 0 .. 2]
BY DEF RoutingInv, TypeOK

\* A child that is terminated is in one of its states (guacd_proc_stop()).
LEMMA TerminatedType ==
  ASSUME RoutingInv, NEW p, Terminated(p)
  PROVE  child' \in [Conns -> {"none", "forked", "grouped", "serving", "stopping", "exited"}]
BY TypesKnown DEF Terminated

\* Every step keeps the types.
LEMMA TypeKept ==
  ASSUME RoutingInv, [Next]_vars
  PROVE  TypeOK'
<1> USE RoutingAssumption, TypesKnown DEF daemonVars, routeVars, mapVars, procVars, ioVars,
    GoTo, LoopTest, TypeOK, Labels
<1>1. CASE UNCHANGED vars
  BY <1>1 DEF vars
<1>2. CASE AcceptFails \/ Signal
  BY <1>2 DEF AcceptFails, Signal
<1>3. CASE ForeachBegin
  <2>1. child' \in [Conns -> {"none", "forked", "grouped", "serving", "stopping", "exited"}]
    BY <1>3, TerminatedType DEF ForeachBegin
  <2> QED  BY <1>3, <2>1 DEF ForeachBegin
<1>4. CASE ForeachNext
  <2>1. Tail(cursor) \in Seq(Conns)
    BY <1>4, FirstTaken DEF ForeachNext
  <2>2. child' \in [Conns -> {"none", "forked", "grouped", "serving", "stopping", "exited"}]
    BY <1>4, TerminatedType DEF ForeachNext
  <2> QED  BY <1>4, <2>1, <2>2 DEF ForeachNext
<1>5. CASE DaemonExit
  BY <1>5, EmptyList DEF DaemonExit
<1>6. ASSUME NEW c \in Conns, Accept(c)
      PROVE  TypeOK'
  BY <1>6 DEF Accept
<1>7. ASSUME NEW c \in Conns, SelectFails(c)
      PROVE  TypeOK'
  <2>1. parser' \in [Conns -> 0 .. 2]
    BY <1>7 DEF SelectFails, RoutingInv, OwnedOnce, Owned
  <2> QED  BY <1>7, <2>1 DEF SelectFails
<1>8. ASSUME NEW c \in Conns, SelectNew(c)
      PROVE  TypeOK'
  BY <1>8 DEF SelectNew
<1>9. ASSUME NEW c \in Conns, AddUserFails(c)
      PROVE  TypeOK'
  <2>1. parser' \in [Conns -> 0 .. 2]
    BY <1>9 DEF AddUserFails, RoutingInv, OwnedOnce, Owned
  <2> QED  BY <1>9, <2>1 DEF AddUserFails
<1>10. ASSUME NEW c \in Conns, AddUser(c)
      PROVE  TypeOK'
  <2>1. target[c] \in Conns
    BY <1>10 DEF AddUser, RoutingInv, Living
  <2>2. queue' \in [Conns -> Seq(Conns)]
    BY <1>10, <2>1, PutAtEnd DEF AddUser, SendTo
  <2> QED  BY <1>10, <2>2 DEF AddUser, SendTo
<1>11. ASSUME NEW c \in Conns, LockBucket(c)
      PROVE  TypeOK'
  BY <1>11 DEF LockBucket
<1>12. ASSUME NEW c \in Conns, Up, MapAdd(c)
      PROVE  TypeOK'
  BY <1>12 DEF MapAdd, ListAdd
<1>13. ASSUME NEW c \in Conns, WaitChild(c)
      PROVE  TypeOK'
  BY <1>13 DEF WaitChild
<1>14. ASSUME NEW c \in Conns, MapRemove(c)
      PROVE  TypeOK'
  <2>1. processes' \in Seq(Conns)
    BY <1>14, TakenOut DEF MapRemove, ListRemove, RoutingInv, Indexed
  <2> QED  BY <1>14, <2>1 DEF MapRemove
<1>15. ASSUME NEW c \in Conns, Kill(c)
      PROVE  TypeOK'
  BY <1>15 DEF Kill, Terminated
<1>16. ASSUME NEW c \in Conns, FreeProc(c)
      PROVE  TypeOK'
  BY <1>16 DEF FreeProc
<1>17. ASSUME NEW c \in Conns, FreeSocket(c)
      PROVE  TypeOK'
  <2>1. socket' \in [Conns -> 0 .. 2]
    BY <1>17 DEF FreeSocket, RoutingInv, OwnedOnce, Owned
  <2> QED  BY <1>17, <2>1 DEF FreeSocket
<1>18. ASSUME NEW c \in Conns, IoEnds(c)
      PROVE  TypeOK'
  <2>1. parser' \in [Conns -> 0 .. 2] /\ socket' \in [Conns -> 0 .. 2]
    BY <1>18 DEF IoEnds, RoutingInv, OwnedOnce, Owned
  <2> QED  BY <1>18, <2>1 DEF IoEnds
<1>19. ASSUME NEW c \in Conns, ChildStarts(c)
      PROVE  TypeOK'
  <2>1. child' \in [Conns -> {"none", "forked", "grouped", "serving", "stopping", "exited"}]
    BY <1>19 DEF ChildStarts
  <2> QED  BY <1>19, <2>1 DEF ChildStarts
<1>20. ASSUME NEW c \in Conns, ChildReceives(c)
      PROVE  TypeOK'
  <2>1. Head(queue[c]) \in Conns /\ Tail(queue[c]) \in Seq(Conns)
    BY <1>20, FirstTaken DEF ChildReceives
  <2> QED  BY <1>20, <2>1 DEF ChildReceives
<1>21. ASSUME NEW c \in Conns, ChildExits(c)
      PROVE  TypeOK'
  BY <1>21, EmptyList DEF ChildExits, Leaves
<1>22. ASSUME NEW c \in Conns, NEW p \in Conns, Up, SelectExisting(c, p)
      PROVE  TypeOK'
  BY <1>22 DEF SelectExisting
<1>23. ASSUME NEW c \in Conns, NEW p \in Conns, AddUserFreed(c, p)
      PROVE  TypeOK'
  BY <1>23 DEF AddUserFreed, SendTo, Created
<1>24. ASSUME NEW c \in Conns, NEW p \in Conns, UserLeaves(p, c)
      PROVE  TypeOK'
  BY <1>24 DEF UserLeaves
<1>25. CASE Quiescent
  BY <1>1, <1>25 DEF Quiescent
<1> QED  BY <1>1, <1>2, <1>3, <1>4, <1>5, <1>6, <1>7, <1>8, <1>9, <1>10, <1>11, <1>12, <1>13,
           <1>14, <1>15, <1>16, <1>17, <1>18, <1>19, <1>20, <1>21, <1>22, <1>23, <1>24, <1>25
         DEF Next, DaemonStep, ConnStep, ChildStep

\* Only the thread of a process adds it to the map and removes it.
LEMMA IndexKept ==
  ASSUME RoutingInv, [Next]_vars
  PROVE  Indexed'
<1> USE RoutingAssumption, TypesKnown DEF Labels
<1>1. CASE UNCHANGED vars
  BY <1>1 DEF vars, RoutingInv, Indexed, InMap, Up, mapVars, daemonVars
<1>2. CASE AcceptFails \/ Signal
  BY <1>2 DEF AcceptFails, Signal, RoutingInv, Indexed, InMap, Up, mapVars, daemonVars,
         procVars, routeVars, ioVars, LoopTest
<1>3. CASE ForeachBegin
  BY <1>3 DEF ForeachBegin, Terminated, RoutingInv, Indexed, InMap, Up, mapVars, daemonVars,
         procVars, routeVars, ioVars, LoopTest
<1>4. CASE ForeachNext
  BY <1>4 DEF ForeachNext, Terminated, RoutingInv, Indexed, InMap, Up, mapVars, daemonVars,
         procVars, routeVars, ioVars, LoopTest
<1>5. CASE DaemonExit
  BY <1>5, EmptyList DEF DaemonExit, Indexed, Up
<1>6. ASSUME NEW c \in Conns, Up, MapAdd(c)
      PROVE  Indexed'
  <2>1. ~Contains(processes, c) /\ processes' = <<c>> \o processes
    BY <1>6 DEF MapAdd, ListAdd, RoutingInv, Indexed, InMap
  <2>2. Once(processes') /\ \A d : Contains(processes', d) <=> d = c \/ Contains(processes, d)
    BY <2>1, PutInFront DEF RoutingInv, Indexed
  <2> QED  BY <1>6, <2>2 DEF MapAdd, RoutingInv, Indexed, InMap, GoTo, Up, daemonVars
<1>7. ASSUME NEW c \in Conns, MapRemove(c)
      PROVE  Indexed'
  <2>1. processes' = RemoveFirst(processes, c)
    BY <1>7 DEF MapRemove, ListRemove
  <2>2. Once(processes') /\ \A d : Contains(processes', d) <=> d # c /\ Contains(processes, d)
    BY <2>1, TakenOut DEF RoutingInv, Indexed
  <2> QED  BY <1>7, <2>2 DEF MapRemove, RoutingInv, Indexed, InMap, GoTo, Up, daemonVars
<1>8. ASSUME NEW c \in Conns, Accept(c) \/ SelectFails(c) \/ SelectNew(c)
      PROVE  Indexed'
  <2>1. processes' = processes /\ entries' = entries /\ (Up' <=> Up)
    BY <1>8 DEF Accept, SelectFails, SelectNew, Up, LoopTest, mapVars, daemonVars, procVars
  <2>2. \A d \in Conns : InMap(d)' <=> InMap(d)
    BY <1>8 DEF Accept, SelectFails, SelectNew, InMap, GoTo, procVars
  <2> QED  BY <2>1, <2>2 DEF RoutingInv, Indexed
<1>9. ASSUME NEW c \in Conns, AddUserFails(c) \/ AddUser(c) \/ LockBucket(c)
      PROVE  Indexed'
  <2>1. processes' = processes /\ entries' = entries /\ (Up' <=> Up)
    BY <1>9 DEF AddUserFails, Created, AddUser, SendTo, LockBucket, Up, LoopTest, mapVars,
           daemonVars, procVars
  <2>2. \A d \in Conns : InMap(d)' <=> InMap(d)
    BY <1>9 DEF AddUserFails, Created, AddUser, SendTo, LockBucket, InMap, GoTo, procVars
  <2> QED  BY <2>1, <2>2 DEF RoutingInv, Indexed
<1>10. ASSUME NEW c \in Conns, WaitChild(c) \/ Kill(c) \/ FreeProc(c)
      PROVE  Indexed'
  <2>1. processes' = processes /\ entries' = entries /\ (Up' <=> Up)
    BY <1>10 DEF WaitChild, Kill, Terminated, FreeProc, Up, LoopTest, mapVars, daemonVars,
           procVars
  <2>2. \A d \in Conns : InMap(d)' <=> InMap(d)
    BY <1>10 DEF WaitChild, Kill, Terminated, FreeProc, InMap, GoTo, procVars
  <2> QED  BY <2>1, <2>2 DEF RoutingInv, Indexed
<1>11. ASSUME NEW c \in Conns, FreeSocket(c) \/ IoEnds(c) \/ ChildStarts(c)
      PROVE  Indexed'
  <2>1. processes' = processes /\ entries' = entries /\ (Up' <=> Up)
    BY <1>11 DEF FreeSocket, IoEnds, ChildStarts, Up, LoopTest, mapVars, daemonVars, procVars
  <2>2. \A d \in Conns : InMap(d)' <=> InMap(d)
    BY <1>11 DEF FreeSocket, IoEnds, ChildStarts, InMap, GoTo, procVars
  <2> QED  BY <2>1, <2>2 DEF RoutingInv, Indexed
<1>12. ASSUME NEW c \in Conns, ChildReceives(c) \/ ChildExits(c)
      PROVE  Indexed'
  <2>1. processes' = processes /\ entries' = entries /\ (Up' <=> Up)
    BY <1>12 DEF ChildReceives, ChildExits, Leaves, Up, LoopTest, mapVars, daemonVars, procVars
  <2>2. \A d \in Conns : InMap(d)' <=> InMap(d)
    BY <1>12 DEF ChildReceives, ChildExits, Leaves, InMap, GoTo, procVars
  <2> QED  BY <2>1, <2>2 DEF RoutingInv, Indexed
<1>13. ASSUME NEW c \in Conns, NEW p \in Conns, SelectExisting(c, p) \/ AddUserFreed(c, p) \/
             UserLeaves(p, c)
      PROVE  Indexed'
  <2>1. processes' = processes /\ entries' = entries /\ (Up' <=> Up)
    BY <1>13 DEF SelectExisting, AddUserFreed, SendTo, Created, UserLeaves, Up, LoopTest,
           mapVars, daemonVars, procVars
  <2>2. \A d \in Conns : InMap(d)' <=> InMap(d)
    BY <1>13 DEF SelectExisting, AddUserFreed, SendTo, Created, UserLeaves, InMap, GoTo,
           procVars
  <2> QED  BY <2>1, <2>2 DEF RoutingInv, Indexed
<1>14. CASE Quiescent
  BY <1>1, <1>14 DEF Quiescent
<1> QED  BY <1>1, <1>2, <1>3, <1>4, <1>5, <1>6, <1>7, <1>8, <1>9, <1>10, <1>11, <1>12, <1>13,
           <1>14
         DEF Next, DaemonStep, ConnStep, ChildStep

\* The list is not changed while guacd_proc_map_foreach() walks it.
LEMMA WalkKept ==
  ASSUME RoutingInv, [Next]_vars
  PROVE  WalkLocked'
<1> USE RoutingAssumption, TypesKnown DEF daemonVars, routeVars, mapVars, procVars, ioVars,
    GoTo, LoopTest, RoutingInv, WalkLocked, Up
<1>1. CASE UNCHANGED vars
  BY <1>1 DEF vars
<1>2. CASE AcceptFails \/ Signal
  BY <1>2 DEF AcceptFails, Signal
<1>3. CASE ForeachBegin
  BY <1>3 DEF ForeachBegin, Terminated
<1>4. CASE ForeachNext
  <2>1. \A c : Contains(Tail(cursor), c) => Contains(cursor, c)
    BY <1>4, FirstTaken DEF ForeachNext
  <2> QED  BY <1>4, <2>1 DEF ForeachNext
<1>5. CASE DaemonExit
  BY <1>5, EmptyList DEF DaemonExit
<1>6. ASSUME NEW c \in Conns, Accept(c) \/ SelectFails(c) \/ SelectNew(c) \/ AddUserFails(c)
             \/ AddUser(c) \/ LockBucket(c) \/ MapAdd(c) \/ WaitChild(c)
      PROVE  WalkLocked'
  BY <1>6 DEF Accept, SelectFails, SelectNew, AddUserFails, Created, AddUser, SendTo,
         LockBucket, MapAdd, ListAdd, WaitChild
<1>7. ASSUME NEW c \in Conns, MapRemove(c) \/ Kill(c) \/ FreeProc(c) \/ FreeSocket(c) \/
             IoEnds(c) \/ ChildStarts(c) \/ ChildReceives(c) \/ ChildExits(c)
      PROVE  WalkLocked'
  BY <1>7 DEF MapRemove, ListRemove, Kill, Terminated, FreeProc, FreeSocket, IoEnds,
         ChildStarts, ChildReceives, ChildExits, Leaves
<1>8. ASSUME NEW c \in Conns, NEW p \in Conns, SelectExisting(c, p) \/ AddUserFreed(c, p) \/
             UserLeaves(p, c)
      PROVE  WalkLocked'
  BY <1>8 DEF SelectExisting, AddUserFreed, SendTo, Created, UserLeaves
<1>9. CASE Quiescent
  BY <1>1, <1>9 DEF Quiescent
<1> QED  BY <1>1, <1>2, <1>3, <1>4, <1>5, <1>6, <1>7, <1>8, <1>9
         DEF Next, DaemonStep, ConnStep, ChildStep

\* A guacd_proc is freed by its own thread, after all its other steps.
LEMMA LivingKept ==
  ASSUME RoutingInv, [Next]_vars
  PROVE  Living'
<1> USE RoutingAssumption, TypesKnown DEF daemonVars, routeVars, mapVars, procVars, ioVars,
    GoTo, LoopTest, RoutingInv, Living, Serves, Up, Labels
<1>1. CASE UNCHANGED vars
  BY <1>1 DEF vars
<1>2. CASE AcceptFails \/ Signal
  BY <1>2 DEF AcceptFails, Signal
<1>3. CASE ForeachBegin
  BY <1>3 DEF ForeachBegin, Terminated
<1>4. CASE ForeachNext
  BY <1>4 DEF ForeachNext, Terminated
<1>5. CASE DaemonExit
  BY <1>5 DEF DaemonExit
<1>6. ASSUME NEW c \in Conns, Accept(c) \/ SelectFails(c) \/ SelectNew(c) \/ AddUserFails(c)
             \/ AddUser(c) \/ LockBucket(c) \/ MapAdd(c) \/ WaitChild(c)
      PROVE  Living'
  BY <1>6 DEF Accept, SelectFails, SelectNew, AddUserFails, Created, AddUser, SendTo,
         LockBucket, MapAdd, ListAdd, WaitChild
<1>7. ASSUME NEW c \in Conns, MapRemove(c) \/ Kill(c) \/ FreeProc(c) \/ FreeSocket(c) \/
             IoEnds(c) \/ ChildStarts(c) \/ ChildReceives(c) \/ ChildExits(c)
      PROVE  Living'
  BY <1>7 DEF MapRemove, ListRemove, Kill, Terminated, FreeProc, FreeSocket, IoEnds,
         ChildStarts, ChildReceives, ChildExits, Leaves
<1>8. ASSUME NEW c \in Conns, NEW p \in Conns, Up, SelectExisting(c, p)
      PROVE  Living'
  BY <1>8 DEF SelectExisting, Indexed, InMap
<1>9. ASSUME NEW c \in Conns, NEW p \in Conns, AddUserFreed(c, p) \/ UserLeaves(p, c)
      PROVE  Living'
  BY <1>9 DEF AddUserFreed, SendTo, Created, UserLeaves
<1>10. CASE Quiescent
  BY <1>1, <1>10 DEF Quiescent
<1> QED  BY <1>1, <1>2, <1>3, <1>4, <1>5, <1>6, <1>7, <1>8, <1>9, <1>10
         DEF Next, DaemonStep, ConnStep, ChildStep

\* Every way through routing leaves parser and socket to one thread.
LEMMA OwnedKept ==
  ASSUME RoutingInv, [Next]_vars
  PROVE  OwnedOnce'
<1> USE RoutingAssumption, TypesKnown DEF daemonVars, routeVars, mapVars, procVars, ioVars,
    GoTo, LoopTest, RoutingInv, OwnedOnce, Owned, Serves, Living, Up
<1>1. CASE UNCHANGED vars
  BY <1>1 DEF vars
<1>2. CASE AcceptFails \/ Signal
  BY <1>2 DEF AcceptFails, Signal
<1>3. CASE ForeachBegin
  BY <1>3 DEF ForeachBegin, Terminated
<1>4. CASE ForeachNext
  BY <1>4 DEF ForeachNext, Terminated
<1>5. CASE DaemonExit
  BY <1>5 DEF DaemonExit
<1>6. ASSUME NEW c \in Conns, Accept(c)
      PROVE  OwnedOnce'
  BY <1>6 DEF Accept
<1>7. ASSUME NEW c \in Conns, SelectFails(c)
      PROVE  OwnedOnce'
  BY <1>7 DEF SelectFails
<1>8. ASSUME NEW c \in Conns, SelectNew(c)
      PROVE  OwnedOnce'
  BY <1>8 DEF SelectNew
<1>9. ASSUME NEW c \in Conns, AddUserFails(c)
      PROVE  OwnedOnce'
  BY <1>9 DEF AddUserFails, Created
<1>10. ASSUME NEW c \in Conns, AddUser(c)
      PROVE  OwnedOnce'
  BY <1>10 DEF AddUser, SendTo, Created
<1>11. ASSUME NEW c \in Conns, LockBucket(c)
      PROVE  OwnedOnce'
  BY <1>11 DEF LockBucket
<1>12. ASSUME NEW c \in Conns, Up, MapAdd(c)
      PROVE  OwnedOnce'
  BY <1>12 DEF MapAdd, ListAdd
<1>13. ASSUME NEW c \in Conns, WaitChild(c)
      PROVE  OwnedOnce'
  BY <1>13 DEF WaitChild
<1>14. ASSUME NEW c \in Conns, MapRemove(c)
      PROVE  OwnedOnce'
  BY <1>14 DEF MapRemove, ListRemove
<1>15. ASSUME NEW c \in Conns, Kill(c)
      PROVE  OwnedOnce'
  BY <1>15 DEF Kill, Terminated
<1>16. ASSUME NEW c \in Conns, FreeProc(c)
      PROVE  OwnedOnce'
  BY <1>16 DEF FreeProc
<1>17. ASSUME NEW c \in Conns, FreeSocket(c)
      PROVE  OwnedOnce'
  BY <1>17 DEF FreeSocket
<1>18. ASSUME NEW c \in Conns, IoEnds(c)
      PROVE  OwnedOnce'
  BY <1>18 DEF IoEnds
<1>19. ASSUME NEW c \in Conns, ChildStarts(c)
      PROVE  OwnedOnce'
  BY <1>19 DEF ChildStarts
<1>20. ASSUME NEW c \in Conns, ChildReceives(c)
      PROVE  OwnedOnce'
  BY <1>20 DEF ChildReceives
<1>21. ASSUME NEW c \in Conns, ChildExits(c)
      PROVE  OwnedOnce'
  BY <1>21 DEF ChildExits, Leaves
<1>22. ASSUME NEW c \in Conns, NEW p \in Conns, SelectExisting(c, p) \/ AddUserFreed(c, p) \/
             UserLeaves(p, c)
      PROVE  OwnedOnce'
  BY <1>22 DEF SelectExisting, AddUserFreed, SendTo, Created, UserLeaves
<1>23. CASE Quiescent
  BY <1>1, <1>23 DEF Quiescent
<1> QED  BY <1>1, <1>2, <1>3, <1>4, <1>5, <1>6, <1>7, <1>8, <1>9, <1>10, <1>11, <1>12, <1>13,
           <1>14, <1>15, <1>16, <1>17, <1>18, <1>19, <1>20, <1>21, <1>22, <1>23
         DEF Next, DaemonStep, ConnStep, ChildStep

\* A descriptor that was not sent yet is put behind those sent before.
LEMMA SentBehind ==
  ASSUME RoutingInv, NEW c \in Conns, NEW p \in Conns, pc[c] = "add", SendTo(c, p),
         target' = target, users' = users
  PROVE  NotSentYet' /\ BehindOwner'
<1> USE TypesKnown
<1>1. /\ queue'[p] = Append(queue[p], c) /\ queue[p] \in Seq(Conns)
      /\ \A q \in Conns \ {p} : queue'[q] = queue[q]
      /\ ~Unsent(c)' /\ Unsent(c) /\ \A d \in Conns \ {c} : pc'[d] = pc[d]
  BY DEF SendTo, GoTo, Unsent
<1>2. /\ Len(queue'[p]) = Len(queue[p]) + 1 /\ queue'[p][Len(queue[p]) + 1] = c
      /\ \A i \in 1 .. Len(queue[p]) : queue'[p][i] = queue[p][i]
      /\ \A v : Contains(queue'[p], v) <=> v = c \/ Contains(queue[p], v)
      /\ Len(queue[p]) \in Nat
  BY <1>1, PutAtEnd, LenProperties
<1>3. NotSentYet'
  BY <1>1, <1>2 DEF RoutingInv, NotSentYet, Unsent
<1>4. BehindOwner'
  <2> SUFFICES ASSUME NEW q \in Conns, NEW d \in Conns, d # q, target[d] = q
               PROVE  /\ ~Unsent(q)'
                      /\ d \in users[q] => ~Contains(queue'[q], q)
                      /\ \A i, j \in 1 .. Len(queue'[q]) :
                           queue'[q][i] = q /\ queue'[q][j] = d => i < j
    BY DEF BehindOwner
  <2>1. /\ ~Unsent(q) /\ q # c
        /\ d \in users[q] => ~Contains(queue[q], q)
        /\ \A i, j \in 1 .. Len(queue[q]) : queue[q][i] = q /\ queue[q][j] = d => i < j
    BY <1>1 DEF RoutingInv, BehindOwner
  <2>2. CASE q # p
    BY <1>1, <2>1, <2>2 DEF Unsent
  <2>3. CASE q = p
    <3>1. ASSUME NEW i \in 1 .. Len(queue'[p]), NEW j \in 1 .. Len(queue'[p]),
                 queue'[p][i] = q, queue'[p][j] = d
          PROVE  i < j
      <4>1. i \in 1 .. Len(queue[p])
        BY <1>2, <2>1, <3>1
      <4>2. j \in 1 .. Len(queue[p]) \/ j = Len(queue[p]) + 1
        BY <1>2
      <4>3. queue[p][i] = q
        BY <1>2, <3>1, <4>1
      <4>4. ASSUME j \in 1 .. Len(queue[p])  PROVE i < j
        <5>1. queue[p][j] = d
          BY <1>2, <3>1, <4>4
        <5> QED  BY <2>1, <2>3, <4>1, <4>3, <4>4, <5>1
      <4>5. ASSUME j = Len(queue[p]) + 1  PROVE i < j
        BY <1>2, <4>1, <4>5
      <4> QED  BY <4>2, <4>4, <4>5
    <3>2. Contains(queue'[p], q) => Contains(queue[p], q)
      BY <1>2, <2>1
    <3> QED  BY <1>1, <2>1, <2>3, <3>1, <3>2 DEF Unsent
  <2> QED  BY <2>2, <2>3
<1> QED  BY <1>3, <1>4

\* Descriptors are received in the order in which they were sent.
LEMMA ReceivedInOrder ==
  ASSUME RoutingInv, NEW p \in Conns, ChildReceives(p)
  PROVE  NotSentYet' /\ BehindOwner'
<1> USE TypesKnown
<1> DEFINE h == Head(queue[p])
<1>1. /\ queue[p] \in Seq(Conns) /\ queue[p] # << >>
      /\ queue'[p] = Tail(queue[p]) /\ \A q \in Conns \ {p} : queue'[q] = queue[q]
      /\ users'[p] = users[p] \cup {h} /\ \A q \in Conns \ {p} : users'[q] = users[q]
      /\ pc' = pc /\ target' = target
  BY DEF ChildReceives, routeVars
<1>2. /\ h \in Conns /\ h = queue[p][1] /\ 1 \in 1 .. Len(queue[p]) /\ Contains(queue[p], h)
      /\ \A i \in 1 .. Len(queue'[p]) : /\ i + 1 \in 1 .. Len(queue[p])
                                        /\ queue'[p][i] = queue[p][i + 1]
      /\ \A v : Contains(queue'[p], v) => Contains(queue[p], v)
  BY <1>1, FirstTaken
<1> HIDE DEF h
<1>3. NotSentYet'
  BY <1>1, <1>2 DEF RoutingInv, NotSentYet, Unsent
<1>4. BehindOwner'
  <2> SUFFICES ASSUME NEW q \in Conns, NEW d \in Conns, d # q, target[d] = q
               PROVE  /\ ~Unsent(q)'
                      /\ d \in users'[q] => ~Contains(queue'[q], q)
                      /\ \A i, j \in 1 .. Len(queue'[q]) :
                           queue'[q][i] = q /\ queue'[q][j] = d => i < j
    BY <1>1 DEF BehindOwner
  <2>1. /\ ~Unsent(q)
        /\ d \in users[q] => ~Contains(queue[q], q)
        /\ \A i, j \in 1 .. Len(queue[q]) : queue[q][i] = q /\ queue[q][j] = d => i < j
    BY DEF RoutingInv, BehindOwner
  <2>2. CASE q # p
    <3>1. queue'[q] = queue[q] /\ users'[q] = users[q] /\ (Unsent(q)' <=> Unsent(q))
      BY <1>1, <2>2 DEF Unsent
    <3> QED  BY <2>1, <3>1
  <2>3. CASE q = p
    <3>0. ~Unsent(q)'
      BY <1>1, <2>1 DEF Unsent
    <3>1. ASSUME NEW i \in 1 .. Len(queue'[p]), NEW j \in 1 .. Len(queue'[p]),
                 queue'[p][i] = q, queue'[p][j] = d
          PROVE  i < j
      <4>1. i + 1 \in 1 .. Len(queue[p]) /\ j + 1 \in 1 .. Len(queue[p]) /\ i \in Int /\ j \in Int
        BY <1>2
      <4>2. queue[p][i + 1] = q /\ queue[p][j + 1] = d
        BY <1>2, <3>1
      <4>3. i + 1 < j + 1
        BY <2>1, <2>3, <4>1, <4>2
      <4> QED  BY <4>1, <4>3
    <3>2. ASSUME d = h  PROVE ~Contains(queue'[p], q)
      <4>1. ASSUME NEW i \in 1 .. Len(queue'[p]), queue'[p][i] = q  PROVE FALSE
        <5>1. i + 1 \in 1 .. Len(queue[p]) /\ queue[p][i + 1] = q /\ i \in Nat /\ i # 0
          BY <1>2, <4>1
        <5>2. queue[p][1] = d /\ 1 \in 1 .. Len(queue[p])
          BY <1>2, <3>2
        <5>3. i + 1 < 1
          BY <2>1, <2>3, <5>1, <5>2
        <5> QED  BY <5>1, <5>3
      <4> QED  BY <4>1 DEF Contains
    <3>3. ASSUME d \in users'[p]  PROVE ~Contains(queue'[p], q)
      BY <1>1, <1>2, <2>1, <2>3, <3>2, <3>3
    <3> QED  BY <2>3, <3>0, <3>1, <3>3
  <2> QED  BY <2>2, <2>3
<1> QED  BY <1>3, <1>4

\* A connection that is not routed yet is in no process.
LEMMA UnsentKept ==
  ASSUME RoutingInv, [Next]_vars
  PROVE  NotSentYet'
<1> USE RoutingAssumption, TypesKnown DEF daemonVars, routeVars, mapVars, procVars, ioVars,
    GoTo, LoopTest, NotSentYet, Unsent, RoutingInv
<1>1. CASE UNCHANGED vars
  BY <1>1 DEF vars
<1>2. CASE AcceptFails \/ Signal
  BY <1>2 DEF AcceptFails, Signal
<1>3. CASE ForeachBegin
  BY <1>3 DEF ForeachBegin, Terminated
<1>4. CASE ForeachNext
  BY <1>4 DEF ForeachNext, Terminated
<1>5. CASE DaemonExit
  BY <1>5 DEF DaemonExit
<1>6. ASSUME NEW c \in Conns, AddUser(c)
      PROVE  NotSentYet'
  <2>1. target[c] \in Conns
    BY <1>6 DEF AddUser, RoutingInv, Living
  <2> QED  BY <1>6, <2>1, SentBehind DEF AddUser
<1>7. ASSUME NEW c \in Conns, ChildReceives(c)
      PROVE  NotSentYet'
  BY <1>7, ReceivedInOrder
<1>8. ASSUME NEW c \in Conns, ChildExits(c)
      PROVE  NotSentYet'
  BY <1>8, EmptyList DEF ChildExits, Leaves
<1>9. ASSUME NEW c \in Conns, Accept(c) \/ SelectFails(c) \/ SelectNew(c) \/ AddUserFails(c)
             \/ LockBucket(c) \/ MapAdd(c)
      PROVE  NotSentYet'
  BY <1>9 DEF Accept, SelectFails, SelectNew, AddUserFails, Created, LockBucket, MapAdd,
         ListAdd
<1>10. ASSUME NEW c \in Conns, WaitChild(c) \/ MapRemove(c) \/ Kill(c) \/ FreeProc(c) \/
             FreeSocket(c) \/ IoEnds(c) \/ ChildStarts(c)
      PROVE  NotSentYet'
  BY <1>10 DEF WaitChild, MapRemove, ListRemove, Kill, Terminated, FreeProc, FreeSocket,
         IoEnds, ChildStarts
<1>11. ASSUME NEW c \in Conns, NEW p \in Conns, AddUserFreed(c, p)
      PROVE  NotSentYet'
  BY <1>11, SentBehind DEF AddUserFreed
<1>12. ASSUME NEW c \in Conns, NEW p \in Conns, Up, SelectExisting(c, p)
      PROVE  NotSentYet'
  BY <1>12 DEF SelectExisting
<1>13. ASSUME NEW c \in Conns, NEW p \in Conns, UserLeaves(p, c)
      PROVE  NotSentYet'
  BY <1>13 DEF UserLeaves
<1>14. CASE Quiescent
  BY <1>1, <1>14 DEF Quiescent
<1> QED  BY <1>1, <1>2, <1>3, <1>4, <1>5, <1>6, <1>7, <1>8, <1>9, <1>10, <1>11, <1>12, <1>13,
           <1>14
         DEF Next, DaemonStep, ConnStep, ChildStep

\* The owner of a process is ahead of those who found it in the map.
LEMMA BehindKept ==
  ASSUME RoutingInv, [Next]_vars
  PROVE  BehindOwner'
<1> USE RoutingAssumption, TypesKnown DEF daemonVars, routeVars, mapVars, procVars, ioVars,
    GoTo, LoopTest, RoutingInv, BehindOwner, NotSentYet, Unsent
<1>1. CASE UNCHANGED vars
  BY <1>1 DEF vars
<1>2. CASE AcceptFails \/ Signal
  BY <1>2 DEF AcceptFails, Signal
<1>3. CASE ForeachBegin
  BY <1>3 DEF ForeachBegin, Terminated
<1>4. CASE ForeachNext
  BY <1>4 DEF ForeachNext, Terminated
<1>5. CASE DaemonExit
  BY <1>5 DEF DaemonExit
<1>6. ASSUME NEW c \in Conns, AddUser(c)
      PROVE  BehindOwner'
  <2>1. target[c] \in Conns
    BY <1>6 DEF AddUser, RoutingInv, Living
  <2> QED  BY <1>6, <2>1, SentBehind DEF AddUser
<1>7. ASSUME NEW c \in Conns, ChildReceives(c)
      PROVE  BehindOwner'
  BY <1>7, ReceivedInOrder
<1>8. ASSUME NEW c \in Conns, ChildExits(c)
      PROVE  BehindOwner'
  BY <1>8, EmptyList DEF ChildExits, Leaves, Contains
<1>9. ASSUME NEW c \in Conns, Accept(c) \/ SelectFails(c) \/ SelectNew(c) \/ AddUserFails(c)
             \/ LockBucket(c) \/ MapAdd(c)
      PROVE  BehindOwner'
  BY <1>9 DEF Accept, SelectFails, SelectNew, AddUserFails, Created, LockBucket, MapAdd,
         ListAdd
<1>10. ASSUME NEW c \in Conns, WaitChild(c) \/ MapRemove(c) \/ Kill(c) \/ FreeProc(c) \/
             FreeSocket(c) \/ IoEnds(c) \/ ChildStarts(c)
      PROVE  BehindOwner'
  BY <1>10 DEF WaitChild, MapRemove, ListRemove, Kill, Terminated, FreeProc, FreeSocket,
         IoEnds, ChildStarts
<1>11. ASSUME NEW c \in Conns, NEW p \in Conns, AddUserFreed(c, p)
      PROVE  BehindOwner'
  BY <1>11, SentBehind DEF AddUserFreed
<1>12. ASSUME NEW c \in Conns, NEW p \in Conns, Up, SelectExisting(c, p)
      PROVE  BehindOwner'
  <2>1. /\ target'[c] = p /\ \A d \in Conns \ {c} : target'[d] = target[d]
        /\ \A d \in Conns \ {c} : pc'[d] = pc[d]
        /\ queue' = queue /\ users' = users /\ Unsent(c)
    BY <1>12 DEF SelectExisting
  <2>2. ~Unsent(p) /\ p # c
    BY <1>12 DEF SelectExisting, Indexed, InMap, Up
  <2>3. c \notin users[p] /\ ~Contains(queue[p], c)
    BY <2>1
  <2>4. \A j \in 1 .. Len(queue[p]) : queue[p][j] # c
    BY <2>3 DEF Contains
  <2> SUFFICES ASSUME NEW q \in Conns, NEW d \in Conns, d # q, target'[d] = q
               PROVE  /\ ~Unsent(q)'
                      /\ d \in users[q] => ~Contains(queue[q], q)
                      /\ \A i, j \in 1 .. Len(queue[q]) :
                           queue[q][i] = q /\ queue[q][j] = d => i < j
    BY <2>1 DEF BehindOwner
  <2>5. CASE d = c
    BY <2>1, <2>2, <2>3, <2>4, <2>5
  <2>6. CASE d # c
    <3>1. target[d] = q /\ ~Unsent(q) /\ q # c
      BY <2>1, <2>6
    <3> QED  BY <2>1, <3>1
  <2> QED  BY <2>5, <2>6
<1>13. ASSUME NEW c \in Conns, NEW p \in Conns, UserLeaves(p, c)
      PROVE  BehindOwner'
  <2>1. /\ \A q \in Conns : users'[q] \subseteq users[q]
        /\ queue' = queue /\ target' = target /\ pc' = pc
    BY <1>13 DEF UserLeaves
  <2> QED  BY <2>1
<1>14. CASE Quiescent
  BY <1>1, <1>14 DEF Quiescent
<1> QED  BY <1>1, <1>2, <1>3, <1>4, <1>5, <1>6, <1>7, <1>8, <1>9, <1>10, <1>11, <1>12, <1>13,
           <1>14
         DEF Next, DaemonStep, ConnStep, ChildStep

-----------------------------------------------------------------------------
(* The specification *)

\* guacd starts with no connection and no process (daemon.c).
LEMMA RoutingInit ==
  ASSUME Init
  PROVE  RoutingInv
<1> USE RoutingAssumption, EmptyList DEF Init
<1>1. TypeOK
  <2>1. << >> \in Seq(Conns)
    BY EmptySeq
  <2>2. queue \in [Conns -> Seq(Conns)] /\ users \in [Conns -> SUBSET Conns]
    BY <2>1
  <2>3. pc \in [Conns -> Labels]
    BY DEF Labels
  <2>4. /\ target \in [Conns -> Conns \cup {None}] /\ add_user_failed \in [Conns -> BOOLEAN]
        /\ mem \in [Conns -> {"none", "allocated", "freed"}]
        /\ child \in [Conns -> {"none", "forked", "grouped", "serving", "stopping", "exited"}]
        /\ bucket_lock \in [Buckets -> Conns \cup {None}]
        /\ parser \in [Conns -> 0 .. 2] /\ socket \in [Conns -> 0 .. 2]
    OBVIOUS
  <2> QED  BY <2>1, <2>2, <2>3, <2>4 DEF TypeOK
<1>2. Indexed /\ WalkLocked /\ Living /\ OwnedOnce
  BY DEF Indexed, InMap, WalkLocked, Up, Living, Serves, OwnedOnce, Owned
<1>3. NotSentYet /\ BehindOwner
  BY DEF NotSentYet, BehindOwner, Unsent
<1> QED  BY <1>1, <1>2, <1>3 DEF RoutingInv

\* Every step of guacd keeps the invariant (daemon.c, connection.c, proc.c,
\* proc-map.c).
LEMMA RoutingStep ==
  ASSUME RoutingInv, [Next]_vars
  PROVE  RoutingInv'
BY TypeKept, IndexKept, WalkKept, LivingKept, OwnedKept, UnsentKept, BehindKept DEF RoutingInv

\* The invariant says that the routing is sound and that what is allocated has
\* one owner (connection.c).
LEMMA RoutingInvImplies ==
  ASSUME RoutingInv
  PROVE  RoutingSound /\ OwnershipKept
<1> USE TypesKnown
<1>1. MappedAllocated
  <2> SUFFICES ASSUME Up, NEW p \in entries \cup ToSet(processes) \cup ToSet(cursor)
               PROVE  mem[p] = "allocated"
    BY DEF MappedAllocated
  <2>1. Contains(cursor, p) => Contains(processes, p)
    BY DEF RoutingInv, WalkLocked
  <2>2. p \in entries \/ Contains(processes, p)
    BY <2>1, InToSet
  <2>3. p \in Conns
    BY <2>2, ElementOfSeq DEF Contains
  <2>4. InMap(p)
    BY <2>2, <2>3 DEF RoutingInv, Indexed
  <2> QED  BY <2>3, <2>4 DEF RoutingInv, Living, InMap, Serves
<1>2. OwnerBeforeJoiners
  <2> SUFFICES ASSUME NEW p \in Creators, NEW c \in Conns \ {p}, p \in ToSet(queue[p]),
                      target[c] = p
               PROVE  c \notin users[p] /\ Head(queue[p]) # c
    BY DEF OwnerBeforeJoiners
  <2>1. p \in Conns /\ queue[p] \in Seq(Conns)
    BY RoutingAssumption
  <2>2. Contains(queue[p], p)
    BY <2>1, InToSet
  <2>3. PICK i \in 1 .. Len(queue[p]) : queue[p][i] = p
    BY <2>2 DEF Contains
  <2>4. queue[p] # << >>
    BY <2>1, <2>2, EmptyList
  <2>5. /\ c \in users[p] => ~Contains(queue[p], p)
        /\ \A m, n \in 1 .. Len(queue[p]) : queue[p][m] = p /\ queue[p][n] = c => m < n
    BY <2>1 DEF RoutingInv, BehindOwner
  <2>6. Head(queue[p]) = queue[p][1] /\ 1 \in 1 .. Len(queue[p])
    BY <2>1, <2>4, FirstTaken
  <2>7. queue[p][1] # c
    <3>1. queue[p][1] = c => i < 1
      BY <2>3, <2>5, <2>6
    <3> QED  BY <3>1
  <2> QED  BY <2>2, <2>5, <2>6, <2>7
<1>3. FreedByOne
  BY DEF FreedByOne, RoutingInv, OwnedOnce, Owned
<1>4. NotForgotten
  BY DEF NotForgotten, RoutingInv, OwnedOnce, Owned
<1> QED  BY <1>1, <1>2, <1>3, <1>4 DEF RoutingSound, OwnershipKept, RoutingInv

\* However the threads of guacd interleave, with each other, with its children and
\* with a signal: whatever the map leads to, and the process the daemon is about to
\* stop, has not been freed, and a user that found a process in the map comes to it
\* after its owner (proc-map.c, connection.c, proc.c).
THEOREM RoutingSafe == Spec => []RoutingSound
<1>1. Init => RoutingInv
  BY RoutingInit
<1>2. RoutingInv /\ [Next]_vars => RoutingInv'
  BY RoutingStep
<1>3. RoutingInv => RoutingSound
  BY RoutingInvImplies
<1> QED  BY <1>1, <1>2, <1>3, PTL DEF Spec

\* Whichever step of guacd_route_connection() fails, the parser and the socket of the
\* connection are freed once, by the thread that has them (connection.c).
THEOREM RoutingOwnership == Spec => []OwnershipKept
<1>1. Init => RoutingInv
  BY RoutingInit
<1>2. RoutingInv /\ [Next]_vars => RoutingInv'
  BY RoutingStep
<1>3. RoutingInv => OwnershipKept
  BY RoutingInvImplies
<1> QED  BY <1>1, <1>2, <1>3, PTL DEF Spec

=============================================================================
