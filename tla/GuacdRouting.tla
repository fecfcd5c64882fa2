---------------------------- MODULE GuacdRouting ----------------------------
(***************************************************************************)
(* The parent process of guacd: the daemon's accept loop (daemon.c), one   *)
(* thread per accepted connection that routes it to a new or an existing   *)
(* child process (connection.c), the map of processes (proc-map.c, and     *)
(* common/list.c), creating and killing children (proc.c) and handing      *)
(* them descriptors (move-fd.c).                                           *)
(*                                                                         *)
(* A connection that creates a process lends it its name: the process of   *)
(* connection c is c.  What happens inside a child is ClientUsers; here a  *)
(* child receives descriptors, loses users, and ends.                      *)
(***************************************************************************)
EXTENDS Naturals, Sequences, FiniteSets, SequencesExt

CONSTANTS Conns,      \* the connections that may be accepted
          Creators,   \* those whose "select" names a protocol, not a process's ID
          Buckets,    \* the buckets of the map
          Bucket,     \* the bucket the hash of each process's ID selects
          None

Daemon == "daemon"

ASSUME RoutingAssumption ==
  /\ Creators \subseteq Conns
  /\ Bucket \in [Conns -> Buckets]
  /\ None \notin Conns \cup {Daemon}
  /\ Daemon \notin Conns

VARIABLES stop_everything,
          loop,        \* the daemon: "accept", "lock", "foreach", "exited"
          cursor,      \* the processes guacd_proc_map_foreach() has still to stop
          pc,          \* where each connection's thread is
          target,      \* the process it adds its user to
          add_user_failed,
          mem,         \* the guacd_proc of each process: "none", "allocated", "freed"
          child,       \* "none", "forked", "grouped", "serving", "stopping", "exited"
          queue,       \* descriptors sent to the child and not yet received
          users,       \* those it has received and not closed
          processes,   \* map->processes, most recent first
          entries,     \* the processes with an entry in their bucket
          bucket_lock, processes_lock,
          io,          \* the connections whose I/O threads run
          parser,      \* how often each parser and socket were freed
          socket

daemonVars == <<stop_everything, loop, cursor>>
routeVars == <<target, add_user_failed>>
mapVars == <<processes, entries, bucket_lock, processes_lock>>
procVars == <<mem, child, queue, users>>
ioVars == <<io, parser, socket>>
vars == <<daemonVars, pc, routeVars, procVars, mapVars, ioVars>>

Labels == {"absent", "select", "add", "map_add", "map_added", "wait", "map_remove",
           "map_removed", "kill", "reap", "failed", "done"}

TypeOK ==
  /\ stop_everything \in BOOLEAN
  /\ loop \in {"accept", "lock", "foreach", "exited"}
  /\ cursor \in Seq(Conns)
  /\ pc \in [Conns -> Labels]
  /\ target \in [Conns -> Conns \cup {None}]
  /\ add_user_failed \in [Conns -> BOOLEAN]
  /\ mem \in [Conns -> {"none", "allocated", "freed"}]
  /\ child \in [Conns -> {"none", "forked", "grouped", "serving", "stopping", "exited"}]
  /\ queue \in [Conns -> Seq(Conns)]
  /\ users \in [Conns -> SUBSET Conns]
  /\ processes \in Seq(Conns)
  /\ entries \subseteq Conns
  /\ bucket_lock \in [Buckets -> Conns \cup {None}]
  /\ processes_lock \in Conns \cup {None, Daemon}
  /\ io \subseteq Conns
  /\ parser \in [Conns -> 0 .. 2]
  /\ socket \in [Conns -> 0 .. 2]

\* guacd_proc_map_alloc(), and the daemon about to enter its loop.
Init ==
  /\ stop_everything = FALSE
  /\ loop = "accept"
  /\ cursor = << >>
  /\ pc = [c \in Conns |-> "absent"]
  /\ target = [c \in Conns |-> None]
  /\ add_user_failed = [c \in Conns |-> FALSE]
  /\ mem = [c \in Conns |-> "none"]
  /\ child = [c \in Conns |-> "none"]
  /\ queue = [c \in Conns |-> << >>]
  /\ users = [c \in Conns |-> {}]
  /\ processes = << >>
  /\ entries = {}
  /\ bucket_lock = [b \in Buckets |-> None]
  /\ processes_lock = None
  /\ io = {}
  /\ parser = [c \in Conns |-> 0]
  /\ socket = [c \in Conns |-> 0]

Up == loop # "exited"

\* guac_common_list_add() and guac_common_list_remove().
ListAdd(list, p)    == <<p>> \o list
ListRemove(list, p) == RemoveFirst(list, p)

GoTo(c, label) == pc' = [pc EXCEPT ![c] = label]

-----------------------------------------------------------------------------
(* The daemon's loop (main() of daemon.c) *)

\* accept() has returned and the loop's condition is evaluated again.
LoopTest == loop' = IF stop_everything THEN "lock" ELSE "accept"

\* accept() returns a connection; its thread opens a guac_socket on it, or fails to
\* set up SSL/TLS and closes it (the thread is then over before it owns anything).
Accept(c) ==
  /\ loop = "accept"
  /\ pc[c] = "absent"
  /\ LoopTest
  /\ GoTo(c, "select")
  /\ UNCHANGED <<stop_everything, cursor, routeVars, procVars, mapVars, ioVars>>

\* accept() fails, which is only logged.
AcceptFails ==
  /\ loop = "accept"
  /\ LoopTest
  /\ UNCHANGED <<stop_everything, cursor, pc, routeVars, procVars, mapVars, ioVars>>

\* SIGINT or SIGTERM: signal_stop_handler().  It interrupts accept(), unless it came
\* between the loop's condition and the call.
Signal ==
  /\ loop = "accept"
  /\ stop_everything' = TRUE
  /\ loop' \in {"accept", "lock"}
  /\ UNCHANGED <<cursor, pc, routeVars, procVars, mapVars, ioVars>>

\* The outcomes of kill(SIGTERM): a child that has not yet installed its handlers
\* runs the daemon's, inherited, to no effect.
Terminated(p) ==
  child' = [child EXCEPT ![p] = IF @ = "serving" THEN "stopping" ELSE @]

\* waitpid(-pid) returns at once when the group is empty or not yet created.
GroupGone(p) == child[p] \in {"forked", "exited"}

\* guacd_proc_map_foreach() with stop_process_callback(): each process is killed and
\* waited for while the list of processes is locked.
ForeachBegin ==
  /\ loop = "lock"
  /\ processes_lock = None
  /\ processes_lock' = Daemon
  /\ cursor' = processes
  /\ IF processes # << >> THEN Terminated(processes[1]) ELSE UNCHANGED child
  /\ loop' = "foreach"
  /\ UNCHANGED <<stop_everything, pc, routeVars, mem, queue, users, processes, entries,
                 bucket_lock, ioVars>>

ForeachNext ==
  /\ loop = "foreach"
  /\ cursor # << >>
  /\ GroupGone(Head(cursor))
  /\ cursor' = Tail(cursor)
  /\ IF Len(cursor) > 1 THEN Terminated(cursor[2]) ELSE UNCHANGED child
  /\ UNCHANGED <<stop_everything, loop, pc, routeVars, mem, queue, users, mapVars, ioVars>>

\* main() returns.  Threads, memory and descriptors are gone with the process; of the
\* parent only which processes were in the map is remembered.
DaemonExit ==
  /\ loop = "foreach"
  /\ cursor = << >>
  /\ loop' = "exited"
  /\ pc' = [c \in Conns |-> "done"]
  /\ target' = [c \in Conns |-> None]
  /\ add_user_failed' = [c \in Conns |-> FALSE]
  /\ mem' = [c \in Conns |-> "none"]
  /\ processes' = << >>
  /\ bucket_lock' = [b \in Buckets |-> None]
  /\ processes_lock' = None
  /\ io' = {}
  /\ parser' = [c \in Conns |-> 0]
  /\ socket' = [c \in Conns |-> 0]
  /\ UNCHANGED <<stop_everything, cursor, child, queue, users, entries>>

DaemonStep ==
  \/ ForeachBegin
  \/ ForeachNext
  \/ DaemonExit

-----------------------------------------------------------------------------
(* guacd_connection_thread() and guacd_route_connection() *)

\* "select" did not arrive in time or had the wrong arguments, or named a process
\* that could not be created (guacd_create_proc() undoes what it had done).
SelectFails(c) ==
  /\ pc[c] = "select"
  /\ parser' = [parser EXCEPT ![c] = @ + 1]
  /\ GoTo(c, "failed")
  /\ UNCHANGED <<daemonVars, routeVars, procVars, mapVars,
                 io, socket>>

\* "select" names a protocol: guacd_create_proc().
SelectNew(c) ==
  /\ c \in Creators
  /\ pc[c] = "select"
  /\ mem' = [mem EXCEPT ![c] = "allocated"]
  /\ child' = [child EXCEPT ![c] = "forked"]
  /\ target' = [target EXCEPT ![c] = c]
  /\ GoTo(c, "add")
  /\ UNCHANGED <<daemonVars, add_user_failed, queue, users, mapVars, ioVars>>

\* "select" names the ID of a process: guacd_proc_map_retrieve(), then the lock of
\* the bucket is released.  A process without an entry does not exist.
SelectExisting(c, p) ==
  /\ c \notin Creators
  /\ pc[c] = "select"
  /\ bucket_lock[Bucket[p]] = None
  /\ p \in entries
  /\ target' = [target EXCEPT ![c] = p]
  /\ GoTo(c, "add")
  /\ UNCHANGED <<daemonVars, add_user_failed, procVars, mapVars, ioVars>>

Created(c) == target[c] = c

\* guacd_add_user() fails: no descriptors are left, or the pair was made and cannot
\* be sent, in which case it is not closed.  For a new process the parser is freed;
\* for an existing one nobody frees it.
AddUserFails(c) ==
  /\ pc[c] = "add"
  /\ add_user_failed' = [add_user_failed EXCEPT ![c] = TRUE]
  /\ parser' = IF Created(c) THEN [parser EXCEPT ![c] = @ + 1] ELSE parser
  /\ GoTo(c, IF Created(c) THEN "kill" ELSE "failed")
  /\ UNCHANGED <<daemonVars, target, procVars, mapVars, io, socket>>

\* The descriptor is sent (guacd_send_fd()) to process p and the I/O thread started,
\* which owns parser and socket from now on.  A child that is stopping may still have
\* its end of the socket open, and will not receive any more.
SendTo(c, p) ==
  /\ child[p] # "exited"
  /\ queue' = [queue EXCEPT ![p] = Append(@, c)]
  /\ io' = io \cup {c}
  /\ GoTo(c, IF Created(c) THEN "map_add" ELSE "done")

AddUser(c) ==
  /\ pc[c] = "add"
  /\ mem[target[c]] = "allocated"
  /\ SendTo(c, target[c])
  /\ UNCHANGED <<daemonVars, routeVars, mem, child, users, mapVars,
                 parser, socket>>

\* The guacd_proc of an existing process was freed since it was found: what is read as
\* its fd_socket may be that of a process created since, in the same memory.
AddUserFreed(c, p) ==
  /\ pc[c] = "add"
  /\ mem[target[c]] = "freed"
  /\ mem[p] = "allocated"
  /\ SendTo(c, p)
  /\ UNCHANGED <<daemonVars, routeVars, mem, child, users, mapVars,
                 parser, socket>>

\* guacd_proc_map_add() and guacd_proc_map_remove() lock the bucket, then the list
\* of all processes.
LockBucket(c) ==
  /\ pc[c] \in {"map_add", "map_remove"}
  /\ bucket_lock[Bucket[c]] = None
  /\ bucket_lock' = [bucket_lock EXCEPT ![Bucket[c]] = c]
  /\ GoTo(c, IF pc[c] = "map_add" THEN "map_added" ELSE "map_removed")
  /\ UNCHANGED <<daemonVars, routeVars, procVars, processes, entries,
                 processes_lock, ioVars>>

MapAdd(c) ==
  /\ pc[c] = "map_added"
  /\ processes_lock = None
  /\ processes' = ListAdd(processes, c)
  /\ entries' = entries \cup {c}
  /\ bucket_lock' = [bucket_lock EXCEPT ![Bucket[c]] = None]
  /\ GoTo(c, "wait")
  /\ UNCHANGED <<daemonVars, routeVars, procVars, processes_lock, ioVars>>

\* waitpid() of the child.
WaitChild(c) ==
  /\ pc[c] = "wait"
  /\ child[c] = "exited"
  /\ GoTo(c, "map_remove")
  /\ UNCHANGED <<daemonVars, routeVars, procVars, mapVars, ioVars>>

MutantRemoveUnlocked(c) ==
  /\ pc[c] = "map_removed"
  /\ processes' = ListRemove(processes, c)
  /\ entries' = entries \ {c}
  /\ bucket_lock' = [bucket_lock EXCEPT ![Bucket[c]] = None]
  /\ GoTo(c, "kill")
  /\ UNCHANGED <<daemonVars, routeVars, procVars, processes_lock, ioVars>>

MutantStaysLocked(c) ==
  /\ pc[c] = "map_removed"
  /\ processes_lock = None
  /\ processes' = ListRemove(processes, c)
  /\ entries' = entries \ {c}
  /\ GoTo(c, "kill")
  /\ UNCHANGED <<daemonVars, routeVars, procVars, bucket_lock, processes_lock, ioVars>>

MapRemove(c) ==
  /\ pc[c] = "map_removed"
  /\ processes_lock = None
  /\ processes' = ListRemove(processes, c)
  /\ entries' = entries \ {c}
  /\ bucket_lock' = [bucket_lock EXCEPT ![Bucket[c]] = None]
  /\ GoTo(c, "kill")
  /\ UNCHANGED <<daemonVars, routeVars, procVars, processes_lock, ioVars>>

\* guacd_proc_stop() in the parent: kill, then wait for the process group.
Kill(c) ==
  /\ pc[c] = "kill"
  /\ Terminated(c)
  /\ GoTo(c, "reap")
  /\ UNCHANGED <<daemonVars, routeVars, mem, queue, users, mapVars, ioVars>>

MutantAlwaysFails(c) ==
  /\ pc[c] = "reap"
  /\ GroupGone(c)
  /\ mem' = [mem EXCEPT ![c] = "freed"]
  /\ GoTo(c, "failed")
  /\ UNCHANGED <<daemonVars, routeVars, child, queue, users, mapVars, ioVars>>

\* The group is gone: skeleton client, descriptor and guacd_proc are freed.
FreeProc(c) ==
  /\ pc[c] = "reap"
  /\ GroupGone(c)
  /\ mem' = [mem EXCEPT ![c] = "freed"]
  /\ GoTo(c, IF add_user_failed[c] THEN "failed" ELSE "done")
  /\ UNCHANGED <<daemonVars, routeVars, child, queue, users, mapVars, ioVars>>

\* guacd_route_connection() returned non-zero: nobody else owns the socket.
FreeSocket(c) ==
  /\ pc[c] = "failed"
  /\ socket' = [socket EXCEPT ![c] = @ + 1]
  /\ GoTo(c, "done")
  /\ UNCHANGED <<daemonVars, routeVars, procVars, mapVars,
                 io, parser>>

ConnStep(c) ==
  /\ Up
  /\ \/ SelectFails(c)
     \/ SelectNew(c)
     \/ \E p \in Conns : SelectExisting(c, p) \/ AddUserFreed(c, p)
     \/ AddUserFails(c)
     \/ AddUser(c)
     \/ LockBucket(c)
     \/ MapAdd(c)
     \/ WaitChild(c)
     \/ MapRemove(c)
     \/ Kill(c)
     \/ FreeProc(c)
     \/ FreeSocket(c)

-----------------------------------------------------------------------------
(* guacd_connection_io_thread() and guacd_connection_write_thread() *)

\* Both directions have ended, because the client has gone or the child has closed its
\* end; what the parser still buffered was passed on first.  The I/O thread, having
\* joined the write thread, frees parser, socket and its end of the pair.
IoEnds(c) ==
  /\ Up
  /\ c \in io
  /\ io' = io \ {c}
  /\ parser' = [parser EXCEPT ![c] = @ + 1]
  /\ socket' = [socket EXCEPT ![c] = @ + 1]
  /\ UNCHANGED <<daemonVars, pc, routeVars, procVars, mapVars>>

-----------------------------------------------------------------------------
(* The child (guacd_exec_proc(), see ClientUsers) *)

Leaves(p) ==
  /\ queue' = [queue EXCEPT ![p] = << >>]
  /\ users' = [users EXCEPT ![p] = {}]

\* setpgid(), then the plugin is loaded and the signal handlers are installed.
ChildStarts(p) ==
  /\ \/ child[p] = "forked"
        /\ child' = [child EXCEPT ![p] = "grouped"]
     \/ child[p] = "grouped"
        /\ \E outcome \in {"serving", "stopping"} : child' = [child EXCEPT ![p] = outcome]
  /\ UNCHANGED <<daemonVars, pc, routeVars, mem, queue, users, mapVars, ioVars>>

\* guacd_recv_fd(): descriptors arrive in the order they were sent.
ChildReceives(p) ==
  /\ child[p] = "serving"
  /\ queue[p] # << >>
  /\ queue' = [queue EXCEPT ![p] = Tail(@)]
  /\ users' = [users EXCEPT ![p] = @ \cup {Head(queue[p])}]
  /\ UNCHANGED <<daemonVars, pc, routeVars, mem, child, mapVars, ioVars>>

\* A user's thread ends; the last one stops the process.
UserLeaves(p, c) ==
  /\ child[p] = "serving"
  /\ c \in users[p]
  /\ users' = [users EXCEPT ![p] = @ \ {c}]
  /\ child' = [child EXCEPT ![p] = IF users[p] = {c} THEN "stopping" ELSE @]
  /\ UNCHANGED <<daemonVars, pc, routeVars, mem, queue, mapVars, ioVars>>

\* The process ends, having freed its client or been killed, or it crashes.
ChildExits(p) ==
  /\ child[p] \in {"grouped", "serving", "stopping"}
  /\ child' = [child EXCEPT ![p] = "exited"]
  /\ Leaves(p)
  /\ UNCHANGED <<daemonVars, pc, routeVars, mem, mapVars, ioVars>>

ChildStep(p) ==
  \/ ChildStarts(p)
  \/ ChildReceives(p)
  \/ \E c \in Conns : UserLeaves(p, c)
  \/ ChildExits(p)

-----------------------------------------------------------------------------
Quiescent ==
  /\ ~Up
  /\ UNCHANGED vars

Next ==
  \/ DaemonStep
  \/ Signal
  \/ AcceptFails
  \/ \E c \in Conns :
       \/ Accept(c)
       \/ ConnStep(c)
       \/ IoEnds(c)
       \/ ChildStep(c)
  \/ Quiescent

Spec == Init /\ [][Next]_vars

\* What the threads of a child do without anything more happening outside: a user
\* leaves at the latest when its I/O thread has ended, by itself or with the daemon,
\* its stream being then at its end.
ChildProgress(p) ==
  \/ ChildStarts(p)
  \/ ChildReceives(p)
  \/ ChildExits(p) /\ child[p] = "stopping"
  \/ \E c \in Conns \ io : UserLeaves(p, c)

\* Threads and children keep running ("select" is waited for with a timeout).  No
\* fairness for accepting connections, for signals, for clients or for crashes.
Fairness ==
  /\ WF_vars(DaemonStep)
  /\ \A c \in Conns : WF_vars(ConnStep(c))
  /\ \A p \in Creators : WF_vars(ChildProgress(p))

FairSpec == Spec /\ Fairness

-----------------------------------------------------------------------------
\* Whatever the map leads to, and every process the daemon is about to stop while
\* it holds the lock of the list, is a guacd_proc that has not been freed: it leaves
\* both indexes, under their locks, before it is.
MappedAllocated ==
  Up => \A p \in entries \cup ToSet(processes) \cup ToSet(cursor) : mem[p] = "allocated"

\* A connection's socket and parser are freed at most once, by the thread that routes
\* it or by its I/O thread, and not while the I/O thread still uses them.
FreedByOne ==
  \A c \in Conns :
    /\ parser[c] <= 1
    /\ socket[c] <= 1
    /\ c \in io => parser[c] = 0 /\ socket[c] = 0

\* When routing is over and no I/O thread was left with the connection, the socket is
\* closed: no client is left waiting on a connection that nobody serves.
NotForgotten ==
  \A c \in Conns :
    (Up /\ pc[c] = "done" /\ c \notin io) => socket[c] = 1

\* Every process that has ended, crashed or not, has been removed from the map and
\* freed, unless the daemon is stopping.
EndedReclaimed ==
  \A p \in Creators : child[p] = "exited" => (mem[p] = "freed" \/ stop_everything)

\* The daemon has not left processes behind: those in the map when it exited have
\* ended, even one that was still starting and missed the signal.
MappedProcessesEnd ==
  \A p \in Creators : (~Up /\ p \in entries) => child[p] = "exited"

\* proc.c: "The first file descriptor is the owner".  A user who found the process in
\* the map never gets ahead of the connection it was created for; only one who found a
\* process that has been freed since, whose memory the new one got, can (AddUserFreed).
OwnerBeforeJoiners ==
  \A p \in Creators : \A c \in Conns \ {p} :
    (p \in ToSet(queue[p]) /\ target[c] = p) =>
      /\ c \notin users[p]
      /\ Head(queue[p]) # c

\* A process in the map, or in the list of all processes, has not been freed,
\* and users join it after its owner.
RoutingSound ==
  /\ TypeOK
  /\ MappedAllocated
  /\ OwnerBeforeJoiners

\* The socket and the parser of a connection are freed by one of the threads
\* that had them, whichever step of routing failed, and not by two.
OwnershipKept ==
  /\ FreedByOne
  /\ NotForgotten

\* However often processes are created and end: a process that ended is reclaimed,
\* and those the daemon leaves behind in the map end.  (An ended process stays so, and
\* a freed one too while the daemon runs, so that returning to such a state again and
\* again is reaching it after every end.)
RoutingProgress == []<>(EndedReclaimed /\ MappedProcessesEnd)

-----------------------------------------------------------------------------
\* The instance the run checks: all processes hash to one bucket, so that every two
\* connections meet at its lock.
OneBucket == {"b"}
SameBucket == [c \in Conns |-> "b"]

=============================================================================
