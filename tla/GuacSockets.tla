----------------------------- MODULE GuacSockets -----------------------------
(***************************************************************************)
(* Threads that write instructions at the same time (libguac/socket.c,     *)
(* socket-fd.c, socket-broadcast.c, socket-tee.c, recording.c).            *)
(*                                                                         *)
(* Every user has a buffered socket with a lock that is held for a whole   *)
(* instruction and a lock that guards the buffer, held for one write or    *)
(* flush.  The client's socket sends to all users: it has a lock of its    *)
(* own and passes begin, every write, flush and end on to each user on the *)
(* list of users as that list is at that moment.  With a recording, a tee  *)
(* writes everything to the recording's socket as well.  The keep-alive    *)
(* thread sends "nop" through the client's socket.                         *)
(*                                                                         *)
(* An instruction is written with Parts calls of guac_socket_write().  One *)
(* such call, under the lock of the buffer, is one step, as is the pass of *)
(* a write, flush or end over the list of users, whose lock keeps users    *)
(* from coming and going; taking the users' locks one after the other is   *)
(* a step each.                                                            *)
(***************************************************************************)
EXTENDS Integers, Sequences, FiniteSets, SequencesExt

CONSTANTS
    Users,         \* users of the connection
    Broadcasters,  \* threads of the plugin that write to the client's socket
    KeepAlive,     \* the thread of guac_socket_require_keep_alive()
    Recorder,      \* the socket of the recording
    Nobody,
    Parts,         \* writes per instruction
    BufferParts,   \* how many writes fit GUAC_SOCKET_OUTPUT_BUFFER_SIZE
    Turns(_),      \* bound: instructions a thread sends
    Breakable      \* bound: sockets whose descriptor may fail

Sinks == Users \cup {Recorder}
Threads == Broadcasters \cup {KeepAlive} \cup Users

ASSUME PartsAssumption == Parts \in Nat \ {0} /\ BufferParts \in Nat \ {0}
ASSUME ThreadsAssumption ==
    /\ KeepAlive \notin Broadcasters \cup Users
    /\ Broadcasters \cap Users = {}
    /\ Nobody \notin Threads
ASSUME UsersAssumption == IsFiniteSet(Users) /\ Recorder \notin Users
ASSUME TurnsAssumption == \A t \in Threads : Turns(t) \in Nat

VARIABLES
    list,       \* users on the client's list, in order
    waiting,    \* users that have not been promoted to that list
    socketLock, \* socket -> the thread in the middle of an instruction
    clientLock, \* lock of the client's socket
    readers,    \* threads that hold the list's lock for reading
    out_buf,    \* socket -> writes that wait in its buffer
    fd,         \* socket -> writes passed on to the descriptor
    broken,     \* sockets whose descriptor has refused a write (history)
    torn,       \* it had taken a part of the buffer before it did (history)
    active,     \* users whose active flag is set
    pc,         \* thread -> "idle", "begin", "write", "end", "flush", "done"
    at,         \* thread -> users still to lock, or the next part to write
    turn,       \* thread -> instructions sent so far
    client,     \* the client's socket: "open", "freed" or "closed"
    midway,     \* users promoted between begin and end of an instruction
    misuse      \* threads that used the client's socket after it was freed

socketVars == <<list, waiting, socketLock, clientLock, readers, out_buf, fd,
                broken, torn, active, pc, at, turn, client, midway, misuse>>

\* The user u's own thread (or a plugin's, for this user alone) writes to the
\* user's socket; the others write to the client's.
Direct(t) == t \in Users

\* The keep-alive thread was given the client's socket before the tee was put
\* in front of it.
Recorded(t) == t \in Broadcasters

PartsOf(t) == IF t = KeepAlive THEN 1 ELSE Parts

-----------------------------------------------------------------------------
(* The buffered socket.                                                    *)

\* guac_socket_fd_write(): how many of the writes that wait in each buffer the
\* descriptor takes before it refuses the next one, or all of them.
guac_socket_fd_write(S) ==
    {taken \in [S -> 0 .. BufferParts] : \A s \in S :
        /\ taken[s] <= Len(out_buf[s])
        /\ s \notin Breakable => taken[s] = Len(out_buf[s])}

Refusing(taken) == {s \in DOMAIN taken : taken[s] < Len(out_buf[s])}

\* guac_socket_fd_flush(): after an error all that was in the buffer stays in it,
\* what the descriptor has taken included.
guac_socket_fd_flush(s, n) ==
    [buffer |-> IF n = Len(out_buf[s]) THEN <<>> ELSE out_buf[s],
     sent |-> fd[s] \o SubSeq(out_buf[s], 1, n)]

Full(S) == {s \in S : Len(out_buf[s]) >= BufferParts}

\* guac_socket_fd_write_buffered() of one part, with a flush first if the
\* buffer is full.
guac_socket_fd_write_buffered(s, part, taken) ==
    IF s \notin Full(Sinks)
    THEN [buffer |-> Append(out_buf[s], part), sent |-> fd[s]]
    ELSE IF s \in Refusing(taken) THEN guac_socket_fd_flush(s, taken[s])
    ELSE [guac_socket_fd_flush(s, taken[s]) EXCEPT !.buffer = Append(@, part)]

Fails(taken) ==
    /\ broken' = broken \cup Refusing(taken)
    /\ torn' = torn \cup {s \in Refusing(taken) : taken[s] > 0}

WriteTo(S, part, taken) ==
    /\ out_buf' = [s \in Sinks |-> IF s \in S
                        THEN guac_socket_fd_write_buffered(s, part, taken).buffer
                        ELSE out_buf[s]]
    /\ fd' = [s \in Sinks |-> IF s \in S
                        THEN guac_socket_fd_write_buffered(s, part, taken).sent
                        ELSE fd[s]]
    /\ Fails(taken)

FlushTo(S, taken) ==
    /\ out_buf' = [s \in Sinks |-> IF s \in S
                        THEN guac_socket_fd_flush(s, taken[s]).buffer
                        ELSE out_buf[s]]
    /\ fd' = [s \in Sinks |-> IF s \in S
                        THEN guac_socket_fd_flush(s, taken[s]).sent
                        ELSE fd[s]]
    /\ Fails(taken)

-----------------------------------------------------------------------------
(* Instructions.                                                           *)

SocketInit ==
    /\ \E S \in SUBSET Users : list = SetToSeq(S) /\ waiting = Users \ S
    /\ socketLock = [s \in Sinks |-> Nobody]
    /\ clientLock = Nobody
    /\ readers = {}
    /\ out_buf = [s \in Sinks |-> <<>>]
    /\ fd = [s \in Sinks |-> <<>>]
    /\ broken = {} /\ torn = {}
    /\ active = Users
    /\ pc = [t \in Threads |-> "idle"]
    /\ at = [t \in Threads |-> <<>>]
    /\ turn = [t \in Threads |-> 0]
    /\ client = "open"
    /\ midway = {}
    /\ misuse = {}

Uses(t) == misuse' = IF client /= "open" /\ ~Direct(t)
                     THEN misuse \cup {t} ELSE misuse

\* guac_socket_fd_lock_handler(), for one user's own socket.
guac_socket_fd_lock_handler(t) ==
    /\ Direct(t) /\ pc[t] = "idle" /\ turn[t] < Turns(t)
    /\ t \in active /\ t \in Range(list) /\ socketLock[t] = Nobody
    /\ socketLock' = [socketLock EXCEPT ![t] = t]
    /\ pc' = [pc EXCEPT ![t] = "write"]
    /\ at' = [at EXCEPT ![t] = <<1>>]
    /\ UNCHANGED <<list, waiting, clientLock, readers, out_buf, fd, broken, torn,
                   active, turn, client, midway, misuse>>

\* __guac_socket_broadcast_lock_handler(): the socket's own lock, then the list
\* of users is locked for reading ...
BroadcastBegin(t) ==
    /\ ~Direct(t) /\ pc[t] = "idle" /\ turn[t] < Turns(t)
    /\ client = "open" \/ (t = KeepAlive /\ client = "freed")
    /\ clientLock = Nobody
    /\ clientLock' = t
    /\ readers' = readers \cup {t}
    /\ pc' = [pc EXCEPT ![t] = "begin"]
    /\ at' = [at EXCEPT ![t] = list]
    /\ Uses(t)
    /\ UNCHANGED <<list, waiting, socketLock, out_buf, fd, broken, torn, active,
                   turn, client, midway>>

\* As if the socket of a user were locked without waiting for it.
MutantDoesNotWait(t) ==
    /\ pc[t] = "begin" /\ at[t] /= <<>>
    /\ socketLock' = [socketLock EXCEPT ![Head(at[t])] = t]
    /\ at' = [at EXCEPT ![t] = Tail(@)]
    /\ UNCHANGED <<list, waiting, clientLock, readers, out_buf, fd, broken, torn,
                   active, pc, turn, client, midway, misuse>>

\* ... __lock_callback() waits for the lock of each user's socket in turn ...
__lock_callback(t) ==
    /\ pc[t] = "begin" /\ at[t] /= <<>>
    /\ socketLock[Head(at[t])] = Nobody
    /\ socketLock' = [socketLock EXCEPT ![Head(at[t])] = t]
    /\ at' = [at EXCEPT ![t] = Tail(@)]
    /\ UNCHANGED <<list, waiting, clientLock, readers, out_buf, fd, broken, torn,
                   active, pc, turn, client, midway, misuse>>

\* ... and the tee locks the socket of the recording.
__guac_socket_tee_lock_handler(t) ==
    /\ pc[t] = "begin" /\ at[t] = <<>>
    /\ Recorded(t) => socketLock[Recorder] = Nobody
    /\ socketLock' = IF Recorded(t)
                     THEN [socketLock EXCEPT ![Recorder] = t] ELSE socketLock
    /\ readers' = readers \ {t}
    /\ pc' = [pc EXCEPT ![t] = "write"]
    /\ at' = [at EXCEPT ![t] = <<1>>]
    /\ UNCHANGED <<list, waiting, clientLock, out_buf, fd, broken, torn, active,
                   turn, client, midway, misuse>>

\* The sockets one write of thread t reaches: __guac_socket_tee_write_handler()
\* and __guac_socket_broadcast_write_handler().
Reached(t) ==
    IF Direct(t) THEN {t}
    ELSE Range(list) \cup (IF Recorded(t) THEN {Recorder} ELSE {})

\* One guac_socket_write().  A user whose socket fails is told to stop; a failed
\* write of the recording is ignored; a failed write to the user's own socket
\* ends the instruction.
guac_socket_write(t) ==
    \E taken \in guac_socket_fd_write(Full(Reached(t))) :
        LET part == <<t, turn[t], at[t][1]>>
            failed == Refusing(taken) \cap Users
            last == at[t][1] = PartsOf(t) \/ (Direct(t) /\ failed /= {})
        IN  /\ pc[t] = "write"
            /\ WriteTo(Reached(t), part, taken)
            /\ active' = IF Direct(t) THEN active ELSE active \ failed
            /\ pc' = [pc EXCEPT ![t] = IF last THEN "end" ELSE @]
            /\ at' = [at EXCEPT ![t] = <<@[1] + 1>>]
            /\ Uses(t)
            /\ UNCHANGED <<list, waiting, socketLock, clientLock, readers, turn,
                           client, midway>>

\* guac_socket_instruction_end(): unlocking does not ask who holds the lock.  The
\* plugin flushes after some instructions, the others after each.
guac_socket_instruction_end(t) ==
    /\ pc[t] = "end"
    /\ socketLock' = [s \in Sinks |->
                        IF s \in Reached(t) THEN Nobody ELSE socketLock[s]]
    /\ clientLock' = IF Direct(t) THEN clientLock ELSE Nobody
    /\ \E next \in IF t \in Broadcasters THEN {"idle", "flush"} ELSE {"flush"} :
          pc' = [pc EXCEPT ![t] = next]
    /\ at' = [at EXCEPT ![t] = <<>>]
    /\ turn' = [turn EXCEPT ![t] = @ + 1]
    /\ Uses(t)
    /\ UNCHANGED <<list, waiting, readers, out_buf, fd, broken, torn, active, client,
                   midway>>

\* guac_socket_flush(), which takes no lock but that of the buffer.
guac_socket_flush(t) ==
    \E taken \in guac_socket_fd_write(Reached(t)) :
        /\ pc[t] = "flush"
        /\ FlushTo(Reached(t), taken)
        /\ active' = IF Direct(t) THEN active ELSE active \ Refusing(taken)
        /\ pc' = [pc EXCEPT ![t] = "idle"]
        /\ Uses(t)
        /\ UNCHANGED <<list, waiting, socketLock, clientLock, readers, at, turn,
                       client, midway>>

-----------------------------------------------------------------------------
(* Users, descriptors and the end of the client.                           *)

\* Pending users are put in front of the list, whose lock is held for writing.
guac_client_promote_pending_users ==
    /\ waiting /= {} /\ readers = {} /\ client = "open"
    /\ list' = SetToSeq(waiting) \o list
    /\ midway' = midway \cup
          (IF \E t \in Threads : ~Direct(t) /\ pc[t] \in {"write", "end"}
           THEN waiting ELSE {})
    /\ waiting' = {}
    /\ UNCHANGED <<socketLock, clientLock, readers, out_buf, fd, broken, torn,
                   active, pc, at, turn, client, misuse>>

\* The user's thread has ended its input loop and takes the user off the list;
\* its socket is freed after that.
guac_client_remove_user(u) ==
    /\ u \in Range(list) /\ readers = {} /\ pc[u] = "idle"
    /\ list' = RemoveFirst(list, u)
    /\ pc' = [pc EXCEPT ![u] = "done"]
    /\ active' = active \ {u}
    /\ out_buf' = [out_buf EXCEPT ![u] = <<>>]
    /\ fd' = [fd EXCEPT ![u] = <<>>]
    /\ UNCHANGED <<waiting, socketLock, clientLock, readers, broken, torn, at, turn,
                   client, midway, misuse>>

\* guac_client_free(): the plugin's threads have ended and the users are gone.
\* guac_socket_free() frees the socket's data first ...
FreeData ==
    /\ client = "open" /\ list = <<>> /\ waiting = {}
    /\ \A b \in Broadcasters : pc[b] = "idle" /\ turn[b] = Turns(b)
    /\ client' = "freed"
    /\ UNCHANGED <<list, waiting, socketLock, clientLock, readers, out_buf, fd,
                   broken, torn, active, pc, at, turn, midway, misuse>>

\* ... and then marks it closed, and cancels the keep-alive thread, which can
\* only be cancelled while it sleeps.
CancelKeepAlive ==
    /\ client = "freed" /\ pc[KeepAlive] = "idle"
    /\ client' = "closed"
    /\ pc' = [pc EXCEPT ![KeepAlive] = "done"]
    /\ UNCHANGED <<list, waiting, socketLock, clientLock, readers, out_buf, fd,
                   broken, torn, active, at, turn, midway, misuse>>

SocketNext ==
    \/ \E t \in Threads :
          \/ guac_socket_fd_lock_handler(t)
          \/ BroadcastBegin(t)
          \/ __lock_callback(t)
          \/ __guac_socket_tee_lock_handler(t)
          \/ guac_socket_write(t)
          \/ guac_socket_instruction_end(t)
          \/ guac_socket_flush(t)
    \/ guac_client_promote_pending_users
    \/ \E u \in Users : guac_client_remove_user(u)
    \/ FreeData \/ CancelKeepAlive

SocketSpec == SocketInit /\ [][SocketNext]_socketVars

-----------------------------------------------------------------------------
(* Properties.                                                             *)

\* Everything written to a socket so far, sent or waiting.
Written(s) == fd[s] \o out_buf[s]

Part == Threads \X Nat \X Nat

SocketTypeOK ==
    /\ list \in Seq(Users) /\ waiting \subseteq Users
    /\ socketLock \in [Sinks -> Threads \cup {Nobody}]
    /\ clientLock \in Threads \cup {Nobody}
    /\ readers \subseteq Threads
    /\ out_buf \in [Sinks -> Seq(Part)] /\ fd \in [Sinks -> Seq(Part)]
    /\ \A s \in Sinks : Len(out_buf[s]) <= BufferParts
    /\ broken \subseteq Sinks /\ torn \subseteq broken /\ active \subseteq Users
    /\ pc \in [Threads -> {"idle", "begin", "write", "end", "flush", "done"}]
    /\ at \in [Threads -> Seq(Users \cup Nat)]
    /\ turn \in [Threads -> Nat]
    /\ client \in {"open", "freed", "closed"}
    /\ midway \subseteq Users /\ misuse \subseteq Threads

\* The parts at i and i + 1 belong to one instruction, or one instruction ends
\* with the first and another begins with the second.
Follows(p, q) ==
    \/ p[1] = q[1] /\ p[2] = q[2] /\ q[3] = p[3] + 1
    \/ p[3] = PartsOf(p[1]) /\ q[3] = 1

Framed(w) ==
    /\ w /= <<>> => w[1][3] = 1
    /\ \A i \in 1 .. Len(w) - 1 : Follows(w[i], w[i + 1])

\* Although several threads write to it, a user's connection carries whole
\* instructions one after the other, unless its descriptor refused a write or the user was
\* promoted while an instruction was being sent to everyone.
WholeInstructions ==
    \A u \in Users \ (broken \cup midway) : Framed(Written(u))

\* The recording is made of whole instructions, whoever comes or goes.
WholeRecording == Recorder \notin broken => Framed(Written(Recorder))

NoRepeats(w) == \A i, j \in 1 .. Len(w) : w[i] = w[j] => i = j

\* A flush that was refused is repeated with all that was in the buffer, so that
\* what the descriptor had taken of it is sent again.  Where that has not happened
\* nothing is written twice, whatever else was refused; and nothing waits twice in
\* a buffer, whatever happened to the descriptor.
WrittenOnce ==
    /\ \A s \in Sinks \ torn : NoRepeats(Written(s))
    /\ \A s \in Sinks : NoRepeats(out_buf[s])

\* What r has from its j-th part on is what w has after its i-th, in that order
\* and with other things in between.
RestOf(w, i, r, j) ==
    /\ w[i] = r[j]
    /\ \A k \in j + 1 .. Len(r) : \E l \in i + 1 .. Len(w) : w[l] = r[k]

\* Every user that was on the list from the beginning to the end of an
\* instruction to everyone has it in the order in which the recording has it:
\* the parts a user has of what is recorded are the last parts of the recording.
BroadcastOrder ==
    \A u \in Range(list) \ (broken \cup midway) : Recorder \notin broken =>
        \A i \in 1 .. Len(Written(u)) : Recorded(Written(u)[i][1]) =>
            \E j \in 1 .. Len(Written(Recorder)) :
                RestOf(Written(u), i, Written(Recorder), j)

\* Only the keep-alive thread is able to use the client's socket after its data
\* was freed: it is told to end after that.
OnlyKeepAliveMisuses == misuse \subseteq {KeepAlive}

\* Who is told to stop is a user whose connection has refused a write, or one that
\* has left: no user is stopped for the failure of another's.
StoppedOnlyIfBroken ==
    \A u \in Users \ active : u \in broken \/ pc[u] = "done"

\* With several threads writing to users, to all of them and to the recording:
\* where no write was refused instructions are whole and in the order of the
\* broadcasts, where no flush was refused halfway nothing is there twice, only a
\* user whose connection refused a write is stopped, and only the keep-alive thread
\* uses a socket that was freed.
SocketsSound ==
  /\ SocketTypeOK
  /\ WholeInstructions
  /\ WholeRecording
  /\ WrittenOnce
  /\ BroadcastOrder
  /\ OnlyKeepAliveMisuses
  /\ StoppedOnlyIfBroken

=============================================================================
