-------------------------- MODULE GuacSocketsProofs --------------------------
(***************************************************************************)
(* Proofs that the sockets of GuacSockets keep SocketsSound for any users, *)
(* any threads that write to all of them, any number of instructions of    *)
(* any number of parts, buffers of any size and any descriptors that fail. *)
(***************************************************************************)
EXTENDS GuacSockets, ListLemmas, FiniteSetTheorems

\* The threads that write to the client's socket.
Shared == Broadcasters \cup {KeepAlive}

\* The list of users has none twice, and a user is on one list at a time.
ListsApart == Once(list) /\ waiting \cap Range(list) = {}

\* One thread at a time is in the middle of an instruction to everyone, and while
\* it takes the locks of the users it keeps the list as it is.
OneSender ==
  /\ \A t \in Shared : pc[t] \in {"begin", "write", "end"} <=> clientLock = t
  /\ \A t \in Shared : pc[t] = "begin" => t \in readers

\* Nothing is written to a user that is not yet on the list or no longer on it.
OffList ==
  \A u \in Users : u \notin Range(list) =>
    /\ pc[u] \in {"idle", "done"} /\ fd[u] = << >> /\ out_buf[u] = << >>
    /\ u \in waiting => pc[u] = "idle" /\ socketLock[u] = Nobody

\* What at holds: the next part to write, or the users still to lock.
AtSound ==
  /\ \A t \in Threads : pc[t] \in {"write", "end"} => at[t][1] \in Nat \ {0}
  /\ \A t \in Threads : pc[t] = "begin" =>
       /\ t \in Shared /\ at[t] \in Seq(Users) /\ Once(at[t])
       /\ Range(at[t]) \subseteq Range(list)

\* Thread t has locked the socket of user u for an instruction to everyone.
Holds(t, u) ==
  pc[t] \in {"write", "end"} \/ (pc[t] = "begin" /\ u \notin Range(at[t]))

\* A socket is locked by exactly the thread that is writing to it, for users that
\* were not promoted in the middle of an instruction.
LockSound ==
  /\ \A u \in Range(list) \ midway :
       /\ socketLock[u] \in Shared \cup {u, Nobody}
       /\ socketLock[u] = u <=> pc[u] \in {"write", "end"}
       /\ \A t \in Shared : socketLock[u] = t <=> Holds(t, u)
  /\ \A t \in Threads :
       socketLock[Recorder] = t <=> t \in Broadcasters /\ pc[t] \in {"write", "end"}

\* Part p is one that its thread has written already.
Done(p) ==
  \/ p[2] < turn[p[1]]
  \/ p[2] = turn[p[1]] /\ (\/ pc[p[1]] = "end"
                           \/ pc[p[1]] = "write" /\ p[3] < at[p[1]][1])

AllDone == \A s \in Sinks : \A i \in 1 .. Len(Written(s)) : Done(Written(s)[i])

\* Thread t has written some parts of an instruction to s, and not all.
Midst(t, s) == socketLock[s] = t /\ pc[t] = "write" /\ at[t][1] > 1

\* The last thing on a socket is the part before the one that the thread in the
\* middle of an instruction is about to write, or the last part of an instruction.
Continues(w, t) == w # << >> /\ w[Len(w)] = <<t, turn[t], at[t][1] - 1>>
Complete(w) == w # << >> => w[Len(w)][3] = PartsOf(w[Len(w)][1])
Tidy(s) ==
  /\ Framed(Written(s))
  /\ \A t \in Threads : Midst(t, s) => Continues(Written(s), t)
  /\ (\A t \in Threads : ~Midst(t, s)) => Complete(Written(s))
AllTidy == \A s \in (Range(list) \cup {Recorder}) \ (broken \cup midway) : Tidy(s)

\* The client is freed after the plugin's threads have sent all they send.
Ended ==
  client # "open" => \A b \in Broadcasters : pc[b] = "idle" /\ turn[b] = Turns(b)

Bookkeeping ==
  /\ ListsApart
  /\ OneSender
  /\ OffList
  /\ AtSound
  /\ LockSound

SocketInv ==
  /\ SocketTypeOK
  /\ Bookkeeping
  /\ AllDone
  /\ AllTidy
  /\ WrittenOnce
  /\ BroadcastOrder
  /\ Ended
  /\ OnlyKeepAliveMisuses
  /\ StoppedOnlyIfBroken

-----------------------------------------------------------------------------
(* Sequences.                                                              *)

\* An element of a sequence is at one of its places.
LEMMA InRange ==
  ASSUME NEW S, NEW s \in Seq(S), NEW v
  PROVE  v \in Range(s) <=> Contains(s, v)
BY LenProperties DEF Range, Contains

\* The users in front of the list, and the list of the first users.
LEMMA SetAsList ==
  ASSUME NEW S, IsFiniteSet(S)
  PROVE  /\ SetToSeq(S) \in Seq(S) /\ Once(SetToSeq(S))
         /\ \A v : Contains(SetToSeq(S), v) <=> v \in S
<1> DEFINE n == Cardinality(S)
           f == SetToSeq(S)
<1>1. n \in Nat /\ ExistsBijection(1 .. n, S)
  BY FS_CardinalityType
<1>2. \E g \in [1 .. n -> S] : IsInjective(g)
  BY <1>1 DEF ExistsBijection, Bijection, Injection, Surjection
<1>3. f \in [1 .. n -> S] /\ IsInjective(f)
  BY <1>2 DEF SetToSeq
<1> HIDE DEF f, n
<1>4. f \in Seq(S) /\ Len(f) = n
  BY <1>1, <1>3
<1>5. Once(f)
  BY <1>3, <1>4 DEF Once, IsInjective
<1>6. ASSUME NEW v \in S  PROVE Contains(f, v)
  <2>1. f \in Injection(1 .. n, S)
    BY <1>3 DEF Injection
  <2>2. IsFiniteSet(1 .. n) /\ Cardinality(1 .. n) = n
    BY <1>1, FS_Interval
  <2>3. f \in Surjection(1 .. n, S)
    BY <1>1, <2>1, <2>2, FS_Injection DEF n
  <2> QED  BY <1>4, <2>3 DEF Surjection, Contains
<1>7. ASSUME NEW v, Contains(f, v)  PROVE v \in S
  BY <1>3, <1>4, <1>7 DEF Contains
<1> QED  BY <1>4, <1>5, <1>6, <1>7 DEF f

\* What one more part leaves of the parts before it.
LEMMA OneMore ==
  ASSUME NEW S, NEW w \in Seq(S), NEW p \in S
  PROVE  /\ Append(w, p) \in Seq(S) /\ Append(w, p) # << >>
         /\ Len(Append(w, p)) = Len(w) + 1 /\ Len(w) \in Nat
         /\ Append(w, p)[Len(w) + 1] = p
         /\ \A i \in 1 .. Len(w) : Append(w, p)[i] = w[i] /\ w[i] \in S
<1>1. Len(w) \in Nat /\ \A i \in 1 .. Len(w) : w[i] \in S
  BY LenProperties, ElementOfSeq
<1>2. Append(w, p) # << >>
  BY <1>1, AppendProperties, EmptySeq
<1> QED  BY <1>1, <1>2, AppendProperties

\* A socket with nothing written is at the end of an instruction.
LEMMA EmptyFramed == Framed(<< >>)
BY EmptySeq DEF Framed

\* A part that follows the last one leaves whole instructions whole.
LEMMA FramedOneMore ==
  ASSUME NEW w \in Seq(Part), NEW p \in Part, Framed(w),
         IF w = << >> THEN p[3] = 1 ELSE Follows(w[Len(w)], p)
  PROVE  Framed(Append(w, p))
<1> DEFINE a == Append(w, p)
<1>1. /\ Len(a) = Len(w) + 1 /\ Len(w) \in Nat
      /\ a[Len(w) + 1] = p /\ \A i \in 1 .. Len(w) : a[i] = w[i]
  BY OneMore
<1>2. w # << >> => Len(w) >= 1
  BY <1>1, EmptySeq
<1>3. w = << >> => Len(w) = 0
  BY EmptySeq
<1> HIDE DEF a
<1>4. a[1][3] = 1
  <2>1. CASE w = << >>
    BY <1>1, <1>3, <2>1
  <2>2. CASE w # << >>
    <3>1. a[1] = w[1]
      BY <1>1, <1>2, <2>2
    <3> QED  BY <2>2, <3>1 DEF Framed
  <2> QED  BY <2>1, <2>2
<1>5. ASSUME NEW i \in 1 .. Len(a) - 1  PROVE Follows(a[i], a[i + 1])
  <2>1. CASE i = Len(w)
    BY <1>1, <1>3, <2>1
  <2>2. CASE i # Len(w)
    <3>1. i \in 1 .. Len(w) - 1 /\ i \in 1 .. Len(w) /\ i + 1 \in 1 .. Len(w)
      BY <1>1, <2>2
    <3>2. a[i] = w[i] /\ a[i + 1] = w[i + 1]
      BY <1>1, <3>1
    <3> QED  BY <3>1, <3>2 DEF Framed
  <2> QED  BY <2>1, <2>2
<1> QED  BY <1>4, <1>5 DEF Framed, a

\* Appending to the buffer appends to what is written and buffered together
\* (guac_socket_write()).
LEMMA ConcatAppend ==
  ASSUME NEW S, NEW f \in Seq(S), NEW b \in Seq(S), NEW p \in S
  PROVE  /\ f \o Append(b, p) = Append(f \o b, p)
         /\ (f \o b) \o Append(<< >>, p) = Append(f \o b, p)
         /\ Append(<< >>, p) \in Seq(S) /\ Len(Append(<< >>, p)) = 1
OBVIOUS

\* What one sequence followed by another is at each place: fd and out_buf
\* (guac_socket_fd_flush()).
LEMMA Concatenated ==
  ASSUME NEW S, NEW f \in Seq(S), NEW b \in Seq(S)
  PROVE  /\ f \o b \in Seq(S) /\ Len(f) \in Nat /\ Len(b) \in Nat
         /\ Len(f \o b) = Len(f) + Len(b)
         /\ \A i \in 1 .. Len(f) : (f \o b)[i] = f[i]
         /\ \A i \in 1 .. Len(b) : (f \o b)[Len(f) + i] = b[i]
OBVIOUS

-----------------------------------------------------------------------------
(* Writing and flushing.                                                   *)

\* What is written to a socket, and buffered in it, is a sequence of parts.
LEMMA WrittenType ==
  ASSUME SocketTypeOK, NEW s \in Sinks
  PROVE  /\ fd[s] \in Seq(Part) /\ out_buf[s] \in Seq(Part) /\ Written(s) \in Seq(Part)
         /\ Len(Written(s)) \in Nat /\ \A i \in 1 .. Len(Written(s)) : Written(s)[i] \in Part
<1>1. fd[s] \in Seq(Part) /\ out_buf[s] \in Seq(Part)
  BY DEF SocketTypeOK
<1>2. Written(s) \in Seq(Part)
  BY <1>1, ConcatProperties DEF Written
<1> QED  BY <1>1, <1>2, LenProperties, ElementOfSeq

\* Nothing is in v that is not in w.
Drawn(w, v) == \A i \in 1 .. Len(v) : \E j \in 1 .. Len(w) : v[i] = w[j]

\* What a descriptor has after it took n of the writes in a buffer, all of which
\* stay in the buffer (guac_socket_fd_flush() after an error).
LEMMA Resent ==
  ASSUME NEW S, NEW f \in Seq(S), NEW b \in Seq(S), NEW n \in 0 .. Len(b)
  PROVE  /\ f \o SubSeq(b, 1, n) \in Seq(S)
         /\ n = Len(b) => f \o SubSeq(b, 1, n) = f \o b
         /\ n = 0 => f \o SubSeq(b, 1, n) = f
         /\ Drawn(f \o b, (f \o SubSeq(b, 1, n)) \o b)
<1> DEFINE c == SubSeq(b, 1, n)
           g == f \o c
           v == g \o b
           w == f \o b
<1>1. /\ Len(f) \in Nat /\ Len(b) \in Nat /\ n \in Nat /\ n <= Len(b)
      /\ c \in Seq(S) /\ Len(c) = n /\ \A i \in 1 .. n : c[i] = b[i]
  OBVIOUS
<1>2. n = Len(b) => c = b
  OBVIOUS
<1>3. n = 0 => c = << >>
  BY <1>1, EmptySeq
<1> HIDE DEF c
<1>4. /\ g \in Seq(S) /\ Len(g) = Len(f) + n
      /\ \A i \in 1 .. Len(f) : g[i] = f[i]
      /\ \A i \in 1 .. n : g[Len(f) + i] = c[i]
  <2>1. c \in Seq(S)
    BY <1>1
  <2>2. /\ g \in Seq(S) /\ Len(g) = Len(f) + Len(c)
        /\ \A i \in 1 .. Len(f) : g[i] = f[i]
        /\ \A i \in 1 .. Len(c) : g[Len(f) + i] = c[i]
    BY <2>1, Concatenated
  <2> HIDE DEF g
  <2> QED  BY <1>1, <2>2
<1> HIDE DEF g
<1>5. /\ Len(w) = Len(f) + Len(b)
      /\ \A i \in 1 .. Len(f) : w[i] = f[i]
      /\ \A i \in 1 .. Len(b) : w[Len(f) + i] = b[i]
  BY Concatenated
<1>6. /\ Len(v) = Len(f) + n + Len(b)
      /\ \A i \in 1 .. Len(f) + n : v[i] = g[i]
      /\ \A i \in 1 .. Len(b) : v[Len(f) + n + i] = b[i]
  <2>1. g \in Seq(S)
    BY <1>4
  <2>2. /\ Len(v) = Len(g) + Len(b)
        /\ \A i \in 1 .. Len(g) : v[i] = g[i]
        /\ \A i \in 1 .. Len(b) : v[Len(g) + i] = b[i]
    BY <2>1, Concatenated
  <2> HIDE DEF v
  <2> QED  BY <1>1, <1>4, <2>2
<1> HIDE DEF v, w
<1>7. ASSUME NEW i \in 1 .. Len(v)  PROVE \E j \in 1 .. Len(w) : v[i] = w[j]
  <2>1. CASE i \in 1 .. Len(f)
    <3>1. v[i] = f[i] /\ i \in 1 .. Len(w) /\ w[i] = f[i]
      BY <1>1, <1>4, <1>5, <1>6, <2>1
    <3> QED  BY <3>1
  <2>2. CASE i \notin 1 .. Len(f) /\ i <= Len(f) + n
    <3> DEFINE m == i - Len(f)
    <3>1. m \in 1 .. n /\ m \in 1 .. Len(b) /\ i = Len(f) + m /\ i \in 1 .. Len(w)
      BY <1>1, <1>5, <1>6, <2>2
    <3> HIDE DEF m
    <3>2. v[i] = g[i] /\ g[i] = c[m] /\ c[m] = b[m] /\ w[i] = b[m]
      BY <1>1, <1>4, <1>5, <1>6, <2>2, <3>1
    <3> QED  BY <3>1, <3>2
  <2>3. CASE i > Len(f) + n
    <3> DEFINE m == i - (Len(f) + n)
    <3>1. m \in 1 .. Len(b) /\ i = Len(f) + n + m /\ Len(f) + m \in 1 .. Len(w)
      BY <1>1, <1>5, <1>6, <2>3
    <3> HIDE DEF m
    <3>2. v[i] = b[m] /\ w[Len(f) + m] = b[m]
      BY <1>5, <1>6, <3>1
    <3> QED  BY <3>1, <3>2
  <2> QED  BY <1>1, <1>6, <2>1, <2>2, <2>3
<1> QED  BY <1>2, <1>3, <1>4, <1>7, ConcatEmptySeq DEF Drawn, v, w, g, c

\* A flush of one socket of which the descriptor takes n writes.
LEMMA FlushedOne ==
  ASSUME SocketTypeOK, NEW s \in Sinks, NEW n \in 0 .. Len(out_buf[s]),
         NEW F, F = guac_socket_fd_flush(s, n)
  PROVE  /\ F.buffer \in Seq(Part) /\ F.sent \in Seq(Part)
         /\ n = Len(out_buf[s]) => F.buffer = << >> /\ F.sent = Written(s)
         /\ n # Len(out_buf[s]) => F.buffer = out_buf[s]
         /\ n # Len(out_buf[s]) /\ n = 0 => F.sent = fd[s]
         /\ Drawn(Written(s), F.sent \o F.buffer)
<1> DEFINE f == fd[s]
           b == out_buf[s]
           g == f \o SubSeq(b, 1, n)
<1>1. f \in Seq(Part) /\ b \in Seq(Part) /\ f \o b \in Seq(Part) /\ Len(b) \in Nat
  BY WrittenType, ConcatProperties, LenProperties
<1>2. /\ F.buffer = IF n = Len(b) THEN << >> ELSE b
      /\ F.sent = g
  BY DEF guac_socket_fd_flush
<1>3. Written(s) = f \o b
  BY DEF Written
<1>4. n \in 0 .. Len(b)
  OBVIOUS
<1> HIDE DEF f, b
<1>5. /\ g \in Seq(Part)
      /\ n = Len(b) => g = f \o b
      /\ n = 0 => g = f
      /\ Drawn(f \o b, g \o b)
  BY <1>1, <1>4, Resent
<1> HIDE DEF g
<1>6. << >> \in Seq(Part) /\ (f \o b) \o << >> = f \o b
  BY <1>1, ConcatEmptySeq, EmptySeq
<1>7. Drawn(f \o b, f \o b)
  BY DEF Drawn
<1>8. Drawn(f \o b, F.sent \o F.buffer)
  <2>1. CASE n = Len(b)
    BY <1>2, <1>5, <1>6, <1>7, <2>1
  <2>2. CASE n # Len(b)
    BY <1>2, <1>5, <2>2
  <2> QED  BY <2>1, <2>2
<1>9. F.buffer \in Seq(Part) /\ F.sent \in Seq(Part)
  BY <1>1, <1>2, <1>5, <1>6
<1> QED  BY <1>2, <1>3, <1>5, <1>8, <1>9 DEF f, b

\* What descriptors take, and which of them refuse.
LEMMA Taking ==
  ASSUME SocketTypeOK, NEW S \in SUBSET Sinks, NEW taken \in guac_socket_fd_write(S),
         Fails(taken)
  PROVE  /\ \A s \in S : taken[s] \in 0 .. Len(out_buf[s])
         /\ \A s : s \in Refusing(taken) <=> s \in S /\ taken[s] # Len(out_buf[s])
         /\ Refusing(taken) \subseteq broken'
         /\ \A s \in Refusing(taken) \ torn' : taken[s] = 0
         /\ broken \subseteq broken' /\ broken' \subseteq Sinks
         /\ torn \subseteq torn' /\ torn' \subseteq broken'
<1>1. DOMAIN taken = S /\ \A s \in S : taken[s] \in Nat /\ taken[s] <= Len(out_buf[s])
  BY DEF guac_socket_fd_write
<1>2. \A s \in S : Len(out_buf[s]) \in Nat
  BY WrittenType, LenProperties
<1>3. \A s \in S : taken[s] \in 0 .. Len(out_buf[s])
  BY <1>1, <1>2
<1>4. \A s : s \in Refusing(taken) <=> s \in S /\ taken[s] # Len(out_buf[s])
  BY <1>1, <1>2 DEF Refusing
<1>5. \A s \in Refusing(taken) : taken[s] \in Nat
  BY <1>1, <1>4
<1> QED  BY <1>3, <1>4, <1>5 DEF Fails, SocketTypeOK

\* One write adds its part to each socket it reaches, or nothing where the
\* descriptor refuses, and the buffer never holds more than fits.
LEMMA Wrote ==
  ASSUME SocketTypeOK, NEW S \in SUBSET Sinks, NEW p \in Part,
         NEW taken \in guac_socket_fd_write(Full(S)), WriteTo(S, p, taken)
  PROVE  /\ out_buf' \in [Sinks -> Seq(Part)] /\ fd' \in [Sinks -> Seq(Part)]
         /\ \A s \in Sinks :
              /\ Len(out_buf'[s]) <= BufferParts
              /\ out_buf'[s] \in {out_buf[s], Append(out_buf[s], p), Append(<< >>, p)}
              /\ s \notin S => out_buf'[s] = out_buf[s] /\ fd'[s] = fd[s]
                               /\ Written(s)' = Written(s)
              /\ s \in S => \/ Written(s)' = Append(Written(s), p)
                            \/ s \in broken' /\ Drawn(Written(s), Written(s)')
              /\ s \notin torn' => Written(s)' \in {Written(s), Append(Written(s), p)}
<1> DEFINE W(s) == guac_socket_fd_write_buffered(s, p, taken)
<1>0. /\ Full(S) \in SUBSET Sinks
      /\ \A s \in Full(S) : taken[s] \in 0 .. Len(out_buf[s])
      /\ \A s : s \in Refusing(taken) <=> s \in Full(S) /\ taken[s] # Len(out_buf[s])
      /\ Refusing(taken) \subseteq broken'
      /\ \A s \in Refusing(taken) \ torn' : taken[s] = 0
  <2>1. Full(S) \in SUBSET Sinks /\ Fails(taken)
    BY DEF WriteTo, Full
  <2> QED  BY <2>1, Taking
<1>1. ASSUME NEW s \in S
      PROVE  /\ W(s).buffer \in Seq(Part) /\ W(s).sent \in Seq(Part) /\ Len(W(s).buffer) <= BufferParts
             /\ W(s).buffer \in {out_buf[s], Append(out_buf[s], p), Append(<< >>, p)}
             /\ \/ W(s).sent \o W(s).buffer = Append(Written(s), p)
                \/ /\ s \in broken' /\ Drawn(Written(s), W(s).sent \o W(s).buffer)
                   /\ s \notin torn' => W(s).sent \o W(s).buffer = Written(s)
  <2> DEFINE f == fd[s]
             b == out_buf[s]
             F == guac_socket_fd_flush(s, taken[s])
  <2>1. /\ f \in Seq(Part) /\ b \in Seq(Part) /\ f \o b \in Seq(Part) /\ Written(s) = f \o b
        /\ Len(b) \in Nat /\ Len(b) <= BufferParts /\ BufferParts \in Nat \ {0}
    BY PartsAssumption, WrittenType, ConcatProperties, LenProperties DEF SocketTypeOK, Written
  <2>2. /\ s \in Full(Sinks) <=> s \in Full(S)
        /\ s \notin Full(S) => Len(b) < BufferParts
    BY <2>1 DEF Full
  <2>3. CASE s \notin Full(S)
    <3>1. W(s).buffer = Append(b, p) /\ W(s).sent = f
      BY <2>2, <2>3 DEF guac_socket_fd_write_buffered
    <3> HIDE DEF W, b, f
    <3>2. Append(b, p) \in Seq(Part) /\ Len(Append(b, p)) = Len(b) + 1
      BY <2>1, AppendProperties
    <3>3. f \o Append(b, p) = Append(f \o b, p)
      BY <2>1, ConcatAppend
    <3>4. Len(Append(b, p)) <= BufferParts
      BY <2>1, <2>2, <2>3, <3>2
    <3> QED  BY <2>1, <3>1, <3>2, <3>3, <3>4 DEF b
  <2>4. CASE s \in Full(S) /\ s \in Refusing(taken)
    <3>1. W(s) = F
      BY <2>2, <2>4 DEF guac_socket_fd_write_buffered
    <3>2. s \in broken' /\ taken[s] \in 0 .. Len(b) /\ taken[s] # Len(b)
          /\ (s \notin torn' => taken[s] = 0)
      BY <1>0, <2>4
    <3>3. /\ F.buffer \in Seq(Part) /\ F.sent \in Seq(Part) /\ F.buffer = out_buf[s]
          /\ (taken[s] = 0 => F.sent = fd[s])
          /\ Drawn(Written(s), F.sent \o F.buffer)
      BY <3>2, FlushedOne
    <3> QED  BY <2>1, <3>1, <3>2, <3>3
  <2>5. CASE s \in Full(S) /\ s \notin Refusing(taken)
    <3>1. W(s) = [F EXCEPT !.buffer = Append(F.buffer, p)]
      BY <2>2, <2>5 DEF guac_socket_fd_write_buffered
    <3>2. taken[s] \in 0 .. Len(b) /\ taken[s] = Len(b)
      BY <1>0, <2>5
    <3>3. F.buffer = << >> /\ F.sent = Written(s)
      BY <3>2, FlushedOne
    <3>4. W(s).buffer = Append(<< >>, p) /\ W(s).sent = f \o b
      BY <2>1, <3>1, <3>3 DEF guac_socket_fd_flush
    <3> HIDE DEF W, b, f, F
    <3>5. /\ (f \o b) \o Append(<< >>, p) = Append(f \o b, p)
          /\ Append(<< >>, p) \in Seq(Part) /\ Len(Append(<< >>, p)) = 1
      BY <2>1, ConcatAppend
    <3>6. Len(Append(<< >>, p)) <= BufferParts
      BY <2>1, <3>5
    <3> QED  BY <2>1, <3>4, <3>5, <3>6
  <2> QED  BY <2>3, <2>4, <2>5
<1> HIDE DEF W
<1>2. /\ out_buf' = [s \in Sinks |-> IF s \in S THEN W(s).buffer ELSE out_buf[s]]
      /\ fd' = [s \in Sinks |-> IF s \in S THEN W(s).sent ELSE fd[s]]
  BY DEF WriteTo, W
<1>3. \A s \in Sinks : out_buf[s] \in Seq(Part) /\ fd[s] \in Seq(Part) /\ Len(out_buf[s]) <= BufferParts
  BY DEF SocketTypeOK
<1>4. out_buf' \in [Sinks -> Seq(Part)] /\ fd' \in [Sinks -> Seq(Part)]
  BY <1>1, <1>2, <1>3
<1>5. \A s \in Sinks : /\ out_buf'[s] = (IF s \in S THEN W(s).buffer ELSE out_buf[s])
                       /\ fd'[s] = (IF s \in S THEN W(s).sent ELSE fd[s])
                       /\ Len(out_buf'[s]) <= BufferParts
  BY <1>1, <1>2, <1>3
<1>6. \A s \in Sinks : Written(s)' = fd'[s] \o out_buf'[s] /\ Written(s) = fd[s] \o out_buf[s]
  BY DEF Written
<1>7. ASSUME NEW s \in Sinks, s \in S
      PROVE  /\ out_buf'[s] \in {out_buf[s], Append(out_buf[s], p), Append(<< >>, p)}
             /\ \/ Written(s)' = Append(Written(s), p)
                \/ /\ s \in broken' /\ Drawn(Written(s), Written(s)')
                   /\ s \notin torn' => Written(s)' = Written(s)
  <2>1. out_buf'[s] = W(s).buffer /\ Written(s)' = W(s).sent \o W(s).buffer
    BY <1>5, <1>6, <1>7
  <2> QED  BY <1>1, <1>7, <2>1
<1>8. ASSUME NEW s \in Sinks, s \notin S
      PROVE  /\ out_buf'[s] = out_buf[s] /\ fd'[s] = fd[s]
             /\ Written(s)' = Written(s)
  BY <1>5, <1>6, <1>8
<1> QED  BY <1>4, <1>5, <1>7, <1>8

\* A flush moves what waits; where the descriptor does not refuse it adds, loses
\* and reorders nothing, and where it does it adds nothing that was not there.
LEMMA Flushed ==
  ASSUME SocketTypeOK, NEW S \in SUBSET Sinks, NEW taken \in guac_socket_fd_write(S),
         FlushTo(S, taken)
  PROVE  /\ out_buf' \in [Sinks -> Seq(Part)] /\ fd' \in [Sinks -> Seq(Part)]
         /\ \A s \in Sinks :
              /\ Len(out_buf'[s]) <= BufferParts
              /\ out_buf'[s] \in {out_buf[s], << >>}
              /\ s \notin S => out_buf'[s] = out_buf[s] /\ fd'[s] = fd[s]
              /\ Drawn(Written(s), Written(s)')
              /\ s \notin torn' => Written(s)' = Written(s)
<1> DEFINE F(s) == guac_socket_fd_flush(s, taken[s])
<1>1. ASSUME NEW s \in S
      PROVE  /\ F(s).buffer \in Seq(Part) /\ F(s).sent \in Seq(Part) /\ Len(F(s).buffer) <= BufferParts
             /\ F(s).buffer \in {out_buf[s], << >>}
             /\ Drawn(Written(s), F(s).sent \o F(s).buffer)
             /\ s \notin torn' => F(s).sent \o F(s).buffer = Written(s)
  <2> DEFINE b == out_buf[s]
             n == taken[s]
  <2>1. Fails(taken)
    BY DEF FlushTo
  <2>2. n \in 0 .. Len(b) /\ (n # Len(b) /\ s \notin torn' => n = 0)
    BY <2>1, Taking
  <2>3. /\ F(s).buffer \in Seq(Part) /\ F(s).sent \in Seq(Part)
        /\ n = Len(b) => F(s).buffer = << >> /\ F(s).sent = Written(s)
        /\ n # Len(b) => F(s).buffer = b
        /\ n # Len(b) /\ n = 0 => F(s).sent = fd[s]
        /\ Drawn(Written(s), F(s).sent \o F(s).buffer)
    BY <2>2, FlushedOne
  <2>4. /\ Len(<< >>) <= BufferParts /\ Len(b) <= BufferParts
        /\ Written(s) \o << >> = Written(s) /\ Written(s) = fd[s] \o b
    BY PartsAssumption, WrittenType, ConcatEmptySeq, EmptySeq DEF SocketTypeOK, Written
  <2> HIDE DEF F
  <2> QED  BY <2>2, <2>3, <2>4
<1> HIDE DEF F
<1>2. /\ out_buf' = [s \in Sinks |-> IF s \in S THEN F(s).buffer ELSE out_buf[s]]
      /\ fd' = [s \in Sinks |-> IF s \in S THEN F(s).sent ELSE fd[s]]
  BY DEF FlushTo, F
<1>3. \A s \in Sinks : out_buf[s] \in Seq(Part) /\ fd[s] \in Seq(Part) /\ Len(out_buf[s]) <= BufferParts
  BY DEF SocketTypeOK
<1>4. out_buf' \in [Sinks -> Seq(Part)] /\ fd' \in [Sinks -> Seq(Part)]
  BY <1>1, <1>2, <1>3
<1>5. \A s \in Sinks : /\ out_buf'[s] = (IF s \in S THEN F(s).buffer ELSE out_buf[s])
                       /\ fd'[s] = (IF s \in S THEN F(s).sent ELSE fd[s])
                       /\ Len(out_buf'[s]) <= BufferParts
  BY <1>1, <1>2, <1>3
<1>6. \A s \in Sinks : Written(s)' = fd'[s] \o out_buf'[s] /\ Written(s) = fd[s] \o out_buf[s]
  BY DEF Written
<1>7. ASSUME NEW s \in Sinks
      PROVE  /\ Drawn(Written(s), Written(s)') /\ out_buf'[s] \in {out_buf[s], << >>}
             /\ s \notin torn' => Written(s)' = Written(s)
  <2>1. CASE s \in S
    <3>1. out_buf'[s] = F(s).buffer /\ Written(s)' = F(s).sent \o F(s).buffer
      BY <1>5, <1>6, <2>1
    <3> QED  BY <1>1, <2>1, <3>1
  <2>2. CASE s \notin S
    <3>1. Written(s)' = Written(s) /\ out_buf'[s] = out_buf[s]
      BY <1>5, <1>6, <2>2
    <3>2. Drawn(Written(s), Written(s))
      BY DEF Drawn
    <3> QED  BY <3>1, <3>2
  <2> QED  BY <2>1, <2>2
<1> QED  BY <1>4, <1>5, <1>7

\* What waits in a buffer is a part of all that was written.
LEMMA BufferWritten ==
  ASSUME SocketTypeOK, NEW s \in Sinks, NEW i \in 1 .. Len(out_buf[s])
  PROVE  \E j \in 1 .. Len(Written(s)) : Written(s)[j] = out_buf[s][i]
<1>1. fd[s] \in Seq(Part) /\ out_buf[s] \in Seq(Part)
  BY DEF SocketTypeOK
<1> DEFINE f == fd[s]
           b == out_buf[s]
<1>2. Written(s) = f \o b /\ i \in 1 .. Len(b)
  BY DEF Written
<1>3. f \in Seq(Part) /\ b \in Seq(Part)
  BY <1>1
<1> HIDE DEF f, b
<1>4. /\ Len(f) \in Nat /\ Len(b) \in Nat /\ Len(f \o b) = Len(f) + Len(b)
      /\ \A k \in 1 .. Len(b) : (f \o b)[Len(f) + k] = b[k]
  BY <1>3, Concatenated
<1>5. Len(f) + i \in 1 .. Len(f \o b) /\ (f \o b)[Len(f) + i] = b[i]
  BY <1>2, <1>4
<1> QED  BY <1>2, <1>5 DEF b

\* A part that is not there yet is there once after it is added.
LEMMA NoRepeatsMore ==
  ASSUME NEW S, NEW w \in Seq(S), NEW p \in S, NoRepeats(w),
         \A m \in 1 .. Len(w) : w[m] # p
  PROVE  NoRepeats(Append(w, p))
<1> DEFINE v == Append(w, p)
<1>1. /\ Len(v) = Len(w) + 1 /\ Len(w) \in Nat /\ v[Len(w) + 1] = p
      /\ \A i \in 1 .. Len(w) : v[i] = w[i]
  BY OneMore
<1> HIDE DEF v
<1>2. ASSUME NEW i \in 1 .. Len(v), NEW j \in 1 .. Len(v), v[i] = v[j]
      PROVE  i = j
  <2>1. \A m \in 1 .. Len(v) : m \in 1 .. Len(w) \/ m = Len(w) + 1
    BY <1>1
  <2>2. CASE i \in 1 .. Len(w) /\ j \in 1 .. Len(w)
    BY <1>1, <1>2, <2>2 DEF NoRepeats
  <2>3. CASE ~(i \in 1 .. Len(w) /\ j \in 1 .. Len(w))
    BY <1>1, <1>2, <2>1, <2>3
  <2> QED  BY <2>2, <2>3
<1> QED  BY <1>2 DEF NoRepeats, v

-----------------------------------------------------------------------------
(* What steps leave as it is.                                              *)

\* The threads that broadcast, the keep-alive and the users are different
\* threads, and who is recorded.
LEMMA ThreadKinds ==
  /\ Threads = Shared \cup Users /\ Broadcasters \subseteq Shared /\ KeepAlive \in Shared
  /\ \A t \in Shared : t \notin Users /\ ~Direct(t)
  /\ \A t \in Users : Direct(t) /\ ~Recorded(t) /\ t # KeepAlive
  /\ \A t \in Threads : t # Nobody
  /\ \A t \in Shared : Recorded(t) <=> t # KeepAlive
BY ThreadsAssumption DEF Threads, Shared, Direct, Recorded

\* The list of users holds users, whose sockets are no recorder's
\* (guac_client.__users).
LEMMA OnList ==
  ASSUME SocketTypeOK
  PROVE  /\ Range(list) \subseteq Users
         /\ Users \subseteq Sinks /\ Recorder \in Sinks /\ Recorder \notin Users
<1>1. list \in Seq(Users)
  BY DEF SocketTypeOK
<1> QED  BY <1>1, UsersAssumption, LenProperties, ElementOfSeq DEF Range, Sinks

\* Where nothing new is written, what was written once and in order still is, for
\* users on the list before and those that have nothing yet.
LEMMA OrderKept ==
  ASSUME SocketTypeOK, WrittenOnce, BroadcastOrder, SocketTypeOK',
         \A s \in Sinks \ torn' : Written(s)' = Written(s) \/ Written(s)' = << >>,
         \A s \in Sinks : out_buf'[s] = out_buf[s] \/ out_buf'[s] = << >>,
         Recorder \notin broken' => Written(Recorder)' = Written(Recorder),
         broken \subseteq broken', torn \subseteq torn', midway \subseteq midway',
         \A u \in Range(list') \ midway' : u \in Range(list) \/ Written(u)' = << >>
  PROVE  WrittenOnce' /\ BroadcastOrder'
<1>1. Len(<< >>) = 0 /\ NoRepeats(<< >>)
  BY EmptySeq DEF NoRepeats
<1>2. \A s \in Sinks \ torn' : NoRepeats(Written(s)')
  <2> SUFFICES ASSUME NEW s \in Sinks \ torn'  PROVE NoRepeats(Written(s)')
    OBVIOUS
  <2>1. NoRepeats(Written(s))
    BY DEF WrittenOnce
  <2> QED  BY <1>1, <2>1
<1>3. \A s \in Sinks : NoRepeats(out_buf'[s])
  <2> SUFFICES ASSUME NEW s \in Sinks  PROVE NoRepeats(out_buf'[s])
    OBVIOUS
  <2>1. NoRepeats(out_buf[s])
    BY DEF WrittenOnce
  <2> QED  BY <1>1, <2>1
<1>4. ASSUME NEW u \in Range(list') \ (broken' \cup midway'), Recorder \notin broken',
             NEW i \in 1 .. Len(Written(u)'), Recorded(Written(u)'[i][1])
      PROVE  \E j \in 1 .. Len(Written(Recorder)') :
                RestOf(Written(u)', i, Written(Recorder)', j)
  <2>1. u \in Sinks \ torn'
    BY OnList DEF OnList, SocketTypeOK, Range, Sinks
  <2>2. CASE Written(u)' = << >>
    BY <1>1, <1>4, <2>2
  <2>3. CASE Written(u)' # << >>
    <3>1. Written(u)' = Written(u) /\ u \in Range(list) \ (broken \cup midway)
          /\ Recorder \notin broken /\ Written(Recorder)' = Written(Recorder)
      BY <1>4, <2>1, <2>3
    <3> QED  BY <1>4, <3>1 DEF BroadcastOrder
  <2> QED  BY <2>2, <2>3
<1>5. WrittenOnce'
  BY <1>2, <1>3 DEF WrittenOnce, NoRepeats
<1> QED  BY <1>4, <1>5 DEF BroadcastOrder, Recorded, RestOf

\* A step that writes nothing new keeps that every part written was written by
\* a call (socket.c).
LEMMA DoneKept ==
  ASSUME SocketTypeOK, AllDone,
         \A s \in Sinks : \/ Written(s)' = Written(s) \/ Written(s)' = << >>
                          \/ Drawn(Written(s), Written(s)'),
         \A p \in Part : Done(p) => Done(p)'
  PROVE  AllDone'
<1>1. ASSUME NEW s \in Sinks, NEW i \in 1 .. Len(Written(s)'), NEW p, p = Written(s)'[i]
      PROVE  Done(p)'
  <2>1. Drawn(Written(s), Written(s)')
    <3>1. Written(s)' # << >>
      BY <1>1, EmptySeq
    <3> QED  BY <3>1 DEF Drawn
  <2>2. PICK j \in 1 .. Len(Written(s)) : p = Written(s)[j]
    BY <1>1, <2>1 DEF Drawn
  <2>3. p \in Part /\ Done(p)
    BY <2>2, WrittenType DEF AllDone
  <2> QED  BY <2>3
<1> QED  BY <1>1 DEF AllDone

\* A socket whose owner is where it was stays as tidy as it was.
LEMMA TidyKept ==
  ASSUME NEW s \in Sinks, Tidy(s), Written(s)' = Written(s),
         \A t \in Threads : Midst(t, s)' <=> Midst(t, s),
         \A t \in Threads : Midst(t, s) => turn'[t] = turn[t] /\ at'[t] = at[t]
  PROVE  Tidy(s)'
<1>1. Framed(Written(s))'
  BY DEF Tidy, Framed, Follows, PartsOf
<1>2. \A t \in Threads : Midst(t, s)' => Continues(Written(s), t)'
  BY DEF Tidy, Continues
<1>3. (\A t \in Threads : ~Midst(t, s)') => Complete(Written(s))'
  BY DEF Tidy, Complete, PartsOf
<1> QED  BY <1>1, <1>2, <1>3 DEF Tidy

-----------------------------------------------------------------------------
(* Each step keeps the invariant.                                          *)

\* guac_socket_fd_lock_handler() keeps the invariant.
LEMMA FdLockKept ==
  ASSUME SocketInv, NEW t \in Threads, guac_socket_fd_lock_handler(t)
  PROVE  SocketInv'
<1> USE DEF guac_socket_fd_lock_handler
<1>1. /\ t \in Users /\ pc[t] = "idle" /\ t \in Range(list) /\ socketLock[t] = Nobody
      /\ t \in Sinks /\ t \notin Shared /\ t # Recorder
  BY ThreadKinds, OnList DEF SocketInv, Direct
<1>2. SocketTypeOK'
  <2>1. <<1>> \in Seq(Users \cup Nat)
    OBVIOUS
  <2> QED  BY <1>1, <2>1 DEF SocketInv, SocketTypeOK
<1>3. \A s \in Sinks : Written(s)' = Written(s) /\ out_buf'[s] = out_buf[s]
  BY DEF Written
<1>4. /\ pc' = [pc EXCEPT ![t] = "write"] /\ at' = [at EXCEPT ![t] = <<1>>]
      /\ socketLock' = [socketLock EXCEPT ![t] = t]
      /\ pc \in [Threads -> {"idle", "begin", "write", "end", "flush", "done"}]
      /\ at \in [Threads -> Seq(Users \cup Nat)]
      /\ socketLock \in [Sinks -> Threads \cup {Nobody}]
  BY DEF SocketInv, SocketTypeOK
<1>5. Bookkeeping'
  <2>1. ListsApart' /\ OneSender'
    BY <1>1, <1>4, ThreadKinds DEF SocketInv, Bookkeeping, ListsApart, OneSender
  <2>2. OffList'
    BY <1>1, <1>4, ThreadKinds, OnList DEF SocketInv, Bookkeeping, OffList
  <2>3. AtSound'
    <3>1. <<1>>[1] = 1
      OBVIOUS
    <3> QED  BY <1>1, <1>4, <3>1 DEF SocketInv, Bookkeeping, AtSound
  <2>4. LockSound'
    BY <1>1, <1>4, ThreadKinds, OnList DEF SocketInv, Bookkeeping, LockSound, Holds
  <2> QED  BY <2>1, <2>2, <2>3, <2>4 DEF Bookkeeping
<1>6. AllDone'
  <2>1. \A p \in Part : Done(p) => Done(p)'
    BY <1>1, <1>4 DEF Done, Part
  <2> QED  BY <1>3, <2>1, DoneKept DEF SocketInv
<1>7. AllTidy'
  <2> SUFFICES ASSUME NEW s \in (Range(list) \cup {Recorder}) \ (broken \cup midway)
               PROVE  Tidy(s)'
    BY DEF AllTidy
  <2>1. s \in Sinks /\ Tidy(s)
    BY OnList DEF SocketInv, AllTidy
  <2>2. \A r \in Threads : Midst(r, s)' <=> Midst(r, s)
    <3>1. <<1>>[1] = 1
      OBVIOUS
    <3> QED  BY <1>1, <1>4, <2>1, <3>1, ThreadKinds DEF Midst
  <2>3. \A r \in Threads : Midst(r, s) => turn'[r] = turn[r] /\ at'[r] = at[r]
    BY <1>1, <1>4 DEF Midst
  <2> QED  BY <1>3, <2>1, <2>2, <2>3, TidyKept
<1>8. WrittenOnce' /\ BroadcastOrder'
  BY <1>2, <1>3, OnList, OrderKept DEF SocketInv
<1>9. Ended'
  BY <1>1, <1>4, ThreadKinds DEF SocketInv, Ended
<1>10. OnlyKeepAliveMisuses' /\ StoppedOnlyIfBroken'
  BY <1>1, <1>4 DEF SocketInv, OnlyKeepAliveMisuses, StoppedOnlyIfBroken, SocketTypeOK
<1> QED  BY <1>2, <1>5, <1>6, <1>7, <1>8, <1>9, <1>10 DEF SocketInv

\* The start of an instruction on the broadcast socket, which takes the read
\* lock of the list, keeps the invariant (socket-broadcast.c).
LEMMA BeginKept ==
  ASSUME SocketInv, NEW t \in Threads, BroadcastBegin(t)
  PROVE  SocketInv'
<1> USE DEF BroadcastBegin
<1>1. /\ t \in Shared /\ pc[t] = "idle" /\ clientLock = Nobody /\ t \notin Users
      /\ \A r \in Shared : pc[r] \notin {"begin", "write", "end"}
  BY ThreadKinds DEF SocketInv, Bookkeeping, OneSender, Direct
<1>2. SocketTypeOK'
  <2>1. list \in Seq(Users \cup Nat)
    BY SeqMonotonic DEF SocketInv, SocketTypeOK
  <2>2. misuse' \subseteq Threads
    BY DEF SocketInv, SocketTypeOK, Uses
  <2> QED  BY <1>1, <2>1, <2>2 DEF SocketInv, SocketTypeOK
<1>3. \A s \in Sinks : Written(s)' = Written(s) /\ out_buf'[s] = out_buf[s]
  BY DEF Written
<1>4. /\ pc' = [pc EXCEPT ![t] = "begin"] /\ at' = [at EXCEPT ![t] = list]
      /\ pc \in [Threads -> {"idle", "begin", "write", "end", "flush", "done"}]
      /\ at \in [Threads -> Seq(Users \cup Nat)]
      /\ socketLock' = socketLock /\ socketLock \in [Sinks -> Threads \cup {Nobody}]
      /\ list \in Seq(Users) /\ Once(list)
  BY DEF SocketInv, SocketTypeOK, Bookkeeping, ListsApart
<1>5. Bookkeeping'
  <2>1. ListsApart' /\ OneSender'
    BY <1>1, <1>4, ThreadKinds DEF SocketInv, Bookkeeping, ListsApart, OneSender
  <2>2. OffList'
    BY <1>1, <1>4, ThreadKinds, OnList DEF SocketInv, Bookkeeping, OffList
  <2>3. AtSound'
    BY <1>1, <1>4 DEF SocketInv, Bookkeeping, AtSound
  <2>4. LockSound'
    <3>1. \A u \in Users, r \in Shared : u \in Range(list) => (Holds(r, u)' <=> Holds(r, u))
      BY <1>1, <1>4, ThreadKinds DEF Holds
    <3>2. \A r \in Threads : pc'[r] \in {"write", "end"} <=> pc[r] \in {"write", "end"}
      BY <1>1, <1>4
    <3> QED  BY <1>1, <1>4, <3>1, <3>2, ThreadKinds, OnList
             DEF SocketInv, Bookkeeping, LockSound
  <2> QED  BY <2>1, <2>2, <2>3, <2>4 DEF Bookkeeping
<1>6. AllDone'
  <2>1. \A p \in Part : Done(p) => Done(p)'
    BY <1>1, <1>4 DEF Done, Part
  <2> QED  BY <1>3, <2>1, DoneKept DEF SocketInv
<1>7. AllTidy'
  <2> SUFFICES ASSUME NEW s \in (Range(list) \cup {Recorder}) \ (broken \cup midway)
               PROVE  Tidy(s)'
    BY DEF AllTidy
  <2>1. s \in Sinks /\ Tidy(s)
    BY OnList DEF SocketInv, AllTidy
  <2>2. \A r \in Threads : Midst(r, s)' <=> Midst(r, s)
    BY <1>1, <1>4 DEF Midst
  <2>3. \A r \in Threads : Midst(r, s) => turn'[r] = turn[r] /\ at'[r] = at[r]
    BY <1>1, <1>4 DEF Midst
  <2> QED  BY <1>3, <2>1, <2>2, <2>3, TidyKept
<1>8. WrittenOnce' /\ BroadcastOrder'
  BY <1>2, <1>3, OnList, OrderKept DEF SocketInv
<1>9. t \in Broadcasters => client = "open"
  BY ThreadKinds, ThreadsAssumption
<1>10. Ended'
  BY <1>1, <1>4, <1>9, ThreadKinds DEF SocketInv, Ended
<1>11. OnlyKeepAliveMisuses' /\ StoppedOnlyIfBroken'
  BY <1>1, <1>4, <1>9, ThreadKinds
  DEF SocketInv, OnlyKeepAliveMisuses, StoppedOnlyIfBroken, SocketTypeOK, Uses, Shared
<1> QED  BY <1>2, <1>5, <1>6, <1>7, <1>8, <1>10, <1>11 DEF SocketInv

\* __lock_callback() locks the next socket of the list and keeps the invariant.
LEMMA LockCallbackKept ==
  ASSUME SocketInv, NEW t \in Threads, __lock_callback(t)
  PROVE  SocketInv'
<1> USE DEF __lock_callback
<1> DEFINE h == Head(at[t])
<1>1. /\ t \in Shared /\ pc[t] = "begin" /\ at[t] # << >> /\ at[t] \in Seq(Users) /\ Once(at[t])
      /\ socketLock[h] = Nobody /\ t \notin Users
  BY ThreadKinds DEF SocketInv, Bookkeeping, AtSound
<1>2. /\ h \in Users /\ Tail(at[t]) \in Seq(Users) /\ Once(Tail(at[t]))
      /\ \A v : v \in Range(Tail(at[t])) <=> v \in Range(at[t]) /\ v # h
  <2> DEFINE a == at[t]
             b == Tail(at[t])
  <2>1. /\ h \in Users /\ h = a[1] /\ 1 \in 1 .. Len(a) /\ Contains(a, h)
        /\ b \in Seq(Users) /\ Len(b) = Len(a) - 1
        /\ \A i \in 1 .. Len(b) : i + 1 \in 1 .. Len(a) /\ b[i] = a[i + 1]
        /\ \A v : Contains(b, v) => Contains(a, v)
    BY <1>1, FirstTaken
  <2>2. a \in Seq(Users) /\ Once(a) /\ Len(a) \in Nat
    BY <1>1, LenProperties
  <2> HIDE DEF a, b, h
  <2>3. Once(b)
    <3> SUFFICES ASSUME NEW m \in 1 .. Len(b), NEW n \in 1 .. Len(b), b[m] = b[n]
                 PROVE  m = n
      BY DEF Once
    <3>1. m + 1 = n + 1
      BY <2>1, <2>2 DEF Once
    <3> QED  BY <3>1
  <2>4. ~Contains(b, h)
    <3> SUFFICES ASSUME NEW m \in 1 .. Len(b), b[m] = h
                 PROVE  FALSE
      BY DEF Contains
    <3>1. m + 1 = 1
      BY <2>1, <2>2 DEF Once
    <3> QED  BY <3>1
  <2>5. ASSUME NEW v, Contains(a, v), v # h  PROVE Contains(b, v)
    <3>1. PICK m \in 1 .. Len(a) : a[m] = v
      BY <2>5 DEF Contains
    <3>2. m - 1 \in 1 .. Len(b) /\ (m - 1) + 1 = m
      BY <2>1, <2>2, <2>5, <3>1
    <3>3. b[m - 1] = v
      BY <2>1, <3>1, <3>2
    <3> QED  BY <3>2, <3>3 DEF Contains
  <2>6. \A v : (v \in Range(a) <=> Contains(a, v)) /\ (v \in Range(b) <=> Contains(b, v))
    BY <2>1, <2>2, InRange
  <2> QED  BY <2>1, <2>3, <2>4, <2>5, <2>6 DEF a, b
<1>3. \A s \in Sinks : Written(s)' = Written(s) /\ out_buf'[s] = out_buf[s]
  BY DEF Written
<1>4. /\ socketLock' = [socketLock EXCEPT ![h] = t] /\ at' = [at EXCEPT ![t] = Tail(at[t])]
      /\ pc \in [Threads -> {"idle", "begin", "write", "end", "flush", "done"}]
      /\ at \in [Threads -> Seq(Users \cup Nat)]
      /\ socketLock \in [Sinks -> Threads \cup {Nobody}]
      /\ pc' = pc /\ list' = list /\ waiting' = waiting /\ midway' = midway
      /\ broken' = broken /\ torn' = torn /\ turn' = turn
      /\ UNCHANGED <<clientLock, readers, out_buf, fd, active, client, misuse>>
  BY DEF SocketInv, SocketTypeOK
<1> HIDE DEF h, __lock_callback
<1>5. SocketTypeOK'
  <2>1. Tail(at[t]) \in Seq(Users \cup Nat)
    BY <1>2, SeqMonotonic
  <2> QED  BY <1>2, <1>4, <2>1, OnList DEF SocketInv, SocketTypeOK
<1>6. h \in Sinks /\ h # Recorder /\ h \notin waiting
  <2>1. h \in Range(at[t])
    BY <1>1, FirstTaken, InRange DEF h
  <2>2. h \in Range(list)
    BY <1>1, <2>1 DEF SocketInv, Bookkeeping, AtSound
  <2> QED  BY <1>2, <2>2, OnList DEF SocketInv, Bookkeeping, ListsApart
<1>7. Bookkeeping'
  <2>1. ListsApart' /\ OneSender'
    BY <1>4, ThreadKinds DEF SocketInv, Bookkeeping, ListsApart, OneSender
  <2>2. OffList'
    BY <1>4, <1>6, ThreadKinds, OnList DEF SocketInv, Bookkeeping, OffList
  <2>3. AtSound'
    BY <1>1, <1>2, <1>4 DEF SocketInv, Bookkeeping, AtSound
  <2>4. LockSound'
    <3>1. ASSUME NEW u \in Range(list) \ midway, NEW r \in Shared
          PROVE  socketLock'[u] = r <=> Holds(r, u)'
      <4>1. socketLock[u] = r <=> Holds(r, u)
        BY <3>1 DEF SocketInv, Bookkeeping, LockSound
      <4>2. u \in Sinks
        BY OnList DEF SocketInv
      <4>3. CASE r = t
        BY <1>1, <1>2, <1>4, <4>1, <4>2, <4>3, ThreadKinds DEF Holds
      <4>4. CASE r # t
        <5>1. ~Holds(r, u)
          BY <1>1, <4>4 DEF SocketInv, Bookkeeping, OneSender, Holds
        <5> QED  BY <1>1, <1>4, <4>1, <4>2, <4>4, <5>1 DEF Holds
      <4> QED  BY <4>3, <4>4
    <3>2. ASSUME NEW u \in Range(list) \ midway
          PROVE  /\ socketLock'[u] \in Shared \cup {u, Nobody}
                 /\ socketLock'[u] = u <=> pc'[u] \in {"write", "end"}
      <4>1. /\ socketLock[u] \in Shared \cup {u, Nobody}
            /\ socketLock[u] = u <=> pc[u] \in {"write", "end"}
        BY <3>2 DEF SocketInv, Bookkeeping, LockSound
      <4>2. u \in Users /\ u \in Sinks /\ u # Nobody /\ u # t
        BY <1>1, OnList, ThreadKinds DEF SocketInv
      <4> QED  BY <1>1, <1>4, <4>1, <4>2
    <3>3. \A r \in Threads :
            socketLock'[Recorder] = r <=> r \in Broadcasters /\ pc'[r] \in {"write", "end"}
      BY <1>4, <1>6, OnList DEF SocketInv, Bookkeeping, LockSound
    <3> QED  BY <1>4, <3>1, <3>2, <3>3 DEF LockSound
  <2> QED  BY <2>1, <2>2, <2>3, <2>4 DEF Bookkeeping
<1>8. AllDone'
  <2>1. \A p \in Part : Done(p) => Done(p)'
    BY <1>1, <1>4 DEF Done, Part
  <2> QED  BY <1>3, <2>1, DoneKept DEF SocketInv
<1>9. AllTidy'
  <2> SUFFICES ASSUME NEW s \in (Range(list) \cup {Recorder}) \ (broken \cup midway)
               PROVE  Tidy(s)'
    BY <1>4 DEF AllTidy
  <2>1. s \in Sinks /\ Tidy(s)
    BY OnList DEF SocketInv, AllTidy
  <2>2. \A r \in Threads : Midst(r, s)' <=> Midst(r, s)
    BY <1>1, <1>4, <2>1, ThreadKinds DEF Midst
  <2>3. \A r \in Threads : Midst(r, s) => turn'[r] = turn[r] /\ at'[r] = at[r]
    BY <1>1, <1>4 DEF Midst
  <2> QED  BY <1>3, <2>1, <2>2, <2>3, TidyKept
<1>10. WrittenOnce' /\ BroadcastOrder'
  BY <1>3, <1>4, <1>5, OnList, OrderKept DEF SocketInv
<1>11. Ended' /\ OnlyKeepAliveMisuses' /\ StoppedOnlyIfBroken'
  BY <1>4 DEF SocketInv, Ended, OnlyKeepAliveMisuses, StoppedOnlyIfBroken
<1> QED  BY <1>5, <1>7, <1>8, <1>9, <1>10, <1>11 DEF SocketInv

\* __guac_socket_tee_lock_handler() locks both sockets and keeps the invariant.
LEMMA TeeLockKept ==
  ASSUME SocketInv, NEW t \in Threads, __guac_socket_tee_lock_handler(t)
  PROVE  SocketInv'
<1> USE DEF __guac_socket_tee_lock_handler
<1>1. /\ t \in Shared /\ pc[t] = "begin" /\ at[t] = << >> /\ t \notin Users
      /\ \A r \in Shared : r # t => pc[r] \notin {"begin", "write", "end"}
  BY ThreadKinds DEF SocketInv, Bookkeeping, AtSound, OneSender
<1>2. SocketTypeOK'
  <2>1. <<1>> \in Seq(Users \cup Nat)
    OBVIOUS
  <2>2. socketLock' \in [Sinks -> Threads \cup {Nobody}]
    BY DEF SocketInv, SocketTypeOK
  <2> QED  BY <1>1, <2>1, <2>2 DEF SocketInv, SocketTypeOK
<1>3. \A s \in Sinks : Written(s)' = Written(s) /\ out_buf'[s] = out_buf[s]
  BY DEF Written
<1>4. /\ pc' = [pc EXCEPT ![t] = "write"] /\ at' = [at EXCEPT ![t] = <<1>>]
      /\ pc \in [Threads -> {"idle", "begin", "write", "end", "flush", "done"}]
      /\ at \in [Threads -> Seq(Users \cup Nat)]
      /\ socketLock \in [Sinks -> Threads \cup {Nobody}]
      /\ \A s \in Sinks : s # Recorder => socketLock'[s] = socketLock[s]
      /\ socketLock'[Recorder] = IF Recorded(t) THEN t ELSE socketLock[Recorder]
      /\ Recorded(t) => socketLock[Recorder] = Nobody
      /\ <<1>>[1] = 1
  BY OnList DEF SocketInv, SocketTypeOK
<1>5. Bookkeeping'
  <2>1. ListsApart' /\ OneSender'
    BY <1>1, <1>4, ThreadKinds DEF SocketInv, Bookkeeping, ListsApart, OneSender
  <2>2. OffList'
    BY <1>1, <1>4, ThreadKinds, OnList DEF SocketInv, Bookkeeping, OffList
  <2>3. AtSound'
    BY <1>1, <1>4 DEF SocketInv, Bookkeeping, AtSound
  <2>4. LockSound'
    <3>1. \A u \in Users, r \in Shared : Holds(r, u)' <=> Holds(r, u)
      <4>1. \A u : u \notin Range(at[t])
        BY <1>1 DEF Range
      <4> QED  BY <1>1, <1>4, <4>1, ThreadKinds DEF Holds
    <3>2. ASSUME NEW r \in Threads
          PROVE  socketLock'[Recorder] = r <=> r \in Broadcasters /\ pc'[r] \in {"write", "end"}
      <4>1. socketLock[Recorder] = r <=> r \in Broadcasters /\ pc[r] \in {"write", "end"}
        BY <3>2 DEF SocketInv, Bookkeeping, LockSound
      <4> QED  BY <1>1, <1>4, <4>1, ThreadKinds DEF Recorded
    <3> QED  BY <1>1, <1>4, <3>1, <3>2, ThreadKinds, OnList
             DEF SocketInv, Bookkeeping, LockSound
  <2> QED  BY <2>1, <2>2, <2>3, <2>4 DEF Bookkeeping
<1>6. AllDone'
  <2>1. \A p \in Part : Done(p) => Done(p)'
    BY <1>1, <1>4 DEF Done, Part
  <2> QED  BY <1>3, <2>1, DoneKept DEF SocketInv
<1>7. AllTidy'
  <2> SUFFICES ASSUME NEW s \in (Range(list) \cup {Recorder}) \ (broken \cup midway)
               PROVE  Tidy(s)'
    BY DEF AllTidy
  <2>1. s \in Sinks /\ Tidy(s)
    BY OnList DEF SocketInv, AllTidy
  <2>2. \A r \in Threads : Midst(r, s)' <=> Midst(r, s)
    BY <1>1, <1>4, <2>1, ThreadKinds DEF Midst
  <2>3. \A r \in Threads : Midst(r, s) => turn'[r] = turn[r] /\ at'[r] = at[r]
    BY <1>1, <1>4 DEF Midst
  <2> QED  BY <1>3, <2>1, <2>2, <2>3, TidyKept
<1>8. WrittenOnce' /\ BroadcastOrder'
  BY <1>2, <1>3, OnList, OrderKept DEF SocketInv
<1>9. Ended'
  BY <1>1, <1>4, ThreadKinds DEF SocketInv, Ended
<1>10. OnlyKeepAliveMisuses' /\ StoppedOnlyIfBroken'
  BY <1>1, <1>4, ThreadKinds DEF SocketInv, OnlyKeepAliveMisuses, StoppedOnlyIfBroken, SocketTypeOK
<1> QED  BY <1>2, <1>5, <1>6, <1>7, <1>8, <1>9, <1>10 DEF SocketInv

\* The rest of a socket, with one more part at the end of it or of both.
LEMMA RestOfMore ==
  ASSUME NEW w \in Seq(Part), NEW r \in Seq(Part), NEW p \in Part,
         NEW i \in 1 .. Len(w), NEW j \in 1 .. Len(r), RestOf(w, i, r, j)
  PROVE  RestOf(Append(w, p), i, r, j) /\ RestOf(Append(w, p), i, Append(r, p), j)
<1> DEFINE v == Append(w, p)
           q == Append(r, p)
<1>1. /\ Len(v) = Len(w) + 1 /\ Len(w) \in Nat /\ v[Len(w) + 1] = p
      /\ \A m \in 1 .. Len(w) : v[m] = w[m]
  BY OneMore
<1>2. /\ Len(q) = Len(r) + 1 /\ Len(r) \in Nat /\ q[Len(r) + 1] = p
      /\ \A m \in 1 .. Len(r) : q[m] = r[m]
  BY OneMore
<1> HIDE DEF v, q
<1>3. w[i] = r[j] /\ v[i] = w[i] /\ q[j] = r[j]
  BY <1>1, <1>2 DEF RestOf
<1>4. ASSUME NEW k \in j + 1 .. Len(r)  PROVE \E l \in i + 1 .. Len(v) : v[l] = r[k]
  <2>1. PICK l \in i + 1 .. Len(w) : w[l] = r[k]
    BY DEF RestOf
  <2>2. l \in i + 1 .. Len(v) /\ l \in 1 .. Len(w)
    BY <1>1
  <2> QED  BY <1>1, <2>1, <2>2
<1>5. ASSUME NEW k \in j + 1 .. Len(q)  PROVE \E l \in i + 1 .. Len(v) : v[l] = q[k]
  <2>1. CASE k = Len(r) + 1
    <3>1. Len(w) + 1 \in i + 1 .. Len(v)
      BY <1>1
    <3> QED  BY <1>1, <1>2, <2>1, <3>1
  <2>2. CASE k # Len(r) + 1
    <3>1. k \in j + 1 .. Len(r) /\ k \in 1 .. Len(r)
      BY <1>2, <2>2
    <3> QED  BY <1>2, <1>4, <3>1
  <2> QED  BY <2>1, <2>2
<1> QED  BY <1>3, <1>4, <1>5 DEF RestOf, v, q

\* A part appended to what is written and to what it writes leaves the same
\* rest.
LEMMA RestOfLast ==
  ASSUME NEW w \in Seq(Part), NEW r \in Seq(Part), NEW p \in Part
  PROVE  RestOf(Append(w, p), Len(w) + 1, Append(r, p), Len(r) + 1)
<1>1. /\ Append(w, p)[Len(w) + 1] = p /\ Append(r, p)[Len(r) + 1] = p
      /\ Len(Append(r, p)) = Len(r) + 1 /\ Len(r) \in Nat
  BY OneMore
<1>2. (Len(r) + 1) + 1 .. Len(Append(r, p)) = {}
  BY <1>1
<1> QED  BY <1>1, <1>2 DEF RestOf

\* Nothing is written or flushed to a user who is not on the list.
LEMMA ReachedOnList ==
  ASSUME SocketInv, NEW t \in Threads, pc[t] \in {"write", "end", "flush"}
  PROVE  /\ Reached(t) \in SUBSET Sinks
         /\ \A u \in Users : u \notin Range(list) => u \notin Reached(t) /\ u # t
<1>1. t \in Users => t \in Range(list)
  BY DEF SocketInv, Bookkeeping, OffList
<1> QED  BY <1>1, OnList, ThreadKinds DEF Reached, Direct, SocketInv

\* The thread that is writing an instruction has locked every socket it writes to,
\* and no other.
LEMMA Owner ==
  ASSUME SocketInv, NEW t \in Threads, pc[t] \in {"write", "end"},
         NEW s \in (Range(list) \cup {Recorder}) \ midway
  PROVE  /\ s \in Reached(t) => socketLock[s] = t
         /\ s \notin Reached(t) => socketLock[s] # t
<1>1. CASE s = Recorder
  BY <1>1, ThreadKinds, OnList
  DEF SocketInv, Bookkeeping, LockSound, Reached, Direct, Recorded
<1>2. CASE s # Recorder
  <2>1. /\ socketLock[s] \in Shared \cup {s, Nobody}
        /\ socketLock[s] = s <=> pc[s] \in {"write", "end"}
        /\ \A r \in Shared : socketLock[s] = r <=> Holds(r, s)
        /\ s \in Range(list) /\ s \in Users
    BY <1>2, OnList DEF SocketInv, Bookkeeping, LockSound
  <2>2. CASE t \in Users
    BY <2>1, <2>2, ThreadKinds DEF Reached
  <2>3. CASE t \in Shared
    BY <2>1, <2>3, ThreadKinds DEF Reached, Holds
  <2> QED  BY <2>2, <2>3, ThreadKinds
<1> QED  BY <1>1, <1>2

\* What a write does to thread t, and to whom it tells to stop.
LEMMA WriteSteps ==
  ASSUME SocketInv, NEW t \in Threads, guac_socket_write(t)
  PROVE  /\ pc[t] = "write" /\ at[t][1] \in Nat \ {0} /\ <<t, turn[t], at[t][1]>> \in Part
         /\ Reached(t) \in SUBSET Sinks
         /\ \E taken \in guac_socket_fd_write(Full(Reached(t))) :
              WriteTo(Reached(t), <<t, turn[t], at[t][1]>>, taken)
         /\ pc' \in [Threads -> {"idle", "begin", "write", "end", "flush", "done"}]
         /\ \A r \in Threads : r # t => pc'[r] = pc[r] /\ at'[r] = at[r]
         /\ pc'[t] \in {"write", "end"} /\ at'[t] = <<at[t][1] + 1>>
         /\ at' \in [Threads -> Seq(Users \cup Nat)]
         /\ pc'[t] = "end" => at[t][1] = PartsOf(t) \/ (Direct(t) /\ t \in broken')
         /\ \E F \in SUBSET broken' : active' = active \ F
         /\ broken \subseteq broken' /\ broken' \subseteq Sinks
         /\ torn \subseteq torn' /\ torn' \subseteq broken'
         /\ Uses(t)
         /\ UNCHANGED <<list, waiting, socketLock, clientLock, readers, turn,
                        client, midway>>
<1>0. PICK taken \in guac_socket_fd_write(Full(Reached(t))) :
        LET failed == Refusing(taken) \cap Users
            last == at[t][1] = PartsOf(t) \/ (Direct(t) /\ failed # {})
        IN  /\ pc[t] = "write"
            /\ WriteTo(Reached(t), <<t, turn[t], at[t][1]>>, taken)
            /\ active' = IF Direct(t) THEN active ELSE active \ failed
            /\ pc' = [pc EXCEPT ![t] = IF last THEN "end" ELSE pc[t]]
            /\ at' = [at EXCEPT ![t] = <<at[t][1] + 1>>]
            /\ Uses(t)
            /\ UNCHANGED <<list, waiting, socketLock, clientLock, readers, turn,
                           client, midway>>
  BY DEF guac_socket_write
<1> DEFINE k == at[t][1]
           failed == Refusing(taken) \cap Users
           last == k = PartsOf(t) \/ (Direct(t) /\ failed # {})
<1>1. /\ pc[t] = "write" /\ pc' = [pc EXCEPT ![t] = IF last THEN "end" ELSE pc[t]]
      /\ at' = [at EXCEPT ![t] = <<k + 1>>]
      /\ active' = IF Direct(t) THEN active ELSE active \ failed
      /\ WriteTo(Reached(t), <<t, turn[t], k>>, taken)
      /\ Uses(t)
      /\ UNCHANGED <<list, waiting, socketLock, clientLock, readers, turn,
                     client, midway>>
  BY <1>0
<1>2. k \in Nat \ {0}
  BY <1>1 DEF SocketInv, Bookkeeping, AtSound
<1>3. /\ pc \in [Threads -> {"idle", "begin", "write", "end", "flush", "done"}]
      /\ at \in [Threads -> Seq(Users \cup Nat)] /\ turn[t] \in Nat
  BY DEF SocketInv, SocketTypeOK
<1>5. Reached(t) \in SUBSET Sinks
  BY OnList, ThreadKinds DEF SocketInv, Reached, Direct
<1>4. /\ failed \subseteq broken' /\ (Direct(t) => failed \subseteq {t})
      /\ broken \subseteq broken' /\ broken' \subseteq Sinks
      /\ torn \subseteq torn' /\ torn' \subseteq broken'
  <2>1. Full(Reached(t)) \in SUBSET Sinks /\ Full(Reached(t)) \subseteq Reached(t)
    BY <1>5 DEF Full
  <2>2. Fails(taken)
    BY <1>1 DEF WriteTo
  <2>3. /\ \A s : s \in Refusing(taken) => s \in Full(Reached(t))
        /\ Refusing(taken) \subseteq broken'
        /\ broken \subseteq broken' /\ broken' \subseteq Sinks
        /\ torn \subseteq torn' /\ torn' \subseteq broken'
    BY <2>1, <2>2, Taking DEF SocketInv
  <2> QED  BY <2>1, <2>3 DEF Reached
<1>6. <<t, turn[t], k>> \in Part
  BY <1>2, <1>3 DEF Part
<1> HIDE DEF k, failed
<1>7. <<k + 1>> \in Seq(Users \cup Nat)
  BY <1>2
<1>8. at' \in [Threads -> Seq(Users \cup Nat)] /\ at'[t] = <<k + 1>>
  BY <1>1, <1>3, <1>7
<1>9. \E F \in SUBSET broken' : active' = active \ F
  <2>1. CASE Direct(t)
    BY <1>1, <2>1
  <2>2. CASE ~Direct(t)
    BY <1>1, <1>4, <2>2
  <2> QED  BY <2>1, <2>2
<1>10. pc' \in [Threads -> {"idle", "begin", "write", "end", "flush", "done"}] /\ pc'[t] \in {"write", "end"}
  BY <1>1, <1>3
<1>11. pc'[t] = "end" => k = PartsOf(t) \/ (Direct(t) /\ t \in broken')
  BY <1>1, <1>3, <1>4
<1>12. \A r \in Threads : r # t => pc'[r] = pc[r] /\ at'[r] = at[r]
  BY <1>1, <1>3
<1> QED  BY <1>1, <1>2, <1>4, <1>5, <1>6, <1>8, <1>9, <1>10, <1>11, <1>12 DEF k

\* guac_socket_write() of one part to every socket meant keeps the invariant.
LEMMA WriteKept ==
  ASSUME SocketInv, NEW t \in Threads, guac_socket_write(t)
  PROVE  SocketInv'
<1> DEFINE k == at[t][1]
           p == <<t, turn[t], k>>
           S == Reached(t)
<1>1. /\ pc[t] = "write" /\ k \in Nat \ {0} /\ p \in Part /\ S \in SUBSET Sinks
      /\ pc \in [Threads -> {"idle", "begin", "write", "end", "flush", "done"}]
      /\ pc' \in [Threads -> {"idle", "begin", "write", "end", "flush", "done"}]
      /\ \A r \in Threads : r # t => pc'[r] = pc[r] /\ at'[r] = at[r]
      /\ pc'[t] \in {"write", "end"} /\ at'[t][1] = k + 1
      /\ at' \in [Threads -> Seq(Users \cup Nat)]
      /\ pc'[t] = "end" => k = PartsOf(t) \/ (Direct(t) /\ t \in broken')
      /\ list' = list /\ waiting' = waiting /\ socketLock' = socketLock
      /\ clientLock' = clientLock /\ readers' = readers
      /\ broken \subseteq broken' /\ broken' \subseteq Sinks
      /\ torn \subseteq torn' /\ torn' \subseteq broken'
      /\ turn' = turn /\ client' = client /\ midway' = midway
  <2>1. <<k + 1>>[1] = k + 1
    OBVIOUS
  <2> QED  BY <2>1, WriteSteps DEF SocketInv, SocketTypeOK
<1>2. /\ out_buf' \in [Sinks -> Seq(Part)] /\ fd' \in [Sinks -> Seq(Part)]
      /\ \A s \in Sinks :
           /\ Len(out_buf'[s]) <= BufferParts
           /\ out_buf'[s] \in {out_buf[s], Append(out_buf[s], p), Append(<< >>, p)}
           /\ s \notin S => out_buf'[s] = out_buf[s] /\ fd'[s] = fd[s]
                            /\ Written(s)' = Written(s)
           /\ s \in S => \/ Written(s)' = Append(Written(s), p)
                         \/ s \in broken' /\ Drawn(Written(s), Written(s)')
           /\ s \notin torn' => Written(s)' \in {Written(s), Append(Written(s), p)}
  <2>1. SocketTypeOK /\ \E taken \in guac_socket_fd_write(Full(S)) : WriteTo(S, p, taken)
    BY WriteSteps DEF SocketInv
  <2> HIDE DEF S, p, k
  <2> QED  BY <1>1, <2>1, Wrote
<1>3. \E F \in SUBSET broken' : active' = active \ F
  BY WriteSteps
<1>4. misuse' = IF client # "open" /\ ~Direct(t) THEN misuse \cup {t} ELSE misuse
  BY WriteSteps DEF Uses
<1>5. p[1] = t /\ p[2] = turn[t] /\ p[3] = k
  OBVIOUS
<1>6. turn[t] \in Nat /\ \A s \in Sinks : Written(s) \in Seq(Part)
  BY WrittenType DEF SocketInv, SocketTypeOK
<1>7. t \in Broadcasters => client = "open"
  BY <1>1 DEF SocketInv, Ended
<1>8. \A u \in Users : u \notin Range(list) => u \notin S
  BY <1>1, ReachedOnList
<1>9. \A s \in (Range(list) \cup {Recorder}) \ midway :
         /\ s \in S => socketLock[s] = t
         /\ s \notin S => socketLock[s] # t
  BY <1>1, Owner
<1> HIDE DEF S, p, k
<1>10. SocketTypeOK'
  <2>1. active' \subseteq Users /\ misuse' \subseteq Threads
    BY <1>3, <1>4 DEF SocketInv, SocketTypeOK
  <2> QED  BY <1>1, <1>2, <2>1 DEF SocketInv, SocketTypeOK
<1>11. Bookkeeping'
  <2>1. ListsApart' /\ OneSender'
    BY <1>1, ThreadKinds DEF SocketInv, Bookkeeping, ListsApart, OneSender
  <2>2. OffList'
    BY <1>1, <1>2, <1>8, ThreadKinds, OnList DEF SocketInv, Bookkeeping, OffList
  <2>3. AtSound'
    <3>1. \A r \in Threads : pc'[r] = "begin" => r # t /\ pc[r] = "begin" /\ at'[r] = at[r]
      BY <1>1
    <3>2. \A r \in Threads : pc'[r] \in {"write", "end"} =>
            at'[r][1] = k + 1 \/ (pc[r] \in {"write", "end"} /\ at'[r] = at[r])
      BY <1>1
    <3>3. k + 1 \in Nat \ {0}
      BY <1>1
    <3>4. ASSUME NEW r \in Threads, pc'[r] \in {"write", "end"}  PROVE at'[r][1] \in Nat \ {0}
      BY <3>2, <3>3, <3>4 DEF SocketInv, Bookkeeping, AtSound
    <3>5. ASSUME NEW r \in Threads, pc'[r] = "begin"
          PROVE  /\ r \in Shared /\ at'[r] \in Seq(Users) /\ Once(at'[r])
                 /\ Range(at'[r]) \subseteq Range(list')
      BY <1>1, <3>1, <3>5 DEF SocketInv, Bookkeeping, AtSound
    <3> QED  BY <3>4, <3>5 DEF AtSound
  <2>4. LockSound'
    <3>1. \A r \in Threads : pc'[r] \in {"write", "end"} <=> pc[r] \in {"write", "end"}
      BY <1>1
    <3>2. \A u \in Users, r \in Shared : Holds(r, u)' <=> Holds(r, u)
      BY <1>1, ThreadKinds DEF Holds
    <3> QED  BY <1>1, <3>1, <3>2, ThreadKinds, OnList DEF SocketInv, Bookkeeping, LockSound
  <2> QED  BY <2>1, <2>2, <2>3, <2>4 DEF Bookkeeping
<1>12. AllDone'
  <2>1. ASSUME NEW q \in Part, Done(q)  PROVE Done(q)'
    BY <1>1, <1>6, <2>1 DEF Done, Part, k
  <2>2. ASSUME NEW q, q = p  PROVE Done(q)'
    <3>1. q[1] = t /\ q[2] = turn[t] /\ q[3] = k
      BY <1>5, <2>2
    <3> QED  BY <1>1, <3>1 DEF Done
  <2>3. ASSUME NEW s \in Sinks, NEW i \in 1 .. Len(Written(s)'), NEW q, q = Written(s)'[i]
        PROVE  Done(q)'
    <3>1. CASE Drawn(Written(s), Written(s)')
      <4>1. PICK j \in 1 .. Len(Written(s)) : q = Written(s)[j]
        BY <2>3, <3>1 DEF Drawn
      <4>2. q \in Part /\ Done(q)
        BY <4>1, WrittenType DEF SocketInv, AllDone
      <4> QED  BY <2>1, <4>2
    <3>2. CASE Written(s)' = Append(Written(s), p)
      <4>1. /\ Len(Written(s)') = Len(Written(s)) + 1 /\ Len(Written(s)) \in Nat
            /\ Written(s)'[Len(Written(s)) + 1] = p
            /\ \A m \in 1 .. Len(Written(s)) : Written(s)'[m] = Written(s)[m]
        BY <1>1, <1>6, <3>2, OneMore
      <4>2. CASE i = Len(Written(s)) + 1
        <5>1. q = p
          BY <2>3, <4>1, <4>2
        <5> QED  BY <2>2, <5>1
      <4>3. CASE i # Len(Written(s)) + 1
        <5>1. i \in 1 .. Len(Written(s))
          BY <4>1, <4>3
        <5>2. q = Written(s)[i]
          BY <2>3, <4>1, <5>1
        <5>3. q \in Part /\ Done(q)
          BY <5>1, <5>2, WrittenType DEF SocketInv, AllDone
        <5> QED  BY <2>1, <5>3
      <4> QED  BY <4>2, <4>3
    <3>3. Drawn(Written(s), Written(s))
      BY DEF Drawn
    <3> QED  BY <1>2, <3>1, <3>2, <3>3
  <2> QED  BY <2>3 DEF AllDone
<1>13. WrittenOnce'
  <2>1. ~Done(p)
    BY <1>1, <1>5, <1>6 DEF Done, k
  <2>2. \A s \in Sinks : \A m \in 1 .. Len(Written(s)) : Written(s)[m] # p
    BY <2>1 DEF SocketInv, AllDone
  <2>3. ASSUME NEW s \in Sinks \ torn'  PROVE NoRepeats(Written(s)')
    <3>1. NoRepeats(Written(s))
      BY <1>1 DEF SocketInv, WrittenOnce
    <3>2. NoRepeats(Append(Written(s), p))
      BY <1>1, <1>6, <2>2, <3>1, NoRepeatsMore
    <3> QED  BY <1>2, <3>1, <3>2
  <2>4. ASSUME NEW s \in Sinks  PROVE NoRepeats(out_buf'[s])
    <3>1. NoRepeats(out_buf[s]) /\ out_buf[s] \in Seq(Part)
      BY DEF SocketInv, WrittenOnce, SocketTypeOK
    <3>2. \A m \in 1 .. Len(out_buf[s]) : out_buf[s][m] # p
      BY <2>2, BufferWritten DEF SocketInv
    <3>3. NoRepeats(Append(out_buf[s], p))
      BY <1>1, <3>1, <3>2, NoRepeatsMore
    <3>4. Len(Append(<< >>, p)) = 1
      BY ConcatAppend, <3>1, <1>1
    <3>5. NoRepeats(Append(<< >>, p))
      BY <3>4 DEF NoRepeats
    <3> QED  BY <1>2, <3>1, <3>3, <3>5
  <2> QED  BY <2>3, <2>4 DEF WrittenOnce, NoRepeats
<1>14. AllTidy'
  <2> SUFFICES ASSUME NEW s \in (Range(list) \cup {Recorder}) \ (broken' \cup midway)
               PROVE  Tidy(s)'
    BY <1>1 DEF AllTidy
  <2>1. s \in Sinks /\ Tidy(s) /\ s \notin broken' /\ s \notin midway
    BY <1>1, OnList DEF SocketInv, AllTidy
  <2>2. CASE s \notin S
    <3>1. socketLock[s] # t
      BY <1>9, <2>2
    <3>2. \A r \in Threads : Midst(r, s)' <=> Midst(r, s)
      BY <1>1, <3>1 DEF Midst
    <3>3. \A r \in Threads : Midst(r, s) => turn'[r] = turn[r] /\ at'[r] = at[r]
      BY <1>1, <3>1 DEF Midst
    <3> QED  BY <1>2, <2>1, <2>2, <3>2, <3>3, TidyKept
  <2>3. CASE s \in S
    <3> DEFINE w == Written(s)
               v == Append(w, p)
    <3>1. socketLock[s] = t /\ socketLock'[s] = t
      BY <1>1, <1>9, <2>3
    <3>2. Written(s)' = v /\ w \in Seq(Part)
      BY <1>2, <1>6, <2>1, <2>3
    <3>3. Framed(w)
      BY <2>1 DEF Tidy
    <3>4. k > 1 => w # << >> /\ w[Len(w)] = <<t, turn[t], k - 1>>
      BY <1>1, <2>1, <3>1 DEF Tidy, Midst, Continues, k
    <3>5. k = 1 /\ w # << >> => w[Len(w)][3] = PartsOf(w[Len(w)][1])
      <4>1. k = 1 => \A r \in Threads : ~Midst(r, s)
        BY <3>1 DEF Midst, k
      <4> QED  BY <2>1, <4>1 DEF Tidy, Complete
    <3> HIDE DEF w
    <3>6. IF w = << >> THEN p[3] = 1 ELSE Follows(w[Len(w)], p)
      <4>1. CASE k > 1
        <5>1. <<t, turn[t], k - 1>>[1] = t /\ <<t, turn[t], k - 1>>[2] = turn[t]
              /\ <<t, turn[t], k - 1>>[3] = k - 1
          OBVIOUS
        <5> QED  BY <1>1, <1>5, <3>4, <4>1, <5>1 DEF Follows
      <4>2. CASE k = 1
        BY <1>5, <3>5, <4>2 DEF Follows
      <4> QED  BY <1>1, <4>1, <4>2
    <3>7. Framed(v)
      BY <1>1, <3>2, <3>3, <3>6, FramedOneMore
    <3>8. v # << >> /\ v[Len(v)] = p
      <4>1. v # << >> /\ Len(v) = Len(w) + 1 /\ v[Len(w) + 1] = p
        BY <1>1, <3>2, OneMore
      <4> HIDE DEF v
      <4> QED  BY <4>1
    <3> HIDE DEF v
    <3>9. Framed(Written(s))'
      BY <3>2, <3>7 DEF Framed, Follows, PartsOf
    <3>10. \A r \in Threads : Midst(r, s)' => Continues(Written(s), r)'
      <4>1. \A r \in Threads : Midst(r, s)' => r = t
        BY <3>1 DEF Midst
      <4>2. <<t, turn'[t], at'[t][1] - 1>> = p
        BY <1>1 DEF p
      <4>3. Continues(Written(s), t)'
        BY <3>2, <3>8, <4>2 DEF Continues
      <4> QED  BY <4>1, <4>3
    <3>11. (\A r \in Threads : ~Midst(r, s)') => Complete(Written(s))'
      <4> SUFFICES ASSUME ~Midst(t, s)'  PROVE Complete(Written(s))'
        OBVIOUS
      <4>1. pc'[t] = "end"
        BY <1>1, <3>1 DEF Midst
      <4>2. Direct(t) => s = t
        BY <2>3 DEF S, Reached
      <4>3. k = PartsOf(t)
        BY <1>1, <2>1, <4>1, <4>2
      <4> QED  BY <1>5, <3>2, <3>8, <4>3 DEF Complete, PartsOf
    <3> QED  BY <3>9, <3>10, <3>11 DEF Tidy
  <2> QED  BY <2>2, <2>3
<1>15. BroadcastOrder'
  <2> DEFINE r == Written(Recorder)
  <2> SUFFICES ASSUME NEW u \in Range(list) \ (broken' \cup midway), Recorder \notin broken',
                      NEW i \in 1 .. Len(Written(u)'), Recorded(Written(u)'[i][1])
               PROVE  \E j \in 1 .. Len(r') : RestOf(Written(u)', i, r', j)
    BY <1>1 DEF BroadcastOrder, Recorded, RestOf
  <2> DEFINE w == Written(u)
  <2> SUFFICES \E j \in 1 .. Len(r') : RestOf(w', i, r', j)
    OBVIOUS
  <2>1. /\ u \in Users /\ u \in Sinks /\ Recorder \in Sinks /\ u \notin broken'
        /\ w \in Seq(Part) /\ r \in Seq(Part) /\ Len(w) \in Nat /\ Len(r) \in Nat
    BY <1>6, OnList, LenProperties DEF SocketInv
  <2>2. \A m \in 1 .. Len(w) : Recorded(w[m][1]) => \E j \in 1 .. Len(r) : RestOf(w, m, r, j)
    BY <1>1 DEF SocketInv, BroadcastOrder
  <2>3. /\ u \in S => w' = Append(w, p)
        /\ u \notin S => w' = w
        /\ Recorder \in S => r' = Append(r, p)
        /\ Recorder \notin S => r' = r
    BY <1>2, <2>1
  <2>4. /\ t \in Broadcasters => u \in S /\ Recorder \in S
        /\ t \notin Broadcasters => Recorder \notin S
    BY <2>1, ThreadKinds, OnList DEF S, Reached, Recorded, SocketInv, Direct
  <2>5. /\ Len(Append(w, p)) = Len(w) + 1 /\ Append(w, p)[Len(w) + 1] = p
        /\ \A m \in 1 .. Len(w) : Append(w, p)[m] = w[m]
        /\ Len(Append(r, p)) = Len(r) + 1
    BY <1>1, <2>1, OneMore
  <2>6. Recorded(w'[i][1]) /\ i \in 1 .. Len(w')
    OBVIOUS
  <2> HIDE DEF w, r
  <2>7. CASE u \notin S
    BY <2>2, <2>3, <2>4, <2>6, <2>7
  <2>8. CASE u \in S /\ i \in 1 .. Len(w)
    <3>1. w'[i] = w[i]
      BY <2>3, <2>5, <2>8
    <3>2. PICK j \in 1 .. Len(r) : RestOf(w, i, r, j)
      BY <2>2, <2>6, <2>8, <3>1
    <3>3. RestOf(Append(w, p), i, r, j) /\ RestOf(Append(w, p), i, Append(r, p), j)
      BY <1>1, <2>1, <2>8, <3>2, RestOfMore
    <3>4. j \in 1 .. Len(r')
      BY <2>1, <2>3, <2>5
    <3> QED  BY <2>3, <2>8, <3>3, <3>4
  <2>9. CASE u \in S /\ i \notin 1 .. Len(w)
    <3>1. i = Len(w) + 1
      BY <2>1, <2>3, <2>5, <2>6, <2>9
    <3>2. t \in Broadcasters
      BY <1>5, <2>3, <2>5, <2>6, <2>9, <3>1 DEF Recorded
    <3>3. RestOf(Append(w, p), Len(w) + 1, Append(r, p), Len(r) + 1)
      BY <1>1, <2>1, RestOfLast
    <3>4. Len(r) + 1 \in 1 .. Len(r')
      BY <2>1, <2>3, <2>4, <2>5, <3>2
    <3> QED  BY <2>3, <2>4, <3>1, <3>2, <3>3, <3>4
  <2> QED  BY <2>7, <2>8, <2>9 DEF w
<1>16. Ended'
  BY <1>1, <1>7, ThreadKinds DEF SocketInv, Ended
<1>17. OnlyKeepAliveMisuses' /\ StoppedOnlyIfBroken'
  <2>1. OnlyKeepAliveMisuses'
    BY <1>4, <1>7, ThreadKinds DEF SocketInv, OnlyKeepAliveMisuses, Shared, Direct, Threads
  <2>2. \A u \in Users : pc[u] = "done" => pc'[u] = "done"
    BY <1>1, ThreadKinds
  <2> QED  BY <1>1, <1>3, <2>1, <2>2 DEF SocketInv, StoppedOnlyIfBroken
<1> QED  BY <1>10, <1>11, <1>12, <1>13, <1>14, <1>15, <1>16, <1>17 DEF SocketInv

\* guac_socket_instruction_end() unlocks every socket and keeps the invariant.
LEMMA EndKept ==
  ASSUME SocketInv, NEW t \in Threads, guac_socket_instruction_end(t)
  PROVE  SocketInv'
<1> DEFINE S == Reached(t)
<1>1. /\ pc[t] = "end"
      /\ pc \in [Threads -> {"idle", "begin", "write", "end", "flush", "done"}]
      /\ pc' \in [Threads -> {"idle", "begin", "write", "end", "flush", "done"}]
      /\ pc'[t] \in {"idle", "flush"} /\ at'[t] = << >> /\ turn'[t] = turn[t] + 1
      /\ \A r \in Threads : r # t => pc'[r] = pc[r] /\ at'[r] = at[r] /\ turn'[r] = turn[r]
      /\ at' \in [Threads -> Seq(Users \cup Nat)] /\ turn' \in [Threads -> Nat]
      /\ turn \in [Threads -> Nat]
      /\ \A s \in Sinks : socketLock'[s] = IF s \in S THEN Nobody ELSE socketLock[s]
      /\ socketLock' \in [Sinks -> Threads \cup {Nobody}]
      /\ clientLock' = IF Direct(t) THEN clientLock ELSE Nobody
      /\ UNCHANGED <<list, waiting, readers, out_buf, fd, broken, torn, active, client,
                     midway>>
  <2>1. << >> \in Seq(Users \cup Nat)
    OBVIOUS
  <2> QED  BY <2>1 DEF SocketInv, SocketTypeOK, guac_socket_instruction_end
<1>2. misuse' = IF client # "open" /\ ~Direct(t) THEN misuse \cup {t} ELSE misuse
  BY DEF guac_socket_instruction_end, Uses
<1>3. \A s \in Sinks : Written(s)' = Written(s) /\ out_buf'[s] = out_buf[s]
  BY <1>1 DEF Written
<1>4. \A s \in (Range(list) \cup {Recorder}) \ midway :
         /\ s \in S => socketLock[s] = t
         /\ s \notin S => socketLock[s] # t
  BY <1>1, Owner
<1>5. \A u \in Users : u \notin Range(list) => u \notin S /\ u # t
  BY <1>1, ReachedOnList
<1>6. t \in Broadcasters => client = "open"
  BY <1>1 DEF SocketInv, Ended
<1> HIDE DEF S
<1>7. SocketTypeOK'
  <2>1. misuse' \subseteq Threads /\ clientLock' \in Threads \cup {Nobody}
    BY <1>1, <1>2 DEF SocketInv, SocketTypeOK
  <2> QED  BY <1>1, <2>1 DEF SocketInv, SocketTypeOK
<1>8. Bookkeeping'
  <2>1. ListsApart' /\ OneSender'
    BY <1>1, ThreadKinds DEF SocketInv, Bookkeeping, ListsApart, OneSender
  <2>2. OffList'
    BY <1>1, <1>5, ThreadKinds, OnList DEF SocketInv, Bookkeeping, OffList
  <2>3. AtSound'
    BY <1>1 DEF SocketInv, Bookkeeping, AtSound
  <2>4. LockSound'
    <3>1. ASSUME NEW u \in Range(list) \ midway
          PROVE  /\ socketLock'[u] \in Shared \cup {u, Nobody}
                 /\ socketLock'[u] = u <=> pc'[u] \in {"write", "end"}
                 /\ \A r \in Shared : socketLock'[u] = r <=> Holds(r, u)'
      <4>1. /\ socketLock[u] \in Shared \cup {u, Nobody}
            /\ socketLock[u] = u <=> pc[u] \in {"write", "end"}
            /\ \A r \in Shared : socketLock[u] = r <=> Holds(r, u)
            /\ u \in Users /\ u \in Sinks /\ u \in Threads /\ u # Nobody
        <5>1. u \in Users /\ u \in Sinks
          BY OnList DEF SocketInv
        <5>2. u \in Threads /\ u # Nobody
          BY <5>1, ThreadKinds
        <5>3. LockSound
          BY DEF SocketInv, Bookkeeping
        <5> QED  BY <5>1, <5>2, <5>3 DEF LockSound
      <4>2. CASE u \in S
        <5>1. socketLock[u] = t /\ socketLock'[u] = Nobody
          BY <1>1, <1>4, <4>1, <4>2
        <5>2. ASSUME NEW r \in Shared  PROVE ~Holds(r, u)'
          <6>1. r \in Threads /\ (r # t => ~Holds(r, u))
            BY <4>1, <5>1, ThreadKinds
          <6>2. CASE r = t
            BY <1>1, <6>2 DEF Holds
          <6>3. CASE r # t
            <7>1. pc'[r] = pc[r] /\ at'[r] = at[r] /\ ~Holds(r, u)
              BY <1>1, <6>1, <6>3
            <7> QED  BY <7>1 DEF Holds
          <6> QED  BY <6>2, <6>3
        <5>3. pc'[u] \notin {"write", "end"}
          BY <1>1, <4>1, <5>1
        <5> QED  BY <4>1, <5>1, <5>2, <5>3, ThreadKinds
      <4>3. CASE u \notin S
        <5>1. socketLock[u] # t /\ socketLock'[u] = socketLock[u]
          BY <1>1, <1>4, <4>1, <4>3
        <5>2. \A r \in Shared : Holds(r, u)' <=> Holds(r, u)
          BY <1>1, <4>1, <5>1, ThreadKinds DEF Holds
        <5>3. pc'[u] \in {"write", "end"} <=> pc[u] \in {"write", "end"}
          BY <1>1, <4>1, <5>1
        <5> QED  BY <4>1, <5>1, <5>2, <5>3
      <4> QED  BY <4>2, <4>3
    <3>2. ASSUME NEW r \in Threads
          PROVE  socketLock'[Recorder] = r <=> r \in Broadcasters /\ pc'[r] \in {"write", "end"}
      <4>1. \A q \in Threads :
              socketLock[Recorder] = q <=> q \in Broadcasters /\ pc[q] \in {"write", "end"}
        BY DEF SocketInv, Bookkeeping, LockSound
      <4>2. Recorder \in S => t \in Broadcasters
        BY OnList, ThreadKinds DEF SocketInv, S, Reached, Recorded, Direct
      <4>3. t \in Broadcasters => Recorder \in S
        BY ThreadKinds DEF S, Reached, Recorded
      <4>4. socketLock'[Recorder] = IF Recorder \in S THEN Nobody ELSE socketLock[Recorder]
        BY <1>1, OnList DEF SocketInv
      <4> QED  BY <1>1, <4>1, <4>2, <4>3, <4>4, ThreadKinds
    <3> QED  BY <1>1, <3>1, <3>2 DEF LockSound
  <2> QED  BY <2>1, <2>2, <2>3, <2>4 DEF Bookkeeping
<1>9. AllDone'
  <2>1. \A p \in Part : Done(p) => Done(p)'
    BY <1>1 DEF Done, Part
  <2> QED  BY <1>3, <2>1, DoneKept DEF SocketInv
<1>10. AllTidy'
  <2> SUFFICES ASSUME NEW s \in (Range(list) \cup {Recorder}) \ (broken \cup midway)
               PROVE  Tidy(s)'
    BY <1>1 DEF AllTidy
  <2>1. s \in Sinks /\ Tidy(s)
    BY OnList DEF SocketInv, AllTidy
  <2>2. \A r \in Threads : Midst(r, s)' <=> Midst(r, s)
    BY <1>1, <1>4, <2>1, ThreadKinds DEF Midst
  <2>3. \A r \in Threads : Midst(r, s) => turn'[r] = turn[r] /\ at'[r] = at[r]
    BY <1>1 DEF Midst
  <2> QED  BY <1>3, <2>1, <2>2, <2>3, TidyKept
<1>11. WrittenOnce' /\ BroadcastOrder'
  BY <1>1, <1>3, <1>7, OnList, OrderKept DEF SocketInv
<1>12. Ended'
  BY <1>1, <1>6, ThreadKinds DEF SocketInv, Ended
<1>13. OnlyKeepAliveMisuses'
  BY <1>2, <1>6, ThreadKinds DEF SocketInv, OnlyKeepAliveMisuses, Shared, Direct, Threads
<1>14. StoppedOnlyIfBroken'
  <2>1. \A u \in Users : pc[u] = "done" => pc'[u] = "done"
    BY <1>1, ThreadKinds
  <2> QED  BY <1>1, <2>1 DEF SocketInv, StoppedOnlyIfBroken
<1> QED  BY <1>7, <1>8, <1>9, <1>10, <1>11, <1>12, <1>13, <1>14 DEF SocketInv

\* guac_socket_flush() moves the buffer to the file descriptor and keeps the
\* invariant.
LEMMA FlushKept ==
  ASSUME SocketInv, NEW t \in Threads, guac_socket_flush(t)
  PROVE  SocketInv'
<1> DEFINE S == Reached(t)
<1>0. PICK taken \in guac_socket_fd_write(S) :
        /\ pc[t] = "flush"
        /\ FlushTo(S, taken)
        /\ active' = IF Direct(t) THEN active ELSE active \ Refusing(taken)
        /\ pc' = [pc EXCEPT ![t] = "idle"]
        /\ Uses(t)
        /\ UNCHANGED <<list, waiting, socketLock, clientLock, readers, at, turn,
                       client, midway>>
  BY DEF guac_socket_flush
<1>1. /\ pc[t] = "flush"
      /\ pc \in [Threads -> {"idle", "begin", "write", "end", "flush", "done"}]
      /\ pc' = [pc EXCEPT ![t] = "idle"]
      /\ UNCHANGED <<list, waiting, socketLock, clientLock, readers, at,
                     turn, client, midway>>
  BY <1>0 DEF SocketInv, SocketTypeOK
<1>2. misuse' = IF client # "open" /\ ~Direct(t) THEN misuse \cup {t} ELSE misuse
  BY <1>0 DEF Uses
<1>4. S \in SUBSET Sinks /\ \A u \in Users : u \notin Range(list) => u \notin S /\ u # t
  BY <1>1, ReachedOnList
<1>15. /\ broken \subseteq broken' /\ broken' \subseteq Sinks
       /\ torn \subseteq torn' /\ torn' \subseteq broken' /\ Refusing(taken) \subseteq broken'
  <2>1. Fails(taken)
    BY <1>0 DEF FlushTo
  <2> QED  BY <1>4, <2>1, Taking DEF SocketInv
<1>3. \E F \in SUBSET broken' : active' = active \ F
  <2>1. CASE Direct(t)
    BY <1>0, <2>1
  <2>2. CASE ~Direct(t)
    BY <1>0, <1>15, <2>2
  <2> QED  BY <2>1, <2>2
<1>5. /\ out_buf' \in [Sinks -> Seq(Part)] /\ fd' \in [Sinks -> Seq(Part)]
      /\ \A s \in Sinks :
           /\ Len(out_buf'[s]) <= BufferParts
           /\ out_buf'[s] \in {out_buf[s], << >>}
           /\ s \notin S => out_buf'[s] = out_buf[s] /\ fd'[s] = fd[s]
           /\ Drawn(Written(s), Written(s)')
           /\ s \notin torn' => Written(s)' = Written(s)
  <2>1. FlushTo(S, taken) /\ SocketTypeOK
    BY <1>0 DEF SocketInv
  <2> HIDE DEF S
  <2> QED  BY <1>4, <2>1, Flushed
<1>6. t \in Broadcasters => client = "open"
  BY <1>1 DEF SocketInv, Ended
<1> HIDE DEF S
<1>7. SocketTypeOK'
  <2>1. misuse' \subseteq Threads /\ active' \subseteq Users
    BY <1>2, <1>3 DEF SocketInv, SocketTypeOK
  <2> QED  BY <1>1, <1>5, <1>15, <2>1 DEF SocketInv, SocketTypeOK
<1>8. Bookkeeping'
  <2>1. ListsApart' /\ OneSender'
    BY <1>1, ThreadKinds DEF SocketInv, Bookkeeping, ListsApart, OneSender
  <2>2. OffList'
    BY <1>1, <1>4, <1>5, ThreadKinds, OnList DEF SocketInv, Bookkeeping, OffList
  <2>3. AtSound'
    BY <1>1 DEF SocketInv, Bookkeeping, AtSound
  <2>4. LockSound'
    <3>1. \A r \in Threads : pc'[r] \in {"write", "end"} <=> pc[r] \in {"write", "end"}
      BY <1>1
    <3>2. \A u \in Users, r \in Shared : Holds(r, u)' <=> Holds(r, u)
      BY <1>1, ThreadKinds DEF Holds
    <3> QED  BY <1>1, <3>1, <3>2, ThreadKinds, OnList DEF SocketInv, Bookkeeping, LockSound
  <2> QED  BY <2>1, <2>2, <2>3, <2>4 DEF Bookkeeping
<1>9. AllDone'
  <2>1. \A p \in Part : Done(p) => Done(p)'
    BY <1>1 DEF Done, Part
  <2> QED  BY <1>5, <2>1, DoneKept DEF SocketInv
<1>10. AllTidy'
  <2> SUFFICES ASSUME NEW s \in (Range(list) \cup {Recorder}) \ (broken' \cup midway)
               PROVE  Tidy(s)'
    BY <1>1 DEF AllTidy
  <2>1. s \in Sinks /\ Tidy(s) /\ s \notin torn'
    BY <1>15, OnList DEF SocketInv, AllTidy
  <2>2. \A r \in Threads : Midst(r, s)' <=> Midst(r, s)
    BY <1>1 DEF Midst
  <2>3. \A r \in Threads : Midst(r, s) => turn'[r] = turn[r] /\ at'[r] = at[r]
    BY <1>1 DEF Midst
  <2> QED  BY <1>5, <2>1, <2>2, <2>3, TidyKept
<1>11. WrittenOnce' /\ BroadcastOrder'
  BY <1>1, <1>5, <1>7, <1>15, OnList, OrderKept DEF SocketInv
<1>12. Ended'
  BY <1>1, <1>6, ThreadKinds DEF SocketInv, Ended
<1>13. OnlyKeepAliveMisuses'
  BY <1>2, <1>6, ThreadKinds DEF SocketInv, OnlyKeepAliveMisuses, Shared, Direct, Threads
<1>14. StoppedOnlyIfBroken'
  <2>1. \A u \in Users : pc[u] = "done" => pc'[u] = "done"
    BY <1>1, ThreadKinds
  <2> QED  BY <1>1, <1>3, <1>15, <2>1 DEF SocketInv, StoppedOnlyIfBroken
<1> QED  BY <1>7, <1>8, <1>9, <1>10, <1>11, <1>12, <1>13, <1>14 DEF SocketInv

\* guac_client_promote_pending_users() puts users on the list while nobody
\* broadcasts, and keeps the invariant.
LEMMA PromoteKept ==
  ASSUME SocketInv, guac_client_promote_pending_users
  PROVE  SocketInv'
<1> USE DEF guac_client_promote_pending_users
<1> DEFINE x == SetToSeq(waiting)
<1>1. /\ readers = {} /\ waiting \subseteq Users /\ list \in Seq(Users) /\ Once(list)
      /\ waiting \cap Range(list) = {} /\ IsFiniteSet(waiting)
  BY UsersAssumption, FS_Subset DEF SocketInv, SocketTypeOK, Bookkeeping, ListsApart
<1>2. /\ list' \in Seq(Users) /\ Once(list')
      /\ \A u : u \in Range(list') <=> u \in waiting \/ u \in Range(list)
  <2>1. x \in Seq(waiting) /\ Once(x) /\ \A u : Contains(x, u) <=> u \in waiting
    BY <1>1, SetAsList
  <2>2. list' = x \o list
    OBVIOUS
  <2> HIDE DEF x
  <2>3. x \in Seq(Users)
    BY <1>1, <2>1, SeqMonotonic
  <2>4. list' \in Seq(Users)
    BY <1>1, <2>2, <2>3, ConcatProperties
  <2>5. \A u : Contains(list', u) <=> Contains(x, u) \/ Contains(list, u)
    BY <1>1, <2>2, <2>3, ContainsConcat
  <2>6. Apart(x, list)
    BY <1>1, <2>1, InRange DEF Apart
  <2>7. Once(list')
    BY <1>1, <2>1, <2>2, <2>3, <2>6, OnceConcat
  <2>8. \A u : /\ u \in Range(list') <=> Contains(list', u)
               /\ u \in Range(list) <=> Contains(list, u)
    BY <1>1, <2>4, InRange
  <2> QED  BY <2>1, <2>4, <2>5, <2>7, <2>8
<1>3. /\ waiting' = {}
      /\ UNCHANGED <<socketLock, clientLock, readers, out_buf, fd, broken, torn,
                     active, pc, at, turn, client, misuse>>
      /\ midway \subseteq midway' /\ midway' \subseteq midway \cup waiting
      /\ \/ waiting \subseteq midway'
         \/ \A t \in Shared : pc[t] \notin {"write", "end"}
  BY ThreadKinds
<1> HIDE DEF guac_client_promote_pending_users
<1>4. \A t \in Threads : pc[t] # "begin"
  BY <1>1 DEF SocketInv, Bookkeeping, OneSender, AtSound
<1>5. \A u \in waiting : /\ u \in Users /\ u \in Sinks /\ u \in Threads /\ u # Nobody /\ u # Recorder
                         /\ pc[u] = "idle" /\ socketLock[u] = Nobody
                         /\ fd[u] = << >> /\ out_buf[u] = << >>
  BY <1>1, OnList, ThreadKinds DEF SocketInv, Bookkeeping, OffList
<1>6. \A s \in Sinks : Written(s)' = Written(s) /\ out_buf'[s] = out_buf[s]
  BY <1>3 DEF Written
<1>7. \A u \in waiting : Written(u) = << >>
  BY <1>5 DEF Written
<1>8. SocketTypeOK'
  BY <1>1, <1>2, <1>3 DEF SocketInv, SocketTypeOK
<1>9. Bookkeeping'
  <2>1. ListsApart' /\ OneSender'
    BY <1>2, <1>3, ThreadKinds DEF SocketInv, Bookkeeping, ListsApart, OneSender
  <2>2. OffList'
    BY <1>2, <1>3, OnList DEF SocketInv, Bookkeeping, OffList
  <2>3. AtSound'
    BY <1>3, <1>4 DEF SocketInv, Bookkeeping, AtSound
  <2>4. LockSound'
    <3>1. ASSUME NEW u \in Range(list') \ midway'
          PROVE  /\ socketLock[u] \in Shared \cup {u, Nobody}
                 /\ socketLock[u] = u <=> pc[u] \in {"write", "end"}
                 /\ \A t \in Shared : socketLock[u] = t <=> Holds(t, u)
      <4>1. CASE u \in Range(list)
        BY <1>3, <4>1 DEF SocketInv, Bookkeeping, LockSound
      <4>2. CASE u \in waiting
        <5>1. \A t \in Shared : t # Nobody /\ ~Holds(t, u)
          BY <1>3, <1>4, <4>2, ThreadKinds DEF Holds
        <5> QED  BY <1>5, <4>2, <5>1
      <4> QED  BY <1>2, <4>1, <4>2
    <3>2. \A t \in Shared, u \in Users : Holds(t, u)' <=> Holds(t, u)
      BY <1>3 DEF Holds
    <3>3. \A u \in Range(list') : u \in Users
      BY <1>1, <1>2, OnList DEF SocketInv
    <3>4. \A t \in Threads :
            socketLock[Recorder] = t <=> t \in Broadcasters /\ pc[t] \in {"write", "end"}
      BY DEF SocketInv, Bookkeeping, LockSound
    <3> QED  BY <1>3, <3>1, <3>2, <3>3, <3>4 DEF LockSound
  <2> QED  BY <2>1, <2>2, <2>3, <2>4 DEF Bookkeeping
<1>10. AllDone'
  <2>1. \A p \in Part : Done(p) => Done(p)'
    BY <1>3 DEF Done
  <2> QED  BY <1>6, <2>1, DoneKept DEF SocketInv
<1>11. AllTidy'
  <2> SUFFICES ASSUME NEW s \in (Range(list') \cup {Recorder}) \ (broken \cup midway')
               PROVE  Tidy(s)'
    BY <1>3 DEF AllTidy
  <2>1. s \in Sinks
    BY <1>2, <1>5, OnList DEF SocketInv
  <2>2. Tidy(s)
    <3>1. CASE s \in Range(list) \cup {Recorder}
      BY <1>3, <3>1 DEF SocketInv, AllTidy
    <3>2. CASE s \in waiting
      <4>1. \A t \in Threads : ~Midst(t, s)
        BY <1>5, <3>2, ThreadKinds DEF Midst
      <4> QED  BY <1>7, <3>2, <4>1, EmptyFramed DEF Tidy, Complete
    <3> QED  BY <1>2, <3>1, <3>2
  <2>3. \A t \in Threads : Midst(t, s)' <=> Midst(t, s)
    BY <1>3 DEF Midst
  <2>4. \A t \in Threads : turn'[t] = turn[t] /\ at'[t] = at[t]
    BY <1>3
  <2> QED  BY <1>6, <2>1, <2>2, <2>3, <2>4, TidyKept
<1>12. WrittenOnce' /\ BroadcastOrder'
  <2>1. \A u \in Range(list') \ midway' : u \in Range(list) \/ Written(u)' = << >>
    BY <1>2, <1>5, <1>6, <1>7
  <2> QED  BY <1>3, <1>6, <1>8, <2>1, OnList, OrderKept DEF SocketInv
<1>13. Ended' /\ OnlyKeepAliveMisuses' /\ StoppedOnlyIfBroken'
  BY <1>3 DEF SocketInv, Ended, OnlyKeepAliveMisuses, StoppedOnlyIfBroken
<1> QED  BY <1>8, <1>9, <1>10, <1>11, <1>12, <1>13 DEF SocketInv

\* guac_client_remove_user() takes a user off the list while nobody broadcasts,
\* and keeps the invariant.
LEMMA RemoveKept ==
  ASSUME SocketInv, NEW u \in Users, guac_client_remove_user(u)
  PROVE  SocketInv'
<1> USE DEF guac_client_remove_user
<1>1. /\ readers = {} /\ pc[u] = "idle" /\ list \in Seq(Users) /\ Once(list)
      /\ waiting \cap Range(list) = {} /\ u \in Range(list)
      /\ u \in Sinks /\ u \in Threads /\ u # Recorder /\ u \notin Shared
  BY OnList, ThreadKinds DEF SocketInv, SocketTypeOK, Bookkeeping, ListsApart
<1>2. /\ list' \in Seq(Users) /\ Once(list')
      /\ \A v : v \in Range(list') <=> v \in Range(list) /\ v # u
  <2>1. /\ list' \in Seq(Users) /\ Once(list')
        /\ \A v : Contains(list', v) <=> v # u /\ Contains(list, v)
    BY <1>1, TakenOut
  <2> QED  BY <1>1, <2>1, InRange
<1>3. /\ pc \in [Threads -> {"idle", "begin", "write", "end", "flush", "done"}]
      /\ pc' = [pc EXCEPT ![u] = "done"] /\ active' = active \ {u}
      /\ out_buf' = [out_buf EXCEPT ![u] = << >>] /\ fd' = [fd EXCEPT ![u] = << >>]
      /\ out_buf \in [Sinks -> Seq(Part)] /\ fd \in [Sinks -> Seq(Part)]
      /\ UNCHANGED <<waiting, socketLock, clientLock, readers, broken, torn, at, turn,
                     client, midway, misuse>>
  BY DEF SocketInv, SocketTypeOK
<1> HIDE DEF guac_client_remove_user
<1>4. \A t \in Threads : pc[t] # "begin"
  BY <1>1 DEF SocketInv, Bookkeeping, OneSender, AtSound
<1>5. /\ \A s \in Sinks : s # u => Written(s)' = Written(s) /\ out_buf'[s] = out_buf[s]
      /\ Written(u)' = << >> /\ out_buf'[u] = << >>
  BY <1>1, <1>3 DEF Written
<1>6. SocketTypeOK'
  <2>1. << >> \in Seq(Part) /\ Len(<< >>) <= BufferParts
    BY PartsAssumption, EmptySeq
  <2>2. \A s \in Sinks : out_buf'[s] = out_buf[s] \/ out_buf'[s] = << >>
    BY <1>3
  <2>3. \A s \in Sinks : Len(out_buf'[s]) <= BufferParts
    BY <2>1, <2>2 DEF SocketInv, SocketTypeOK
  <2>4. out_buf' \in [Sinks -> Seq(Part)] /\ fd' \in [Sinks -> Seq(Part)]
    BY <1>3, <2>1
  <2> QED  BY <1>2, <1>3, <2>3, <2>4 DEF SocketInv, SocketTypeOK
<1>7. Bookkeeping'
  <2>1. ListsApart' /\ OneSender'
    BY <1>1, <1>2, <1>3, ThreadKinds DEF SocketInv, Bookkeeping, ListsApart, OneSender
  <2>2. OffList'
    <3> SUFFICES ASSUME NEW v \in Users, v \notin Range(list')
                 PROVE  /\ pc'[v] \in {"idle", "done"} /\ fd'[v] = << >> /\ out_buf'[v] = << >>
                        /\ v \in waiting => pc'[v] = "idle" /\ socketLock[v] = Nobody
      BY <1>3 DEF OffList
    <3>1. v \in Sinks /\ v \in Threads
      BY OnList, ThreadKinds DEF SocketInv
    <3>2. CASE v = u
      BY <1>1, <1>3, <3>1, <3>2
    <3>3. CASE v # u
      BY <1>2, <1>3, <3>1, <3>3 DEF SocketInv, Bookkeeping, OffList
    <3> QED  BY <3>2, <3>3
  <2>3. AtSound'
    BY <1>3, <1>4 DEF SocketInv, Bookkeeping, AtSound
  <2>4. LockSound'
    <3>1. \A t \in Threads : pc'[t] \in {"write", "end"} <=> pc[t] \in {"write", "end"}
      BY <1>1, <1>3
    <3>2. \A v \in Users, t \in Shared : Holds(t, v)' <=> Holds(t, v)
      BY <1>1, <1>3, ThreadKinds DEF Holds
    <3> QED  BY <1>2, <1>3, <3>1, <3>2, ThreadKinds, OnList DEF SocketInv, Bookkeeping, LockSound
  <2> QED  BY <2>1, <2>2, <2>3, <2>4 DEF Bookkeeping
<1>8. AllDone'
  <2>1. \A p \in Part : Done(p) => Done(p)'
    BY <1>1, <1>3 DEF Done, Part
  <2> QED  BY <1>5, <2>1, DoneKept DEF SocketInv
<1>9. AllTidy'
  <2> SUFFICES ASSUME NEW s \in (Range(list') \cup {Recorder}) \ (broken \cup midway)
               PROVE  Tidy(s)'
    BY <1>3 DEF AllTidy
  <2>1. s \in Sinks /\ Tidy(s) /\ s # u
    BY <1>1, <1>2, OnList DEF SocketInv, AllTidy
  <2>2. \A t \in Threads : Midst(t, s)' <=> Midst(t, s)
    BY <1>1, <1>3 DEF Midst
  <2>3. \A t \in Threads : turn'[t] = turn[t] /\ at'[t] = at[t]
    BY <1>3
  <2> QED  BY <1>5, <2>1, <2>2, <2>3, TidyKept
<1>10. WrittenOnce' /\ BroadcastOrder'
  BY <1>1, <1>2, <1>3, <1>5, <1>6, OnList, OrderKept DEF SocketInv
<1>11. Ended'
  BY <1>1, <1>3, ThreadKinds DEF SocketInv, Ended
<1>12. OnlyKeepAliveMisuses' /\ StoppedOnlyIfBroken'
  BY <1>1, <1>3, ThreadKinds DEF SocketInv, OnlyKeepAliveMisuses, StoppedOnlyIfBroken
<1> QED  BY <1>6, <1>7, <1>8, <1>9, <1>10, <1>11, <1>12 DEF SocketInv

\* The client's data is freed or the keep-alive thread ends: no
\* socket is written to, locked or released.
LEMMA OthersKept ==
  ASSUME SocketInv,
         FreeData \/ CancelKeepAlive \/ UNCHANGED socketVars
  PROVE  SocketInv'
<1> DEFINE Quiet ==
      /\ UNCHANGED <<list, waiting, socketLock, clientLock, readers, out_buf, fd, broken, torn,
                     active, at, turn, midway, misuse>>
      /\ client' \in {"open", "freed", "closed"}
      /\ pc \in [Threads -> {"idle", "begin", "write", "end", "flush", "done"}]
      /\ pc' \in [Threads -> {"idle", "begin", "write", "end", "flush", "done"}]
      /\ \A t \in Threads : pc'[t] = pc[t] \/ (t = KeepAlive /\ pc[t] = "idle" /\ pc'[t] = "done")
      /\ client' # "open" => client # "open" \/
           \A b \in Broadcasters : pc[b] = "idle" /\ turn[b] = Turns(b)
<1>1. Quiet
  <2>2. CASE FreeData
    BY <2>2 DEF FreeData, SocketInv, SocketTypeOK
  <2>3. CASE CancelKeepAlive
    BY <2>3 DEF CancelKeepAlive, SocketInv, SocketTypeOK
  <2>4. CASE UNCHANGED socketVars
    BY <2>4 DEF socketVars, SocketInv, SocketTypeOK
  <2> HIDE DEF Quiet
  <2> QED  BY <2>2, <2>3, <2>4
<1>2. \A s \in Sinks : Written(s)' = Written(s) /\ out_buf'[s] = out_buf[s]
  BY <1>1 DEF Written
<1>3. KeepAlive \in Threads /\ KeepAlive \notin Users /\ KeepAlive \notin Broadcasters
  BY ThreadKinds, ThreadsAssumption
<1>4. SocketTypeOK'
  BY <1>1 DEF SocketInv, SocketTypeOK
<1>5. Bookkeeping'
  <2>1. ListsApart' /\ OneSender'
    BY <1>1, ThreadKinds DEF SocketInv, Bookkeeping, ListsApart, OneSender
  <2>2. OffList'
    BY <1>1, <1>3, ThreadKinds DEF SocketInv, Bookkeeping, OffList
  <2>3. AtSound'
    BY <1>1 DEF SocketInv, Bookkeeping, AtSound
  <2>4. LockSound'
    <3>1. \A t \in Threads : pc'[t] \in {"write", "end"} <=> pc[t] \in {"write", "end"}
      BY <1>1
    <3>2. \A v \in Users, t \in Shared : Holds(t, v)' <=> Holds(t, v)
      BY <1>1, ThreadKinds DEF Holds
    <3> QED  BY <1>1, <3>1, <3>2, ThreadKinds, OnList DEF SocketInv, Bookkeeping, LockSound
  <2> QED  BY <2>1, <2>2, <2>3, <2>4 DEF Bookkeeping
<1>6. AllDone'
  <2>1. \A p \in Part : Done(p) => Done(p)'
    BY <1>1 DEF Done, Part
  <2> QED  BY <1>2, <2>1, DoneKept DEF SocketInv
<1>7. AllTidy'
  <2> SUFFICES ASSUME NEW s \in (Range(list) \cup {Recorder}) \ (broken \cup midway)
               PROVE  Tidy(s)'
    BY <1>1 DEF AllTidy
  <2>1. s \in Sinks /\ Tidy(s)
    BY OnList DEF SocketInv, AllTidy
  <2>2. \A t \in Threads : Midst(t, s)' <=> Midst(t, s)
    BY <1>1 DEF Midst
  <2>3. \A t \in Threads : turn'[t] = turn[t] /\ at'[t] = at[t]
    BY <1>1
  <2> QED  BY <1>2, <2>1, <2>2, <2>3, TidyKept
<1>8. WrittenOnce' /\ BroadcastOrder'
  BY <1>1, <1>2, <1>4, OnList, OrderKept DEF SocketInv
<1>9. Ended'
  BY <1>1, <1>3, ThreadKinds DEF SocketInv, Ended
<1>10. OnlyKeepAliveMisuses' /\ StoppedOnlyIfBroken'
  BY <1>1, <1>3, ThreadKinds DEF SocketInv, OnlyKeepAliveMisuses, StoppedOnlyIfBroken
<1> QED  BY <1>4, <1>5, <1>6, <1>7, <1>8, <1>9, <1>10 DEF SocketInv

-----------------------------------------------------------------------------
(* The theorem.                                                            *)

\* New sockets have nothing written and are locked by nobody
\* (guac_socket_alloc()).
LEMMA SocketInitInv == SocketInit => SocketInv
<1> SUFFICES ASSUME SocketInit  PROVE SocketInv
  OBVIOUS
<1>1. PICK F \in SUBSET Users : list = SetToSeq(F) /\ waiting = Users \ F
  BY DEF SocketInit
<1>2. /\ list \in Seq(Users) /\ Once(list) /\ \A u : u \in Range(list) <=> u \in F
  <2>1. IsFiniteSet(F)
    BY UsersAssumption, FS_Subset
  <2>2. SetToSeq(F) \in Seq(F) /\ Once(SetToSeq(F)) /\ \A u : Contains(SetToSeq(F), u) <=> u \in F
    BY <2>1, SetAsList
  <2>3. list \in Seq(F) /\ list \in Seq(Users)
    BY <1>1, <2>2, SeqMonotonic
  <2> QED  BY <1>1, <2>2, <2>3, InRange
<1>3. /\ socketLock = [s \in Sinks |-> Nobody] /\ clientLock = Nobody /\ readers = {}
      /\ out_buf = [s \in Sinks |-> << >>] /\ fd = [s \in Sinks |-> << >>]
      /\ broken = {} /\ torn = {} /\ active = Users /\ pc = [t \in Threads |-> "idle"]
      /\ at = [t \in Threads |-> << >>] /\ turn = [t \in Threads |-> 0]
      /\ client = "open" /\ midway = {} /\ misuse = {}
  BY DEF SocketInit
<1>4. Len(<< >>) = 0 /\ << >> \in Seq(Part) /\ << >> \in Seq(Users \cup Nat)
  BY EmptySeq
<1>5. SocketTypeOK
  BY <1>1, <1>2, <1>3, <1>4, PartsAssumption DEF SocketTypeOK
<1>6. /\ Range(list) \subseteq Users /\ Users \subseteq Sinks /\ Recorder \in Sinks
      /\ Recorder \notin Users
  BY <1>5, OnList
<1>7. \A s \in Sinks : Written(s) = << >>
  BY <1>3 DEF Written
<1>8. Bookkeeping
  <2>1. ListsApart /\ OneSender
    BY <1>1, <1>2, <1>3, ThreadKinds DEF ListsApart, OneSender
  <2>2. OffList /\ AtSound
    BY <1>3, <1>6, ThreadKinds DEF OffList, AtSound
  <2>3. LockSound
    BY <1>3, <1>6, ThreadKinds DEF LockSound, Holds
  <2> QED  BY <2>1, <2>2, <2>3 DEF Bookkeeping
<1>9. AllDone /\ WrittenOnce
  BY <1>3, <1>4, <1>7 DEF AllDone, WrittenOnce, NoRepeats
<1>10. BroadcastOrder
  BY <1>4, <1>6, <1>7 DEF BroadcastOrder
<1>11. AllTidy
  <2> SUFFICES ASSUME NEW s \in Range(list) \cup {Recorder}
               PROVE  Tidy(s)
    BY DEF AllTidy
  <2>1. s \in Sinks /\ \A t \in Threads : ~Midst(t, s)
    BY <1>3, <1>6 DEF Midst
  <2> QED  BY <1>7, <2>1, EmptyFramed DEF Tidy, Complete
<1>12. Ended /\ OnlyKeepAliveMisuses /\ StoppedOnlyIfBroken
  BY <1>3 DEF Ended, OnlyKeepAliveMisuses, StoppedOnlyIfBroken
<1> QED  BY <1>5, <1>8, <1>9, <1>10, <1>11, <1>12 DEF SocketInv

\* Every step on the sockets keeps the invariant.
LEMMA SocketNextInv == SocketInv /\ [SocketNext]_socketVars => SocketInv'
<1> SUFFICES ASSUME SocketInv, [SocketNext]_socketVars  PROVE SocketInv'
  OBVIOUS
<1>1. ASSUME NEW t \in Threads, guac_socket_fd_lock_handler(t)  PROVE SocketInv'
  BY <1>1, FdLockKept
<1>2. ASSUME NEW t \in Threads, BroadcastBegin(t)  PROVE SocketInv'
  BY <1>2, BeginKept
<1>3. ASSUME NEW t \in Threads, __lock_callback(t)  PROVE SocketInv'
  BY <1>3, LockCallbackKept
<1>4. ASSUME NEW t \in Threads, __guac_socket_tee_lock_handler(t)  PROVE SocketInv'
  BY <1>4, TeeLockKept
<1>5. ASSUME NEW t \in Threads, guac_socket_write(t)  PROVE SocketInv'
  BY <1>5, WriteKept
<1>6. ASSUME NEW t \in Threads, guac_socket_instruction_end(t)  PROVE SocketInv'
  BY <1>6, EndKept
<1>7. ASSUME NEW t \in Threads, guac_socket_flush(t)  PROVE SocketInv'
  BY <1>7, FlushKept
<1>8. ASSUME guac_client_promote_pending_users  PROVE SocketInv'
  BY <1>8, PromoteKept
<1>9. ASSUME NEW u \in Users, guac_client_remove_user(u)  PROVE SocketInv'
  BY <1>9, RemoveKept
<1> QED
  BY <1>1, <1>2, <1>3, <1>4, <1>5, <1>6, <1>7, <1>8, <1>9, OthersKept DEF SocketNext

\* The invariant says that what each user reads is whole instructions, in one
\* order, each once (socket-broadcast.c, socket-tee.c).
LEMMA SocketInvSound == SocketInv => SocketsSound
<1> SUFFICES ASSUME SocketInv  PROVE SocketsSound
  OBVIOUS
<1>1. WholeInstructions
  <2> SUFFICES ASSUME NEW u \in Users, u \notin broken, u \notin midway
               PROVE  Framed(Written(u))
    BY DEF WholeInstructions
  <2>1. CASE u \in Range(list)
    BY <2>1 DEF SocketInv, AllTidy, Tidy
  <2>2. CASE u \notin Range(list)
    <3>1. fd[u] = << >> /\ out_buf[u] = << >>
      BY <2>2 DEF SocketInv, Bookkeeping, OffList
    <3>2. Written(u) = << >>
      BY <3>1 DEF Written
    <3> QED  BY <3>2, EmptyFramed
  <2> QED  BY <2>1, <2>2
<1>2. WholeRecording
  <2>1. Recorder \notin midway
    BY OnList DEF SocketInv, SocketTypeOK
  <2> QED  BY <2>1 DEF WholeRecording, SocketInv, AllTidy, Tidy
<1> QED  BY <1>1, <1>2 DEF SocketsSound, SocketInv

\* However many threads write to users, to all users and to the recording, whoever
\* comes or goes meanwhile, and whichever writes a descriptor refuses, at once or
\* halfway (socket-fd.c, socket-broadcast.c, socket-tee.c): instructions are whole
\* and in the order of the broadcasts where none was refused, written once where
\* none was refused halfway, only a user whose connection refused a write is
\* stopped, and only the keep-alive thread uses a client's socket that was freed.
THEOREM SocketsAlwaysSound == SocketSpec => []SocketsSound
<1>1. SocketInit => SocketInv
  BY SocketInitInv
<1>2. SocketInv /\ [SocketNext]_socketVars => SocketInv'
  BY SocketNextInv
<1>3. SocketInv => SocketsSound
  BY SocketInvSound
<1> QED  BY <1>1, <1>2, <1>3, PTL DEF SocketSpec

=============================================================================
