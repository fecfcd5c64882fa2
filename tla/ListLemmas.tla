----------------------------- MODULE ListLemmas -----------------------------
(***************************************************************************)
(* Linked lists without repetition, as the lists of users of a client      *)
(* (libguac/client.c) and the lists of guacd (common/list.c) are: what     *)
(* adding, removing and joining do to the members of a list.               *)
(***************************************************************************)
EXTENDS Integers, SequencesExt, SequenceTheorems, TLAPS

\* No member is on a list twice.
Once(s) == \A m, n \in 1 .. Len(s) : s[m] = s[n] => m = n

\* No member is on both lists.
Apart(s, t) == \A v : ~(Contains(s, v) /\ Contains(t, v))

\* An empty list contains nothing.
LEMMA EmptyList ==
  ASSUME NEW S, NEW v
  PROVE  ~Contains(<< >>, v) /\ Once(<< >>) /\ << >> \in Seq(S)
BY EmptySeq DEF Contains, Once

\* A list of two parts contains what its parts contain.
LEMMA ContainsConcat ==
  ASSUME NEW S, NEW s \in Seq(S), NEW t \in Seq(S), NEW v
  PROVE  Contains(s \o t, v) <=> Contains(s, v) \/ Contains(t, v)
<1>1. /\ Len(s \o t) = Len(s) + Len(t) /\ Len(s) \in Nat /\ Len(t) \in Nat
      /\ \A i \in 1 .. Len(s) + Len(t) :
           (s \o t)[i] = IF i <= Len(s) THEN s[i] ELSE t[i - Len(s)]
  BY ConcatProperties, LenProperties
<1>2. ASSUME NEW i \in 1 .. Len(s), s[i] = v  PROVE Contains(s \o t, v)
  <2>1. i \in 1 .. Len(s) + Len(t) /\ i <= Len(s)
    BY <1>1
  <2> QED  BY <1>1, <1>2, <2>1 DEF Contains
<1>3. ASSUME NEW i \in 1 .. Len(t), t[i] = v  PROVE Contains(s \o t, v)
  <2>1. /\ i + Len(s) \in 1 .. Len(s) + Len(t) /\ ~(i + Len(s) <= Len(s))
        /\ (i + Len(s)) - Len(s) = i
    BY <1>1
  <2>2. (s \o t)[i + Len(s)] = t[(i + Len(s)) - Len(s)]
    BY <1>1, <2>1
  <2> QED  BY <1>1, <1>3, <2>1, <2>2 DEF Contains
<1>4. ASSUME NEW i \in 1 .. Len(s \o t), (s \o t)[i] = v
      PROVE  Contains(s, v) \/ Contains(t, v)
  <2>1. CASE i <= Len(s)
    <3>1. i \in 1 .. Len(s) /\ s[i] = v
      BY <1>1, <1>4, <2>1
    <3> QED  BY <3>1 DEF Contains
  <2>2. CASE ~(i <= Len(s))
    <3>1. i - Len(s) \in 1 .. Len(t)
      BY <1>1, <2>2
    <3>2. t[i - Len(s)] = v
      BY <1>1, <1>4, <2>2
    <3> QED  BY <3>1, <3>2 DEF Contains
  <2> QED  BY <2>1, <2>2
<1> QED  BY <1>2, <1>3, <1>4 DEF Contains

\* Two lists with each element once, and none of both, make such a list.
LEMMA OnceConcat ==
  ASSUME NEW S, NEW s \in Seq(S), NEW t \in Seq(S), Once(s), Once(t), Apart(s, t)
  PROVE  Once(s \o t)
<1>1. /\ Len(s \o t) = Len(s) + Len(t) /\ Len(s) \in Nat /\ Len(t) \in Nat
      /\ \A i \in 1 .. Len(s) + Len(t) :
           (s \o t)[i] = IF i <= Len(s) THEN s[i] ELSE t[i - Len(s)]
  BY ConcatProperties, LenProperties
<1>2. SUFFICES ASSUME NEW m \in 1 .. Len(s \o t), NEW n \in 1 .. Len(s \o t),
                      (s \o t)[m] = (s \o t)[n]
               PROVE  m = n
  BY DEF Once
<1>3. \A i \in 1 .. Len(s), j \in 1 .. Len(t) : s[i] # t[j]
  <2> SUFFICES ASSUME NEW i \in 1 .. Len(s), NEW j \in 1 .. Len(t), s[i] = t[j]
               PROVE  FALSE
    OBVIOUS
  <2>1. s[i] \in S
    BY ElementOfSeq
  <2>2. Contains(s, s[i]) /\ Contains(t, s[i])
    BY DEF Contains
  <2> QED  BY <2>1, <2>2 DEF Apart
<1>4. m \in Int /\ n \in Int /\ m \in 1 .. Len(s) + Len(t) /\ n \in 1 .. Len(s) + Len(t)
  BY <1>1
<1>5. \/ m \in 1 .. Len(s) /\ (s \o t)[m] = s[m]
      \/ m > Len(s) /\ m - Len(s) \in 1 .. Len(t) /\ (s \o t)[m] = t[m - Len(s)]
  BY <1>1, <1>4
<1>6. \/ n \in 1 .. Len(s) /\ (s \o t)[n] = s[n]
      \/ n > Len(s) /\ n - Len(s) \in 1 .. Len(t) /\ (s \o t)[n] = t[n - Len(s)]
  BY <1>1, <1>4
<1>7. ASSUME m - Len(s) \in 1 .. Len(t), n - Len(s) \in 1 .. Len(t),
             t[m - Len(s)] = t[n - Len(s)]
      PROVE  m = n
  <2>1. m - Len(s) = n - Len(s)
    BY <1>7 DEF Once
  <2> QED  BY <1>1, <1>4, <2>1
<1> QED  BY <1>2, <1>3, <1>5, <1>6, <1>7 DEF Once

\* A member put in front of a list it is not on (guac_common_list_add()).
LEMMA PutInFront ==
  ASSUME NEW S, NEW s \in Seq(S), NEW u \in S
  PROVE  /\ <<u>> \o s \in Seq(S)
         /\ \A v : Contains(<<u>> \o s, v) <=> v = u \/ Contains(s, v)
         /\ Once(s) /\ ~Contains(s, u) => Once(<<u>> \o s)
<1>1. <<u>> \in Seq(S) /\ Len(<<u>>) = 1 /\ <<u>>[1] = u
  OBVIOUS
<1>2. \A v : Contains(<<u>>, v) <=> v = u
  BY <1>1 DEF Contains
<1>3. Once(<<u>>)
  BY <1>1 DEF Once
<1>4. ~Contains(s, u) => Apart(<<u>>, s)
  BY <1>2 DEF Apart
<1>5. \A v : Contains(<<u>> \o s, v) <=> Contains(<<u>>, v) \/ Contains(s, v)
  BY <1>1, ContainsConcat
<1> QED  BY <1>1, <1>2, <1>3, <1>4, <1>5, ConcatProperties, OnceConcat

\* What removing a member from a list leaves (guac_common_list_remove()).
LEMMA TakenOut ==
  ASSUME NEW S, NEW s \in Seq(S), Once(s), NEW u \in S
  PROVE  /\ RemoveFirst(s, u) \in Seq(S)
         /\ Once(RemoveFirst(s, u))
         /\ \A v : Contains(RemoveFirst(s, u), v) <=> v # u /\ Contains(s, v)
<1>1. CASE ~Contains(s, u)
  BY <1>1 DEF RemoveFirst, Contains
<1>2. CASE Contains(s, u)
  <2>1. PICK n \in 1 .. Len(s) : s[n] = u
    BY <1>2 DEF Contains
  <2>2. {i \in 1 .. Len(s) : s[i] = u} = {n}
    BY <2>1 DEF Once
  <2>3. Min({n}) = n
    BY DEF Min
  <2>4. SelectInSeq(s, LAMBDA v : v = u) = n
    BY <2>2, <2>3 DEF SelectInSeq
  <2> DEFINE a == SubSeq(s, 1, n - 1)
             b == SubSeq(s, n + 1, Len(s))
  <2>5. RemoveFirst(s, u) = a \o b
    BY <1>2, <2>4 DEF RemoveFirst, RemoveAt, Contains
  <2>6. Len(s) \in Nat /\ n \in Int /\ \A i \in 1 .. Len(s) : s[i] \in S
    BY LenProperties, ElementOfSeq
  <2>7. /\ a \in Seq(S) /\ Len(a) = n - 1
        /\ \A i \in 1 .. n - 1 : a[i] = s[i]
    <3>1. \A i \in 1 .. n - 1 : s[i] \in S
      BY <2>6
    <3>2. /\ a \in Seq(S)
          /\ Len(a) = IF 1 <= n - 1 THEN (n - 1) - 1 + 1 ELSE 0
          /\ \A i \in 1 .. (n - 1) - 1 + 1 : a[i] = s[1 + i - 1]
      BY <2>6, <3>1, SubSeqProperties
    <3> QED  BY <2>6, <3>2
  <2>8. /\ b \in Seq(S) /\ Len(b) = Len(s) - n
        /\ \A i \in 1 .. Len(s) - n : b[i] = s[n + i]
    <3>1. \A i \in n + 1 .. Len(s) : s[i] \in S
      BY <2>6
    <3>2. /\ b \in Seq(S)
          /\ Len(b) = IF n + 1 <= Len(s) THEN Len(s) - (n + 1) + 1 ELSE 0
          /\ \A i \in 1 .. Len(s) - (n + 1) + 1 : b[i] = s[(n + 1) + i - 1]
      BY <2>6, <3>1, SubSeqProperties
    <3> QED  BY <2>6, <3>2
  <2> HIDE DEF a, b
  <2>9. Once(a) /\ Once(b)
    <3>1. Once(a)
      BY <2>6, <2>7 DEF Once
    <3>2. ASSUME NEW i \in 1 .. Len(b), NEW j \in 1 .. Len(b), b[i] = b[j]  PROVE i = j
      <4>1. /\ n + i \in 1 .. Len(s) /\ n + j \in 1 .. Len(s) /\ i \in Int /\ j \in Int
            /\ b[i] = s[n + i] /\ b[j] = s[n + j]
        BY <2>6, <2>8
      <4>2. n + i = n + j
        BY <3>2, <4>1 DEF Once
      <4> QED  BY <2>6, <4>1, <4>2
    <3> QED  BY <3>1, <3>2 DEF Once
  <2>10. Apart(a, b) /\ ~Contains(a, u) /\ ~Contains(b, u)
    <3>1. \A i \in 1 .. Len(a) : i \in 1 .. Len(s) /\ i # n /\ a[i] = s[i] /\ i < n
      BY <2>6, <2>7
    <3>2. \A j \in 1 .. Len(b) : n + j \in 1 .. Len(s) /\ n + j # n /\ b[j] = s[n + j] /\ n + j > n
      BY <2>6, <2>8
    <3>3. \A i \in 1 .. Len(a), j \in 1 .. Len(b) : s[i] # s[n + j]
      <4> SUFFICES ASSUME NEW i \in 1 .. Len(a), NEW j \in 1 .. Len(b), s[i] = s[n + j]
                   PROVE  FALSE
        OBVIOUS
      <4>1. i = n + j
        BY <3>1, <3>2 DEF Once
      <4> QED  BY <3>1, <3>2, <4>1
    <3>4. \A i \in 1 .. Len(a), j \in 1 .. Len(b) : a[i] # b[j]
      BY <3>1, <3>2, <3>3
    <3>5. Apart(a, b)
      BY <3>4 DEF Apart, Contains
    <3>6. \A i \in 1 .. Len(s) : i # n => s[i] # u
      BY <2>1 DEF Once
    <3> QED  BY <3>1, <3>2, <3>5, <3>6 DEF Contains
  <2>11. \A v : v # u /\ Contains(s, v) => Contains(a, v) \/ Contains(b, v)
    <3> SUFFICES ASSUME NEW i \in 1 .. Len(s), s[i] # u
                 PROVE  Contains(a, s[i]) \/ Contains(b, s[i])
      BY DEF Contains
    <3>1. i # n /\ i \in Int
      BY <2>1
    <3>2. CASE i < n
      <4>1. i \in 1 .. Len(a) /\ a[i] = s[i]
        BY <2>6, <2>7, <3>1, <3>2
      <4> QED  BY <4>1 DEF Contains
    <3>3. CASE i > n
      <4>1. i - n \in 1 .. Len(b) /\ n + (i - n) = i
        BY <2>6, <2>8, <3>1, <3>3
      <4>2. b[i - n] = s[n + (i - n)]
        BY <2>8, <4>1
      <4>3. b[i - n] = s[i]
        BY <4>1, <4>2
      <4> QED  BY <4>1, <4>3 DEF Contains
    <3> QED  BY <2>6, <3>1, <3>2, <3>3
  <2>12. \A v : Contains(a, v) \/ Contains(b, v) => Contains(s, v)
    <3>1. \A i \in 1 .. Len(a) : i \in 1 .. Len(s) /\ a[i] = s[i]
      BY <2>6, <2>7
    <3>2. \A j \in 1 .. Len(b) : n + j \in 1 .. Len(s) /\ b[j] = s[n + j]
      BY <2>6, <2>8
    <3> QED  BY <3>1, <3>2 DEF Contains
  <2>13. \A v : Contains(a \o b, v) <=> Contains(a, v) \/ Contains(b, v)
    BY <2>7, <2>8, ContainsConcat
  <2>14. a \o b \in Seq(S) /\ Once(a \o b)
    BY <2>7, <2>8, <2>9, <2>10, ConcatProperties, OnceConcat
  <2> QED  BY <2>5, <2>10, <2>11, <2>12, <2>13, <2>14
<1> QED  BY <1>1, <1>2


\* An element of the set of a list is at one of its places.
LEMMA InToSet ==
  ASSUME NEW S, NEW s \in Seq(S), NEW v
  PROVE  v \in ToSet(s) <=> Contains(s, v)
BY LenProperties DEF ToSet, Contains

\* A member put at the end of a queue.
LEMMA PutAtEnd ==
  ASSUME NEW S, NEW s \in Seq(S), NEW u \in S
  PROVE  /\ Append(s, u) \in Seq(S) /\ Len(Append(s, u)) = Len(s) + 1
         /\ Append(s, u)[Len(s) + 1] = u
         /\ \A i \in 1 .. Len(s) : Append(s, u)[i] = s[i]
         /\ \A v : Contains(Append(s, u), v) <=> v = u \/ Contains(s, v)
<1>1. /\ Append(s, u) \in Seq(S) /\ Len(Append(s, u)) = Len(s) + 1
      /\ Append(s, u)[Len(s) + 1] = u
      /\ \A i \in 1 .. Len(s) : Append(s, u)[i] = s[i]
      /\ Len(s) \in Nat
  BY AppendProperties, LenProperties
<1>2. \A i \in 1 .. Len(s) + 1 : i \in 1 .. Len(s) \/ i = Len(s) + 1
  BY <1>1
<1>3. \A i \in 1 .. Len(s) : i \in 1 .. Len(s) + 1
  BY <1>1
<1>4. Len(s) + 1 \in 1 .. Len(s) + 1
  BY <1>1
<1>5. \A v : Contains(Append(s, u), v) <=> v = u \/ Contains(s, v)
  BY <1>1, <1>2, <1>3, <1>4 DEF Contains
<1> QED  BY <1>1, <1>5

\* A queue without its first member.
LEMMA FirstTaken ==
  ASSUME NEW S, NEW s \in Seq(S), s # << >>
  PROVE  /\ Head(s) \in S /\ Head(s) = s[1] /\ 1 \in 1 .. Len(s) /\ Contains(s, Head(s))
         /\ Tail(s) \in Seq(S) /\ Len(Tail(s)) = Len(s) - 1
         /\ \A i \in 1 .. Len(Tail(s)) : i + 1 \in 1 .. Len(s) /\ Tail(s)[i] = s[i + 1]
         /\ \A v : Contains(Tail(s), v) => Contains(s, v)
<1>1. /\ Head(s) \in S /\ Head(s) = s[1]
      /\ Tail(s) \in Seq(S) /\ Len(Tail(s)) = Len(s) - 1
      /\ \A i \in 1 .. Len(Tail(s)) : Tail(s)[i] = s[i + 1]
      /\ Len(s) \in Nat /\ Len(s) # 0
  BY HeadTailProperties, LenProperties, EmptySeq
<1>2. 1 \in 1 .. Len(s) /\ \A i \in 1 .. Len(Tail(s)) : i + 1 \in 1 .. Len(s)
  BY <1>1
<1>3. Contains(s, Head(s)) /\ \A v : Contains(Tail(s), v) => Contains(s, v)
  BY <1>1, <1>2 DEF Contains
<1> QED  BY <1>1, <1>2, <1>3
=============================================================================
