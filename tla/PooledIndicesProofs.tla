------------------------ MODULE PooledIndicesProofs -------------------------
(***************************************************************************)
(* Theorems about the pools of indices: for any number of handles and any  *)
(* limits, no integer of a pool is ever lost or available twice, and the   *)
(* indices of objects in use are distinct, unless layers are among them.   *)
(***************************************************************************)
EXTENDS PooledIndices, FiniteSetTheorems, SequenceTheorems, TLAPS

\* The integer of the pool behind what a handle refers to.
Owned(h) ==
  IF object[h].kind \in ArrayKinds /\ object[h].stage # "freeing"
  THEN object[h].value
  ELSE decode(object[h].kind, object[h].value)

\* A handle's record is one of those that the calls of its kind produce.
WellFormed(h) ==
  LET k == object[h].kind IN
  /\ object[h] \in Held
  /\ k \notin ArrayKinds => object[h].stage = "live"
  /\ Owned(h) \in 0 .. pool[k].next_value - 1
  /\ WireIndex(h) = encode(k, Owned(h))

ObjectsSound == \A h \in Handles : object[h] # Nothing => WellFormed(h)

\* No integer is behind two objects.
OwnedOnce ==
  \A g, h \in Handles :
    (object[g] # Nothing /\ object[h] # Nothing /\ object[g].kind = object[h].kind
       /\ Owned(g) = Owned(h)) => g = h

\* A free integer was handed out before, is behind no object, and is free once.
FreedSound ==
  \A k \in Kinds : \A n \in 1 .. Len(pool[k].freed) :
    /\ pool[k].freed[n] \in 0 .. pool[k].next_value - 1
    /\ \A m \in 1 .. Len(pool[k].freed) : pool[k].freed[m] = pool[k].freed[n] => m = n
    /\ \A h \in Handles :
         (object[h] # Nothing /\ object[h].kind = k) => Owned(h) # pool[k].freed[n]

\* Integers are counted, and there are no more of them than are needed.
CountsSound ==
  \A k \in Kinds :
    /\ pool[k].active = Cardinality(Live(k))
    /\ pool[k].next_value = pool[k].active + Len(pool[k].freed)
    /\ pool[k].min_size = IF k \in ArrayKinds THEN 0 ELSE InitialSize
    /\ k \in ArrayKinds => pool[k].next_value <= Limit
    /\ k \notin ArrayKinds =>
         pool[k].next_value <= InitialSize \/ pool[k].next_value <= Cardinality(Handles)

IndicesInv ==
  /\ IndicesTypeOK
  /\ AssertsHold
  /\ ObjectsSound
  /\ OwnedOnce
  /\ FreedSound
  /\ CountsSound
  /\ EntryIntact

-----------------------------------------------------------------------------
\* The constants, and what is left of decode() when there are no layers.
LEMMA KindFacts ==
  ASSUME "layer" \notin Kinds
  PROVE  /\ \A k \in Kinds : k \in {"buffer", "client_stream", "user_stream", "object"}
         /\ InitialSize \in Nat /\ Limit \in Nat /\ INT_MAX \in Nat
         /\ InitialSize < INT_MAX /\ Limit < INT_MAX
         /\ Cardinality(Handles) \in Nat /\ Cardinality(Handles) < INT_MAX
BY KindAssumption, LimitAssumption, SizesAssumption, IntAssumption, FS_CardinalityType
   DEF AllKinds

\* The index of a buffer, stream or object gives back the number of the pool it
\* was made from (client.c, user.c).
LEMMA Decoding ==
  ASSUME NEW k \in {"buffer", "client_stream", "user_stream", "object"}, NEW v \in Int
  PROVE  /\ encode(k, v) \in Int
         /\ decode(k, encode(k, v)) = v
<1>1. CASE k = "buffer"
  BY <1>1 DEF encode, decode
<1>2. CASE k = "client_stream"
  <2>1. (v * 2 + 1 - 1) \div 2 = v  OBVIOUS
  <2>2. encode(k, v) = v * 2 + 1 /\ decode(k, v * 2 + 1) = (v * 2 + 1 - 1) \div 2
    BY <1>2 DEF encode, decode
  <2> QED  BY <2>1, <2>2
<1>3. CASE k = "user_stream"
  <2>1. (v * 2) \div 2 = v  OBVIOUS
  <2>2. encode(k, v) = v * 2 /\ decode(k, v * 2) = (v * 2) \div 2
    BY <1>3 DEF encode, decode
  <2> QED  BY <2>1, <2>2
<1>4. CASE k = "object"
  BY <1>4 DEF encode, decode
<1> QED  BY <1>1, <1>2, <1>3, <1>4

\* Two indices of one space on the wire are encoded from the same integer of
\* the same kind.
LEMMA EncodedApart ==
  ASSUME NEW k \in {"buffer", "client_stream", "user_stream", "object"},
         NEW l \in {"buffer", "client_stream", "user_stream", "object"},
         NEW v \in Int, NEW w \in Int,
         SameSpace(k, l), encode(k, v) = encode(l, w)
  PROVE  k = l /\ v = w
<1>1. ASSUME k = l  PROVE v = w
  BY <1>1 DEF encode
<1>2. ASSUME k # l  PROVE FALSE
  <2>1. k \in Streams /\ l \in Streams
    BY <1>2 DEF SameSpace
  <2>2. v * 2 + 1 # w * 2 /\ w * 2 + 1 # v * 2
    OBVIOUS
  <2> QED  BY <1>2, <2>1, <2>2 DEF encode, Streams
<1> QED  BY <1>1, <1>2

\* Something that is held has a stage, a kind and a value, and is not nothing.
LEMMA HeldFacts ==
  /\ Nothing \notin Held
  /\ \A o \in Held : /\ o.stage \in {"filling", "live", "freeing"}
                     /\ o.kind \in Kinds
                     /\ o.value \in Int
                     /\ o # Nothing
BY DEF Held, Nothing

\* Something closed keeps its kind and gets the index that free makes of it
\* (guac_client_free_buffer()).
LEMMA ClosedRecord ==
  ASSUME NEW o \in Held, NEW i \in Int
  PROVE  [o EXCEPT !.stage = "freeing", !.value = i]
           = [stage |-> "freeing", kind |-> o.kind, value |-> i]
<1> DEFINE a == [o EXCEPT !.stage = "freeing", !.value = i]
           b == [stage |-> "freeing", kind |-> o.kind, value |-> i]
<1>1. a \in Held /\ a.stage = "freeing" /\ a.kind = o.kind /\ a.value = i
  <2>1. a \in Held
    BY DEF Held
  <2>2. a.stage = "freeing" /\ a.kind = o.kind /\ a.value = i
    BY DEF Held
  <2> QED  BY <2>1, <2>2
<1>2. b \in Held /\ b.stage = "freeing" /\ b.kind = o.kind /\ b.value = i
  BY DEF Held
<1> HIDE DEF a, b
<1>3. a = b
  BY <1>1, <1>2 DEF Held
<1> QED  BY <1>3 DEF a, b

\* What is live of a kind is finitely much, and less than all while a handle is
\* not live.
LEMMA LiveFinite ==
  ASSUME NEW k
  PROVE  /\ IsFiniteSet(Live(k))
         /\ Cardinality(Live(k)) \in Nat
         /\ Cardinality(Live(k)) <= Cardinality(Handles)
         /\ \A h \in Handles \ Live(k) : Cardinality(Live(k)) < Cardinality(Handles)
<1>1. Live(k) \in SUBSET Handles
  BY DEF Live
<1>2. Live(k) # Handles => Cardinality(Live(k)) # Cardinality(Handles)
  BY <1>1, FS_Subset, SizesAssumption
<1>3. /\ IsFiniteSet(Live(k))
      /\ Cardinality(Live(k)) <= Cardinality(Handles)
      /\ Cardinality(Live(k)) \in Nat /\ Cardinality(Handles) \in Nat
  BY <1>1, FS_Subset, FS_CardinalityType, SizesAssumption
<1> QED  BY <1>1, <1>2, <1>3

-----------------------------------------------------------------------------
\* What a pool hands out: a new integer, or the one freed longest ago.
LEMMA TakeFromPool ==
  ASSUME NEW p \in PoolType,
         \A n \in 1 .. Len(p.freed) : p.freed[n] \in 0 .. p.next_value - 1
  PROVE  /\ next_int_pool(p) \in PoolType
         /\ next_int_pool(p).min_size = p.min_size
         /\ next_int_pool(p).active = p.active + 1
         /\ next_int(p) \in Nat
         /\ \/ /\ p.freed = << >> \/ p.next_value < p.min_size
               /\ next_int(p) = p.next_value
               /\ next_int_pool(p).next_value = p.next_value + 1
               /\ next_int_pool(p).freed = p.freed
            \/ /\ Len(p.freed) # 0
               /\ next_int(p) = p.freed[1]
               /\ next_int(p) < p.next_value
               /\ next_int_pool(p).next_value = p.next_value
               /\ Len(next_int_pool(p).freed) = Len(p.freed) - 1
               /\ \A n \in 1 .. Len(p.freed) - 1 :
                    next_int_pool(p).freed[n] = p.freed[n + 1]
<1>1. /\ p.min_size \in Nat /\ p.active \in Nat /\ p.next_value \in Nat
      /\ p.freed \in Seq(Int) /\ p.active + 1 \in Nat /\ p.next_value + 1 \in Nat
  BY DEF PoolType
<1>2. CASE NeedsNew(p)
  <2>1. /\ next_int(p) = p.next_value
        /\ next_int_pool(p) = [p EXCEPT !.active = p.active + 1,
                                        !.next_value = p.next_value + 1]
    BY <1>2 DEF next_int, next_int_pool
  <2>2. p.freed = << >> \/ p.next_value < p.min_size
    BY <1>2 DEF NeedsNew
  <2>3. next_int_pool(p) \in PoolType
    BY <1>1, <2>1 DEF PoolType
  <2>4. /\ next_int_pool(p).min_size = p.min_size
        /\ next_int_pool(p).active = p.active + 1
        /\ next_int_pool(p).next_value = p.next_value + 1
        /\ next_int_pool(p).freed = p.freed
    BY <2>1 DEF PoolType
  <2> QED  BY <1>1, <2>1, <2>2, <2>3, <2>4
<1>3. CASE ~NeedsNew(p)
  <2>1. p.freed # << >>
    BY <1>3 DEF NeedsNew
  <2>2. /\ Len(p.freed) \in Nat /\ Len(p.freed) # 0
        /\ Tail(p.freed) \in Seq(Int)
        /\ Len(Tail(p.freed)) = Len(p.freed) - 1
        /\ \A n \in 1 .. Len(p.freed) - 1 : Tail(p.freed)[n] = p.freed[n + 1]
        /\ Head(p.freed) = p.freed[1]
    BY <1>1, <2>1, HeadTailProperties, EmptySeq
  <2>3. next_int(p) = p.freed[1] /\ p.freed[1] \in 0 .. p.next_value - 1
    BY <1>3, <2>2 DEF next_int
  <2>4. next_int_pool(p) = [p EXCEPT !.active = p.active + 1, !.freed = Tail(p.freed)]
    BY <1>3 DEF next_int_pool
  <2>5. next_int_pool(p) \in PoolType
    BY <1>1, <2>2, <2>4 DEF PoolType
  <2>6. /\ next_int_pool(p).min_size = p.min_size
        /\ next_int_pool(p).active = p.active + 1
        /\ next_int_pool(p).next_value = p.next_value
        /\ next_int_pool(p).freed = Tail(p.freed)
    BY <2>4 DEF PoolType
  <2> QED  BY <1>1, <2>2, <2>3, <2>5, <2>6
<1> QED  BY <1>2, <1>3

\* What a pool takes back goes to the end of its free integers.
LEMMA GiveToPool ==
  ASSUME NEW p \in PoolType, NEW v \in Int, p.active > 0
  PROVE  /\ guac_pool_free_int(p, v) \in PoolType
         /\ guac_pool_free_int(p, v).min_size = p.min_size
         /\ guac_pool_free_int(p, v).active = p.active - 1
         /\ guac_pool_free_int(p, v).next_value = p.next_value
         /\ Len(guac_pool_free_int(p, v).freed) = Len(p.freed) + 1
         /\ guac_pool_free_int(p, v).freed[Len(p.freed) + 1] = v
         /\ \A n \in 1 .. Len(p.freed) : guac_pool_free_int(p, v).freed[n] = p.freed[n]
<1>1. p.active \in Nat /\ p.active - 1 \in Nat /\ p.freed \in Seq(Int)
  BY DEF PoolType
<1>2. /\ Append(p.freed, v) \in Seq(Int)
      /\ Len(Append(p.freed, v)) = Len(p.freed) + 1
      /\ \A n \in 1 .. Len(p.freed) : Append(p.freed, v)[n] = p.freed[n]
      /\ Append(p.freed, v)[Len(p.freed) + 1] = v
  BY <1>1, AppendProperties
<1>3. guac_pool_free_int(p, v) =
        [p EXCEPT !.active = p.active - 1, !.freed = Append(p.freed, v)]
  BY DEF guac_pool_free_int
<1>4. guac_pool_free_int(p, v) \in PoolType
  BY <1>1, <1>2, <1>3 DEF PoolType
<1>5. /\ guac_pool_free_int(p, v).min_size = p.min_size
      /\ guac_pool_free_int(p, v).active = p.active - 1
      /\ guac_pool_free_int(p, v).next_value = p.next_value
      /\ guac_pool_free_int(p, v).freed = Append(p.freed, v)
  BY <1>3 DEF PoolType
<1> QED  BY <1>2, <1>4, <1>5

-----------------------------------------------------------------------------
\* What a draw or a release does to the handles and the pools that it is not about.
LEMMA OthersKept ==
  ASSUME NEW h \in Handles, NEW g \in Handles \ {h}, object'[g] = object[g]
  PROVE  Owned(g)' = Owned(g) /\ WireIndex(g)' = WireIndex(g)
BY DEF Owned, WireIndex

\* The assertions of pool.c hold in any call: there is an integer left.
LEMMA DrawAsserts ==
  ASSUME "layer" \notin Kinds, IndicesInv,
         NEW h \in Handles, NEW k \in Kinds, object[h] = Nothing,
         k \in ArrayKinds => ~refuses_below(pool[k], Limit)
  PROVE  /\ next_int_asserts(pool[k])
         /\ k \in ArrayKinds => next_int(pool[k]) < Limit
<1> DEFINE p == pool[k]
<1>1. p \in PoolType /\ p.next_value \in Nat /\ p.active \in Nat /\ p.freed \in Seq(Int)
  BY DEF IndicesInv, IndicesTypeOK, PoolType
<1>2. \A n \in 1 .. Len(p.freed) : p.freed[n] \in 0 .. p.next_value - 1
  BY DEF IndicesInv, FreedSound
<1>3. h \notin Live(k)
  BY DEF Live
<1>4. p.active < Cardinality(Handles)
  BY <1>3, LiveFinite DEF IndicesInv, CountsSound
<1>5. p.next_value < INT_MAX /\ p.active < INT_MAX
  BY <1>1, <1>4, KindFacts DEF IndicesInv, CountsSound
<1>6. next_int(p) \in Nat
  BY <1>1, <1>2, TakeFromPool
<1>7. next_int_asserts(p)
  BY <1>5, <1>6 DEF next_int_asserts
<1>8. ASSUME k \in ArrayKinds  PROVE next_int(p) < Limit
  <2>1. p.next_value <= Limit /\ p.min_size = 0
    BY <1>8 DEF IndicesInv, CountsSound
  <2>2. p.freed # << >> \/ p.next_value < Limit
    BY <1>1, <1>8, KindFacts DEF refuses_below
  <2>3. next_int(p) = p.next_value => p.next_value < Limit \/ p.freed # << >>
    BY <2>2
  <2>4. \/ (p.freed = << >> \/ p.next_value < p.min_size) /\ next_int(p) = p.next_value
        \/ next_int(p) < p.next_value
    BY <1>1, <1>2, TakeFromPool
  <2> QED  BY <1>1, <1>6, <2>1, <2>2, <2>4, KindFacts
<1> QED  BY <1>7, <1>8

\* A draw gives the handle an integer that nobody has.
LEMMA DrawKept ==
  ASSUME "layer" \notin Kinds, IndicesInv,
         NEW h \in Handles, NEW k \in Kinds, object[h] = Nothing,
         k \in ArrayKinds => ~refuses_below(pool[k], Limit),
         IF k \in ArrayKinds
         THEN Draw(h, k, "filling", next_int(pool[k]), TRUE)
         ELSE Draw(h, k, "live", encode(k, next_int(pool[k])), TRUE)
  PROVE  IndicesInv'
<1> DEFINE p == pool[k]
           v == next_int(p)
           q == next_int_pool(p)
           s == IF k \in ArrayKinds THEN "filling" ELSE "live"
           i == IF k \in ArrayKinds THEN v ELSE encode(k, v)
<1>1. /\ pool \in [Kinds -> PoolType] /\ object \in [Handles -> Held \cup {Nothing}]
      /\ p \in PoolType /\ p.next_value \in Nat /\ p.active \in Nat /\ p.freed \in Seq(Int)
      /\ Len(p.freed) \in Nat /\ p.min_size \in Nat
  <2>1. pool \in [Kinds -> PoolType] /\ object \in [Handles -> Held \cup {Nothing}]
    BY DEF IndicesInv, IndicesTypeOK
  <2>2. p \in PoolType
    BY <2>1
  <2>3. p.next_value \in Nat /\ p.active \in Nat /\ p.freed \in Seq(Int) /\ p.min_size \in Nat
    BY <2>2 DEF PoolType
  <2> QED  BY <2>1, <2>2, <2>3, LenProperties
<1>2. \A n \in 1 .. Len(p.freed) : p.freed[n] \in 0 .. p.next_value - 1
  BY DEF IndicesInv, FreedSound
<1>3. /\ q \in PoolType /\ q.min_size = p.min_size /\ q.active = p.active + 1 /\ v \in Nat
      /\ \/ /\ p.freed = << >> \/ p.next_value < p.min_size
            /\ v = p.next_value
            /\ q.next_value = p.next_value + 1
            /\ q.freed = p.freed
         \/ /\ Len(p.freed) # 0
            /\ v = p.freed[1]
            /\ v < p.next_value
            /\ q.next_value = p.next_value
            /\ Len(q.freed) = Len(p.freed) - 1
            /\ \A n \in 1 .. Len(p.freed) - 1 : q.freed[n] = p.freed[n + 1]
  BY <1>1, <1>2, TakeFromPool
<1>4. /\ k \in {"buffer", "client_stream", "user_stream", "object"} /\ v \in Int /\ i \in Int
      /\ s # "freeing"
      /\ decode(k, encode(k, v)) = v
  <2>1. k \in {"buffer", "client_stream", "user_stream", "object"}
    BY KindFacts
  <2> HIDE DEF v
  <2>2. v \in Int
    BY <1>3
  <2>3. encode(k, v) \in Int /\ decode(k, encode(k, v)) = v
    BY <2>1, <2>2, Decoding
  <2> QED  BY <2>1, <2>2, <2>3
<1>5. /\ pool' = [pool EXCEPT ![k] = q]
      /\ object' = [object EXCEPT ![h] = [stage |-> s, kind |-> k, value |-> i]]
      /\ entry' = entry
      /\ failed' = FALSE
  BY DEF Draw
<1> HIDE DEF q, v, p, i, s
<1>6. /\ pool'[k] = q
      /\ \A l \in Kinds \ {k} : pool'[l] = pool[l]
      /\ object'[h] = [stage |-> s, kind |-> k, value |-> i]
      /\ \A g \in Handles \ {h} : object'[g] = object[g]
  BY <1>1, <1>5
<1>7. /\ object'[h] \in Held /\ object'[h] # Nothing
      /\ object'[h].kind = k /\ object'[h].stage = s /\ object'[h].value = i
  <2>1. object'[h] \in Held
    BY <1>4, <1>6 DEF Held, s
  <2> QED  BY <1>6, <2>1, HeldFacts
<1>8. Owned(h)' = v /\ WireIndex(h)' = encode(k, v)
  <2>1. CASE k \in ArrayKinds
    BY <1>4, <1>7, <2>1 DEF Owned, WireIndex, i
  <2>2. CASE k \notin ArrayKinds
    BY <1>4, <1>7, <2>2 DEF Owned, WireIndex, i
  <2> QED  BY <2>1, <2>2
<1>9. \A g \in Handles \ {h} : Owned(g)' = Owned(g) /\ WireIndex(g)' = WireIndex(g)
  BY <1>6, OthersKept
<1>10. \A g \in Handles : object[g] # Nothing =>
         object[g] \in Held /\ Owned(g) \in 0 .. pool[object[g].kind].next_value - 1
  BY DEF IndicesInv, ObjectsSound, WellFormed
<1>11. \A g \in Handles : object[g] # Nothing /\ object[g].kind = k => Owned(g) # v
  <2>1. \A g \in Handles : object[g] # Nothing /\ object[g].kind = k =>
          /\ Owned(g) < p.next_value
          /\ Owned(g) \in Int
          /\ \A n \in 1 .. Len(p.freed) : Owned(g) # p.freed[n]
    BY <1>1, <1>10 DEF IndicesInv, FreedSound, p
  <2> QED  BY <1>1, <1>3, <2>1
<1>12. Live(k)' = Live(k) \cup {h} /\ h \notin Live(k)
  BY <1>6, <1>7 DEF Live
<1>13. \A l \in Kinds \ {k} : Live(l)' = Live(l)
  BY <1>6, <1>7 DEF Live
<1>14. IndicesTypeOK'
  <2>1. pool' \in [Kinds -> PoolType]
    BY <1>1, <1>3, <1>5
  <2>2. object' \in [Handles -> Held \cup {Nothing}]
    BY <1>1, <1>5, <1>6, <1>7
  <2> QED  BY <1>5, <2>1, <2>2 DEF IndicesInv, IndicesTypeOK
<1>15. ObjectsSound'
  <2>1. WellFormed(h)'
    <3>1. v \in 0 .. q.next_value - 1
      BY <1>1, <1>3
    <3> QED  BY <1>6, <1>7, <1>8, <3>1 DEF WellFormed, s
  <2>2. ASSUME NEW g \in Handles \ {h}, object'[g] # Nothing  PROVE WellFormed(g)'
    <3>1. WellFormed(g) /\ object'[g] = object[g]
      BY <1>6, <2>2 DEF IndicesInv, ObjectsSound
    <3>2. object[g].kind \in Kinds
      BY <3>1, HeldFacts DEF WellFormed
    <3>3. CASE object[g].kind = k
      <4>1. Owned(g) \in 0 .. p.next_value - 1
        BY <3>1, <3>3 DEF WellFormed, p
      <4>2. Owned(g) \in 0 .. q.next_value - 1
        BY <1>1, <1>3, <4>1
      <4> QED  BY <1>6, <1>9, <3>1, <3>3, <4>2 DEF WellFormed
    <3>4. CASE object[g].kind # k
      <4>1. pool'[object[g].kind] = pool[object[g].kind]
        BY <1>6, <3>2, <3>4
      <4> QED  BY <1>9, <3>1, <4>1 DEF WellFormed
    <3> QED  BY <3>3, <3>4
  <2> QED  BY <2>1, <2>2 DEF ObjectsSound
<1>16. OwnedOnce'
  BY <1>6, <1>7, <1>8, <1>9, <1>11 DEF OwnedOnce, IndicesInv
<1>17. FreedSound'
  <2>1. ASSUME NEW l \in Kinds \ {k}, NEW n \in 1 .. Len(pool'[l].freed)
        PROVE  /\ pool'[l].freed[n] \in 0 .. pool'[l].next_value - 1
               /\ \A m \in 1 .. Len(pool'[l].freed) :
                    pool'[l].freed[m] = pool'[l].freed[n] => m = n
               /\ \A g \in Handles :
                    (object'[g] # Nothing /\ object'[g].kind = l) =>
                       Owned(g)' # pool'[l].freed[n]
    <3>1. pool'[l] = pool[l]
      BY <1>6
    <3>2. /\ pool[l].freed[n] \in 0 .. pool[l].next_value - 1
          /\ \A m \in 1 .. Len(pool[l].freed) : pool[l].freed[m] = pool[l].freed[n] => m = n
          /\ \A g \in Handles :
               (object[g] # Nothing /\ object[g].kind = l) => Owned(g) # pool[l].freed[n]
      BY <2>1, <3>1 DEF IndicesInv, FreedSound
    <3> QED  BY <1>6, <1>7, <1>9, <3>1, <3>2
  <2>2. ASSUME NEW n \in 1 .. Len(q.freed)
        PROVE  /\ q.freed[n] \in 0 .. q.next_value - 1
               /\ \A m \in 1 .. Len(q.freed) : q.freed[m] = q.freed[n] => m = n
               /\ \A g \in Handles :
                    (object'[g] # Nothing /\ object'[g].kind = k) => Owned(g)' # q.freed[n]
    <3>1. \A a \in 1 .. Len(p.freed) :
            /\ p.freed[a] \in 0 .. p.next_value - 1
            /\ \A m \in 1 .. Len(p.freed) : p.freed[m] = p.freed[a] => m = a
            /\ \A g \in Handles :
                 (object[g] # Nothing /\ object[g].kind = k) => Owned(g) # p.freed[a]
      BY DEF IndicesInv, FreedSound, p
    <3>2. CASE q.freed = p.freed
      <4>1. v = p.next_value /\ q.next_value = p.next_value + 1
        <5>1. Len(q.freed) = Len(p.freed)
          BY <3>2
        <5> QED  BY <1>1, <1>3, <5>1
      <4>2. p.freed[n] \in 0 .. p.next_value - 1
        BY <3>1, <3>2
      <4>3. q.freed[n] \in 0 .. q.next_value - 1 /\ q.freed[n] # v
        BY <1>1, <3>2, <4>1, <4>2
      <4>4. \A m \in 1 .. Len(q.freed) : q.freed[m] = q.freed[n] => m = n
        BY <3>1, <3>2
      <4>5. \A g \in Handles \ {h} :
              (object[g] # Nothing /\ object[g].kind = k) => Owned(g) # q.freed[n]
        BY <3>1, <3>2
      <4> QED  BY <1>6, <1>7, <1>8, <1>9, <4>3, <4>4, <4>5
    <3>3. CASE q.freed # p.freed
      <4>1. /\ Len(p.freed) # 0 /\ v = p.freed[1] /\ q.next_value = p.next_value
            /\ Len(q.freed) = Len(p.freed) - 1
            /\ \A m \in 1 .. Len(p.freed) - 1 : q.freed[m] = p.freed[m + 1]
        BY <1>3, <3>3
      <4>2. /\ n \in 1 .. Len(p.freed) - 1 /\ n + 1 \in 1 .. Len(p.freed)
            /\ 1 \in 1 .. Len(p.freed) /\ n + 1 # 1
        BY <1>1, <4>1
      <4>3. \A m \in 1 .. Len(q.freed) :
              m + 1 \in 1 .. Len(p.freed) /\ q.freed[m] = p.freed[m + 1]
        BY <1>1, <4>1
      <4>4. q.freed[n] = p.freed[n + 1]
        BY <4>3
      <4>5. ASSUME NEW m \in 1 .. Len(q.freed), q.freed[m] = q.freed[n]  PROVE m = n
        <5>1. p.freed[m + 1] = p.freed[n + 1] /\ m + 1 \in 1 .. Len(p.freed)
          BY <4>3, <4>5, <4>4
        <5>2. m + 1 = n + 1
          BY <3>1, <4>2, <5>1
        <5>3. m \in Int /\ n \in Int
          BY <4>2, <4>1, <1>1
        <5> QED  BY <5>2, <5>3
      <4>6. p.freed[n + 1] # p.freed[1] /\ p.freed[n + 1] \in 0 .. p.next_value - 1
        BY <3>1, <4>2
      <4>7. \A g \in Handles \ {h} :
              (object[g] # Nothing /\ object[g].kind = k) => Owned(g) # p.freed[n + 1]
        BY <3>1, <4>2
      <4> QED  BY <1>6, <1>7, <1>8, <1>9, <4>1, <4>5, <4>6, <4>7, <4>4
    <3> QED  BY <3>2, <3>3
  <2> QED  BY <1>6, <2>1, <2>2 DEF FreedSound
<1>18. CountsSound'
  <2>1. ASSUME NEW l \in Kinds \ {k}
        PROVE  /\ pool'[l] = pool[l]
               /\ Live(l)' = Live(l)
    BY <1>6, <1>13
  <2>2. p.active + 1 = Cardinality(Live(k)')
    <3>1. p.active = Cardinality(Live(k)) /\ IsFiniteSet(Live(k))
      BY LiveFinite DEF IndicesInv, CountsSound, p
    <3> QED  BY <1>12, <3>1, FS_AddElement
  <2>3. /\ p.next_value = p.active + Len(p.freed)
        /\ p.min_size = IF k \in ArrayKinds THEN 0 ELSE InitialSize
        /\ k \in ArrayKinds => p.next_value <= Limit
        /\ k \notin ArrayKinds =>
             p.next_value <= InitialSize \/ p.next_value <= Cardinality(Handles)
        /\ p.active + 1 <= Cardinality(Handles)
    <3>1. Cardinality(Live(k)) < Cardinality(Handles) /\ Cardinality(Live(k)) \in Nat
      BY <1>12, LiveFinite
    <3> QED  BY <3>1, KindFacts DEF IndicesInv, CountsSound, p
  <2>4. q.next_value = q.active + Len(q.freed)
    <3>1. CASE q.freed = p.freed
      <4>1. q.next_value = p.next_value + 1
        BY <1>1, <1>3, <3>1
      <4>2. Len(q.freed) = Len(p.freed)
        BY <3>1
      <4> QED  BY <1>1, <1>3, <2>3, <4>1, <4>2
    <3>2. CASE q.freed # p.freed
      <4>1. q.next_value = p.next_value /\ Len(q.freed) = Len(p.freed) - 1
        BY <1>3, <3>2
      <4>2. q.active = p.active + 1 /\ p.next_value = p.active + Len(p.freed)
        BY <1>3, <2>3
      <4> QED  BY <1>1, <4>1, <4>2
    <3> QED  BY <3>1, <3>2
  <2>5. ASSUME k \in ArrayKinds  PROVE q.next_value <= Limit
    <3>1. p.freed # << >> \/ p.next_value < Limit
      BY <1>1, <2>5, KindFacts DEF refuses_below, p
    <3> QED  BY <1>1, <1>3, <2>3, <2>5, <3>1, KindFacts
  <2>6. ASSUME k \notin ArrayKinds
        PROVE  q.next_value <= InitialSize \/ q.next_value <= Cardinality(Handles)
    <3>1. p.freed = << >> => p.next_value = p.active
      BY <1>1, <2>3, EmptySeq
    <3> QED  BY <1>1, <1>3, <2>3, <2>6, <3>1, KindFacts
  <2>7. /\ pool'[k].active = Cardinality(Live(k)')
        /\ pool'[k].next_value = pool'[k].active + Len(pool'[k].freed)
        /\ pool'[k].min_size = IF k \in ArrayKinds THEN 0 ELSE InitialSize
        /\ k \in ArrayKinds => pool'[k].next_value <= Limit
        /\ k \notin ArrayKinds =>
             pool'[k].next_value <= InitialSize \/ pool'[k].next_value <= Cardinality(Handles)
    BY <1>3, <1>6, <2>2, <2>3, <2>4, <2>5, <2>6
  <2> QED  BY <2>1, <2>7 DEF CountsSound, IndicesInv
<1>19. EntryIntact'
  <2>1. \A g \in Handles : (object'[g] # Nothing /\ object'[g].kind \in ArrayKinds
                              /\ object'[g].stage = "live") => g # h
    BY <1>7 DEF s
  <2> QED  BY <1>5, <1>6, <2>1 DEF EntryIntact, IndicesInv
<1>20. AssertsHold'
  BY <1>5 DEF AssertsHold
<1> QED  BY <1>14, <1>15, <1>16, <1>17, <1>18, <1>19, <1>20 DEF IndicesInv

\* A release puts the handle's integer at the end of the free ones.
LEMMA ReleaseKept ==
  ASSUME "layer" \notin Kinds, IndicesInv,
         NEW h \in Handles, NEW k \in Kinds, object[h] # Nothing, object[h].kind = k,
         k \in ArrayKinds => object[h].stage = "freeing",
         pool' = [pool EXCEPT ![k] = guac_pool_free_int(@, decode(k, object[h].value))],
         object' = [object EXCEPT ![h] = Nothing],
         entry' = entry,
         failed' = ~(pool[k].active > 0)
  PROVE  IndicesInv'
<1> DEFINE p == pool[k]
           v == Owned(h)
           q == guac_pool_free_int(p, v)
<1>1. /\ pool \in [Kinds -> PoolType] /\ object \in [Handles -> Held \cup {Nothing}]
      /\ p \in PoolType /\ p.next_value \in Nat /\ p.active \in Nat /\ p.freed \in Seq(Int)
      /\ Len(p.freed) \in Nat
  <2>1. pool \in [Kinds -> PoolType] /\ object \in [Handles -> Held \cup {Nothing}]
    BY DEF IndicesInv, IndicesTypeOK
  <2>2. p \in PoolType
    BY <2>1
  <2>3. p.next_value \in Nat /\ p.active \in Nat /\ p.freed \in Seq(Int)
    BY <2>2 DEF PoolType
  <2> QED  BY <2>1, <2>2, <2>3, LenProperties
<1>2. WellFormed(h) /\ v \in 0 .. p.next_value - 1 /\ v = decode(k, object[h].value)
  <2>1. WellFormed(h)
    BY DEF IndicesInv, ObjectsSound
  <2>2. object[h].stage # "freeing" => k \notin ArrayKinds
    OBVIOUS
  <2> QED  BY <2>1, <2>2 DEF WellFormed, Owned
<1>3. h \in Live(k) /\ Live(k)' = Live(k) \ {h}
  BY <1>1 DEF Live
<1>4. IsFiniteSet(Live(k)) /\ p.active = Cardinality(Live(k))
  BY LiveFinite DEF IndicesInv, CountsSound
<1>5. p.active > 0
  BY <1>1, <1>3, <1>4, FS_EmptySet
<1>6. v \in Int
  BY <1>1, <1>2
<1>7. /\ q \in PoolType /\ q.min_size = p.min_size /\ q.active = p.active - 1
      /\ q.next_value = p.next_value
      /\ Len(q.freed) = Len(p.freed) + 1
      /\ q.freed[Len(p.freed) + 1] = v
      /\ \A n \in 1 .. Len(p.freed) : q.freed[n] = p.freed[n]
  <2> HIDE DEF p, v
  <2> QED  BY <1>1, <1>5, <1>6, GiveToPool
<1>8. pool' = [pool EXCEPT ![k] = q] /\ failed' = FALSE
  BY <1>2, <1>5
<1> HIDE DEF p, v, q
<1>9. /\ pool'[k] = q
      /\ \A l \in Kinds \ {k} : pool'[l] = pool[l]
      /\ object'[h] = Nothing
      /\ \A g \in Handles \ {h} : object'[g] = object[g]
  BY <1>1, <1>8
<1>10. \A g \in Handles \ {h} : Owned(g)' = Owned(g) /\ WireIndex(g)' = WireIndex(g)
  BY <1>9, OthersKept
<1>11. \A l \in Kinds \ {k} : Live(l)' = Live(l)
  BY <1>9 DEF Live
<1>12. IndicesTypeOK'
  <2>1. pool' \in [Kinds -> PoolType]
    BY <1>1, <1>7, <1>8
  <2>2. object' \in [Handles -> Held \cup {Nothing}]
    BY <1>1
  <2> QED  BY <1>8, <2>1, <2>2 DEF IndicesInv, IndicesTypeOK
<1>13. ObjectsSound'
  <2>1. ASSUME NEW g \in Handles \ {h}, object'[g] # Nothing  PROVE WellFormed(g)'
    <3>1. WellFormed(g) /\ object'[g] = object[g]
      BY <1>9, <2>1 DEF IndicesInv, ObjectsSound
    <3>2. object[g].kind \in Kinds
      BY <3>1, HeldFacts DEF WellFormed
    <3>3. pool'[object[g].kind].next_value = pool[object[g].kind].next_value
      BY <1>7, <1>9, <3>2 DEF p
    <3> QED  BY <1>10, <3>1, <3>3 DEF WellFormed
  <2> QED  BY <1>9, <2>1 DEF ObjectsSound
<1>14. OwnedOnce'
  BY <1>9, <1>10 DEF OwnedOnce, IndicesInv
<1>15. FreedSound'
  <2>1. ASSUME NEW l \in Kinds \ {k}, NEW n \in 1 .. Len(pool'[l].freed)
        PROVE  /\ pool'[l].freed[n] \in 0 .. pool'[l].next_value - 1
               /\ \A m \in 1 .. Len(pool'[l].freed) :
                    pool'[l].freed[m] = pool'[l].freed[n] => m = n
               /\ \A g \in Handles :
                    (object'[g] # Nothing /\ object'[g].kind = l) =>
                       Owned(g)' # pool'[l].freed[n]
    <3>1. pool'[l] = pool[l]
      BY <1>9
    <3>2. /\ pool[l].freed[n] \in 0 .. pool[l].next_value - 1
          /\ \A m \in 1 .. Len(pool[l].freed) : pool[l].freed[m] = pool[l].freed[n] => m = n
          /\ \A g \in Handles :
               (object[g] # Nothing /\ object[g].kind = l) => Owned(g) # pool[l].freed[n]
      BY <2>1, <3>1 DEF IndicesInv, FreedSound
    <3> QED  BY <1>9, <1>10, <3>1, <3>2
  <2>2. ASSUME NEW n \in 1 .. Len(q.freed)
        PROVE  /\ q.freed[n] \in 0 .. q.next_value - 1
               /\ \A m \in 1 .. Len(q.freed) : q.freed[m] = q.freed[n] => m = n
               /\ \A g \in Handles :
                    (object'[g] # Nothing /\ object'[g].kind = k) => Owned(g)' # q.freed[n]
    <3>1. \A a \in 1 .. Len(p.freed) :
            /\ p.freed[a] \in 0 .. p.next_value - 1
            /\ \A m \in 1 .. Len(p.freed) : p.freed[m] = p.freed[a] => m = a
            /\ \A g \in Handles :
                 (object[g] # Nothing /\ object[g].kind = k) => Owned(g) # p.freed[a]
      BY DEF IndicesInv, FreedSound, p
    <3>2. \A a \in 1 .. Len(p.freed) : q.freed[a] = p.freed[a] /\ q.freed[a] # v
      BY <1>7, <3>1 DEF v
    <3>3. \A m \in 1 .. Len(q.freed) : m \in 1 .. Len(p.freed) \/ m = Len(p.freed) + 1
      BY <1>1, <1>7
    <3>4. \A g \in Handles \ {h} :
            (object[g] # Nothing /\ object[g].kind = k) => Owned(g) # v
      BY DEF IndicesInv, OwnedOnce, v
    <3>5. CASE n = Len(p.freed) + 1
      BY <1>2, <1>7, <1>9, <1>10, <3>2, <3>3, <3>4, <3>5
    <3>6. CASE n \in 1 .. Len(p.freed)
      <4>1. q.freed[n] = p.freed[n] /\ q.freed[n] # v
        BY <3>2, <3>6
      <4>2. \A m \in 1 .. Len(q.freed) : q.freed[m] = q.freed[n] => m = n
        BY <1>7, <3>1, <3>2, <3>3, <3>6, <4>1
      <4> QED  BY <1>7, <1>9, <1>10, <3>1, <3>6, <4>1, <4>2
    <3> QED  BY <3>3, <3>5, <3>6
  <2> QED  BY <1>9, <2>1, <2>2 DEF FreedSound
<1>16. CountsSound'
  <2>1. q.active = Cardinality(Live(k)')
    BY <1>3, <1>4, <1>7, FS_RemoveElement
  <2>2. /\ p.next_value = p.active + Len(p.freed)
        /\ p.min_size = IF k \in ArrayKinds THEN 0 ELSE InitialSize
        /\ k \in ArrayKinds => p.next_value <= Limit
        /\ k \notin ArrayKinds =>
             p.next_value <= InitialSize \/ p.next_value <= Cardinality(Handles)
    BY DEF IndicesInv, CountsSound, p
  <2>3. q.next_value = q.active + Len(q.freed)
    <3>1. /\ q.next_value = p.next_value /\ q.active = p.active - 1
          /\ Len(q.freed) = Len(p.freed) + 1
      BY <1>7
    <3>2. /\ p.next_value = p.active + Len(p.freed)
          /\ p.active \in Nat /\ Len(p.freed) \in Nat
      BY <1>1, <2>2
    <3> QED  BY <3>1, <3>2
  <2>4. \A l \in Kinds \ {k} : pool'[l] = pool[l] /\ Live(l)' = Live(l)
    BY <1>9, <1>11
  <2> QED  BY <1>7, <1>9, <2>1, <2>2, <2>3, <2>4 DEF CountsSound, IndicesInv
<1>17. EntryIntact'
  BY <1>9 DEF EntryIntact, IndicesInv
<1>18. AssertsHold'
  BY <1>8 DEF AssertsHold
<1> QED  BY <1>12, <1>13, <1>14, <1>15, <1>16, <1>17, <1>18 DEF IndicesInv

\* Filling or closing an entry leaves the integer with the handle.
LEMMA StageKept ==
  ASSUME "layer" \notin Kinds, IndicesInv,
         NEW h \in Handles, object[h] # Nothing, FillEntry(h) \/ CloseEntry(h)
  PROVE  IndicesInv'
<1> DEFINE k == object[h].kind
           v == Owned(h)
<1>1. /\ pool \in [Kinds -> PoolType] /\ object \in [Handles -> Held \cup {Nothing}]
      /\ entry \in [Kinds \cap ArrayKinds -> [0 .. Limit - 1 -> Int]]
  BY DEF IndicesInv, IndicesTypeOK
<1>2. WellFormed(h)
  BY DEF IndicesInv, ObjectsSound
<1>3. k \in Kinds /\ object[h].stage \in {"filling", "live", "freeing"}
  BY <1>2, HeldFacts DEF WellFormed
<1>4. k \in ArrayKinds
  BY <1>2 DEF FillEntry, CloseEntry, WellFormed
<1>5. object[h].stage # "freeing" /\ object[h].value = v
  BY <1>4 DEF FillEntry, CloseEntry, Owned
<1>6. pool[k].next_value \in Nat /\ pool[k].next_value <= Limit
  <2>1. pool[k] \in PoolType
    BY <1>1, <1>3
  <2>2. pool[k].next_value \in Nat
    BY <2>1 DEF PoolType
  <2> QED  BY <1>3, <1>4, <2>2 DEF IndicesInv, CountsSound
<1>7. v \in 0 .. pool[k].next_value - 1
  BY <1>2 DEF WellFormed
<1>8. v \in Int /\ v \in 0 .. Limit - 1
  BY <1>6, <1>7, KindFacts
<1> HIDE DEF v
<1>9. encode(k, v) \in Int /\ decode(k, encode(k, v)) = v
  <2> HIDE DEF k
  <2>1. k \in {"buffer", "client_stream", "user_stream", "object"}
    BY <1>3, KindFacts
  <2> QED  BY <1>8, <2>1, Decoding
<1>10. pool' = pool /\ failed' = failed
  BY DEF FillEntry, CloseEntry
<1>11. PICK e \in Int, s \in {"live", "freeing"}, i \in Int :
         /\ entry' = [entry EXCEPT ![k][v] = e]
         /\ object'[h] = [stage |-> s, kind |-> k, value |-> i]
         /\ s = "live" => e = encode(k, v) /\ i = v
         /\ s = "freeing" => i = encode(k, v)
         /\ object' = [object EXCEPT ![h] = [stage |-> s, kind |-> k, value |-> i]]
  <2>0. object[h] \in Held
    BY <1>2 DEF WellFormed
  <2>1. CASE FillEntry(h)
    <3>1. /\ entry' = [entry EXCEPT ![k][v] = encode(k, v)]
          /\ object' = [object EXCEPT ![h].stage = "live"]
      BY <1>5, <2>1 DEF FillEntry
    <3>2. [object[h] EXCEPT !.stage = "live"] = [stage |-> "live", kind |-> k, value |-> v]
      BY <1>5, <2>0 DEF Held
    <3>3. object' = [object EXCEPT ![h] = [stage |-> "live", kind |-> k, value |-> v]]
      BY <3>1, <3>2
    <3>4. object'[h] = [stage |-> "live", kind |-> k, value |-> v]
      BY <1>1, <3>3
    <3> QED  BY <1>8, <1>9, <3>1, <3>3, <3>4
  <2>2. CASE CloseEntry(h)
    <3>1. entry[k][v] = encode(k, v)
      BY <1>4, <1>5, <2>2 DEF CloseEntry, IndicesInv, EntryIntact
    <3>2. /\ entry' = [entry EXCEPT ![k][v] = CLOSED]
          /\ object' = [object EXCEPT ![h].stage = "freeing", ![h].value = encode(k, v)]
      BY <1>5, <2>2, <3>1 DEF CloseEntry
    <3>3. [object[h] EXCEPT !.stage = "freeing", !.value = encode(k, v)]
            = [stage |-> "freeing", kind |-> k, value |-> encode(k, v)]
      BY <1>9, <2>0, ClosedRecord
    <3>4. object' = [object EXCEPT ![h] =
                       [object[h] EXCEPT !.stage = "freeing", !.value = encode(k, v)]]
      BY <1>1, <3>2
    <3>5. object' = [object EXCEPT ![h] =
                       [stage |-> "freeing", kind |-> k, value |-> encode(k, v)]]
      BY <3>3, <3>4
    <3>6. object'[h] = [stage |-> "freeing", kind |-> k, value |-> encode(k, v)]
      BY <1>1, <3>5
    <3>7. CLOSED \in Int
      BY DEF CLOSED
    <3> QED  BY <1>9, <3>2, <3>5, <3>6, <3>7
  <2> QED  BY <2>1, <2>2
<1>12. object'[h] \in Held /\ object'[h] # Nothing /\ object'[h].kind = k
  <2>1. object'[h] \in Held
    BY <1>3, <1>11 DEF Held
  <2> QED  BY <1>11, <2>1, HeldFacts
<1>13. \A g \in Handles \ {h} : object'[g] = object[g]
  BY <1>1, <1>11
<1>14. Owned(h)' = v /\ WireIndex(h)' = encode(k, v)
  <2>1. CASE s = "live"
    BY <1>4, <1>11, <1>12, <2>1 DEF Owned, WireIndex
  <2>2. CASE s = "freeing"
    BY <1>9, <1>11, <1>12, <2>2 DEF Owned, WireIndex
  <2> QED  BY <1>11, <2>1, <2>2
<1>15. \A g \in Handles : Owned(g)' = Owned(g)
  BY <1>13, <1>14, OthersKept DEF v
<1>16. \A g \in Handles \ {h} : WireIndex(g)' = WireIndex(g)
  BY <1>13, OthersKept
<1>17. \A g \in Handles : /\ object'[g] # Nothing <=> object[g] # Nothing
                          /\ object[g] # Nothing => object'[g].kind = object[g].kind
  BY <1>12, <1>13
<1>18. \A l \in Kinds : Live(l)' = Live(l)
  BY <1>17 DEF Live
<1>19. IndicesTypeOK'
  <2>1. object' \in [Handles -> Held \cup {Nothing}]
    BY <1>1, <1>11, <1>12
  <2>2. entry' \in [Kinds \cap ArrayKinds -> [0 .. Limit - 1 -> Int]]
    BY <1>1, <1>3, <1>4, <1>8, <1>11
  <2> QED  BY <1>10, <2>1, <2>2 DEF IndicesInv, IndicesTypeOK
<1>20. ObjectsSound'
  <2>1. WellFormed(h)'
    BY <1>4, <1>7, <1>10, <1>12, <1>14 DEF WellFormed
  <2>2. ASSUME NEW g \in Handles \ {h}, object'[g] # Nothing  PROVE WellFormed(g)'
    <3>1. WellFormed(g) /\ object'[g] = object[g]
      BY <1>13, <2>2 DEF IndicesInv, ObjectsSound
    <3> QED  BY <1>10, <1>15, <1>16, <3>1 DEF WellFormed
  <2> QED  BY <2>1, <2>2 DEF ObjectsSound
<1>21. OwnedOnce'
  BY <1>15, <1>17 DEF OwnedOnce, IndicesInv
<1>22. FreedSound'
  BY <1>10, <1>15, <1>17 DEF FreedSound, IndicesInv
<1>23. CountsSound'
  BY <1>10, <1>18 DEF CountsSound, IndicesInv
<1>24. EntryIntact'
  <2>1. ASSUME NEW g \in Handles \ {h}, object'[g] # Nothing,
               object'[g].kind \in ArrayKinds, object'[g].stage = "live"
        PROVE  entry'[object'[g].kind][object'[g].value]
                 = encode(object'[g].kind, object'[g].value)
    <3>1. object'[g] = object[g] /\ object[g] # Nothing
      BY <1>13, <2>1
    <3>2. entry[object[g].kind][object[g].value] = encode(object[g].kind, object[g].value)
      BY <2>1, <3>1 DEF IndicesInv, EntryIntact
    <3>3. object[g].kind # k \/ object[g].value # v
      BY <2>1, <3>1 DEF IndicesInv, OwnedOnce, Owned, v
    <3>4. object[g].kind \in Kinds \cap ArrayKinds /\ object[g].value \in 0 .. Limit - 1
      <4>1. WellFormed(g) /\ object[g].kind \in Kinds
        BY <3>1, HeldFacts DEF IndicesInv, ObjectsSound, WellFormed
      <4>2. object[g].value \in 0 .. pool[object[g].kind].next_value - 1
        BY <2>1, <3>1, <4>1 DEF WellFormed, Owned
      <4>3. pool[object[g].kind] \in PoolType
        BY <1>1, <4>1
      <4>4. /\ pool[object[g].kind].next_value \in Nat
            /\ pool[object[g].kind].next_value <= Limit
        BY <2>1, <3>1, <4>1, <4>3 DEF PoolType, IndicesInv, CountsSound
      <4> QED  BY <2>1, <3>1, <4>1, <4>2, <4>4, KindFacts
    <3>5. entry'[object[g].kind][object[g].value] = entry[object[g].kind][object[g].value]
      BY <1>1, <1>3, <1>4, <1>11, <3>3, <3>4
    <3> QED  BY <3>1, <3>2, <3>5
  <2>2. object'[h].stage = "live" =>
          entry'[object'[h].kind][object'[h].value] = encode(object'[h].kind, object'[h].value)
    BY <1>1, <1>3, <1>4, <1>8, <1>11
  <2> QED  BY <2>1, <2>2 DEF EntryIntact
<1>25. AssertsHold'
  BY <1>10 DEF AssertsHold, IndicesInv
<1> QED  BY <1>19, <1>20, <1>21, <1>22, <1>23, <1>24, <1>25 DEF IndicesInv

-----------------------------------------------------------------------------

\* A new client and user have nothing held and empty pools
\* (guac_client_alloc(), guac_user_alloc()).
LEMMA IndicesInitially ==
  ASSUME "layer" \notin Kinds, IndicesInit
  PROVE  IndicesInv
<1>1. /\ object = [h \in Handles |-> Nothing]
      /\ entry = [k \in Kinds \cap ArrayKinds |-> [v \in 0 .. Limit - 1 |-> CLOSED]]
      /\ failed = FALSE
      /\ pool = [k \in Kinds |->
                   guac_pool_alloc(IF k \in ArrayKinds THEN 0 ELSE InitialSize)]
  BY DEF IndicesInit
<1>2. \A k \in Kinds :
        /\ pool[k] \in PoolType
        /\ pool[k].active = 0 /\ pool[k].next_value = 0
        /\ pool[k].freed = << >>
        /\ pool[k].min_size = IF k \in ArrayKinds THEN 0 ELSE InitialSize
  BY <1>1, KindFacts DEF guac_pool_alloc, PoolType
<1>3. \A h \in Handles : object[h] = Nothing
  BY <1>1
<1>4. IndicesTypeOK
  <2>1. pool \in [Kinds -> PoolType]
    BY <1>1, <1>2
  <2>2. object \in [Handles -> Held \cup {Nothing}]
    BY <1>1
  <2>3. entry \in [Kinds \cap ArrayKinds -> [0 .. Limit - 1 -> Int]]
    BY <1>1 DEF CLOSED
  <2> QED  BY <1>1, <2>1, <2>2, <2>3 DEF IndicesTypeOK
<1>5. ObjectsSound /\ OwnedOnce /\ EntryIntact /\ AssertsHold
  BY <1>1, <1>3 DEF ObjectsSound, OwnedOnce, EntryIntact, AssertsHold
<1>6. FreedSound
  BY <1>2 DEF FreedSound
<1>7. CountsSound
  <2> SUFFICES ASSUME NEW k \in Kinds
               PROVE  /\ pool[k].active = Cardinality(Live(k))
                      /\ pool[k].next_value = pool[k].active + Len(pool[k].freed)
                      /\ pool[k].min_size = IF k \in ArrayKinds THEN 0 ELSE InitialSize
                      /\ k \in ArrayKinds => pool[k].next_value <= Limit
                      /\ k \notin ArrayKinds => pool[k].next_value <= InitialSize
    BY DEF CountsSound
  <2>1. Live(k) = {}
    BY <1>3 DEF Live
  <2>2. Cardinality({}) = 0
    BY FS_EmptySet
  <2>3. pool[k].next_value = 0 /\ pool[k].active = 0 /\ Len(pool[k].freed) = 0
    BY <1>2, EmptySeq
  <2> QED  BY <1>2, <2>1, <2>2, <2>3, KindFacts
<1> QED  BY <1>4, <1>5, <1>6, <1>7 DEF IndicesInv

\* Every allocation and every free keeps the invariant (client.c, user.c,
\* pool.c).
LEMMA IndicesStep ==
  ASSUME "layer" \notin Kinds, IndicesInv, [IndicesNext]_indexVars
  PROVE  IndicesInv'
<1>1. CASE UNCHANGED indexVars
  <2>1. pool' = pool /\ entry' = entry /\ object' = object /\ failed' = failed
    BY <1>1 DEF indexVars
  <2>2. \A h : Owned(h)' = Owned(h) /\ WireIndex(h)' = WireIndex(h)
    BY <2>1 DEF Owned, WireIndex
  <2>3. \A k : Live(k)' = Live(k)
    BY <2>1 DEF Live
  <2>4. IndicesTypeOK' /\ AssertsHold' /\ EntryIntact'
    BY <2>1 DEF IndicesInv, IndicesTypeOK, AssertsHold, EntryIntact
  <2>5. ObjectsSound' /\ OwnedOnce'
    BY <2>1, <2>2 DEF IndicesInv, ObjectsSound, WellFormed, OwnedOnce
  <2>6. FreedSound'
    BY <2>1, <2>2 DEF IndicesInv, FreedSound
  <2>7. CountsSound'
    BY <2>1, <2>3 DEF IndicesInv, CountsSound
  <2> QED  BY <2>4, <2>5, <2>6, <2>7 DEF IndicesInv
<1>2. ASSUME NEW h \in Handles, NEW k \in Kinds, AllocHeap(h, k)
      PROVE  IndicesInv'
  <2>1. object[h] = Nothing /\ k \notin ArrayKinds
    BY <1>2 DEF AllocHeap
  <2>2. next_int_asserts(pool[k]) = TRUE
    BY <2>1, DrawAsserts DEF next_int_asserts
  <2>3. Draw(h, k, "live", encode(k, next_int(pool[k])), TRUE)
    BY <1>2, <2>2 DEF AllocHeap
  <2> QED  BY <2>1, <2>3, DrawKept
<1>3. ASSUME NEW h \in Handles, NEW k \in Kinds, AllocArray(h, k)
      PROVE  IndicesInv'
  <2>1. object[h] = Nothing /\ k \in ArrayKinds /\ ~refuses_below(pool[k], Limit)
    BY <1>3 DEF AllocArray
  <2>2. (next_int_asserts(pool[k]) /\ next_int(pool[k]) < Limit) = TRUE
    BY <2>1, DrawAsserts
  <2>3. Draw(h, k, "filling", next_int(pool[k]), TRUE)
    BY <1>3, <2>2 DEF AllocArray
  <2> QED  BY <2>1, <2>3, DrawKept
<1>4. ASSUME NEW h \in Handles, FreeHeap(h) \/ ReturnIndex(h)
      PROVE  IndicesInv'
  <2> DEFINE k == object[h].kind
  <2>1. object[h] # Nothing
    BY <1>4 DEF FreeHeap, ReturnIndex
  <2>2. k \in Kinds
    BY <2>1, HeldFacts DEF IndicesInv, ObjectsSound, WellFormed
  <2>3. /\ k \in ArrayKinds => object[h].stage = "freeing"
        /\ pool' = [pool EXCEPT ![k] = guac_pool_free_int(@, decode(k, object[h].value))]
        /\ object' = [object EXCEPT ![h] = Nothing]
        /\ entry' = entry
        /\ failed' = ~(pool[k].active > 0)
    BY <1>4 DEF FreeHeap, ReturnIndex
  <2> QED  BY <2>1, <2>2, <2>3, ReleaseKept
<1>5. ASSUME NEW h \in Handles, FillEntry(h) \/ CloseEntry(h)
      PROVE  IndicesInv'
  BY <1>5, StageKept DEF FillEntry, CloseEntry
<1> QED  BY <1>1, <1>2, <1>3, <1>4, <1>5 DEF IndicesNext

\* What the inductive invariant says of indices and counts.
LEMMA IndicesImplied ==
  ASSUME "layer" \notin Kinds, IndicesInv
  PROVE  IndicesSound /\ NoneLost
<1>1. UniqueIndices
  <2> SUFFICES ASSUME NEW g \in Handles, NEW h \in Handles, g # h,
                      object[g] # Nothing, object[h] # Nothing,
                      SameSpace(object[g].kind, object[h].kind),
                      WireIndex(g) = WireIndex(h)
               PROVE  FALSE
    BY DEF UniqueIndices
  <2> DEFINE k == object[g].kind
             l == object[h].kind
  <2>1. WellFormed(g) /\ WellFormed(h)
    BY DEF IndicesInv, ObjectsSound
  <2>2. /\ k \in Kinds /\ l \in Kinds
        /\ WireIndex(g) = encode(k, Owned(g)) /\ WireIndex(h) = encode(l, Owned(h))
        /\ Owned(g) \in 0 .. pool[k].next_value - 1
        /\ Owned(h) \in 0 .. pool[l].next_value - 1
    BY <2>1, HeldFacts DEF WellFormed
  <2>3. pool[k] \in PoolType /\ pool[l] \in PoolType
    BY <2>2 DEF IndicesInv, IndicesTypeOK
  <2>4. pool[k].next_value \in Nat /\ pool[l].next_value \in Nat
    BY <2>3 DEF PoolType
  <2>5. Owned(g) \in Int /\ Owned(h) \in Int
    BY <2>2, <2>4
  <2>6. k = l /\ Owned(g) = Owned(h)
    <3> HIDE DEF k, l
    <3>1. /\ k \in {"buffer", "client_stream", "user_stream", "object"}
          /\ l \in {"buffer", "client_stream", "user_stream", "object"}
      BY <2>2, KindFacts
    <3>2. SameSpace(k, l) /\ encode(k, Owned(g)) = encode(l, Owned(h))
      BY <2>2 DEF k, l
    <3> QED  BY <2>5, <3>1, <3>2, EncodedApart
  <2> QED  BY <2>6 DEF IndicesInv, OwnedOnce
<1>2. Conserved
  <2> SUFFICES ASSUME NEW k \in Kinds
               PROVE  LET p == pool[k]
                          freed == {p.freed[n] : n \in 1 .. Len(p.freed)} IN
                      /\ p.active = Cardinality(Live(k))
                      /\ p.next_value = p.active + Len(p.freed)
                      /\ Cardinality(freed) = Len(p.freed)
                      /\ freed \subseteq 0 .. p.next_value - 1
    BY DEF Conserved
  <2> DEFINE p == pool[k]
             freed == {p.freed[n] : n \in 1 .. Len(p.freed)}
  <2>1. p \in PoolType
    BY DEF IndicesInv, IndicesTypeOK
  <2>2. p.freed \in Seq(Int) /\ Len(p.freed) \in Nat /\ p.freed \in [1 .. Len(p.freed) -> Int]
    <3>1. p.freed \in Seq(Int)
      BY <2>1 DEF PoolType
    <3> QED  BY <3>1, LenProperties
  <2>3. \A n \in 1 .. Len(p.freed) :
          /\ p.freed[n] \in 0 .. p.next_value - 1
          /\ \A m \in 1 .. Len(p.freed) : p.freed[m] = p.freed[n] => m = n
    BY DEF IndicesInv, FreedSound
  <2>4. freed \subseteq 0 .. p.next_value - 1
    BY <2>3
  <2>5. Cardinality(freed) = Len(p.freed)
    <3>1. p.freed \in Bijection(1 .. Len(p.freed), freed)
      BY <2>2, <2>3 DEF Bijection, Injection, Surjection, IsInjective
    <3>2. ExistsBijection(1 .. Len(p.freed), freed)
      BY <3>1 DEF ExistsBijection
    <3> QED  BY <2>2, <3>2, FS_CountingElements
  <2> QED  BY <2>4, <2>5 DEF IndicesInv, CountsSound
<1>3. RefusedOnlyWhenFull
  <2> SUFFICES ASSUME NEW k \in Kinds \cap ArrayKinds, refuses_below(pool[k], Limit)
               PROVE  Cardinality(Live(k)) >= Limit
    BY DEF RefusedOnlyWhenFull
  <2>1. pool[k] \in PoolType
    BY DEF IndicesInv, IndicesTypeOK
  <2>2. pool[k].active \in Nat /\ pool[k].next_value \in Nat
    BY <2>1 DEF PoolType
  <2>3. /\ pool[k].active = Cardinality(Live(k))
        /\ pool[k].next_value = pool[k].active + Len(pool[k].freed)
    BY DEF IndicesInv, CountsSound
  <2>4. pool[k].freed = << >> => pool[k].next_value = pool[k].active
    BY <2>2, <2>3
  <2> QED  BY <2>2, <2>3, <2>4, KindFacts DEF refuses_below
<1> QED  BY <1>1, <1>2, <1>3 DEF IndicesInv, IndicesSound, NoneLost

\* Whatever threads allocate and free, in whichever order their calls
\* interleave, and for all sizes: indices of objects in use are distinct, no
\* assertion of pool.c fails and nobody's array entry is touched by others
\* (client.c, user.c), as long as no layer, which is freed under the index
\* after its own, is among them.
THEOREM IndicesSafe ==
  ASSUME "layer" \notin Kinds
  PROVE  IndicesSpec => []IndicesSound
<1>1. IndicesInit => IndicesInv
  BY IndicesInitially
<1>2. IndicesInv /\ [IndicesNext]_indexVars => IndicesInv'
  BY IndicesStep
<1>3. IndicesInv => IndicesSound
  BY IndicesImplied
<1> QED  BY <1>1, <1>2, <1>3, PTL DEF IndicesSpec

\* Under the same condition pool.c neither loses an integer nor has it twice,
\* and a bounded pool refuses only when its limit is reached.
THEOREM IndicesNoneLost ==
  ASSUME "layer" \notin Kinds
  PROVE  IndicesSpec => []NoneLost
<1>1. IndicesInit => IndicesInv
  BY IndicesInitially
<1>2. IndicesInv /\ [IndicesNext]_indexVars => IndicesInv'
  BY IndicesStep
<1>3. IndicesInv => NoneLost
  BY IndicesImplied
<1> QED  BY <1>1, <1>2, <1>3, PTL DEF IndicesSpec

=============================================================================
