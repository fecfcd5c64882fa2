--------------------------- MODULE PooledIndices ---------------------------
(***************************************************************************)
(* The indices of layers, buffers, streams and objects, which client.c and *)
(* user.c draw from pools and give back.  Each kind encodes an integer of  *)
(* its pool as an index and decodes it again when the object is freed.     *)
(*                                                                         *)
(* A layer or buffer is a structure of its own.  A stream or object is an  *)
(* entry of an array, found through the pooled integer and visible to all  *)
(* threads; allocating and freeing one are therefore two steps, the pool   *)
(* operation and the writes to the entry, in the order of the code.        *)
(***************************************************************************)
EXTENDS GuacPool, FiniteSets

CONSTANTS Kinds,       \* the kinds of index in play
          Handles,     \* the variables in which threads keep what they allocate
          InitialSize, \* GUAC_BUFFER_POOL_INITIAL_SIZE
          Limit        \* GUAC_CLIENT_MAX_STREAMS, GUAC_USER_MAX_STREAMS and
                       \* GUAC_USER_MAX_OBJECTS

AllKinds   == {"layer", "buffer", "client_stream", "user_stream", "object"}
ArrayKinds == {"client_stream", "user_stream", "object"}

ASSUME KindAssumption == Kinds \subseteq AllKinds
ASSUME LimitAssumption == InitialSize \in Nat /\ Limit \in Nat

\* The sizes of the code are far below INT_MAX, and no process has memory for
\* INT_MAX objects.
ASSUME SizesAssumption ==
  /\ IsFiniteSet(Handles)
  /\ InitialSize < INT_MAX
  /\ Limit < INT_MAX
  /\ Cardinality(Handles) < INT_MAX

VARIABLES pool,    \* the pool of each kind
          entry,   \* the index field of each array entry
          object,  \* what each handle refers to, and how far its call has got
          failed   \* TRUE once a GUAC_ASSERT() has failed

indexVars == <<pool, entry, object, failed>>

CLOSED == -1       \* GUAC_*_CLOSED_STREAM_INDEX, _UNDEFINED_OBJECT_INDEX

encode(k, v) ==
  CASE k = "layer"         -> v + 1
    [] k = "buffer"        -> -v - 1
    [] k = "client_stream" -> v * 2 + 1
    [] k = "user_stream"   -> v * 2
    [] k = "object"        -> v

\* Mutant: the index of a client stream is halved twice.
MutantDecode(k, i) ==
  CASE k = "layer"         -> i
    [] k = "buffer"        -> -i - 1
    [] k = "client_stream" -> (i - 1) \div 4
    [] k = "user_stream"   -> i \div 2
    [] k = "object"        -> i

\* The layer's index goes back to the pool as it is, although the layer got it
\* with one added.
decode(k, i) ==
  CASE k = "layer"         -> i
    [] k = "buffer"        -> -i - 1
    [] k = "client_stream" -> (i - 1) \div 2
    [] k = "user_stream"   -> i \div 2
    [] k = "object"        -> i

\* A handle holds nothing; an integer not yet written to its entry; a finished
\* object with its index; or the index of an object whose entry is closed.
Nothing == [stage |-> "none"]
Held == [stage : {"filling", "live", "freeing"}, kind : Kinds, value : Int]

IndicesTypeOK ==
  /\ pool \in [Kinds -> PoolType]
  /\ entry \in [Kinds \cap ArrayKinds -> [0 .. Limit - 1 -> Int]]
  /\ object \in [Handles -> Held \cup {Nothing}]
  /\ failed \in BOOLEAN

\* guac_client_alloc() and guac_user_alloc()
IndicesInit ==
  /\ pool = [k \in Kinds |->
               guac_pool_alloc(IF k \in ArrayKinds THEN 0 ELSE InitialSize)]
  /\ entry = [k \in Kinds \cap ArrayKinds |-> [v \in 0 .. Limit - 1 |-> CLOSED]]
  /\ object = [h \in Handles |-> Nothing]
  /\ failed = FALSE

-----------------------------------------------------------------------------
\* Take an integer, or abort the process.
Draw(h, k, stage, value, asserts) ==
  /\ failed' = ~asserts
  /\ pool' = [pool EXCEPT ![k] = next_int_pool(@)]
  /\ object' = [object EXCEPT ![h] =
                  [stage |-> stage, kind |-> k, value |-> value]]
  /\ UNCHANGED entry

\* guac_client_alloc_layer(), guac_client_alloc_buffer()
AllocHeap(h, k) ==
  /\ ~failed
  /\ k \notin ArrayKinds
  /\ object[h] = Nothing
  /\ Draw(h, k, "live", encode(k, next_int(pool[k])), next_int_asserts(pool[k]))

\* guac_client_free_layer(), guac_client_free_buffer()
FreeHeap(h) ==
  /\ ~failed
  /\ object[h] # Nothing
  /\ LET k == object[h].kind IN
       /\ k \notin ArrayKinds
       /\ failed' = ~(pool[k].active > 0)
       /\ pool' = [pool EXCEPT ![k] =
                     guac_pool_free_int(@, decode(k, object[h].value))]
  /\ object' = [object EXCEPT ![h] = Nothing]
  /\ UNCHANGED entry

\* guac_client_alloc_stream(), guac_user_alloc_stream() and
\* guac_user_alloc_object(): the pool first.  A refusal returns NULL.
AllocArray(h, k) ==
  /\ ~failed
  /\ k \in ArrayKinds
  /\ object[h] = Nothing
  /\ ~refuses_below(pool[k], Limit)
  /\ Draw(h, k, "filling", next_int(pool[k]),
          next_int_asserts(pool[k]) /\ next_int(pool[k]) < Limit)

\* ... then the entry.
FillEntry(h) ==
  /\ ~failed
  /\ object[h] # Nothing
  /\ object[h].stage = "filling"
  /\ LET k == object[h].kind
         v == object[h].value IN
       /\ entry' = [entry EXCEPT ![k][v] = encode(k, v)]
       /\ object' = [object EXCEPT ![h].stage = "live"]
  /\ UNCHANGED <<pool, failed>>

\* guac_client_free_stream() and its like: remember the index and close the
\* entry ...
CloseEntry(h) ==
  /\ ~failed
  /\ object[h] # Nothing
  /\ object[h].stage = "live"
  /\ LET k == object[h].kind
         v == object[h].value IN
       /\ k \in ArrayKinds
       /\ entry' = [entry EXCEPT ![k][v] = CLOSED]
       /\ object' = [object EXCEPT ![h].stage = "freeing",
                                   ![h].value = entry[k][v]]
  /\ UNCHANGED <<pool, failed>>

\* ... then give the integer back.
ReturnIndex(h) ==
  /\ ~failed
  /\ object[h] # Nothing
  /\ object[h].stage = "freeing"
  /\ LET k == object[h].kind IN
       /\ failed' = ~(pool[k].active > 0)
       /\ pool' = [pool EXCEPT ![k] =
                     guac_pool_free_int(@, decode(k, object[h].value))]
  /\ object' = [object EXCEPT ![h] = Nothing]
  /\ UNCHANGED entry

IndicesNext ==
  \E h \in Handles :
    \/ \E k \in Kinds : AllocHeap(h, k) \/ AllocArray(h, k)
    \/ FreeHeap(h)
    \/ FillEntry(h)
    \/ CloseEntry(h)
    \/ ReturnIndex(h)

IndicesSpec == IndicesInit /\ [][IndicesNext]_indexVars

-----------------------------------------------------------------------------
Live(k) == {h \in Handles : object[h] # Nothing /\ object[h].kind = k}

\* The index under which h's object is known to connected users.
WireIndex(h) ==
  IF object[h].kind \in ArrayKinds /\ object[h].stage # "freeing"
  THEN encode(object[h].kind, object[h].value)
  ELSE object[h].value

Streams == {"client_stream", "user_stream"}
SameSpace(k, l) == k = l \/ {k, l} \subseteq Streams

\* No two objects in use have the same index on the wire: layers among layers,
\* and streams of the client among streams of the client and of the user.  (It
\* does not hold if "layer" is one of the Kinds: see decode.)
UniqueIndices ==
  \A g, h \in Handles :
    ( /\ g # h
      /\ object[g] # Nothing /\ object[h] # Nothing
      /\ SameSpace(object[g].kind, object[h].kind) )
    => WireIndex(g) # WireIndex(h)

\* The GUAC_ASSERT()s of pool.c hold: no negative integer, none at or beyond the
\* limit, and never more integers freed than were in use.
AssertsHold == ~failed

\* A stream or object that its owner has not freed is never closed or given
\* another index by the allocation or release of a different one.
EntryIntact ==
  \A h \in Handles :
    (object[h] # Nothing /\ object[h].kind \in ArrayKinds /\ object[h].stage = "live")
      => entry[object[h].kind][object[h].value]
           = encode(object[h].kind, object[h].value)

\* Every integer ever handed out is either in use or free, exactly once, so that
\* none is lost and none is available twice.
Conserved ==
  \A k \in Kinds :
    LET p == pool[k]
        freed == {p.freed[n] : n \in 1 .. Len(p.freed)} IN
    /\ p.active = Cardinality(Live(k))
    /\ p.next_value = p.active + Len(p.freed)
    /\ Cardinality(freed) = Len(p.freed)
    /\ freed \subseteq 0 .. p.next_value - 1

\* pool.h: -1 "if all integers are currently in use and no integer can be
\* returned without reaching the given limit", and only then.
RefusedOnlyWhenFull ==
  \A k \in Kinds \cap ArrayKinds :
    refuses_below(pool[k], Limit) => Cardinality(Live(k)) >= Limit

\* Whatever is allocated and freed: no two objects in use have the same index
\* on the wire, the assertions of pool.c hold, and the array entry of a stream
\* or object in use is its own.
IndicesSound ==
  /\ IndicesTypeOK
  /\ UniqueIndices
  /\ AssertsHold
  /\ EntryIntact

\* No integer of a pool is lost or available twice, and a bounded pool refuses
\* only when as many objects as its limit are in use.
NoneLost ==
  /\ Conserved
  /\ RefusedOnlyWhenFull

=============================================================================
