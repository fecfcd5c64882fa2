------------------------------ MODULE GuacPool ------------------------------
(***************************************************************************)
(* The pool of reusable integers of src/libguac/pool.c, as operators on a  *)
(* pool record:                                                            *)
(*                                                                         *)
(*   min_size    integers to hand out before any freed one is reused,      *)
(*   active      integers in use,                                          *)
(*   next_value  the next integer never handed out,                        *)
(*   freed       the freed integers, oldest first (the linked list).       *)
(*                                                                         *)
(* Every operation runs under the pool's mutex and is atomic.              *)
(***************************************************************************)
EXTENDS Integers, Sequences

CONSTANT INT_MAX   \* the largest int

ASSUME IntAssumption == INT_MAX \in Nat

PoolType ==
  [min_size : Nat, active : Nat, next_value : Nat, freed : Seq(Int)]

guac_pool_alloc(size) ==
  [min_size |-> size, active |-> 0, next_value |-> 0, freed |-> << >>]

\* __guac_pool_next_int(): a new integer if none is free or too few have been
\* handed out yet, else the one freed longest ago.
NeedsNew(p) == p.freed = << >> \/ p.next_value < p.min_size

next_int(p) == IF NeedsNew(p) THEN p.next_value ELSE Head(p.freed)

next_int_pool(p) ==
  IF NeedsNew(p)
  THEN [p EXCEPT !.active = @ + 1, !.next_value = @ + 1]
  ELSE [p EXCEPT !.active = @ + 1, !.freed = Tail(@)]

next_int_asserts(p) ==
  p.next_value < INT_MAX /\ p.active < INT_MAX /\ next_int(p) >= 0

\* guac_pool_next_int_below() answers -1 when this holds.
MutantIgnoresFreed(p, limit) == p.active >= limit \/ p.next_value >= limit

refuses_below(p, limit) ==
  p.active >= limit \/ (p.next_value >= limit /\ p.freed = << >>)

guac_pool_free_int(p, value) ==
  [p EXCEPT !.active = @ - 1, !.freed = Append(@, value)]

=============================================================================
