----------------------------- MODULE Capacities ----------------------------
(***************************************************************************)
(* The sizes callers give to newArrayList_ex (source/ArrayList.c), and     *)
(* through it to newMemPool_ex (source/MemPool.c).                         *)
(***************************************************************************)
EXTENDS Integers

CONSTANTS
  StartCap,  \* start_capacity, start_cap
  MaxCap,    \* max_capacity, max_cap
  TopCap     \* bound: the largest capacity callers ask for

ASSUME CapAssumption ==
  StartCap \in Nat /\ MaxCap \in Nat \ {0} /\ StartCap <= MaxCap /\ TopCap \in Nat
=============================================================================
