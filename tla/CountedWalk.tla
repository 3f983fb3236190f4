---------------------------- MODULE CountedWalk ----------------------------
(***************************************************************************)
(* The walk over the slots of an ArrayList that proc_waiter.c and          *)
(* signal_handler.c make.  The loop counts the items it has met and ends   *)
(* when it has met as many as the list holds; ArrayList_remove_by_ptr      *)
(* empties a slot and takes one off what the list holds, so that a removal *)
(* during the walk brings its end one item nearer.                         *)
(***************************************************************************)
EXTENDS Integers, Sequences, FiniteSets

Empty == "empty"   \* a slot that is NULL

Occupied(slots) == {i \in DOMAIN slots : slots[i] # Empty}

(* The slots the walk gets to, if it removes what it meets in 'gone'.      *)
Met(slots, gone) ==
  {i \in Occupied(slots) :
     Cardinality({j \in Occupied(slots) : j <= i}) + Cardinality({j \in gone : j < i})
       <= Cardinality(Occupied(slots))}

(* What the walk leaves.                                                   *)
Left(slots, gone) ==
  [i \in DOMAIN slots |-> IF i \in Met(slots, gone) \cap gone THEN Empty ELSE slots[i]]

(* ArrayList_shrink: the items move together, in their order.              *)
Shrunk(slots) ==
  LET Nth(n) == CHOOSE i \in Occupied(slots) : Cardinality({j \in Occupied(slots) : j <= i}) = n
  IN [n \in 1..Cardinality(Occupied(slots)) |-> slots[Nth(n)]]

(* ArrayList_add: the first empty slot is filled.                          *)
Added(slots, item) ==
  LET i == CHOOSE k \in DOMAIN slots \ Occupied(slots) : \A l \in DOMAIN slots \ Occupied(slots) : k <= l
  IN [slots EXCEPT ![i] = item]
=============================================================================
