----------------------------- MODULE ArrayList -----------------------------
(***************************************************************************)
(* The growable array of owned pointers of source/ArrayList.c.             *)
(*                                                                         *)
(* A pointer is a natural number and NULL is 0.  'list' is the allocation  *)
(* behind list->list, so its length is what was really allocated; the      *)
(* member 'capacity' is kept apart from it.  The loops that walk the array *)
(* until 'count' items were met have no other bound, and two of them call  *)
(* the delete callback on the way: they are modelled one iteration at a    *)
(* time.  The _tsafe functions hold the list's mutex around one call, so   *)
(* no other call of theirs starts before 'pc' is "idle" again.             *)
(***************************************************************************)
EXTENDS Capacities, Sequences, FiniteSets

CONSTANT Item   \* the pointers callers add

NULL == 0

ASSUME ItemAssumption == Item \subseteq Nat \ {NULL} /\ IsFiniteSet(Item)

VARIABLES
  list,      \* the allocated slots, a sequence over Item and NULL
  capacity,  \* list->capacity
  count,     \* list->count
  owner,     \* who has to free an item: "caller", "list", or nobody ("freed")
  pc,        \* the loop in progress: "idle" when there is none
  todo,      \* what follows that loop: "sort", "delete" or "none"
  it,        \* list_it, item_it or array_it of the loop
  end,       \* array_end_it of ArrayList_sift
  temp,      \* temp_list of ArrayList_resize
  i,         \* items copied to it so far
  fault      \* TRUE once the code went outside of the allocation

vars == <<list, capacity, count, owner, pc, todo, it, end, temp, i, fault>>
loopVars == <<pc, todo, it, end, temp, i>>

Filled(s, from) == {n \in from..Len(s) : s[n] # NULL}
Slots(s) == Filled(s, 1)
Held(s)  == {s[n] : n \in Slots(s)}

Empty(n) == [k \in 1..n |-> NULL]

FirstOf(S) == CHOOSE n \in S : \A m \in S : n <= m
LastOf(S)  == CHOOSE n \in S : \A m \in S : n >= m

-----------------------------------------------------------------------------
(* Look-ups.  They change nothing.                                         *)

ArrayList_get_first_item ==
  IF Slots(list) = {} THEN NULL ELSE list[FirstOf(Slots(list))]

(* Values are compared by the callback; here an item is its value.         *)
ArrayList_find_item_by_value(val) ==
  IF \E n \in Slots(list) : list[n] = val THEN val ELSE NULL

(* The scan covers the first 'count' slots.                                *)
ArrayList_contains(val) ==
  \E n \in 1..count : list[n] # NULL /\ list[n] = val

(* The n-th item, counting items and not slots, from 0.                    *)
ArrayList_get_by_index(v_index) ==
  LET at == {n \in Slots(list) :
               Cardinality(Slots(list) \cap 1..(n - 1)) = v_index}
  IN IF v_index >= count \/ at = {} THEN NULL ELSE list[FirstOf(at)]

(* Mutant: the index of the slot is returned instead.                      *)
ArrayList_get_item_index_slot(item) ==
  LET at == {n \in Slots(list) : list[n] = item}
  IN IF at = {} THEN -1 ELSE FirstOf(at) - 1

ArrayList_get_item_index(item) ==
  LET at == {n \in Slots(list) : list[n] = item}
  IN IF at = {} THEN -1 ELSE Cardinality(Slots(list) \cap 1..(FirstOf(at) - 1))

-----------------------------------------------------------------------------
(* Capacity.                                                               *)

(* ArrayList_resize to a larger capacity: a fresh array is clamped to      *)
(* max_cap, an existing one is not.                                        *)
GrownTo(newcap) ==
  IF list = <<>> THEN IF newcap > MaxCap THEN MaxCap ELSE newcap ELSE newcap

Grown(newcap) == [n \in 1..GrownTo(newcap) |-> IF n <= Len(list) THEN list[n] ELSE NULL]

(* The capacity ArrayList_expand asks for.                                 *)
ExpandedCap ==
  CASE capacity = 0 -> 1
    [] capacity > 0 /\ capacity < MaxCap ->
         IF MaxCap - capacity < capacity THEN MaxCap ELSE capacity * 2
    [] OTHER -> capacity

(* Shrinking starts the copy into a new array; a capacity of 0 drops the   *)
(* array and forgets the items without freeing them.                       *)
ArrayList_resize(newcap) ==
  /\ pc = "idle"
  /\ newcap # capacity
  /\ \/ /\ newcap > capacity
        /\ list' = Grown(newcap)
        /\ capacity' = GrownTo(newcap)
        /\ UNCHANGED <<count, owner, fault, loopVars>>
     \/ /\ 0 < newcap /\ newcap < capacity
        /\ pc' = "copy" /\ it' = 1 /\ temp' = Empty(newcap) /\ i' = 0
        /\ UNCHANGED <<list, capacity, count, owner, fault, todo, end>>
     \/ /\ newcap = 0
        /\ list' = <<>> /\ count' = 0 /\ capacity' = 0
        /\ owner' = [x \in Item |-> IF x \in Held(list) THEN "caller" ELSE owner[x]]
        /\ UNCHANGED <<fault, loopVars>>

(* ArrayList_shrink_tsafe reads count before it locks the mutex: with a    *)
(* count that is stale by then it is one of the other resizes of Next.     *)
ArrayList_shrink == ArrayList_resize(count)

ArrayList_expand == ArrayList_resize(ExpandedCap)

(* The loop returns to the caller; its local variables are gone.           *)
Return ==
  /\ pc' = "idle" /\ todo' = "none"
  /\ it' = 1 /\ end' = 0 /\ temp' = <<>> /\ i' = 0

(* One iteration of the loop that copies items to the new array, or, once  *)
(* min(count, newcap) items are there, the step to the truncation.         *)
ResizeCopy ==
  /\ pc = "copy"
  /\ IF i < count /\ i < Len(temp)
     THEN IF it > Len(list)
          THEN fault' = TRUE /\ Return
          ELSE /\ it' = it + 1
               /\ IF list[it] # NULL
                  THEN temp' = [temp EXCEPT ![i + 1] = list[it]] /\ i' = i + 1
                  ELSE UNCHANGED <<temp, i>>
               /\ UNCHANGED <<pc, todo, end, fault>>
     ELSE pc' = "cut" /\ UNCHANGED <<todo, it, end, i, temp, fault>>
  /\ UNCHANGED <<list, capacity, count, owner>>

(* The items that do not fit go through ArrayList_remove_by_ptr; then the  *)
(* new array replaces the old one.                                         *)
ResizeCut ==
  /\ pc = "cut"
  /\ IF count > Len(temp)
     THEN IF it > Len(list)
          THEN fault' = TRUE /\ Return /\ UNCHANGED <<list, count, owner, capacity>>
          ELSE /\ it' = it + 1
               /\ IF list[it] # NULL
                  THEN /\ list' = [list EXCEPT ![it] = NULL]
                       /\ count' = count - 1
                       /\ owner' = [owner EXCEPT ![list[it]] = "freed"]
                  ELSE UNCHANGED <<list, count, owner>>
               /\ UNCHANGED <<pc, todo, end, temp, i, fault, capacity>>
     ELSE /\ list' = temp
          /\ capacity' = Len(temp)
          /\ Return
          /\ UNCHANGED <<count, owner, fault>>

-----------------------------------------------------------------------------
(* Adding and removing.                                                    *)

(* The caller keeps an item ArrayList_add returned 0 for.  The write after *)
(* ArrayList_expand trusts that the array has grown.                       *)
ArrayList_add(item) ==
  /\ pc = "idle"
  /\ owner[item] = "caller"
  /\ \/ /\ count < capacity
        /\ LET free == {n \in 1..Len(list) : list[n] = NULL}
           IN IF free = {} THEN UNCHANGED <<list, count, owner>>
              ELSE /\ list' = [list EXCEPT ![FirstOf(free)] = item]
                   /\ count' = count + 1
                   /\ owner' = [owner EXCEPT ![item] = "list"]
        /\ UNCHANGED <<capacity, fault>>
     \/ /\ count >= capacity
        /\ capacity = MaxCap
        /\ UNCHANGED <<list, count, owner, capacity, fault>>
     \/ /\ count >= capacity
        /\ capacity # MaxCap
        /\ LET grown == IF ExpandedCap = capacity THEN list ELSE Grown(ExpandedCap)
           IN IF count + 1 > Len(grown)
              THEN fault' = TRUE /\ UNCHANGED <<list, count, owner, capacity>>
              ELSE /\ list' = [grown EXCEPT ![count + 1] = item]
                   /\ capacity' = Len(grown)
                   /\ count' = count + 1
                   /\ owner' = [owner EXCEPT ![item] = "list"]
                   /\ UNCHANGED fault
  /\ UNCHANGED loopVars

(* Mutants: the count stays, or goes down for an item that is not there.   *)
RemoveTo_keepsCount(item, to) ==
  LET at == {n \in Slots(list) : list[n] = item}
  IN /\ pc = "idle"
     /\ at # {}
     /\ list' = [list EXCEPT ![FirstOf(at)] = NULL]
     /\ owner' = [owner EXCEPT ![item] = to]
     /\ UNCHANGED <<count, capacity, fault, loopVars>>

(* The slot is cleared and count goes down; an item that is not in the     *)
(* list is ignored.  'to' is who owns the item afterwards.                 *)
RemoveTo(item, to) ==
  LET at == {n \in Slots(list) : list[n] = item}
  IN /\ pc = "idle"
     /\ at # {}
     /\ list' = [list EXCEPT ![FirstOf(at)] = NULL]
     /\ count' = count - 1
     /\ owner' = [owner EXCEPT ![item] = to]
     /\ UNCHANGED <<capacity, fault, loopVars>>

ArrayList_remove(item) == RemoveTo(item, "freed")

ArrayList_remove_no_free(item) == RemoveTo(item, "caller")

(* Mutant: the list does not let go of the array it hands out.             *)
ArrayList_extract_array_keepsArray ==
  /\ pc = "idle"
  /\ count' = 0
  /\ owner' = [x \in Item |-> IF x \in Held(list) THEN "caller" ELSE owner[x]]
  /\ UNCHANGED <<list, capacity, fault, loopVars>>

(* The array is handed to the caller with everything in it.                *)
ArrayList_extract_array ==
  /\ pc = "idle"
  /\ list' = <<>> /\ capacity' = 0 /\ count' = 0
  /\ owner' = [x \in Item |-> IF x \in Held(list) THEN "caller" ELSE owner[x]]
  /\ UNCHANGED <<fault, loopVars>>

ArrayList_clear(then) ==
  /\ pc = "idle"
  /\ pc' = "clear" /\ it' = 1 /\ todo' = then
  /\ UNCHANGED <<list, capacity, count, owner, end, temp, i, fault>>

(* Mutant: the walk advances only past an item.                            *)
ClearStep_stuckAtHole ==
  /\ pc = "clear"
  /\ IF count = 0 THEN Return /\ UNCHANGED <<list, count, owner>>
     ELSE /\ IF list[it] # NULL
             THEN /\ owner' = [owner EXCEPT ![list[it]] = "freed"]
                  /\ list' = [list EXCEPT ![it] = NULL]
                  /\ count' = count - 1
                  /\ it' = it + 1
             ELSE UNCHANGED <<list, count, owner, it>>
          /\ UNCHANGED <<pc, todo, end, temp, i>>
  /\ UNCHANGED <<capacity, fault>>

(* delArrayList clears the list and releases the object.                   *)
ClearStep ==
  /\ pc = "clear"
  /\ IF count > 0
     THEN IF it > Len(list)
          THEN fault' = TRUE /\ Return /\ UNCHANGED <<list, count, owner, capacity>>
          ELSE /\ it' = it + 1
               /\ IF list[it] # NULL
                  THEN /\ owner' = [owner EXCEPT ![list[it]] = "freed"]
                       /\ list' = [list EXCEPT ![it] = NULL]
                       /\ count' = count - 1
                  ELSE UNCHANGED <<list, count, owner>>
               /\ UNCHANGED <<pc, todo, end, temp, i, fault, capacity>>
     ELSE /\ IF todo = "delete"
             THEN /\ pc' = "deleted" /\ list' = <<>> /\ capacity' = 0
                  /\ todo' = "none" /\ it' = 1
                  /\ UNCHANGED <<end, temp, i>>
             ELSE Return /\ UNCHANGED <<list, capacity>>
          /\ UNCHANGED <<count, owner, fault>>

delArrayList == ArrayList_clear("delete")

newArrayList_ex ==
  /\ pc = "deleted"
  /\ pc' = "idle"
  /\ list' = Empty(StartCap)
  /\ capacity' = StartCap
  /\ count' = 0
  /\ UNCHANGED <<owner, todo, it, end, temp, i, fault>>

-----------------------------------------------------------------------------
(* Ordering.                                                               *)

(* Mutant: the search for the last item starts one slot too early.         *)
ArrayList_sift_lastMissed(then) ==
  /\ pc = "idle"
  /\ count > 0
  /\ pc' = "sift" /\ it' = 1 /\ end' = capacity - 1 /\ todo' = then
  /\ UNCHANGED <<list, capacity, count, owner, temp, i, fault>>

ArrayList_sift(then) ==
  /\ pc = "idle"
  /\ count > 0
  /\ pc' = "sift" /\ it' = 1 /\ end' = capacity /\ todo' = then
  /\ UNCHANGED <<list, capacity, count, owner, temp, i, fault>>

(* qsort of the first 'count' pointers, when the sift came from            *)
(* ArrayList_sort.                                                         *)
Sorted(s, n) ==
  CHOOSE t \in [1..n -> {s[k] : k \in 1..n}] :
    /\ \A x \in {s[k] : k \in 1..n} : \E k \in 1..n : t[k] = x
    /\ \A k \in 1..(n - 1) : t[k] <= t[k + 1]

(* One iteration of the sift loop.  A hole is filled with the last item of *)
(* the array; if there is none the count was wrong and is corrected        *)
(* (ALIB_OBJ_CORRUPTION).                                                  *)
SiftStep ==
  /\ pc = "sift"
  /\ IF it > count
     THEN /\ list' = IF todo = "sort"
                     THEN [n \in 1..Len(list) |-> IF n <= count THEN Sorted(list, count)[n]
                                                  ELSE list[n]]
                     ELSE list
          /\ Return
          /\ UNCHANGED count
     ELSE IF list[it] # NULL
     THEN it' = it + 1 /\ UNCHANGED <<list, count, pc, todo, end, temp, i>>
     ELSE LET e == LastOf({n \in it..end : n = it \/ list[n] # NULL})
          IN IF e = it
             THEN count' = it - 1 /\ Return /\ UNCHANGED list
             ELSE /\ list' = [list EXCEPT ![it] = list[e], ![e] = NULL]
                  /\ it' = it + 1 /\ end' = e
                  /\ UNCHANGED <<count, pc, todo, temp, i>>
  /\ UNCHANGED <<capacity, owner, fault>>

(* Not the list's doing: a freed address is allocated again.               *)
Malloc(item) ==
  /\ owner[item] = "freed"
  /\ owner' = [owner EXCEPT ![item] = "caller"]
  /\ UNCHANGED <<list, capacity, count, fault, loopVars>>

-----------------------------------------------------------------------------
Init ==
  /\ list = Empty(StartCap)
  /\ capacity = StartCap
  /\ count = 0
  /\ owner = [x \in Item |-> "caller"]
  /\ pc = "idle" /\ todo = "none"
  /\ it = 1 /\ end = 0 /\ temp = <<>> /\ i = 0
  /\ fault = FALSE

LoopStep == ResizeCopy \/ ResizeCut \/ ClearStep \/ SiftStep

Common ==
  \/ \E x \in Item : \/ ArrayList_add(x)
                     \/ ArrayList_remove(x)
                     \/ ArrayList_remove_no_free(x)
                     \/ Malloc(x)
  \/ ArrayList_shrink
  \/ ArrayList_expand
  \/ ArrayList_extract_array
  \/ ArrayList_clear("none")
  \/ delArrayList
  \/ newArrayList_ex
  \/ ArrayList_sift("none") \/ ArrayList_sift("sort")
  \/ LoopStep

(* Callers that respect the maximum they gave to the constructor.          *)
Next ==
  \/ Common
  \/ \E n \in 0..TopCap : n <= MaxCap /\ ArrayList_resize(n)

SafetySpec == Init /\ [][Next]_vars

Spec == SafetySpec /\ WF_vars(LoopStep)

(* Callers that resize an array beyond the maximum, which only a fresh     *)
(* array is clamped to.                                                    *)
AnySpec == Init /\ [][Common \/ \E n \in 0..TopCap : ArrayList_resize(n)]_vars

-----------------------------------------------------------------------------

(* No loop walks off the array and no add writes behind it.  The loops of  *)
(* ArrayList_clear and ArrayList_resize, and the store after               *)
(* ArrayList_expand, have no bound check: they are safe only because       *)
(* 'count' is never larger than the number of items that are left to find. *)
NoOverrun == ~fault

(* Ownership is exclusive and complete: between calls the list holds       *)
(* exactly the items it owns, each in one slot, so that no item is freed   *)
(* twice, none is still in the array after it was freed or handed out, and *)
(* none that was added is lost; 'count', by which every loop ends, is      *)
(* their number, and 'capacity' what was really allocated.  Whether the    *)
(* items a shrinking resize cuts off are freed or given back makes no      *)
(* difference here: KeepsCutItems is about that.                           *)
OwnsWhatItHolds ==
  /\ capacity = Len(list)
  /\ pc \in {"idle", "sift", "deleted"} =>
       /\ Held(list) = {x \in Item : owner[x] = "list"}
       /\ Cardinality(Held(list)) = Cardinality(Slots(list))
       /\ count = Cardinality(Held(list))

(* ArrayList_resize's comment: "the pointer list will be freed, but the    *)
(* actual items will not be freed" (ArrayList.c:252-253).                  *)
KeepsCutItems ==
  [][\A x \in Item : pc \in {"copy", "cut"} /\ owner'[x] = "freed" => owner[x] = "freed"]_vars

(* The virtual index of an item, which skips the holes, leads back to it,  *)
(* and every other look-up finds the same items; ArrayList_contains, which *)
(* looks at the first count slots, does so when there is no hole.          *)
LookupsAgree ==
  pc = "idle" =>
    /\ Slots(list) = 1..count => \A x \in Item : ArrayList_contains(x) <=> x \in Held(list)
    /\ \A x \in Held(list) :
         /\ ArrayList_get_by_index(ArrayList_get_item_index(x)) = x
         /\ ArrayList_find_item_by_value(x) = x
    /\ ArrayList_get_by_index(0) = ArrayList_get_first_item

(* The items that two arrays share stand in the same order in both.        *)
SameOrder(s, t) ==
  \A m, n \in Slots(s), p, q \in Slots(t) :
     s[m] = t[p] /\ s[n] = t[q] => (m < n <=> p < q)

(* A truncating resize frees an item only when every item it keeps stood   *)
(* before it, and ends with the items that are left, in their order.       *)
CutLeaves ==
  /\ pc = "cut" /\ pc' = "cut" => \A n \in Slots(list) : list[n] \in Held(temp) => n < it
  /\ pc = "cut" /\ pc' = "idle" =>
       count' = count /\ Held(list') = Held(list) /\ SameOrder(list, list')

(* A sift ends with the items in the first 'count' slots, none lost and    *)
(* none twice, in order if it came from ArrayList_sort.                    *)
SiftLeaves ==
  pc = "sift" /\ pc' = "idle" =>
    /\ Slots(list') = 1..count' /\ count' = count
    /\ Held(list') = Held(list)
    /\ todo = "sort" => \A n \in 1..(count' - 1) : list'[n] < list'[n + 1]

(* A shrinking resize keeps the first items in their order: what the new   *)
(* array receives is what is left in the old one, and an item is freed     *)
(* only when every kept item stood before it.  When ArrayList_sift         *)
(* returns, the items are in the first 'count' slots (ArrayList_sort hands *)
(* exactly these to qsort, which must not meet a NULL), none is lost, none *)
(* is duplicated, and after ArrayList_sort they are in order; its return   *)
(* for a corrupted list is never taken.                                    *)
LoopsKeepItems == [][CutLeaves /\ SiftLeaves]_vars

(* Every call returns: each loop meets its end.                            *)
CallsReturn == pc \in {"copy", "cut", "clear", "sift"} ~> pc \in {"idle", "deleted"}
=============================================================================
