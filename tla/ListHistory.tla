---------------------------- MODULE ListHistory ----------------------------
(***************************************************************************)
(* The history of source/ListHistory.c over the singly linked items of     *)
(* ListHistoryItem.c, in the build without its mutex                       *)
(* (LIST_HISTORY_NO_MUTEX).  It keeps at most max items, the oldest first. *)
(*                                                                         *)
(* An item is what the caller put in, a number, and 0 is NULL; 'next' is   *)
(* the link of the ListHistoryItem that holds it.  A read or a write       *)
(* through NULL sets fault.                                                *)
(***************************************************************************)
EXTENDS Integers, FiniteSets, SequencesExt

CONSTANTS
  Keep,     \* callers have the items 1..Keep
  Limit,    \* hist->max
  Careful   \* TRUE: callers avoid the calls listed at Safe below

Thing == 1..Keep

VARIABLES
  h,      \* the history: next, list_root, list_end, count and fault
  given   \* history: the pairs of items of which the first came in earlier

vars == <<h, given>>

Links == 0..Keep

(* The chain from a on, at most as long as there are items.                *)
Reach(next, a) ==
  LET w[k \in 0..Keep] == IF k = 0 THEN a ELSE next[w[k - 1]]
  IN [k \in 1..Cardinality({j \in 0..Keep : w[j] # 0}) |-> w[k - 1]]

Hist == Reach(h.next, h.list_root)

(* ListHistoryItem_..._find_one_before: NULL for the first item and for    *)
(* one that is not there.                                                  *)
Find_One_Before(s, item) ==
  LET before == {a \in ToSet(Reach(s.next, s.list_root)) : s.next[a] = item}
  IN IF s.list_root = item \/ before = {} THEN 0 ELSE CHOOSE a \in before : TRUE

(* ListHistory_helper_function_calc_count.                                 *)
Calc_count(s) == [s EXCEPT !.count = Len(Reach(s.next, s.list_root))]

(* One less, or counted anew if the count was lost.                        *)
CountDown(s) == IF s.count = 0 THEN Calc_count(s) ELSE [s EXCEPT !.count = @ - 1]

(* delListHistoryItem on list_root.                                        *)
delRoot(s) ==
  [s EXCEPT !.list_root = s.next[s.list_root], !.next[s.list_root] = 0]

(* Mutant: the end pointer is left behind when the last item goes.         *)
Pop_Off_keepsEnd(s) == IF s.list_root = 0 THEN s ELSE CountDown(delRoot(s))

Pop_Off(s) ==
  LET s1 == IF s.list_end = s.list_root THEN [s EXCEPT !.list_end = 0] ELSE s
  IN IF s.list_root = 0 THEN s1 ELSE CountDown(delRoot(s1))

(* The new item is linked behind the last one.                             *)
newListHistoryItem(s, item) ==
  [IF s.list_end = 0 THEN s ELSE [s EXCEPT !.next[s.list_end] = item] EXCEPT !.list_end = item]

(* The oldest item goes if there are too many.                             *)
Push_Back(s, item) ==
  LET s1 == [newListHistoryItem(s, item) EXCEPT !.list_root = IF @ = 0 THEN item ELSE @, !.count = @ + 1]
  IN IF s1.count > Limit THEN Pop_Off(s1) ELSE s1

(* ListHistoryItem_member_function_remove on the chain of the root.        *)
Unlinked(s, item) ==
  LET before == Find_One_Before(s, item)
  IN CASE s.list_root = item -> delRoot(s)
       [] s.list_root # item /\ before # 0 -> [s EXCEPT !.next[before] = s.next[item], !.next[item] = 0]
       [] OTHER -> s

(* The last item is taken off through the item before it, which the only   *)
(* item does not have.                                                     *)
Remove_item(s, item) ==
  LET before == Find_One_Before(s, item)
      s1 == Unlinked(s, item)
  IN CASE s.list_end = 0 \/ (s.list_end = item /\ before = 0) -> [s EXCEPT !.fault = TRUE]
       [] s.list_end = item /\ before # 0 -> CountDown([s1 EXCEPT !.list_end = before])
       [] OTHER -> IF s1 = s THEN s ELSE CountDown(s1)

Move_Top_to_Bottom(s) ==
  IF s.list_end = 0 THEN [s EXCEPT !.fault = TRUE]
  ELSE LET s1 == [s EXCEPT !.next[s.list_end] = s.list_root]
           s2 == [s1 EXCEPT !.list_root = s1.next[s1.list_root], !.list_end = s1.next[s1.list_end]]
       IN [s2 EXCEPT !.next[s2.list_end] = 0]

(* The oldest item has none before it and is refused like an absent one;   *)
(* an item that is moved keeps its successor.                              *)
Move_to_Bottom(s, item) ==
  LET before == Find_One_Before(s, item)
  IN CASE s.list_root = 0 -> [s EXCEPT !.fault = TRUE]
       [] s.list_root # 0 /\ before = 0 -> s
       [] OTHER ->
            LET s1 == [s EXCEPT !.next[s.list_end] = item]
            IN [s1 EXCEPT !.next[before] = s1.next[s1.next[before]], !.list_end = item]

(* Calls that go wrong: anything but a push or a pop on an empty history,  *)
(* the removal of its only item, and every move of one that is not first.  *)
SafeRemove(item) == h.list_root # 0 /\ ~(h.list_root = item /\ h.list_end = item)
SafeMoveItem(item) == h.list_root # 0 /\ Find_One_Before(h, item) = 0

(* The item comes in last, of those that are there.                        *)
ComesIn(item) ==
  given' = {p \in given : {p[1], p[2]} \subseteq ToSet(Hist) \ {item}} \cup ((ToSet(Hist) \ {item}) \X {item})

PushItem == \E item \in Thing \ ToSet(Hist) : h' = Push_Back(h, item) /\ ComesIn(item)

PopItem == h' = Pop_Off(h) /\ UNCHANGED given

RemoveItem ==
  \E item \in Thing :
    (Careful => SafeRemove(item)) /\ h' = Remove_item(h, item) /\ UNCHANGED given

MoveTop ==
  /\ Careful => h.list_root # 0
  /\ h' = Move_Top_to_Bottom(h)
  /\ ComesIn(h.list_root)

MoveItem ==
  \E item \in Thing :
    /\ Careful => SafeMoveItem(item)
    /\ h' = Move_to_Bottom(h, item)
    /\ UNCHANGED given

(* delListHistory frees every item; the next history starts empty.         *)
Renew ==
  /\ h.list_root # 0
  /\ h' = [h EXCEPT !.next = [a \in Links |-> 0], !.list_root = 0, !.list_end = 0, !.count = 0]
  /\ given' = {}

Init ==
  /\ h = [next |-> [a \in Links |-> 0], list_root |-> 0, list_end |-> 0, count |-> 0, fault |-> FALSE]
  /\ given = {}

Next == ~h.fault /\ (PushItem \/ PopItem \/ RemoveItem \/ MoveTop \/ MoveItem \/ Renew)

Spec == Init /\ [][Next]_vars

(* The root, the end and the count describe one chain that ends, never     *)
(* longer than the limit, after every order of pushes, pops, removals and  *)
(* rotations; and its items stay in the order they came in, a rotated one  *)
(* as if it had come in last, so that the limit always costs the oldest.   *)
HistoryInOrder ==
  /\ ~h.fault
  /\ IsInjective(Hist) /\ h.count = Len(Hist) /\ h.count <= Limit
  /\ h.list_end = (IF Hist = <<>> THEN 0 ELSE Last(Hist))
  /\ \A j, k \in 1..Len(Hist) : <<Hist[j], Hist[k]>> \in given <=> j < k
=============================================================================
