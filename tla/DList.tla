------------------------------- MODULE DList -------------------------------
(***************************************************************************)
(* The doubly linked list of source/DList.c over the items of DListItem.c, *)
(* with the reference counted values of ListItem.c and ListItemVal.c.      *)
(*                                                                         *)
(* An item is its address, 0 is NULL.  The memory is one record that every *)
(* operation maps to the next one, so that operations compose as calls do. *)
(* A write through NULL, and the release of what was released, sets fault. *)
(* A call that is refused (a NULL or foreign argument, an index out of     *)
(* range) changes nothing and is not a step.                               *)
(***************************************************************************)
EXTENDS Integers, FiniteSets, SequencesExt

CONSTANTS
  N,        \* how many items exist at most
  Shared,   \* bound: the items whose values callers refer to or extract
  Careful   \* TRUE: callers avoid the calls listed at Safe... below

Node == 1..N
Addr == 0..N

VARIABLES
  m,      \* the memory, see Init
  held    \* the item whose value the caller holds a reference to, or 0

vars == <<m, held>>

-----------------------------------------------------------------------------
(* Walking a chain: k links on from a, or up to its edge.                  *)
Walk(link, a, k) ==
  LET w[j \in 0..k] == IF j = 0 THEN a
                       ELSE LET b == w[j - 1] IN IF link[b] = 0 THEN b ELSE link[b]
  IN w[k]

(* How many links there are from a to the edge.                            *)
Steps(link, a) == IF a = 0 THEN 0 ELSE Cardinality({Walk(link, a, k) : k \in 0..N}) - 1

DListItem_get_first_item(s, a) == Walk(s.prev, a, N)
DListItem_get_last_item(s, a) == Walk(s.next, a, N)

DListItem_get_by_relative_index(s, a, index) ==
  IF index > 0 THEN Walk(s.next, a, index) ELSE Walk(s.prev, a, -index)

DListItem_get(s, a, index) == Walk(s.next, DListItem_get_first_item(s, a), index)

(* What is left of 'index' when the edge is met.                           *)
Exceeded(link, a, index) ==
  IF index > Steps(link, a) THEN index - Steps(link, a) ELSE 0

DListItem_count(s, a) == IF a = 0 THEN 0 ELSE Steps(s.prev, a) + Steps(s.next, a) + 1
DListItem_index(s, a) == Steps(s.prev, a)

(* The chain that starts at a, front to back.                              *)
Chain(s, a) == [k \in 1..(IF a = 0 THEN 0 ELSE Steps(s.next, a) + 1) |-> Walk(s.next, a, k - 1)]
ChainOf(s, a) == Chain(s, DListItem_get_first_item(s, a))

-----------------------------------------------------------------------------
(* Writing links: "a->next = b" as it stands, and behind "if(a)".          *)
SetNext(s, a, b) == IF a = 0 THEN [s EXCEPT !.fault = TRUE] ELSE [s EXCEPT !.next[a] = b]
SetPrev(s, a, b) == IF a = 0 THEN [s EXCEPT !.fault = TRUE] ELSE [s EXCEPT !.prev[a] = b]
IfNext(s, a, b) == IF a = 0 THEN s ELSE SetNext(s, a, b)
IfPrev(s, a, b) == IF a = 0 THEN s ELSE SetPrev(s, a, b)

(* Every item of the chain belongs to the list, or to none.                *)
DListItem_set_list_parent(s, a, listed) ==
  IF a = 0 \/ (a \in s.mine) = listed THEN s
  ELSE LET all == ToSet(ChainOf(s, a))
       IN [s EXCEPT !.mine = IF listed THEN @ \cup all ELSE @ \ all]

(* a->parent, given to the chain of new.                                   *)
Adopt(s, a, new) == DListItem_set_list_parent(s, new, a \in s.mine)

DListItem_insert_after(s, a, item) ==
  LET last == DListItem_get_last_item(s, item)
      new == DListItem_get_first_item(s, item)
      s1 == SetNext(Adopt(s, a, new), last, s.next[a])
      s2 == IfPrev(s1, s.next[a], last)
  IN SetNext(SetPrev(s2, new, a), a, new)

(* The write to new->prev->next has no test for NULL.                      *)
DListItem_insert_before(s, a, item) ==
  LET last == DListItem_get_last_item(s, item)
      new == DListItem_get_first_item(s, item)
      s1 == SetPrev(SetNext(Adopt(s, a, new), last, a), new, s.prev[a])
  IN SetNext(SetPrev(s1, a, last), s.prev[a], new)

DListItem_push_back(s, a, item) ==
  LET end == DListItem_get_last_item(s, a)
      new == DListItem_get_first_item(s, item)
  IN SetPrev(SetNext(Adopt(s, end, new), end, new), new, end)

DListItem_push_forward(s, a, item) ==
  LET last == DListItem_get_last_item(s, item)
      new == DListItem_get_first_item(s, item)
      begin == DListItem_get_first_item(s, a)
  IN SetNext(SetPrev(Adopt(s, a, new), begin, last), last, begin)

(* The block first..last leaves its neighbours.                            *)
Unlinked(s, first, last) == IfPrev(IfNext(s, s.prev[first], s.next[last]), s.next[last], s.prev[first])

(* The block first..last goes in front of 'to'.                            *)
PutBefore(s, first, last, to) ==
  IfNext(SetPrev(SetNext(SetPrev(s, first, s.prev[to]), last, to), to, last), s.prev[to], first)

(* The item goes behind 'to'.                                              *)
PutAfter(s, a, to) ==
  IfPrev(SetNext(SetNext(SetPrev(s, a, to), a, s.next[to]), to, a), s.next[to], a)

DListItem_move(s, a, from, to) ==
  LET low == DListItem_get(s, a, IF from < to THEN from ELSE to)
      found == DListItem_index(s, low) = (IF from < to THEN from ELSE to)
      far == Walk(s.next, low, IF from < to THEN to - from ELSE from - to)
      foundFar == DListItem_index(s, far) = from
  IN IF a = 0 \/ from = to \/ ~found \/ low = far THEN s
     ELSE IF from < to THEN PutAfter(Unlinked(s, low, low), low, far)
     ELSE IF foundFar THEN PutBefore(Unlinked(s, far, far), far, far, low)
     ELSE s

(* Where the items end up one place short of 'to' when they move forward.  *)
DListItem_move_count(s, a, from, to, n) ==
  LET low == DListItem_get(s, a, IF from < to THEN from ELSE to)
      found == DListItem_index(s, low) = (IF from < to THEN from ELSE to)
      lowEnd == Walk(s.next, low, n - 1)
      fits == DListItem_index(s, lowEnd) = from + n - 1 /\ s.next[lowEnd] # 0
      far == Walk(s.next, low, from - to)
      farEnd == DListItem_get_by_relative_index(s, far, n - 1)
      Forward == PutBefore(Unlinked(s, low, lowEnd), low, lowEnd, Walk(s.next, lowEnd, to - from))
      Backward == PutBefore(Unlinked(s, far, farEnd), far, farEnd, low)
  IN IF a = 0 \/ ~found THEN s
     ELSE IF from < to THEN IF fits THEN Forward ELSE s
     ELSE IF DListItem_index(s, far) = from THEN Backward ELSE s

DListItem_pull_out_count(s, a, n) ==
  IF a = 0 \/ n = 0 THEN s
  ELSE LET last == DListItem_get_by_relative_index(s, a, n - 1)
       IN DListItem_set_list_parent(SetNext(SetPrev(Unlinked(s, a, last), a, 0), last, 0), a, FALSE)

DListItem_pull_out(s, a) == DListItem_pull_out_count(s, a, 1)

(* What a pointer to the item at a is left at when last leaves with it.    *)
Adjacent(s, a, last) == IF s.prev[a] # 0 THEN s.prev[a] ELSE s.next[last]

-----------------------------------------------------------------------------
(* Values.  The value of an item has the item's address.                   *)

(* Mutant: the last reference is not told from the others.                 *)
delListItemVal_keepsLast(s, v) == [s EXCEPT !.refs[v] = IF @ > 1 THEN @ - 1 ELSE @]

delListItemVal(s, v) == IF s.refs[v] > 0 THEN [s EXCEPT !.refs[v] = @ - 1] ELSE [s EXCEPT !.fault = TRUE]

(* free(): the contents of a freed item are forgotten.                     *)
delListItem(s, a) ==
  LET s1 == IF a \in s.has THEN delListItemVal(s, a) ELSE s
  IN [s1 EXCEPT !.next[a] = 0, !.prev[a] = 0, !.mine = @ \ {a}, !.removed = @ \ {a},
                !.has = @ \ {a}, !.live = @ \ {a}, !.fault = @ \/ a \notin s.live]

delDListItem(s, a) == delListItem(Unlinked(s, a, a), a)

(* delDListItem_all goes back to the front and then on to the end.         *)
delDListItem_all(s, a) ==
  LET c == ChainOf(s, a)
      t[k \in 0..Len(c)] == IF k = 0 THEN s ELSE delDListItem(t[k - 1], c[k])
  IN t[Len(c)]

newDListItem(s, a, old) ==
  LET s1 == [s EXCEPT !.live = @ \cup {a}, !.has = @ \cup {a}, !.refs[a] = 1]
  IN IF old = 0 THEN s1
     ELSE SetNext(IfPrev(SetNext(SetPrev(s1, a, old), a, s.next[old]), s.next[old], a), old, a)

-----------------------------------------------------------------------------
(* The list.                                                               *)

(* begin and end, and the parent of a list that was empty.                 *)
Belongs(s) == DListItem_set_list_parent(s, s.begin, TRUE)

DList_push_back(s, item) ==
  LET n == DListItem_count(s, item)
      first == DListItem_get_first_item(s, item)
      s1 == IF s.end = 0 THEN s ELSE DListItem_push_back(s, s.end, item)
  IN Belongs([s1 EXCEPT !.count = @ + n, !.begin = IF @ = 0 THEN first ELSE @,
                        !.end = DListItem_get_last_item(s1, first)])

DList_push_forward(s, item) ==
  LET n == DListItem_count(s, item)
      first == DListItem_get_first_item(s, item)
      s1 == IF s.begin = 0 THEN s ELSE DListItem_push_forward(s, s.begin, item)
  IN Belongs([s1 EXCEPT !.count = @ + n, !.begin = first,
                        !.end = IF @ = 0 THEN DListItem_get_last_item(s1, first) ELSE @])

(* Mutant: the back half is searched from the number of items.             *)
Nearest_offByOne(s, index) ==
  IF index < s.count \div 2 THEN DListItem_get_by_relative_index(s, s.begin, index)
  ELSE DListItem_get_by_relative_index(s, s.end, index - s.count)

(* An item is looked up from the end that is nearer.                       *)
Nearest(s, index) ==
  IF index < s.count \div 2 THEN DListItem_get_by_relative_index(s, s.begin, index)
  ELSE DListItem_get_by_relative_index(s, s.end, index - (s.count - 1))

DList_get(s, index) == IF index = 0 THEN s.begin ELSE Nearest(s, index)

DList_insert(s, index, item) ==
  LET n == DListItem_count(s, item)
      s1 == CASE s.begin = 0 ->
                   [s EXCEPT !.begin = DListItem_get_first_item(s, item),
                             !.end = DListItem_get_last_item(s, item)]
              [] s.begin # 0 /\ index >= s.count ->
                   LET t == DListItem_insert_after(s, s.end, item)
                   IN [t EXCEPT !.end = DListItem_get_last_item(t, t.end)]
              [] OTHER -> DListItem_insert_before(s, Nearest(s, index), item)
  IN [Belongs(s1) EXCEPT !.count = @ + n]

(* The count grows by one however long the chain of the new item is.       *)
DList_insert_before(s, cur, item) ==
  LET s1 == DListItem_insert_before(s, cur, item)
  IN [s1 EXCEPT !.begin = IF @ = 0 \/ s1.prev[@] # 0 THEN DListItem_get_first_item(s1, item) ELSE @,
                !.end = IF @ = 0 THEN DListItem_get_last_item(s1, item) ELSE @,
                !.count = @ + 1]

(* DList_insert_after demands a parent of the new item (!newItm->parent is *)
(* an error) and DListItem_insert_after demands that it has none, so that  *)
(* no call ever inserts.                                                   *)
DList_insert_after(s, cur, item) == s

DList_move(s, from, to) ==
  IF from = to \/ s.count = 1 THEN s
  ELSE LET s1 == IF from # 0 THEN s
                 ELSE IF s.begin = 0 THEN [s EXCEPT !.fault = TRUE]
                 ELSE [s EXCEPT !.begin = s.next[@]]
           s2 == IF from = s.count - 1 THEN [s1 EXCEPT !.end = s.prev[@]] ELSE s1
           s3 == DListItem_move(s2, s2.begin, from, to)
       IN IF to = 0 THEN [s3 EXCEPT !.begin = DListItem_get_first_item(s3, @)]
          ELSE IF to >= s.count THEN [s3 EXCEPT !.end = DListItem_get_last_item(s3, @)]
          ELSE s3

DList_move_count(s, from, to, n) ==
  LET s1 == DListItem_move_count(s, s.begin, from, to, n)
  IN [s1 EXCEPT !.begin = DListItem_get_first_item(s1, @), !.end = DListItem_get_last_item(s1, @)]

(* begin and end step aside for the block a..last; both are gone with the  *)
(* last item.                                                              *)
StepAside(s, a, last) ==
  LET begin == IF a = s.begin THEN Adjacent(s, a, last) ELSE s.begin
      end == IF a # s.begin /\ a = s.end THEN Adjacent(s, a, last) ELSE s.end
  IN [s EXCEPT !.begin = begin, !.end = IF begin = 0 THEN 0 ELSE end]

(* Mutant: the end pointer stays on an item that is deleted.               *)
DList_remove_item_keepsEnd(s, a) ==
  [delDListItem([s EXCEPT !.begin = IF @ = a THEN s.next[a] ELSE @], a) EXCEPT !.count = @ - 1]

DList_remove_item(s, a) == [delDListItem(StepAside(s, a, a), a) EXCEPT !.count = @ - 1]

DList_remove(s, index) == DList_remove_item(s, DList_get(s, index))

(* The end pointer follows only if the block reaches exactly to the end.   *)
DList_pull_out_count(s, index, n) ==
  LET a == IF index = s.count - 1 /\ index # 0 THEN s.end ELSE DList_get(s, index)
      last == DListItem_get_by_relative_index(s, a, n - 1)
      s1 == CASE a = 0 -> s
              [] a # 0 /\ (index = 0 \/ index = s.count - 1) ->
                   IF n = 0 THEN s ELSE StepAside(s, a, last)
              [] OTHER -> IF index + n = s.count THEN [s EXCEPT !.end = s.prev[a]] ELSE s
      s2 == DListItem_pull_out_count(s1, a, n)
  IN [s2 EXCEPT !.count = @ - (IF n = 0 THEN 0 ELSE DListItem_count(s2, a))]

DList_pull_out(s, index) ==
  LET a == DList_get(s, index)
  IN [DListItem_pull_out(StepAside(s, a, a), a) EXCEPT !.count = @ - 1]

DList_remove_count(s, index, n) ==
  LET a == DList_get(s, index)
      s1 == DList_pull_out_count(s, index, n)
  IN IF n = 0 THEN s1 ELSE delDListItem_all(s1, a)

(* DList_remove_lsafe and its variants: items are marked, and swept later. *)
Marked(s, items) == [s EXCEPT !.removed = @ \cup items, !.pending = TRUE]

DList_remove_count_lsafe(s, index, n) ==
  Marked(s, {Walk(s.next, DList_get(s, index), k) : k \in 0..(n - 1)})

(* The next item is fetched, and the marked one reached through its prev,  *)
(* which the last item has nobody to hold.                                 *)
SweepStep(s, iter) ==
  IF iter \notin s.removed THEN s
  ELSE IF s.next[iter] = 0 THEN [s EXCEPT !.fault = TRUE]
  ELSE DList_remove_item(s, iter)

(* Mutant: the item behind a removed one is passed over.                   *)
DList_remove_marked_items_skips(s) ==
  LET c == Chain(s, s.begin)
      skip(u, a) == s.prev[a] \in s.removed /\ s.prev[a] \notin u.live
      t[k \in 0..Len(c)] ==
        IF k = 0 THEN s ELSE IF skip(t[k - 1], c[k]) THEN t[k - 1] ELSE SweepStep(t[k - 1], c[k])
  IN t[Len(c)]

DList_remove_marked_items(s) ==
  LET c == Chain(s, s.begin)
      t[k \in 0..Len(c)] == IF k = 0 THEN s ELSE SweepStep(t[k - 1], c[k])
  IN IF s.pending THEN t[Len(c)] ELSE s

delDList(s) == [delDListItem_all(s, s.begin) EXCEPT !.begin = 0, !.end = 0, !.count = 0]

-----------------------------------------------------------------------------
(* The callers.                                                            *)

Loose(s) == s.live \ s.mine
Empty(s) == s.begin = 0

(* Calls that go wrong, which a careful caller leaves out: an insertion in *)
(* front of the first item; a chain of several through DList_insert_before;*)
(* a move in an empty list, or onto the last place; a block longer than    *)
(* what follows it; a sweep with the last item marked.                     *)
SafeInsert(index) == Empty(m) \/ index > 0
SafeBefore(cur, item) == cur # m.begin /\ DListItem_count(m, item) = 1
SafeMove(from, to) == ~Empty(m) /\ ~(from < to /\ to = m.count - 1)
SafeMoveCount(from, to, n) == n > 0 /\ from # to
SafePull(index, n) == index = 0 \/ index + n <= m.count
SafeSweep == m.pending => m.end \notin m.removed

Call(s) == m' = s /\ UNCHANGED held

NewItem ==
  \E a \in Node \ m.live :
    /\ m.refs[a] = 0
    /\ \E old \in {0} \cup (IF Careful THEN Loose(m) ELSE m.live) : Call(newDListItem(m, a, old))

DeleteLoose == \E a \in Loose(m) : Call(delDListItem(m, a)) \/ Call(delDListItem_all(m, a))

(* Chains that belong to no list are put together by their callers.        *)
JoinLoose ==
  \E a, item \in Loose(m) :
    /\ item \notin ToSet(ChainOf(m, a))
    /\ \/ Call(DListItem_insert_after(m, a, item))
       \/ (Careful => m.prev[a] # 0) /\ Call(DListItem_insert_before(m, a, item))

Push == \E item \in Loose(m) : Call(DList_push_back(m, item)) \/ Call(DList_push_forward(m, item))

Insert ==
  \E item \in Loose(m), index \in 0..(m.count + 1) :
    (Careful => SafeInsert(index)) /\ Call(DList_insert(m, index, item))

InsertBeside ==
  \E cur \in m.mine, item \in Loose(m) :
    \/ (Careful => SafeBefore(cur, item)) /\ Call(DList_insert_before(m, cur, item))
    \/ Call(DList_insert_after(m, cur, item))

Move ==
  \E from, to \in 0..(m.count + 1) :
    (Careful => SafeMove(from, to)) /\ Call(DList_move(m, from, to))

MoveCount ==
  \E from, to \in 0..m.count, n \in 0..m.count :
    (Careful => SafeMoveCount(from, to, n)) /\ Call(DList_move_count(m, from, to, n))

RemoveOne ==
  \/ \E index \in 0..(m.count - 1) : Call(DList_remove(m, index))
  \/ \E a \in m.mine : Call(DList_remove_item(m, a))

RemoveCount ==
  \E index \in 0..(m.count - 1), n \in 0..m.count :
    (Careful => SafePull(index, n)) /\ Call(DList_remove_count(m, index, n))

PullOut ==
  \E index \in 0..(m.count - 1) :
    \/ Call(DList_pull_out(m, index))
    \/ \E n \in 0..(m.count + 1 - index) : (Careful => SafePull(index, n)) /\ Call(DList_pull_out_count(m, index, n))

Mark ==
  \/ \E index \in 0..(m.count - 1), n \in 1..m.count : Call(DList_remove_count_lsafe(m, index, n))
  \/ \E a \in m.mine : Call(Marked(m, {a}))

Sweep == (Careful => SafeSweep) /\ Call(DList_remove_marked_items(m))

(* A list that was freed is created again.                                 *)
Renew == ~Empty(m) /\ Call(delDList(m))

(* ListItem_get_val_ref, ListItem_extract_value, and their release.        *)
TakeValue ==
  /\ held = 0
  /\ \E a \in m.has \cap Shared :
       /\ held' = a
       /\ \/ m' = [m EXCEPT !.refs[a] = @ + 1]
          \/ m' = [m EXCEPT !.has = @ \ {a}, !.removed = @ \cup {a}]

DropValue == held # 0 /\ m' = delListItemVal(m, held) /\ held' = 0

(* items_ready_for_removal is not initialised by newDList.                 *)
Init ==
  /\ \E garbage \in BOOLEAN :
       m = [next |-> [a \in Addr |-> 0], prev |-> [a \in Addr |-> 0], begin |-> 0, end |-> 0,
            count |-> 0, pending |-> garbage, mine |-> {}, live |-> {}, removed |-> {}, has |-> {},
            refs |-> [a \in Node |-> 0], fault |-> FALSE]
  /\ held = 0

Next ==
  /\ ~m.fault
  /\ \/ NewItem \/ DeleteLoose \/ JoinLoose \/ Push \/ Insert \/ InsertBeside \/ Move \/ MoveCount
     \/ RemoveOne \/ RemoveCount \/ PullOut \/ Mark \/ Sweep \/ Renew \/ TakeValue \/ DropValue

Spec == Init /\ [][Next]_vars

-----------------------------------------------------------------------------
Items == Chain(m, m.begin)

(* Links agree in both directions, nothing that was freed is linked, and   *)
(* begin, end, count and the items' parents describe one and the same      *)
(* chain, after every order of pushes, inserts, moves, blocks pulled out   *)
(* and marked items swept.                                                 *)
WellLinked ==
  /\ ~m.fault
  /\ \A a \in Node : /\ m.next[a] # 0 => m.prev[m.next[a]] = a /\ {a, m.next[a]} \subseteq m.live
                     /\ m.prev[a] # 0 => m.next[m.prev[a]] = a
  /\ m.count = Len(Items) /\ ToSet(Items) = m.mine
  /\ m.end = DListItem_get_last_item(m, m.begin)
  /\ m.prev[m.begin] = 0

(* A value lives exactly as long as somebody holds it: its item, or the    *)
(* caller who took a reference or extracted it, whichever goes first.      *)
HeldValuesLive ==
  \A v \in Node : m.refs[v] = (IF v \in m.has THEN 1 ELSE 0) + (IF v = held THEN 1 ELSE 0)

S == INSTANCE SeqList WITH Item <- Node, seq <- Items, marked <- m.removed

(* Whatever the pointers do, callers see a sequence that blocks enter,     *)
(* leave and move in, and a sweep takes the marked items and no others.    *)
ImplementsSeq == S!Spec

Smaller(a, b) == IF a < b THEN a ELSE b

(* The calls that take an index act there, whichever end they search from: *)
(* an insertion, a removal, a move (beyond the end: to the back) and a     *)
(* block that moves backward.                                              *)
ActsAtIndex ==
  LET After(s) == Chain(s, s.begin)
      size == Len(Items)
  IN \A k \in 0..(size - 1) :
       /\ k > 0 => \A item \in Loose(m) :
            After(DList_insert(m, k, item)) = S!Spliced(Items, k, ChainOf(m, item))
       /\ After(DList_remove(m, k)) = S!Without(Items, k, 1)
       /\ \A to \in 0..N : SafeMove(k, to) =>
            After(DList_move(m, k, to)) = S!Moved(Items, k, 1, Smaller(to, size - 1))
       /\ \A to \in 0..(k - 1), n \in 1..N :
            After(DList_move_count(m, k, to, n)) = S!Moved(Items, k, Smaller(n, size - k), to)

=============================================================================
