------------------------------ MODULE SeqList ------------------------------
(***************************************************************************)
(* What a list of items (source/DList.c) promises its callers: a sequence. *)
(* A block of items comes in, leaves or moves; the others keep their       *)
(* order, and nothing is there twice.  Indices count from 0.               *)
(***************************************************************************)
EXTENDS Integers, SequencesExt

CONSTANT Item

VARIABLES
  seq,     \* the items, front to back
  marked   \* the items that leave with the next sweep; callers mark at will

Init == seq = <<>>

Drop(s, k) == SubSeq(s, k + 1, Len(s))
Take(s, k) == SubSeq(s, 1, k)

(* s with the items 'new' from index k on.                                 *)
Spliced(s, k, new) == Take(s, k) \o new \o Drop(s, k)

(* s without n items from index k on.                                      *)
Without(s, k, n) == Take(s, k) \o Drop(s, k + n)

(* s with the n items from index 'from' at index 'to' of what remains.     *)
Moved(s, from, n, to) ==
  Spliced(Without(s, from, n), to, SubSeq(s, from + 1, from + n))

(* The step from s to t.  A block leaves, or everything that is marked.    *)
Leave(s, t) ==
  LET n == Len(s) - Len(t)
  IN \E k \in 0..Len(t) : n >= 0 /\ t = Without(s, k, n)

(* The items that are not marked, in their order.                          *)
Kept(s) ==
  LET kept[k \in 0..Len(s)] ==
        IF k = 0 THEN <<>> ELSE IF s[k] \in marked THEN kept[k - 1] ELSE Append(kept[k - 1], s[k])
  IN kept[Len(s)]

Sweep(s, t) == t = Kept(s)

Insert(s, t) ==
  \E k \in 0..Len(s) :
    /\ Len(t) > Len(s)
    /\ LET new == SubSeq(t, k + 1, k + Len(t) - Len(s))
       IN /\ ToSet(new) \subseteq Item \ ToSet(s)
          /\ IsInjective(new)
          /\ t = Spliced(s, k, new)

Move(s, t) ==
  \E from \in 0..Len(s) :
    \E n \in 1..(Len(s) - from) :
      \E to \in 0..(Len(s) - n) : t = Moved(s, from, n, to)

Next == \E s \in {seq}, t \in {seq'} : Leave(s, t) \/ Sweep(s, t) \/ Insert(s, t) \/ Move(s, t)

Spec == Init /\ [][Next]_seq
=============================================================================
