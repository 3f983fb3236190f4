---------------------------- MODULE BinaryBuffer ----------------------------
(***************************************************************************)
(* The growing byte buffer of source/BinaryBuffer.c.                       *)
(*                                                                         *)
(* The buffer is a record: mem is the allocated memory, as long as its     *)
(* capacity (what was never written holds Unset, which is no Byte), len    *)
(* the number of bytes in use.  A read or write outside of mem sets fault. *)
(* The calls that the code gets wrong are listed at Safe... below; a       *)
(* caller with Careful = TRUE avoids them.                                 *)
(***************************************************************************)
EXTENDS Integers, SequencesExt

CONSTANTS
  Byte,     \* bytes
  Room,     \* callers keep lengths and capacities below this bound
  Careful   \* TRUE: callers avoid the calls the code gets wrong

VARIABLES
  b,      \* the buffer
  bytes   \* history: what the calls so far have put in, as their docs say

vars == <<b, bytes>>

Unset == 0
ULONG_MAX == 4 * Room

Data == SeqOf(Byte, 2)
Index == 0..Room

Least(m, n) == IF m < n THEN m ELSE n

Take(s, n) == SubSeq(s, 1, Least(n, Len(s)))
Drop(s, n) == SubSeq(s, n + 1, Len(s))
capacity(s) == Len(s.mem)
Contents(s) == Take(s.mem, s.len)
Fault(s) == [s EXCEPT !.fault = TRUE]

(* calculate_expansion.                                                    *)
Expansion(s, size) ==
  IF size = 0 THEN 1 ELSE IF size > s.max_expand THEN size + s.max_expand ELSE 2 * size

(* Mutant: the length is kept when the memory becomes shorter.             *)
BinaryBuffer_hard_resize_keepsLen(s, new_size) ==
  [s EXCEPT !.mem = [i \in 1..new_size |-> IF i <= capacity(s) THEN @[i] ELSE Unset]]

(* BinaryBuffer_hard_resize with a realloc that succeeds.                  *)
BinaryBuffer_hard_resize(s, new_size) ==
  [s EXCEPT !.mem = [i \in 1..new_size |-> IF i <= capacity(s) THEN @[i] ELSE Unset],
            !.len = IF @ > new_size THEN new_size ELSE @]

BinaryBuffer_resize(s, new_size) ==
  BinaryBuffer_hard_resize(s, IF new_size < s.min_cap THEN s.min_cap ELSE new_size)

(* The capacities the loop goes through, up to the first that is enough.   *)
BinaryBuffer_expand_to_target(s, target) ==
  LET grow[n \in 0..ULONG_MAX] == IF n < target THEN grow[Expansion(s, n)] ELSE n
  IN BinaryBuffer_resize(s, grow[capacity(s)])

Fitted(s, n) == IF capacity(s) < n THEN BinaryBuffer_expand_to_target(s, n) ELSE s

(* memcpy of data to mem at index.                                         *)
Write(s, index, data) ==
  IF index + Len(data) > capacity(s) THEN Fault(s)
  ELSE [s EXCEPT !.mem = Take(@, index) \o data \o Drop(@, index + Len(data))]

BinaryBuffer_append(s, data) ==
  LET fit == Fitted(s, s.len + Len(data))
  IN [Write(fit, fit.len, data) EXCEPT !.len = @ + Len(data)]

(* The file's bytes from its position on; fread may come back short.       *)
BinaryBuffer_append_file(s, data, read) ==
  LET fit == BinaryBuffer_expand_to_target(s, s.len + Len(data))
      got == Write(fit, fit.len, Take(data, read))
  IN IF read < Len(data) THEN got ELSE [got EXCEPT !.len = @ + Len(data)]

(* The tail is moved but for its last byte; with no tail the number of     *)
(* bytes to be moved is below zero, which is the largest size_t.           *)
BinaryBuffer_insert(s, index, data) ==
  LET fit == Fitted(s, s.len + Len(data))
      moved == Write(fit, index + Len(data), SubSeq(fit.mem, index + 1, fit.len - 1))
  IN CASE index > s.len -> s
       [] index = s.len -> Fault(s)
       [] OTHER -> [Write(moved, index, data) EXCEPT !.len = @ + Len(data)]

BinaryBuffer_clear(s) ==
  IF capacity(s) > s.min_cap THEN BinaryBuffer_hard_resize(s, 0) ELSE [s EXCEPT !.len = 0]

BinaryBuffer_clear_no_resize(s) == [s EXCEPT !.len = 0]

BinaryBuffer_shrink_to_fit(s) == BinaryBuffer_hard_resize(s, s.len)

(* The test is against len - 1, the largest size_t for an empty buffer.    *)
(* The memcpy of the tail overlaps itself when less is removed than        *)
(* follows, which C leaves undefined: taken is what comes of it where      *)
(* memcpy copies forwards or loads before it stores, as glibc's does.      *)
RemoveRange(s, begin, end) ==
  IF s.len > 0 /\ end >= s.len - 1 THEN [s EXCEPT !.len = begin]
  ELSE IF end > s.len THEN Fault(s)
  ELSE [Write(s, begin, SubSeq(s.mem, end + 1, s.len)) EXCEPT !.len = @ - (end - begin)]

BinaryBuffer_remove(s, begin, end) ==
  IF begin > end THEN RemoveRange(s, end, begin) ELSE RemoveRange(s, begin, end)

(* BinaryBuffer_copy_block refuses an index that is not below the length.  *)
BadIndex(s, begin, end) == begin >= s.len \/ end >= s.len

BinaryBuffer_copy_and_drain(s, count) == BinaryBuffer_remove(s, 0, Least(count, s.len))

(* The number of bytes is computed anew from the arguments as given.       *)
BinaryBuffer_copy_block_and_drain(s, begin, end, count) ==
  LET n == IF end >= begin THEN Least(count, end - begin) ELSE count
  IN IF BadIndex(s, begin, end) THEN s
     ELSE BinaryBuffer_remove(s, begin, begin + n)

BinaryBuffer_extract_buffer(s) == [s EXCEPT !.mem = <<>>, !.len = 0]

(* The pointer to the index is computed before the memory may move.        *)
BinaryBuffer_replace(s, index, old_len, data) ==
  LET new_len == s.len + Len(data) - old_len
      moved == Write(s, index + Len(data), SubSeq(s.mem, index + old_len + 1, s.len))
  IN CASE index > s.len -> s
       [] index <= s.len /\ (capacity(s) < new_len \/ index + old_len > s.len) -> Fault(s)
       [] OTHER -> [Write(moved, index, data) EXCEPT !.len = new_len]

BinaryBuffer_set_max_expand_size(s, n) == [s EXCEPT !.max_expand = IF n = 0 THEN ULONG_MAX ELSE n]

newBinaryBuffer_ex(data, start_cap, min_cap, max_expand) ==
  LET need == Least(-Len(data), Least(-start_cap, -min_cap))
      new == [mem |-> [i \in 1..(-need) |-> Unset], len |-> Len(data), min_cap |-> min_cap,
              max_expand |-> IF max_expand = 0 THEN ULONG_MAX ELSE max_expand, fault |-> FALSE]
  IN Write(new, 0, data)

-----------------------------------------------------------------------------
(* The calls, and what their comments promise of the bytes.                *)

Without(s, begin, end) == Take(s, begin) \o Drop(s, end)

SafeRemove(begin, end) == end # b.len - 1 /\ (b.len = 0 => end = 0) /\ begin <= b.len
SafeReplace(index, old_len, n) == index + old_len <= b.len /\ b.len + n - old_len <= capacity(b)

AppendBytes ==
  \E data \in Data :
    /\ b.len + Len(data) <= Room
    /\ b' = BinaryBuffer_append(b, data) /\ bytes' = bytes \o data

AppendFile ==
  \E data \in Data, short \in 0..2 :
    /\ b.len + Len(data) <= Room /\ short <= Len(data)
    /\ b' = BinaryBuffer_append_file(b, data, Len(data) - short)
    /\ bytes' = IF short = 0 THEN bytes \o data ELSE bytes

Insert ==
  \E data \in Data, index \in Index :
    /\ b.len + Len(data) <= Room
    /\ Careful => index > b.len
    /\ b' = BinaryBuffer_insert(b, index, data)
    /\ bytes' = IF index > b.len THEN bytes ELSE Take(bytes, index) \o data \o Drop(bytes, index)

RemoveBytes ==
  \E begin, end \in Index :
    /\ Careful => begin <= end /\ SafeRemove(begin, end)
    /\ b' = BinaryBuffer_remove(b, begin, end)
    /\ bytes' = Without(bytes, Least(begin, b.len), Least(end, b.len))

Clear ==
  /\ b' \in {BinaryBuffer_clear(b), BinaryBuffer_clear_no_resize(b), BinaryBuffer_extract_buffer(b)}
  /\ bytes' = <<>>

(* BinaryBuffer_expand passes an uninitialised size on: any capacity.      *)
Resize ==
  \/ b' = BinaryBuffer_shrink_to_fit(b) /\ UNCHANGED bytes
  \/ \E n \in Index : b' = BinaryBuffer_resize(b, n) /\ bytes' = Take(bytes, Least(b.len, -Least(-n, -b.min_cap)))
  \/ \E n \in 1..Room :
       /\ Careful => n >= b.len
       /\ b' = BinaryBuffer_resize(b, n) /\ UNCHANGED bytes

CopyAndDrain ==
  \E count \in Index :
    /\ Careful => SafeRemove(0, Least(count, b.len))
    /\ b' = BinaryBuffer_copy_and_drain(b, count)
    /\ bytes' = Drop(bytes, Least(count, b.len))

CopyBlockAndDrain ==
  \E begin, end, count \in Index :
    LET n == Least(count, end - begin)
    IN /\ Careful => begin <= end /\ SafeRemove(begin, begin + n)
       /\ b' = BinaryBuffer_copy_block_and_drain(b, begin, end, count)
       /\ bytes' = IF end < b.len THEN Without(bytes, begin, begin + n) ELSE bytes

Replace ==
  \E index \in Index, old_len \in 0..2, data \in Data :
    /\ Careful => index > b.len \/ SafeReplace(index, old_len, Len(data))
    /\ b' = BinaryBuffer_replace(b, index, old_len, data)
    /\ bytes' = IF index > b.len THEN bytes
                ELSE Take(bytes, index) \o data \o Drop(bytes, index + old_len)

Configure ==
  /\ \/ \E n \in 0..2 : b' = BinaryBuffer_set_max_expand_size(b, n)
     \/ \E n \in 0..2 : b' = [b EXCEPT !.min_cap = n]
  /\ UNCHANGED bytes

Renew ==
  \E data \in Data, start_cap, min_cap \in 0..2 :
    /\ b' = newBinaryBuffer_ex(data, start_cap, min_cap, 2)
    /\ bytes' = data

Init == b = newBinaryBuffer_ex(<<>>, 0, 1, 2) /\ bytes = <<>>

Next ==
  /\ ~b.fault
  /\ \/ AppendBytes \/ AppendFile \/ Insert \/ RemoveBytes \/ Clear \/ Resize \/ CopyAndDrain
     \/ CopyBlockAndDrain \/ Replace \/ Configure \/ Renew

Spec == Init /\ [][Next]_vars

-----------------------------------------------------------------------------
(* Through every sequence of growing, shrinking, removing, draining and    *)
(* replacing, the buffer holds the bytes its callers were promised, inside *)
(* the memory it has.                                                      *)
HoldsItsBytes == ~b.fault /\ b.len <= capacity(b) /\ Contents(b) = bytes
=============================================================================
