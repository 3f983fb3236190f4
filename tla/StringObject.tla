---------------------------- MODULE StringObject ----------------------------
(***************************************************************************)
(* The growing string of source/StringObject.c.                            *)
(*                                                                         *)
(* The object is a record: str is the C string it points to, up to its     *)
(* terminator, length and capacity are the fields of those names.  The     *)
(* memory behind the terminator holds anything.  A write outside of the    *)
(* capacity sets fault.  Allocations succeed.  The sizes from 1024 on,     *)
(* where growing and shrinking become linear, are beyond Room.             *)
(***************************************************************************)
EXTENDS Integers, SequencesExt

CONSTANTS
  Char,     \* characters; LowerA and UpperA are two of them
  MinMem,   \* min_mem, which newStringObject sets to 64
  Room,     \* callers keep lengths below this bound
  Careful   \* TRUE: callers avoid the calls the code gets wrong

VARIABLES
  str,    \* the object
  text    \* history: the text the calls so far promise

vars == <<str, text>>

Anything == 0
LowerA == 1
UpperA == 2
Text == SeqOf(Char, 2)

Take(s, n) == SubSeq(s, 1, n)
Drop(s, n) == SubSeq(s, n + 1, Len(s))

newStringObject == [str |-> <<>>, length |-> 0, capacity |-> 1, fault |-> FALSE]

(* A string of n characters and its terminator are stored.                 *)
Stored(s, value) ==
  [s EXCEPT !.str = value, !.length = Len(value), !.fault = @ \/ Len(value) >= s.capacity]

(* Resized for the contents; a size of zero keeps room for the terminator. *)
StringObject_resize(s, size) ==
  IF size = 0 THEN [s EXCEPT !.str = <<>>, !.length = 0, !.capacity = 1]
  ELSE [s EXCEPT !.capacity = size, !.fault = @ \/ Len(s.str) >= size]

StringObject_clear_no_free(s) == [s EXCEPT !.str = <<>>, !.length = 0]

StringObject_clear(s) ==
  IF s.capacity > MinMem THEN StringObject_resize(s, 0) ELSE StringObject_clear_no_free(s)

(* The callers store a string at once, which tells whether the size they   *)
(* asked for was enough.                                                   *)
StringObject_calc_and_resize(s, min_size) ==
  LET double[c \in 1..(4 * Room + 4)] == IF c < min_size THEN double[2 * c] ELSE c
  IN CASE min_size = 0 -> StringObject_clear(s)
       [] min_size > 0 /\ min_size * 4 < s.capacity -> [s EXCEPT !.capacity = min_size]
       [] OTHER -> [s EXCEPT !.capacity = double[@]]

TooSmallOrLarge(s, n) == n > s.length \/ s.length - n > MinMem * 4

StringObject_set(s, value) ==
  Stored(IF TooSmallOrLarge(s, Len(value)) THEN StringObject_calc_and_resize(s, Len(value) + 1) ELSE s,
         value)

(* The size asked for has no place for the terminator; if value does not   *)
(* end after count characters, the string is one character longer than it. *)
StringObject_set_count(s, value, count) ==
  LET n == IF count < Len(value) THEN count + 1 ELSE count
      fit == IF TooSmallOrLarge(s, n) THEN StringObject_calc_and_resize(s, n) ELSE s
  IN IF count = 0 THEN StringObject_clear(s)
     ELSE Stored(fit, Take(value, count) \o [i \in 1..(n - count) |-> Anything])

(* Mutant: the size asked for has no place for the terminator.             *)
StringObject_append_noTerminator(s, value) ==
  Stored(StringObject_calc_and_resize(s, s.length + Len(value)), s.str \o value)

StringObject_append(s, value) ==
  Stored(StringObject_calc_and_resize(s, s.length + Len(value) + 1), s.str \o value)

(* count may include the terminator of value.                              *)
StringObject_append_count(s, value, count) ==
  LET t_len == s.length + count + (IF count > Len(value) THEN 0 ELSE 1)
  IN IF count = 0 THEN s
     ELSE Stored(StringObject_calc_and_resize(s, t_len),
                 s.str \o Take(value, IF Len(value) < count THEN Len(value) ELSE count))

(* An index behind the string makes the number of characters to move the   *)
(* largest unsigned.  strncpy_back puts a terminator behind the moved one  *)
(* if it has seen a zero where it copies to: the old terminator, or memory *)
(* that happens to be zero.                                                *)
StringObject_insert_count(s, value, index, zero) ==
  LET fit == StringObject_calc_and_resize(s, s.length + Len(value) + 1)
      extra == zero \/ Len(value) <= s.length - index
  IN IF index > s.length THEN [s EXCEPT !.fault = TRUE]
     ELSE [Stored(fit, Take(s.str, index) \o value \o Drop(s.str, index))
             EXCEPT !.fault = @ \/ (extra /\ fit.capacity = s.length + Len(value) + 1)]

tolower(c) == IF c = UpperA THEN LowerA ELSE c
toupper(c) == IF c = LowerA THEN UpperA ELSE c
Mapped(f(_), s) == [i \in DOMAIN s |-> f(s[i])]

StringObject_to_lower(s) == [s EXCEPT !.str = Mapped(tolower, @)]
StringObject_to_upper(s) == [s EXCEPT !.str = Mapped(toupper, @)]

StringObject_shrink_to_fit(s) == StringObject_resize(s, s.length + 1)

(* The number of characters of sub found at place p of s.                  *)
MatchedAt(s, p, sub) ==
  CHOOSE j \in 0..Len(sub) :
    /\ \A k \in 1..j : p + k <= Len(s) /\ s[p + k] = sub[k]
    /\ j < Len(sub) => p + j + 1 > Len(s) \/ s[p + j + 1] # sub[j + 1]

(* The pieces appended to the result: p is the place of the scan, q the    *)
(* beginning of what was not copied yet.  The scan goes on behind what it  *)
(* has compared, also when that was no match.                              *)
Pieces(s, sub, new) ==
  LET scan[p \in 0..Len(s), q \in 0..Len(s)] ==
        LET j == MatchedAt(s, p, sub)
        IN CASE p = Len(s) -> <<Drop(s, q)>>
             [] p < Len(s) /\ (j = 0 \/ sub = <<>>) -> scan[p + 1, q]
             [] p < Len(s) /\ 0 < j /\ j < Len(sub) -> scan[p + j, q]
             [] OTHER -> <<SubSeq(s, q + 1, p), new>> \o scan[p + j, p + j]
  IN scan[0, 0]

(* The result takes the place of the string.                               *)
StringObject_replace_substrings(s, sub, new) ==
  FoldLeft(StringObject_append, newStringObject, Pieces(s.str, sub, new))

(* The caller takes the memory, the object gets new memory.                *)
StringObject_extract_c_string(s) ==
  StringObject_resize([s EXCEPT !.str = <<>>, !.length = 0], MinMem)

-----------------------------------------------------------------------------
(* The calls, and the text their comments promise.                         *)

Fits(n) == Len(text) + n <= Room

Set == \E value \in Text : str' = StringObject_set(str, value) /\ text' = value

SetCount ==
  \E value \in Text : \E count \in 0..Len(value) :
    /\ Careful => count \in {0, Len(value)}
    /\ \E new \in {StringObject_set_count(str, value, count)} :
         (Careful => new.capacity > new.length) /\ str' = new
    /\ text' = Take(value, count)

Clear ==
  /\ str' \in {StringObject_clear(str), StringObject_clear_no_free(str), StringObject_extract_c_string(str)}
  /\ text' = <<>>

(* A number or a Boolean is formatted and appended, or inserted, as text.  *)
AppendText ==
  \E value \in Text :
    /\ Fits(Len(value))
    /\ str' = StringObject_append(str, value) /\ text' = text \o value

AppendCount ==
  \E value \in Text : \E count \in 0..(Len(value) + 1) :
    /\ Fits(Len(value))
    /\ str' = StringObject_append_count(str, value, count)
    /\ text' = text \o Take(value, IF count > Len(value) THEN Len(value) ELSE count)

(* StringObject_append_char passes the address of its argument on, so that *)
(* strlen reads whatever is in memory behind it, up to the next zero.      *)
AppendChar ==
  \E c \in Char, behind \in Text :
    /\ Fits(1)
    /\ str' = StringObject_append_count(str, <<c>> \o behind, 1)
    /\ text' = Append(text, c)

InsertText ==
  \E value \in Text, index \in 0..Room, zero \in BOOLEAN :
    /\ Fits(Len(value))
    /\ Careful => index <= str.length
    /\ \E new \in {StringObject_insert_count(str, value, index, zero)} :
         (Careful => new.capacity > new.length + 1) /\ str' = new
    /\ LET i == IF index < Len(text) THEN index ELSE Len(text)
       IN text' = Take(text, i) \o value \o Drop(text, i)

ChangeCase ==
  \/ str' = StringObject_to_lower(str) /\ text' = Mapped(tolower, text)
  \/ str' = StringObject_to_upper(str) /\ text' = Mapped(toupper, text)

ShrinkToFit == str' = StringObject_shrink_to_fit(str) /\ UNCHANGED text

(* Every occurrence, from the left, without overlap.                       *)
Replaced(s, sub, new) ==
  LET from[p \in 0..Len(s)] ==
        IF p + Len(sub) > Len(s) THEN Drop(s, p)
        ELSE IF SubSeq(s, p + 1, p + Len(sub)) = sub THEN new \o from[p + Len(sub)]
        ELSE <<s[p + 1]>> \o from[p + 1]
  IN IF sub = <<>> THEN s ELSE from[0]

(* The scan is right if the first character of sub is not in the rest.     *)
ReplaceSubstrings ==
  \E sub \in SeqOf(Char, 3), new \in Text :
    /\ Careful => \A i \in 2..Len(sub) : sub[i] # sub[1]
    /\ text' = Replaced(text, sub, new)
    /\ Len(text') <= Room
    /\ str' = StringObject_replace_substrings(str, sub, new)

Renew == str' = newStringObject /\ text' = <<>>

Init == str = newStringObject /\ text = <<>>

Next ==
  /\ ~str.fault
  /\ \/ Set \/ SetCount \/ Clear \/ AppendText \/ AppendCount \/ AppendChar \/ InsertText \/ ChangeCase
     \/ ShrinkToFit \/ ReplaceSubstrings \/ Renew

Spec == Init /\ [][Next]_vars

-----------------------------------------------------------------------------
(* Through every sequence of calls that set, append, insert, replace, grow *)
(* and shrink, the C string is the text the callers were promised, length  *)
(* is its length, and it fits with its terminator in the memory.           *)
TextIsKept ==
  ~str.fault /\ str.str = text /\ str.length = Len(text) /\ str.length < str.capacity
=============================================================================
