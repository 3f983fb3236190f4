------------------------------- MODULE String -------------------------------
(***************************************************************************)
(* The string of source/String.c: a BinaryBuffer whose bytes end in a      *)
(* terminator that counts in its length.  A new String has no bytes at     *)
(* all.  In this module the history bytes is the text the calls promise.   *)
(***************************************************************************)
EXTENDS BinaryBuffer

NUL == 9
LowerA == 1
UpperA == 2

Terminated(s) == \E i \in DOMAIN s.mem : s.mem[i] = NUL
CString(s) == Take(s.mem, (CHOOSE i \in DOMAIN s.mem : s.mem[i] = NUL /\ NUL \notin {s.mem[j] : j \in 1..(i - 1)}) - 1)
String_get_length(s) == IF s.len = 0 THEN 0 ELSE s.len - 1

Emptied(s) == IF s.mem = <<>> THEN s ELSE [Write(s, 0, <<NUL>>) EXCEPT !.len = 1]

String_clear(s) == Emptied(BinaryBuffer_clear(s))
String_clear_no_free(s) == Emptied(BinaryBuffer_clear_no_resize(s))

String_set_count(s, val) == BinaryBuffer_append(BinaryBuffer_append(BinaryBuffer_clear(s), val), <<NUL>>)

(* A String that holds nothing but a terminator is appended to behind it.  *)
String_append_count(s, val) ==
  IF s.len > 1 THEN BinaryBuffer_insert(s, s.len - 1, val)
  ELSE BinaryBuffer_append(BinaryBuffer_append(s, val), <<NUL>>)

String_append_file(s, data, read) ==
  BinaryBuffer_append(BinaryBuffer_append_file([s EXCEPT !.len = String_get_length(s)], data, read), <<NUL>>)

(* A terminator is put at the length, behind the last byte.                *)
Ended(s) == Write(s, s.len, <<NUL>>)

String_insert_count(s, val, index) ==
  IF index > s.len THEN s ELSE Ended(BinaryBuffer_insert(s, index, val))

String_copy_string(to, from) ==
  LET fit == BinaryBuffer_resize([String_clear(to) EXCEPT !.max_expand = from.max_expand, !.min_cap = from.min_cap],
                                 capacity(from))
  IN [Write(fit, 0, Contents(from)) EXCEPT !.len = from.len]

newString == newBinaryBuffer_ex(<<>>, 0, 1, 2)

newString_ex(val) == String_append_count(newString, val)

(* The length is not copied.                                               *)
newString_copy(s) == [String_copy_string(newString, s) EXCEPT !.len = 0]

tolower(c) == IF c = UpperA THEN LowerA ELSE c
toupper(c) == IF c = LowerA THEN UpperA ELSE c
Mapped(f(_), s) == [i \in DOMAIN s |-> f(s[i])]

(* str_to_lower and str_to_upper go up to the terminator.                  *)
String_to_lower(s) == Write(s, 0, Mapped(tolower, CString(s)))
String_to_upper(s) == Write(s, 0, Mapped(toupper, CString(s)))

String_remove(s, begin, end) ==
  LET b1 == Least(begin, end)
      e1 == -Least(-begin, -end)
  IN IF b1 >= String_get_length(s) THEN s
     ELSE BinaryBuffer_remove(s, b1, Least(e1, s.len - 1))

(* The place of the first sub at or behind the place p, or -1.             *)
strstr(s, p, sub) ==
  LET found == {q \in p..(Len(s) - Len(sub)) : SubSeq(s, q + 1, q + Len(sub)) = sub}
  IN IF found = {} THEN -1 ELSE CHOOSE q \in found : \A r \in found : q <= r

(* The loops over strstr: change(s, q) changes the occurrence at q, the    *)
(* search goes on at q + skip.  One that is still not done after Room      *)
(* rounds never is.                                                        *)
EachSubstring(s, sub, change(_, _), skip) ==
  LET turn(l, i) ==
        LET q == strstr(CString(l.s), l.at, sub)
        IN IF l.done \/ l.s.fault THEN l
           ELSE IF ~Terminated(l.s) THEN [l EXCEPT !.s = Fault(@)]
           ELSE IF q = -1 THEN [l EXCEPT !.done = TRUE]
           ELSE [l EXCEPT !.s = change(@, q), !.at = q + skip]
      end == FoldLeft(turn, [s |-> s, at |-> 0, done |-> FALSE], [i \in 1..(Room + 2) |-> i])
  IN IF end.done THEN end.s ELSE Fault(end.s)

String_remove_substring(s, sub) ==
  EachSubstring(s, sub, LAMBDA t, q : String_remove(t, q, q + Len(sub)), 0)

(* The search goes on behind as many bytes as the old substring had.       *)
String_replace_substrings(s, sub, new) ==
  EachSubstring(s, sub, LAMBDA t, q : BinaryBuffer_replace(t, q, Len(sub), new), Len(sub))

(* A negative count stands for the length of the new text.                 *)
String_replace_count(s, index, count, val) ==
  IF index >= s.len THEN s
  ELSE Ended(BinaryBuffer_replace(s, index, IF count < 0 THEN Len(val) ELSE count, val))

-----------------------------------------------------------------------------
(* The calls and the text they promise; numbers and Booleans are appended  *)
(* and inserted as text.                                                   *)

StringFits(n) == Len(bytes) + n < Room

StringSet ==
  \/ \E val \in Data : b' = String_set_count(b, val) /\ bytes' = val
  \/ b' \in {String_clear(b), String_clear_no_free(b), BinaryBuffer_extract_buffer(b)} /\ bytes' = <<>>

StringAppend ==
  \E val \in Data :
    /\ StringFits(Len(val))
    /\ Careful => b.len = 0
    /\ b' = String_append_count(b, val) /\ bytes' = bytes \o val

StringAppendFile ==
  \E data \in Data, short \in 0..2 :
    /\ StringFits(Len(data)) /\ short <= Len(data)
    /\ b' = String_append_file(b, data, Len(data) - short)
    /\ bytes' = IF short = 0 THEN bytes \o data ELSE bytes

StringInsert ==
  \E val \in Data, index \in Index :
    /\ StringFits(Len(val))
    /\ Careful => index > b.len
    /\ b' = String_insert_count(b, val, index)
    /\ bytes' = IF index > b.len THEN bytes ELSE Take(bytes, index) \o val \o Drop(bytes, index)

StringRemove ==
  \E begin, end \in Index :
    /\ Careful => (-Least(-begin, -end)) < String_get_length(b)
    /\ b' = String_remove(b, begin, end)
    /\ bytes' = Without(bytes, Least(begin, end), -Least(-begin, -end))

StringCase ==
  /\ b.len > 0
  /\ \/ b' = String_to_lower(b) /\ bytes' = Mapped(tolower, bytes)
     \/ b' = String_to_upper(b) /\ bytes' = Mapped(toupper, bytes)

(* Every occurrence, from the left, without overlap.                       *)
Replaced(s, sub, new) ==
  LET from[p \in 0..Len(s)] ==
        IF p + Len(sub) > Len(s) THEN Drop(s, p)
        ELSE IF SubSeq(s, p + 1, p + Len(sub)) = sub THEN new \o from[p + Len(sub)]
        ELSE <<s[p + 1]>> \o from[p + 1]
  IN from[0]

StringReplace ==
  \/ \E sub \in Data \ {<<>>} :
       /\ b.len > 0
       /\ Careful => ~IsSuffix(sub, bytes)
       /\ b' = String_remove_substring(b, sub) /\ bytes' = Replaced(bytes, sub, <<>>)
  \/ \E sub \in Data \ {<<>>}, new \in Data :
       /\ b.len > 0
       /\ bytes' = Replaced(bytes, sub, new) /\ Len(bytes') < Room
       /\ Careful => Len(sub) = Len(new)
       /\ b' = String_replace_substrings(b, sub, new)
  \/ \E val \in Data, index \in Index, n \in -1..2 :
       LET count == IF n < 0 THEN Len(val) ELSE n
           new_len == Len(bytes) + Len(val) - count
       IN /\ b.len > 0 /\ new_len < Room
          /\ Careful => index >= b.len \/ (index + count < b.len /\ new_len + 1 < capacity(b))
          /\ b' = String_replace_count(b, index, n, val)
          /\ bytes' = IF index >= b.len THEN bytes ELSE Take(bytes, index) \o val \o Drop(bytes, index + count)

StringCopy ==
  \/ \E val \in Data : b' = newString_ex(val) /\ bytes' = val
  \/ \E val \in Data : b' = String_copy_string(b, newString_ex(val)) /\ bytes' = val
  \/ (Careful => bytes = <<>>) /\ b' = newString_copy(b) /\ UNCHANGED bytes

StringShrink == b' = BinaryBuffer_shrink_to_fit(b) /\ UNCHANGED bytes

StringInit == b = newString /\ bytes = <<>>

StringNext ==
  /\ ~b.fault
  /\ \/ StringSet \/ StringAppend \/ StringAppendFile \/ StringInsert \/ StringRemove \/ StringCase
     \/ StringReplace \/ StringCopy \/ StringShrink

StringSpec == StringInit /\ [][StringNext]_vars

-----------------------------------------------------------------------------
(* Through every sequence of calls but those named above, a String holds   *)
(* the text it was given and one terminator behind it, in its memory.      *)
TextIsTerminated ==
  /\ ~b.fault /\ b.len <= capacity(b)
  /\ IF b.len = 0 THEN bytes = <<>> ELSE Contents(b) = Append(bytes, NUL)

(* String_append "Appends a null-terminated string to the end of the       *)
(* String": read as a C string, the result is the old text and the new.    *)
AppendAppends ==
  [][TextIsTerminated /\ StringAppend => Terminated(b') /\ CString(b') = bytes']_vars
=============================================================================
