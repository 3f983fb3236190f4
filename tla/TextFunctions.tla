--------------------------- MODULE TextFunctions ---------------------------
(***************************************************************************)
(* The functions on C strings and memory of source/alib_string.c, the      *)
(* string tests of source/alib_types.c and the trimming of                 *)
(* source/StrParser.c, each checked against what its comment says; the     *)
(* calls for which the code does otherwise are marked, and left out of     *)
(* what is said of the others.                                             *)
(*                                                                         *)
(* mem is a piece of memory whose last byte is a terminator; addresses     *)
(* count from 0.  A behaviour is one call: call holds its arguments, what  *)
(* the code does and what was to be done.                                  *)
(***************************************************************************)
EXTENDS Integers, SequencesExt

CONSTANTS
  Size,   \* bytes of memory
  Word    \* sizeof(size_t)

VARIABLES mem, call

vars == <<mem, call>>

NUL == 0
Space == 1
Digit == 2
LowerA == 3
UpperA == 4
Dot == 5
Symbol == {NUL, Space, Digit, LowerA, UpperA, Dot}

Address == 0..(Size - 1)
At(m, a) == m[a + 1]
Put(m, a, c) == [m EXCEPT ![a + 1] = c]
Bytes(m, a, n) == SubSeq(m, a + 1, a + n)
MaxOf(S) == CHOOSE x \in S : \A y \in S : y <= x
MinOf(S) == CHOOSE x \in S : \A y \in S : x <= y

strlen(m, a) == MinOf({n \in 0..(Size - 1 - a) : At(m, a + n) = NUL})

-----------------------------------------------------------------------------
(* Copying.  A loop that goes down through the offsets n..0, or up: after  *)
(* k turns the memory is after[k].                                         *)
CopyByte(m, to, from, k) == Put(m, to + k, At(m, from + k))
Downwards(m, to, from, n) ==
  LET after[k \in 0..(n + 1)] == IF k = 0 THEN m ELSE CopyByte(after[k - 1], to, from, n + 1 - k)
  IN after[n + 1]
Upwards(m, to, from, n) ==
  LET after[k \in 0..(n + 1)] == IF k = 0 THEN m ELSE CopyByte(after[k - 1], to, from, k - 1)
  IN after[n + 1]

memcpy_back(m, to, from, count) == Downwards(m, to, from, count - 1)

(* Mutant: the choice by the addresses is the wrong way round.             *)
memcpy_safe_swapped(m, to, from, count) ==
  IF to < from THEN memcpy_back(m, to, from, count) ELSE Upwards(m, to, from, count - 1)

memcpy_safe(m, to, from, count) ==
  IF to > from THEN memcpy_back(m, to, from, count) ELSE Upwards(m, to, from, count - 1)

(* The n characters and the one behind them are copied; if there was a     *)
(* terminator where they go, another one is put behind them first.         *)
CopyBack(m, to, from, n) ==
  LET hit == \E k \in 0..n : At(m, to + k) = NUL
  IN Downwards(IF hit THEN Put(m, to + n + 1, NUL) ELSE m, to, from, n)

strcpy_back(m, to, from) == CopyBack(m, to, from, strlen(m, from))

strncpy_back(m, to, from, count) == CopyBack(m, to, from, MinOf({count, strlen(m, from)}))

(* strncpy pads with terminators, strncpy_fast puts one if it has room.    *)
strncpy(m, to, from, count) ==
  LET n == MinOf({count, strlen(m, from)})
      copied == Upwards(m, to, from, n - 1)
  IN [i \in DOMAIN m |-> IF i \in (to + n + 1)..(to + count) THEN NUL ELSE copied[i]]

strncpy_fast(m, to, from, count) ==
  LET n == MinOf({count, strlen(m, from)})
  IN IF n < count THEN Upwards(m, to, from, n) ELSE Upwards(m, to, from, n - 1)

strncpy_safe(m, to, from, count) ==
  IF to = from THEN m
  ELSE IF to > from /\ to < from + count THEN strncpy_back(m, to, from, count)
  ELSE strncpy(m, to, from, count)

strcpy_safe(m, to, from) ==
  IF to > from THEN strcpy_back(m, to, from) ELSE Upwards(m, to, from, strlen(m, from))

(* The new string, without its terminator.                                 *)
strncpy_alloc(m, from, count) == Bytes(m, from, MinOf({count, strlen(m, from)}))

make_substr(m, begin_ptr, end_ptr) == strncpy_alloc(m, begin_ptr, end_ptr - begin_ptr)

-----------------------------------------------------------------------------
(* Searching and comparing.  NULL stands for no address.                   *)
NULL == -1
is_whitespace(c) == c = Space

(* The first address from a on whose byte is in stop.                      *)
Skip(m, a, stop) == MinOf({p \in a..(Size - 1) : At(m, p) \in stop})

find_next_whitespace(m, a) ==
  LET p == Skip(m, a, {Space, NUL}) IN IF At(m, p) = NUL THEN NULL ELSE p

(* Terminators are skipped as if they were white space.                    *)
find_next_non_whitespace(m, a) == Skip(m, a, Symbol \ {Space, NUL})

(* From the terminator backwards, down to the byte before the string, and  *)
(* that one is taken too.                                                  *)
find_last_char_count(m, a, c, count) ==
  LET found == {p \in (a - 1)..(a + count) : At(m, p) = c}
  IN IF found = {} THEN NULL ELSE MaxOf(found)

Sign(x, y) == IF x < y THEN -1 ELSE IF x > y THEN 1 ELSE 0

(* A word, the first byte being the least significant.                     *)
WordAt(m, a) ==
  LET read[k \in 0..Word] == IF k = 0 THEN 0 ELSE 10 * read[k - 1] + At(m, a + Word - k)
  IN read[Word]

(* Whole words while more than a word is left, then bytes.                 *)
str_match(m, a1, len1, a2, len2) ==
  LET words == {w \in 0..Size : (w + 1) * Word < len1 /\ WordAt(m, a1 + w * Word) # WordAt(m, a2 + w * Word)}
      rest == {k \in 0..(len1 - 1) : At(m, a1 + k) # At(m, a2 + k)}
  IN IF len1 # len2 THEN Sign(len1, len2)
     ELSE IF words # {} THEN LET w == MinOf(words) * Word IN Sign(WordAt(m, a1 + w), WordAt(m, a2 + w))
     ELSE IF rest # {} THEN LET k == MinOf(rest) IN Sign(At(m, a1 + k), At(m, a2 + k))
     ELSE 0

tolower(c) == IF c = UpperA THEN LowerA ELSE c

(* strncasecmp stops where the strings differ or both end.                 *)
BothEnd(m, a1, a2, k) == At(m, a1 + k) = NUL /\ At(m, a2 + k) = NUL
Differ(m, a1, a2, k) == tolower(At(m, a1 + k)) # tolower(At(m, a2 + k))
str_match_no_case(m, a1, len1, a2, len2) ==
  LET stop == {k \in 0..(len1 - 1) : Differ(m, a1, a2, k) \/ BothEnd(m, a1, a2, k)}
  IN IF len1 # len2 THEN Sign(len1, len2)
     ELSE IF stop = {} THEN 0
     ELSE LET k == MinOf(stop) IN Sign(tolower(At(m, a1 + k)), tolower(At(m, a2 + k)))

strn_to_lower(m, a, count) ==
  LET n == MinOf({count, strlen(m, a)})
  IN [i \in DOMAIN m |-> IF i \in (a + 1)..(a + n) THEN tolower(m[i]) ELSE m[i]]

(* White space is skipped, then digits must follow up to white space or    *)
(* the end of the string.                                                  *)
Word_of(m, a, end) ==
  LET begin == MinOf({end} \cup {p \in a..(end - 1) : ~is_whitespace(At(m, p))})
      stop == MinOf({end} \cup {p \in begin..(end - 1) : is_whitespace(At(m, p))})
  IN SubSeq(m, begin + 1, stop)
AllDigits(s) == s # <<>> /\ \A i \in DOMAIN s : s[i] = Digit

is_int(m, a) == AllDigits(Word_of(m, a, a + strlen(m, a)))
is_int_n(m, a, len) == AllDigits(Word_of(m, a, a + len))

(* The dot is noted and then refused with everything that is no digit.     *)
is_double(m, a) == is_int(m, a)

(* The letter stands for "true" and "false".  White space is asked for as  *)
(* many bytes behind the word's beginning as the string is long with the   *)
(* white space before it.                                                  *)
is_bool(m, a) ==
  LET begin == Skip(m, a, Symbol \ {Space})
      len == strlen(m, a)
  IN len >= 1 /\ tolower(At(m, begin)) = LowerA /\ is_whitespace(At(m, begin + len))

get_string_type(m, a) ==
  IF is_int(m, a) THEN "int" ELSE IF is_double(m, a) THEN "double" ELSE IF is_bool(m, a) THEN "bool" ELSE "string"

-----------------------------------------------------------------------------
(* StrParser, on the part of the memory from str.begin up to str.end.      *)
StrRef_init(begin, end) == [begin |-> begin, end |-> end]

StrParser_reset(p) == [p EXCEPT !.it = StrRef_init(NULL, p.str.begin)]

StrParser_init(begin, end) ==
  StrParser_reset([str |-> StrRef_init(begin, end), it |-> StrRef_init(NULL, NULL)])

(* The beginning stops at the end, the end at the beginning.               *)
StrParser_trim(m, p, chars) ==
  LET begin == MinOf({p.str.end} \cup {a \in p.str.begin..(p.str.end - 1) : At(m, a) \notin chars})
      last == MaxOf({MinOf({begin, p.str.end - 1})} \cup {a \in (begin + 1)..(p.str.end - 1) : At(m, a) \notin chars})
  IN StrParser_reset([p EXCEPT !.str = StrRef_init(begin, last + 1)])

-----------------------------------------------------------------------------
(* The calls.                                                              *)
Nothing == [kind |-> "none"]

(* n bytes are to be moved, the addresses in ends to get a terminator.     *)
Copied(to, from, count, n, ends, after) ==
  [kind |-> "copy", to |-> to, from |-> from, count |-> count, n |-> n, ends |-> ends, after |-> after]

(* An answer, the one the comment promises, and whether the call is one    *)
(* for which the code is known to do otherwise.                            *)
Asked(fn, got, want, odd) ==
  [kind |-> "ask", got |-> [f \in {fn} |-> got], want |-> [f \in {fn} |-> want], odd |-> odd]

(* The terminator that copying backwards puts behind what it copies.       *)
Behind(m, to, n) == IF \E k \in 0..n : At(m, to + k) = NUL THEN {to + n + 1} ELSE {}

(* Copies within the memory.  Backwards one byte more than asked for is    *)
(* moved, the terminator if the string ends before count.                  *)
Copy ==
  \E to, from \in Address, count \in 1..(Size - 1) :
    /\ to + count < Size - 1 /\ from + count < Size
    /\ LET n == MinOf({count, strlen(mem, from)})
           padding == (to + n)..(to + count - 1)
           back == to > from /\ to < from + count
       IN \/ call' = Copied(to, from, count, count, {}, memcpy_safe(mem, to, from, count))
          \/ to = from /\ call' = Copied(to, from, count, 0, {}, strncpy_safe(mem, to, from, count))
          \/ back /\ call' = Copied(to, from, count, n + 1, Behind(mem, to, n), strncpy_safe(mem, to, from, count))
          \/ to # from /\ ~back /\ call' = Copied(to, from, count, n, padding, strncpy_safe(mem, to, from, count))
          \/ to <= from /\ call' = Copied(to, from, count, IF n < count THEN n + 1 ELSE n, {}, strncpy_fast(mem, to, from, count))
          \/ /\ strlen(mem, from) < count
             /\ call' = Copied(to, from, count, n + 1, IF to > from THEN Behind(mem, to, n) ELSE {}, strcpy_safe(mem, to, from))

(* What a search of the text s is to find.                                 *)
FirstSpace(s) == SelectInSeq(s, is_whitespace)
FirstOther(s) == SelectInSeq(s, LAMBDA c : c # Space)
LastPlace(s, c) == SelectLastInSeq(s, LAMBDA x : x = c)

(* A word of the text stands behind the first i bytes, all of them white   *)
(* space, and ends at j.                                                   *)
WordIn(s, k, i, j) ==
  /\ i < j /\ (\A x \in 1..i : s[x] = Space) /\ (\A x \in (i + 1)..j : s[x] # Space)
  /\ (j = k \/ s[j + 1] = Space)
IsNumber(s, k) ==
  \E i, j \in 0..k : WordIn(s, k, i, j) /\ \A x \in (i + 1)..j : s[x] = Digit
IsDecimal(s, k) ==
  \E i, j \in 0..k :
    /\ WordIn(s, k, i, j) /\ (\E x \in (i + 1)..j : s[x] = Digit)
    /\ \E d \in (i + 1)..j : s[d] = Dot /\ \A x \in (i + 1)..j : x # d => s[x] = Digit
IsTruth(s, k) ==
  \E i \in 0..(k - 1) : WordIn(s, k, i, i + 1) /\ tolower(s[i + 1]) = LowerA
TypeOf(s, k) ==
  IF IsNumber(s, k) THEN "int" ELSE IF IsDecimal(s, k) THEN "double" ELSE IF IsTruth(s, k) THEN "bool" ELSE "string"

(* A string of the memory that is not at its very beginning is asked for   *)
(* something.                                                              *)
Search ==
  \E a \in Address \ {0} :
    LET n == strlen(mem, a)
        s == Bytes(mem, a, n)
        begin == Skip(mem, a, Symbol \ {Space})
    IN \/ call' = Asked("find_next_whitespace", find_next_whitespace(mem, a),
                        IF Space \in Range(s) THEN a + FirstSpace(s) - 1 ELSE NULL, FALSE)
       \/ /\ \E i \in 1..n : s[i] # Space
          /\ call' = Asked("find_next_non_whitespace", find_next_non_whitespace(mem, a), a + FirstOther(s) - 1, FALSE)
       \/ \E c \in Symbol \ {NUL} :
            call' = Asked("find_last_char_count", find_last_char_count(mem, a, c, n),
                          IF c \in Range(s) THEN a + LastPlace(s, c) - 1 ELSE NULL,
                          c \notin Range(s) /\ At(mem, a - 1) = c)
       \/ \E k \in 0..n :
            \/ call' = Asked("make_substr", make_substr(mem, a, a + k), SubSeq(s, 1, k), FALSE)
            \/ call' = Asked("strn_to_lower", strn_to_lower(mem, a, k),
                             SubSeq(mem, 1, a) \o [i \in 1..k |-> tolower(s[i])] \o SubSeq(mem, a + k + 1, Size), FALSE)
            \/ call' = Asked("is_int_n", is_int_n(mem, a, k), IsNumber(s, k), FALSE)
       \/ /\ begin + n < Size
          /\ call' = Asked("get_string_type", get_string_type(mem, a), TypeOf(s, n),
                           TypeOf(s, n) \in {"double", "bool"} \/ At(mem, begin + n) = Space)

(* Two strings of given lengths are compared.                              *)
Small(s) == [i \in DOMAIN s |-> tolower(s[i])]
Compare ==
  \E a1, a2 \in Address, len1, len2 \in 1..(Size - 1) :
    /\ a1 + len1 < Size /\ a2 + len2 < Size
    /\ LET s1 == Bytes(mem, a1, len1)
           s2 == Bytes(mem, a2, len2)
           r == str_match(mem, a1, len1, a2, len2)
           q == str_match_no_case(mem, a1, len1, a2, len2)
       IN \/ call' = Asked("str_match", <<r = 0, r>>, <<s1 = s2, -str_match(mem, a2, len2, a1, len1)>>, FALSE)
          \/ call' = Asked("str_match_no_case", <<q = 0, q>>,
                           <<Small(s1) = Small(s2), -str_match_no_case(mem, a2, len2, a1, len1)>>,
                           len1 = len2 /\ \E k \in 0..(len1 - 1) : BothEnd(mem, a1, a2, k))

Trim ==
  \E begin, end \in 0..Size, chars \in SUBSET {Space, LowerA} :
    /\ begin <= end
    /\ LET p == StrParser_trim(mem, StrParser_init(begin, end), chars)
       IN call' = [kind |-> "trim", chars |-> chars, before |-> StrRef_init(begin, end), after |-> p]

Init == mem \in {Append(s, NUL) : s \in [1..(Size - 1) -> Symbol]} /\ call = Nothing

Next == call = Nothing /\ UNCHANGED mem /\ (Copy \/ Search \/ Compare \/ Trim)

Spec == Init /\ [][Next]_vars

-----------------------------------------------------------------------------
(* A copy between overlapping places moves the bytes that were there, puts *)
(* the terminators it is to put, and touches no other byte.  Copying       *)
(* backwards moves one byte more than count, whatever it is, and puts a    *)
(* terminator behind it if it overwrote one (alib_string.c:51-73).         *)
OverlapIsCopied ==
  call.kind = "copy" =>
    \A a \in Address :
      At(call.after, a) = IF a - call.to \in 0..(call.n - 1) THEN At(mem, call.from + (a - call.to))
                          ELSE IF a \in call.ends THEN NUL ELSE At(mem, a)

(* Searches, comparisons and tests of strings answer what their comments   *)
(* promise: the comparison by words finds every difference and gives the   *)
(* opposite answer to the opposite question.  Not so, and left out here:   *)
(* find_last_char_count finds the byte before the string                   *)
(* (alib_string.c:358), str_match_no_case is blind behind a terminator in  *)
(* both strings (:496), and get_string_type knows no double and no bool    *)
(* and takes a byte behind the string into account (alib_types.c:147-223). *)
AnswersAreRight == call.kind = "ask" /\ ~call.odd => call.got = call.want

(* Trimming cuts only characters it was given, and all of them at both     *)
(* ends, also when nothing is left; the iterator starts at the beginning.  *)
TrimsBothEnds ==
  call.kind = "trim" =>
    LET b == call.before
        s == call.after.str
    IN /\ b.begin <= s.begin /\ s.begin <= s.end /\ s.end <= b.end
       /\ \A a \in (b.begin..(s.begin - 1)) \cup (s.end..(b.end - 1)) : At(mem, a) \in call.chars
       /\ s.begin < s.end => At(mem, s.begin) \notin call.chars /\ At(mem, s.end - 1) \notin call.chars
       /\ call.after.it = StrRef_init(NULL, s.begin)

(* The three together: but for the calls marked as odd, every call does    *)
(* what its comment says, and copies are exact to the byte.                *)
TextIsHandled == OverlapIsCopied /\ AnswersAreRight /\ TrimsBothEnds

(* strncpy_back's comment: "up to a maximum number of characters specified *)
(* by 'count'" (alib_string.c:35-36): behind them no byte changes, but to  *)
(* a terminator.                                                           *)
CopiesAtMostCount ==
  call.kind = "copy" =>
    \A a \in Address : a >= call.to + call.count => At(call.after, a) \in {At(mem, a), NUL}

(* str_match_no_case's comment: "this will not stop checking after the     *)
(* first null terminator" (alib_string.c:454-456): strings match only if   *)
(* all their bytes do.                                                     *)
ComparesAllBytes ==
  call.kind = "ask" /\ "str_match_no_case" \in DOMAIN call.got => call.got = call.want

(* find_last_char_count's comment: "NULL: No matching character was        *)
(* found.", else "A pointer to the last character in the string that       *)
(* matches 'c'" (alib_string.c:342-344).                                   *)
FindsInTheString ==
  call.kind = "ask" /\ "find_last_char_count" \in DOMAIN call.got => call.got = call.want

(* get_string_type's comment: "Returns the type that the null-terminated   *)
(* string can be parsed into." (alib_types.c:224-225)                      *)
TypesAreTold ==
  call.kind = "ask" /\ "get_string_type" \in DOMAIN call.got => call.got = call.want
=============================================================================
