------------------------------ MODULE RBuffIt ------------------------------
(***************************************************************************)
(* The iterator over a rotational buffer (source/RBuffIt.c), used while    *)
(* its RBuff goes on being pushed to and popped from.  The iterator keeps  *)
(* one pointer and does not learn of changes to the buffer (_recover,      *)
(* which would notice some of them, is never called).                      *)
(***************************************************************************)
EXTENDS RBuff

CONSTANT NULL

ASSUME NullAssumption == NULL \notin 0..Size

VARIABLES
  it,      \* it->it: NULL or an offset into the buffer
  moved,   \* what the last RBuffIt_next or RBuffIt_prev returned
  walk     \* history: how many items RBuffIt_next delivered since it was
           \* last at NULL; -1 once the buffer changed or prev was used

itVars == <<it, moved, walk>>
allVars == <<vars, itVars>>

RBuffIt_get_index ==
  CASE it = NULL    -> -1
    [] it # NULL /\ it < itBegin -> (Size - itBegin) + it
    [] OTHER        -> it - itBegin

-----------------------------------------------------------------------------
Keep(ptr) == it' = ptr /\ moved' = 1
Stop      == it' = NULL /\ moved' = 0

After(ptr) == IF ptr + 1 >= Size THEN 0 ELSE ptr + 1

Before(ptr) == IF ptr - 1 < 0 THEN Size - 1 ELSE ptr - 1

(* Mutant: the end test comes before the increment, so the walk runs one   *)
(* item too far.                                                           *)
RBuffIt_next_testFirst ==
  /\ \/ it = NULL /\ count = 0 /\ Stop
     \/ it = NULL /\ count > 0 /\ Keep(itBegin)
     \/ it # NULL /\ it = itEnd /\ Stop
     \/ it # NULL /\ it # itEnd /\ Keep(After(it))
  /\ walk' = IF it = NULL THEN moved' ELSE IF walk = -1 THEN -1 ELSE moved' * (walk + 1)
  /\ UNCHANGED vars

RBuffIt_next ==
  /\ \/ it = NULL /\ count = 0 /\ Stop
     \/ it = NULL /\ count > 0 /\ Keep(itBegin)
     \/ it # NULL /\ After(it) = itEnd /\ Stop
     \/ it # NULL /\ After(it) # itEnd /\ Keep(After(it))
  /\ walk' = IF it = NULL THEN moved' ELSE IF walk = -1 THEN -1 ELSE moved' * (walk + 1)
  /\ UNCHANGED vars

RBuffIt_prev ==
  /\ \/ it = NULL /\ count = 0 /\ Stop
     \/ it = NULL /\ count > 0 /\ Keep(itEnd)
     \/ it # NULL /\ it = itBegin /\ Stop
     \/ it # NULL /\ it # itBegin /\ Keep(Before(it))
  /\ walk' = IF it' = NULL THEN 0 ELSE -1
  /\ UNCHANGED vars

RBuffIt_reset ==
  /\ it' = NULL
  /\ walk' = 0
  /\ UNCHANGED <<vars, moved>>

(* The owner of the buffer works on it behind the iterator's back, with    *)
(* any call RBuff.h allows.                                                *)
Unseen ==
  /\ walk' = IF it = NULL THEN 0 ELSE -1
  /\ UNCHANGED <<it, moved>>

BufferStep == Next /\ Unseen

ItInit ==
  /\ Init
  /\ it = NULL
  /\ moved = 0
  /\ walk = 0

(* The history variable needs no more than one round past the buffer.      *)
WalkBound == Size + 1

ItStep ==
  \/ walk < WalkBound /\ RBuffIt_next
  \/ RBuffIt_prev
  \/ RBuffIt_reset

ItNext == ItStep \/ BufferStep

ItSpec == ItInit /\ [][ItNext]_allVars

(* The same beside callers that commit bytes of their own only into the    *)
(* free room.                                                              *)
ItSpecInRoom == ItInit /\ [][ItStep \/ (NextInRoom /\ Unseen)]_allVars

-----------------------------------------------------------------------------
(* A byte RBuffIt_next moves to can be dereferenced, even when the         *)
(* iterator stood on buffEnd before.  And while the buffer does not        *)
(* change, its count agrees with its pointers and its end pointer does not *)
(* rest on buffEnd, a forward walk delivers the stored bytes in order,     *)
(* each once, and ends exactly when all of them were delivered - also in a *)
(* full buffer, where itEnd and itBegin are the same address.  An itEnd on *)
(* buffEnd, where RBuff_pushback may leave it, is never met and left out   *)
(* here; WalkEnds is about it.                                             *)
WalkInOrder ==
  [][/\ RBuffIt_next /\ moved' = 1 => it' \in Offset
     /\ itEnd # Size /\ CountMatchesPointers =>
          /\ (RBuffIt_next /\ walk >= 0 /\ moved' = 1
                => walk' <= count /\ RBuffIt_get_index' = walk' - 1)
          /\ (RBuffIt_next /\ walk > 0 /\ moved' = 0 => walk = count)]_allVars

(* RBuffIt_next's comment: "false: If the iterator has hit the end of the  *)
(* buffer" (RBuffIt.c:59): over a buffer that does not change no more      *)
(* items are delivered than there are.                                     *)
WalkEnds ==
  [][CountMatchesPointers /\ RBuffIt_next /\ walk >= 0 /\ moved' = 1 => walk' <= count]_allVars
=============================================================================
