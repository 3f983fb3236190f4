------------------------------- MODULE RBuff -------------------------------
(***************************************************************************)
(* The rotational buffer of source/RBuff.c.  Pointers are offsets from     *)
(* rbuff->buff, so buffEnd is the constant Size.  itEnd may rest on        *)
(* buffEnd (RBuff_pushback leaves it there when it fills the last byte);   *)
(* itBegin never does.                                                     *)
(***************************************************************************)
EXTENDS Integers, Sequences

CONSTANTS
  Byte,         \* the values a byte of the buffer can have
  Size,         \* buffEnd - buff
  MaxCall       \* bound on the 'count' argument of a call

ASSUME SizeAssumption == Size \in Nat \ {0}
ASSUME ByteAssumption == Byte # {}
ASSUME MaxCallAssumption == MaxCall \in Nat

VARIABLES
  buff,     \* the Size bytes at rbuff->buff
  itBegin,  \* offset of the oldest byte
  itEnd,    \* offset the next byte is written to
  count,    \* rbuff->count
  noOverwrite, \* whether the rbuffNoOverwrite flag is raised
  ret       \* the last call: its return value, and the bytes it copied to
            \* the caller's array or was given in it

vars == <<buff, itBegin, itEnd, count, noOverwrite, ret>>

Offset == 0 .. Size - 1

Lesser(a, b) == IF a < b THEN a ELSE b

Returns(n, bytes) == ret' = [n |-> n, bytes |-> bytes]

-----------------------------------------------------------------------------
(* Private helpers.                                                        *)

(* Bytes from itEnd to the end of the buffer or to itBegin.                *)
EndItToBuffEnd(b, e) == IF e < b THEN b - e ELSE Size - e

(* Bytes from itBegin to the end of the buffer or to itEnd.                *)
BeginItToBuffEnd(b, e) == IF b < e THEN e - b ELSE Size - b

(* Mutant: the wrap test of _incrementIt forgets the case 'exactly at the  *)
(* end'.                                                                   *)
IncrementIt_restsAtEnd(it, n) ==
  LET to == it + (IF n > Size THEN n % Size ELSE n)
  IN IF to > Size THEN to - Size ELSE to

IncrementIt(it, n) ==
  LET to == it + (IF n > Size THEN n % Size ELSE n)
  IN IF to >= Size THEN to - Size ELSE to

RBuff_get_size == Size
RBuff_get_count == count
RBuff_get_remaining == RBuff_get_size - RBuff_get_count

(* The n (at most count) bytes RBuff_copy delivers: one memcpy from        *)
(* itBegin and, when that run is too short, a second one from buff.        *)
Copied(n) ==
  LET run == BeginItToBuffEnd(itBegin, itEnd)
  IN [i \in 1..n |-> IF run < n /\ i > run
                     THEN buff[i - run - 1]
                     ELSE buff[itBegin + i - 1]]

-----------------------------------------------------------------------------
(* Public operations.                                                      *)

RBuff_copy(n) ==
  LET k == Lesser(n, count)
  IN /\ Returns(k, Copied(k))
     /\ UNCHANGED <<buff, itBegin, itEnd, count, noOverwrite>>

RBuff_popoff(n) ==
  LET k == Lesser(n, count)
  IN /\ Returns(k, Copied(k))
     /\ itBegin' = IncrementIt(itBegin, k)
     /\ count' = count - k
     /\ UNCHANGED <<buff, itEnd, noOverwrite>>

(* The guard of the code refuses an empty buffer with ALIB_BAD_ARG.        *)
RBuff_popoff_byte ==
  \/ /\ count = 0
     /\ Returns(-1, <<>>)
     /\ UNCHANGED <<buff, itBegin, itEnd, count, noOverwrite>>
  \/ /\ count > 0
     /\ Returns(1, <<buff[itBegin]>>)
     /\ itBegin' = IncrementIt(itBegin, 1)
     /\ count' = count - 1
     /\ UNCHANGED <<buff, itEnd, noOverwrite>>

(* memcpy of the n bytes data[from+1 ..] to offset 'to' of mem.            *)
Memcpy(mem, to, data, from, n) ==
  [i \in DOMAIN mem |-> IF to <= i /\ i < to + n
                        THEN data[from + i - to + 1] ELSE mem[i]]

(* What an array longer than the buffer is cut down to: its last bytes.    *)
Tail_of(data) ==
  IF Len(data) > Size THEN SubSeq(data, Len(data) - Size + 1, Len(data)) ELSE data

(* Mutant: the second memcpy starts at the front of the caller's array     *)
(* again ('buff += copyCount' is missing).                                 *)
CopyIn_sameSource(data, n, b) ==
  LET run == EndItToBuffEnd(b, itEnd)
  IN IF n > run
     THEN /\ buff' = Memcpy(Memcpy(buff, itEnd, data, 0, run), 0, data, 0, n - run)
          /\ itEnd' = n - run
     ELSE /\ buff' = Memcpy(buff, itEnd, data, 0, n)
          /\ itEnd' = itEnd + n

(* The two-part copy at the end of RBuff_pushback: n bytes of data go to   *)
(* itEnd, and the ones that do not fit before the end of the run to buff.  *)
CopyIn(data, n, b) ==
  LET run == EndItToBuffEnd(b, itEnd)
  IN IF n > run
     THEN /\ buff' = Memcpy(Memcpy(buff, itEnd, data, 0, run), 0, data, run, n - run)
          /\ itEnd' = n - run
     ELSE /\ buff' = Memcpy(buff, itEnd, data, 0, n)
          /\ itEnd' = itEnd + n

(* Mutant: an overwriting push does not pop the bytes it overwrites, and   *)
(* relies on the clamp of count alone.                                     *)
RBuff_pushback_noPop(array) ==
  LET data == Tail_of(array)
  IN /\ CopyIn(data, Len(data), itBegin)
     /\ count' = Lesser(count + Len(data), Size)
     /\ Returns(Len(data), array)
     /\ UNCHANGED <<itBegin, noOverwrite>>

(* How many bytes of data a push stores, and how many of the oldest bytes  *)
(* it pops first, when data does not fit.                                  *)
Stored(data) ==
  IF Len(data) + count > Size /\ noOverwrite THEN Size - count ELSE Len(data)

Displaced(data) ==
  IF Len(data) + count > Size /\ ~noOverwrite
  THEN Lesser(Len(data) + count - Size, count) ELSE 0

RBuff_pushback(array) ==
  LET data == Tail_of(array)
      b    == IncrementIt(itBegin, Displaced(data))
  IN /\ CopyIn(data, Stored(data), b)
     /\ itBegin' = b
     /\ count' = Lesser(count - Displaced(data) + Stored(data), Size)
     /\ Returns(Stored(data), array)
     /\ UNCHANGED noOverwrite

RBuff_pushback_byte(byte) == RBuff_pushback(<<byte>>)

(* Moves itEnd over n bytes the caller wrote itself.  Past the end of the  *)
(* free room itBegin moves too, by the same n.                             *)
RBuff_increment_it(n) ==
  /\ n > 0
  /\ IF count + n > Size
     THEN /\ itBegin' = IncrementIt(itBegin, n)
          /\ count' = Size
     ELSE /\ count' = count + n
          /\ UNCHANGED itBegin
  /\ itEnd' = IncrementIt(itEnd, n)
  /\ Returns(0, <<>>)
  /\ UNCHANGED <<buff, noOverwrite>>

(* Initialising the object (again) over the same memory.                   *)
RBuff_init(noOver) ==
  /\ itBegin' = 0
  /\ itEnd' = 0
  /\ count' = 0
  /\ noOverwrite' = noOver
  /\ Returns(0, <<>>)
  /\ UNCHANGED buff

RBuff_reset == RBuff_init(noOverwrite)

-----------------------------------------------------------------------------
(* newRBuff does not clear the memory it gets from malloc.  Objects it     *)
(* makes overwrite; RBuff_init can make one that does not.                 *)
Init ==
  /\ buff \in [Offset -> Byte]
  /\ itBegin = 0
  /\ itEnd = 0
  /\ count = 0
  /\ noOverwrite = FALSE
  /\ ret = [n |-> 0, bytes |-> <<>>]

Arrays == UNION {[1..n -> Byte] : n \in 1..MaxCall}

QueueOps ==
  \/ \E array \in Arrays : RBuff_pushback(array)
  \/ \E byte \in Byte : RBuff_pushback_byte(byte)
  \/ \E n \in 0..MaxCall : RBuff_copy(n) \/ RBuff_popoff(n)
  \/ RBuff_popoff_byte
  \/ RBuff_reset
  \/ \E noOver \in BOOLEAN : RBuff_init(noOver)

(* Callers that commit bytes of their own only into the free room, as      *)
(* RBuff_get_remaining reports it.                                         *)
NextInRoom ==
  \/ QueueOps
  \/ \E n \in 0..MaxCall : n <= RBuff_get_remaining /\ RBuff_increment_it(n)

SpecInRoom == Init /\ [][NextInRoom]_vars

(* Every call RBuff.h allows.                                              *)
Next ==
  \/ QueueOps
  \/ \E n \in 0..MaxCall : RBuff_increment_it(n)

Spec == Init /\ [][Next]_vars

-----------------------------------------------------------------------------
(* Every pointer of the object stays inside its allocation: itBegin can    *)
(* be dereferenced and itEnd is at most buffEnd.  RBuff.c never checks     *)
(* this; it follows from the arithmetic of the wrap-around alone, for      *)
(* every sequence of calls, RBuff_increment_it past the room included.     *)
TypeOK ==
  /\ buff \in [Offset -> Byte]
  /\ itBegin \in Offset
  /\ itEnd \in 0..Size
  /\ count \in 0..Size
  /\ noOverwrite \in BOOLEAN
  /\ ret \in [n : Int, bytes : Seq(Byte)]

(* buffEnd and buff are the same place of the ring.                        *)
EndPos == IF itEnd = Size THEN 0 ELSE itEnd

(* The count kept in the object and the two pointers tell the same story:  *)
(* itEnd is 'count' bytes after itBegin around the ring.  RBuff_get_count  *)
(* returns the stored count instead of computing it from the pointers (the *)
(* '#if 0' part of the function), so every operation has to keep the two   *)
(* in step.                                                                *)
CountMatchesPointers ==
  EndPos = (itBegin + count) % Size

(* Reading the object as a queue.                                          *)
Contents == Copied(count)

Fifo == INSTANCE BoundedFifo WITH queue <- Contents

(* The pointer arithmetic implements a bounded queue: pushes keep the      *)
(* newest Size bytes (or refuse the surplus), pops and copies deliver the  *)
(* oldest bytes in order, across every wrap-around.                        *)
ImplementsFifo == Fifo!Spec
=============================================================================
