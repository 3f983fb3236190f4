---------------------------- MODULE RBuff_proof ----------------------------
(***************************************************************************)
(* Proofs about the rotational buffer and its iterator, for every buffer   *)
(* size, every bound on the arguments and both overwrite modes.            *)
(***************************************************************************)
EXTENDS RBuffIt, SequenceTheorems, TLAPS

USE DEF Offset

-----------------------------------------------------------------------------
(* Lemmas about the helpers of RBuff.c.                                    *)

(* _incrementIt keeps a pointer inside the allocation for any distance,    *)
(* and one that can be dereferenced stays so.                              *)
LEMMA IncrementItInBuffer ==
  ASSUME NEW ptr \in 0..Size, NEW n \in Nat
  PROVE  IncrementIt(ptr, n) \in 0..Size
PROOF
  <1>1. n % Size \in 0..(Size - 1)
    BY SizeAssumption
  <1> QED
    BY <1>1, SizeAssumption DEF IncrementIt

(* From a byte of the buffer _incrementIt leads to a byte of the buffer,   *)
(* never to buffEnd: the wrap test uses '>='.                              *)
LEMMA IncrementItDereferenceable ==
  ASSUME NEW ptr \in Offset, NEW n \in Nat
  PROVE  IncrementIt(ptr, n) \in Offset
PROOF
  <1>1. n % Size \in 0..(Size - 1)
    BY SizeAssumption
  <1> QED
    BY <1>1, SizeAssumption DEF IncrementIt

(* Around the ring, moving no further than once: the remainder that        *)
(* defines a position is one conditional subtraction.                      *)
LEMMA RingPosition ==
  ASSUME NEW a \in 0..(2 * Size - 1)
  PROVE  a % Size = IF a < Size THEN a ELSE a - Size
PROOF
  BY SizeAssumption

(* The bytes RBuff_copy hands out are bytes of the buffer: neither memcpy  *)
(* reads outside of the allocation.                                        *)
LEMMA CopiedType ==
  ASSUME TypeOK, NEW n \in 0..count
  PROVE  Copied(n) \in Seq(Byte)
PROOF
  <1> DEFINE run == BeginItToBuffEnd(itBegin, itEnd)
  <1>1. run \in 1..Size /\ itBegin + run <= Size
    BY SizeAssumption DEF TypeOK, BeginItToBuffEnd
  <1>2. ASSUME NEW i \in 1..n, run < n, i > run
        PROVE  buff[i - run - 1] \in Byte
    BY <1>1, <1>2, SizeAssumption DEF TypeOK
  <1>3. ASSUME NEW i \in 1..n, ~(run < n /\ i > run)
        PROVE  buff[itBegin + i - 1] \in Byte
    BY <1>1, <1>3, SizeAssumption DEF TypeOK
  <1>4. Copied(n) \in [1..n -> Byte]
    BY <1>2, <1>3 DEF Copied
  <1>5. n \in Nat
    BY SizeAssumption DEF TypeOK
  <1> QED
    BY <1>4, <1>5

(* A memcpy of bytes into the buffer leaves a buffer of bytes.             *)
LEMMA MemcpyType ==
  ASSUME NEW mem \in [Offset -> Byte], NEW to \in 0..Size, NEW data \in Seq(Byte),
         NEW from \in Nat, NEW n \in Nat, from + n <= Len(data)
  PROVE  Memcpy(mem, to, data, from, n) \in [Offset -> Byte]
PROOF
  <1>1. ASSUME NEW i \in Offset, to <= i, i < to + n
        PROVE  data[from + i - to + 1] \in Byte
    <2>1. from + i - to + 1 \in 1..Len(data)
      BY <1>1, SizeAssumption
    <2> QED
      BY <2>1
  <1> QED
    BY <1>1 DEF Memcpy

(* What RBuff_pushback keeps of the caller's array.                        *)
LEMMA TailType ==
  ASSUME NEW array \in Arrays
  PROVE  /\ Tail_of(array) \in Seq(Byte)
         /\ Len(Tail_of(array)) \in 1..Size
PROOF
  <1>1. array \in Seq(Byte) /\ Len(array) \in Nat /\ Len(array) >= 1
    BY MaxCallAssumption DEF Arrays
  <1>2. CASE Len(array) > Size
    BY <1>1, <1>2, SizeAssumption DEF Tail_of
  <1>3. CASE ~(Len(array) > Size)
    BY <1>1, <1>3, SizeAssumption DEF Tail_of
  <1> QED
    BY <1>2, <1>3

-----------------------------------------------------------------------------
(* Memory safety of the object.                                            *)

(* A push stores at most the array it was given and displaces at most      *)
(* what the buffer holds.                                                  *)
LEMMA PushAmounts ==
  ASSUME TypeOK, NEW data \in Seq(Byte), Len(data) \in 1..Size
  PROVE  /\ Stored(data) \in 0..Len(data)
         /\ Displaced(data) \in 0..count
         /\ count - Displaced(data) + Stored(data) \in 0..Size
PROOF
  BY SizeAssumption DEF TypeOK, Stored, Displaced, Lesser

(* The two-part copy writes inside the allocation and leaves itEnd in it.  *)
LEMMA CopyInType ==
  ASSUME TypeOK, NEW data \in Seq(Byte), NEW n \in 0..Size, n <= Len(data),
         NEW b \in Offset, CopyIn(data, n, b)
  PROVE  buff' \in [Offset -> Byte] /\ itEnd' \in 0..Size
PROOF
  <1> DEFINE run == EndItToBuffEnd(b, itEnd)
  <1>1. run \in 0..Size /\ itEnd + run <= Size
    BY SizeAssumption DEF TypeOK, EndItToBuffEnd
  <1>2. /\ n > run => /\ buff' = Memcpy(Memcpy(buff, itEnd, data, 0, run), 0, data, run, n - run)
                     /\ itEnd' = n - run
        /\ ~(n > run) => /\ buff' = Memcpy(buff, itEnd, data, 0, n)
                        /\ itEnd' = itEnd + n
    BY DEF CopyIn
  <1>3. Len(data) \in Nat /\ itEnd \in 0..Size /\ buff \in [Offset -> Byte]
    BY DEF TypeOK
  <1> HIDE DEF run
  <1>4. CASE n > run
    <2>1. Memcpy(buff, itEnd, data, 0, run) \in [Offset -> Byte]
      BY <1>1, <1>3, <1>4, MemcpyType, SizeAssumption
    <2>2. Memcpy(Memcpy(buff, itEnd, data, 0, run), 0, data, run, n - run)
            \in [Offset -> Byte]
      BY <2>1, <1>1, <1>3, <1>4, MemcpyType, SizeAssumption
    <2> QED
      BY <2>2, <1>1, <1>2, <1>4, SizeAssumption
  <1>5. CASE ~(n > run)
    <2>1. Memcpy(buff, itEnd, data, 0, n) \in [Offset -> Byte]
      BY <1>3, MemcpyType, SizeAssumption
    <2> QED
      BY <2>1, <1>1, <1>2, <1>3, <1>5, SizeAssumption
  <1> QED
    BY <1>4, <1>5

(* RBuff_pushback of any array, overwriting or refusing the surplus, keeps *)
(* every pointer inside the allocation.                                    *)
LEMMA PushbackType ==
  ASSUME TypeOK, NEW array \in Seq(Byte), Tail_of(array) \in Seq(Byte),
         Len(Tail_of(array)) \in 1..Size, RBuff_pushback(array)
  PROVE  TypeOK'
PROOF
  <1> DEFINE data == Tail_of(array)
             b    == IncrementIt(itBegin, Displaced(data))
  <1>1. /\ CopyIn(data, Stored(data), b)
        /\ itBegin' = b
        /\ count' = Lesser(count - Displaced(data) + Stored(data), Size)
        /\ ret' = [n |-> Stored(data), bytes |-> array]
        /\ noOverwrite' = noOverwrite
    BY DEF RBuff_pushback, Returns
  <1>2. /\ Stored(data) \in 0..Size /\ Stored(data) <= Len(data)
        /\ Displaced(data) \in Nat
        /\ count - Displaced(data) + Stored(data) \in 0..Size
    BY PushAmounts, SizeAssumption DEF TypeOK
  <1>4. b \in Offset
    BY <1>2, IncrementItDereferenceable DEF TypeOK
  <1> HIDE DEF data, b
  <1>5. buff' \in [Offset -> Byte] /\ itEnd' \in 0..Size
    BY <1>1, <1>2, <1>4, CopyInType DEF data
  <1>6. count' \in 0..Size
    BY <1>1, <1>2, SizeAssumption DEF Lesser
  <1>7. ret' \in [n : Int, bytes : Seq(Byte)]
    BY <1>1, <1>2
  <1> QED
    BY <1>1, <1>4, <1>5, <1>6, <1>7 DEF TypeOK

(* So does every other operation of the queue: RBuff_copy, RBuff_popoff,   *)
(* RBuff_popoff_byte, RBuff_init and RBuff_reset.                          *)
LEMMA QueueOpsType == TypeOK /\ QueueOps => TypeOK'
PROOF
  <1> SUFFICES ASSUME TypeOK, QueueOps PROVE TypeOK'
    OBVIOUS
  <1>1. ASSUME NEW array \in Arrays, RBuff_pushback(array) PROVE TypeOK'
    <2>1. array \in Seq(Byte)
      BY MaxCallAssumption DEF Arrays
    <2> QED
      BY <1>1, <2>1, TailType, PushbackType
  <1>2. ASSUME NEW byte \in Byte, RBuff_pushback_byte(byte) PROVE TypeOK'
    <2>1. Tail_of(<<byte>>) = <<byte>>
      BY SizeAssumption DEF Tail_of
    <2>2. <<byte>> \in Seq(Byte) /\ Len(<<byte>>) \in 1..Size
      BY SizeAssumption
    <2>3. RBuff_pushback(<<byte>>)
      BY <1>2 DEF RBuff_pushback_byte
    <2> QED
      BY <2>1, <2>2, <2>3, PushbackType
  <1>3. ASSUME NEW n \in 0..MaxCall PROVE Lesser(n, count) \in 0..count
    BY MaxCallAssumption, SizeAssumption DEF Lesser, TypeOK
  <1>4. ASSUME NEW n \in 0..MaxCall, RBuff_copy(n) PROVE TypeOK'
    BY <1>3, <1>4, CopiedType, SizeAssumption DEF RBuff_copy, Returns, TypeOK
  <1>5. ASSUME NEW n \in 0..MaxCall, RBuff_popoff(n) PROVE TypeOK'
    <2>1. IncrementIt(itBegin, Lesser(n, count)) \in Offset
      <3>1. Lesser(n, count) \in Nat
        BY <1>3
      <3> QED
        BY <3>1, IncrementItDereferenceable DEF TypeOK
    <2>2. Copied(Lesser(n, count)) \in Seq(Byte)
      BY <1>3, CopiedType
    <2> QED
      BY <1>3, <1>5, <2>1, <2>2, SizeAssumption DEF RBuff_popoff, Returns, TypeOK
  <1>6. CASE RBuff_popoff_byte
    <2>1. IncrementIt(itBegin, 1) \in Offset
      BY IncrementItDereferenceable DEF TypeOK
    <2>2. <<buff[itBegin]>> \in Seq(Byte)
      BY DEF TypeOK
    <2>3. CASE count = 0
      <3>1. /\ ret' = [n |-> -1, bytes |-> <<>>]
            /\ UNCHANGED <<buff, itBegin, itEnd, count, noOverwrite>>
        BY <1>6, <2>3 DEF RBuff_popoff_byte, Returns
      <3>2. ret' \in [n : Int, bytes : Seq(Byte)]
        BY <3>1
      <3> QED
        BY <3>1, <3>2 DEF TypeOK
    <2>4. CASE count > 0
      <3>1. /\ ret' = [n |-> 1, bytes |-> <<buff[itBegin]>>]
            /\ itBegin' = IncrementIt(itBegin, 1)
            /\ count' = count - 1
            /\ UNCHANGED <<buff, itEnd, noOverwrite>>
        BY <1>6, <2>4 DEF RBuff_popoff_byte, Returns
      <3>2. ret' \in [n : Int, bytes : Seq(Byte)]
        BY <3>1, <2>2
      <3> QED
        BY <2>1, <2>4, <3>1, <3>2, SizeAssumption DEF TypeOK
    <2> QED
      BY <2>3, <2>4, SizeAssumption DEF TypeOK
  <1>7. ASSUME NEW noOver \in BOOLEAN, RBuff_init(noOver) PROVE TypeOK'
    BY <1>7, SizeAssumption DEF RBuff_init, Returns, TypeOK
  <1>8. CASE RBuff_reset
    BY <1>7, <1>8 DEF RBuff_reset, TypeOK
  <1> QED
    BY <1>1, <1>2, <1>4, <1>5, <1>6, <1>7, <1>8 DEF QueueOps

(* RBuff_increment_it keeps the pointers inside for any distance, also     *)
(* when it runs past the free room.                                        *)
LEMMA IncrementType ==
  ASSUME TypeOK, NEW n \in 0..MaxCall, RBuff_increment_it(n)
  PROVE  TypeOK'
PROOF
  <1>1. n \in Nat
    BY MaxCallAssumption
  <1>2. IncrementIt(itBegin, n) \in Offset /\ IncrementIt(itEnd, n) \in 0..Size
    BY <1>1, IncrementItInBuffer, IncrementItDereferenceable DEF TypeOK
  <1>3. count' \in 0..Size
    BY <1>1, SizeAssumption DEF RBuff_increment_it, TypeOK
  <1> QED
    BY <1>2, <1>3 DEF RBuff_increment_it, Returns, TypeOK

(* A new object is inside its allocation.                                  *)
LEMMA InitType == Init => TypeOK
PROOF
  <1> SUFFICES ASSUME Init PROVE TypeOK
    OBVIOUS
  <1>1. noOverwrite \in BOOLEAN
    BY Zenon DEF Init
  <1>2. ret \in [n : Int, bytes : Seq(Byte)]
    BY DEF Init
  <1> QED
    BY <1>1, <1>2, SizeAssumption DEF Init, TypeOK

(* Whatever calls are made, in whatever order and with whatever argument,  *)
(* RBuff_increment_it past the free room included, no pointer of the       *)
(* object leaves its allocation and no memcpy reads or writes outside it.  *)
THEOREM MemorySafe == Spec => []TypeOK
PROOF
  <1>1. Init => TypeOK
    BY InitType
  <1>2. TypeOK /\ [Next]_vars => TypeOK'
    <2> SUFFICES ASSUME TypeOK, [Next]_vars PROVE TypeOK'
      OBVIOUS
    <2>1. CASE QueueOps
      BY <2>1, QueueOpsType
    <2>2. ASSUME NEW n \in 0..MaxCall, RBuff_increment_it(n) PROVE TypeOK'
      BY <2>2, IncrementType
    <2>3. CASE UNCHANGED vars
      BY <2>3 DEF vars, TypeOK
    <2> QED
      BY <2>1, <2>2, <2>3 DEF Next
  <1> QED
    BY <1>1, <1>2, PTL DEF Spec

-----------------------------------------------------------------------------
(* The stored count and the pointers.                                      *)

(* The two facts together are inductive when commits stay inside the free  *)
(* room.                                                                   *)
CountInv == TypeOK /\ CountMatchesPointers

(* The position 'by' bytes on, without a remainder.                        *)
Wrapped(a) == IF a < Size THEN a ELSE a - Size

(* Positions on the ring, for the offset of itBegin and a count, without   *)
(* the remainder.                                                          *)
LEMMA RingWrapped ==
  ASSUME NEW b \in Offset, NEW c \in 0..Size
  PROVE  (b + c) % Size = Wrapped(b + c)
PROOF
  <1>1. b + c \in 0..(2 * Size - 1)
    BY SizeAssumption
  <1> QED
    BY <1>1, RingPosition DEF Wrapped

(* _incrementIt over at most the whole buffer is one step around the ring. *)
LEMMA IncrementItWrapped ==
  ASSUME NEW ptr \in 0..Size, NEW n \in 0..Size
  PROVE  IncrementIt(ptr, n) = Wrapped(ptr + n)
PROOF
  BY SizeAssumption DEF IncrementIt, Wrapped

(* RBuff_pushback moves itBegin, itEnd and count in step, whether it pops  *)
(* bytes, stores part of the array, or copies in two parts.                *)
LEMMA PushbackCount ==
  ASSUME CountInv, TypeOK', NEW array, Tail_of(array) \in Seq(Byte),
         Len(Tail_of(array)) \in 1..Size, RBuff_pushback(array)
  PROVE  CountMatchesPointers'
PROOF
  <1> DEFINE data == Tail_of(array)
             n    == Stored(data)
             k    == Displaced(data)
             b    == IncrementIt(itBegin, k)
             run  == EndItToBuffEnd(b, itEnd)
  <1>1. EndPos = Wrapped(itBegin + count)
    BY RingWrapped DEF CountInv, TypeOK, CountMatchesPointers
  <1>2. itBegin \in 0..Size - 1 /\ itEnd \in 0..Size /\ count \in 0..Size
    BY DEF CountInv, TypeOK
  <1>3. /\ n \in 0..Size
        /\ k \in 0..count
        /\ count - k + n \in 0..Size
        /\ k > 0 => count - k + n = Size
    <2>1. /\ n \in 0..Len(data)
          /\ k \in 0..count
          /\ count - k + n \in 0..Size
      BY PushAmounts DEF CountInv
    <2>2. k > 0 => count - k + n = Size
      <3>1. Len(data) \in 1..Size /\ noOverwrite \in BOOLEAN
        BY DEF CountInv, TypeOK
      <3> HIDE DEF data
      <3>2. CASE noOverwrite
        BY <1>2, <3>1, <3>2, SizeAssumption DEF Displaced
      <3>3. CASE ~noOverwrite
        BY <1>2, <3>1, <3>3, SizeAssumption DEF Stored, Displaced, Lesser
      <3> QED
        BY <3>2, <3>3
    <2> QED
      BY <2>1, <2>2, SizeAssumption
  <1>4. b = Wrapped(itBegin + k)
    BY <1>2, <1>3, IncrementItWrapped, SizeAssumption
  <1>5. /\ itBegin' = b
        /\ count' = count - k + n
        /\ itEnd' = IF n > run THEN n - run ELSE itEnd + n
    BY <1>3, SizeAssumption DEF RBuff_pushback, CopyIn, Lesser
  <1> HIDE DEF n, k, b
  <1>6. EndPos' = Wrapped(itBegin' + count')
    BY <1>1, <1>2, <1>3, <1>4, <1>5, SizeAssumption
       DEF EndItToBuffEnd, Wrapped, EndPos
  <1> QED
    BY <1>6, RingWrapped DEF TypeOK, CountMatchesPointers

(* Every queue operation keeps the count equal to the distance between the *)
(* pointers.                                                               *)
LEMMA QueueOpsCount == CountInv /\ QueueOps => CountMatchesPointers'
PROOF
  <1> SUFFICES ASSUME CountInv, QueueOps PROVE CountMatchesPointers'
    OBVIOUS
  <1>1. TypeOK /\ TypeOK'
    BY QueueOpsType DEF CountInv
  <1>2. ASSUME NEW array \in Arrays, RBuff_pushback(array)
        PROVE  CountMatchesPointers'
    BY <1>1, <1>2, TailType, PushbackCount
  <1>3. ASSUME NEW byte \in Byte, RBuff_pushback_byte(byte)
        PROVE  CountMatchesPointers'
    <2>1. Tail_of(<<byte>>) = <<byte>>
      BY SizeAssumption DEF Tail_of
    <2> QED
      BY <1>1, <1>3, <2>1, PushbackCount, SizeAssumption DEF RBuff_pushback_byte
  <1>4. ASSUME NEW n \in 0..MaxCall, RBuff_copy(n)
        PROVE  CountMatchesPointers'
    BY <1>4 DEF RBuff_copy, CountInv, CountMatchesPointers, EndPos
  <1>5. /\ EndPos = Wrapped(itBegin + count)
        /\ itBegin \in 0..Size - 1 /\ itEnd \in 0..Size /\ count \in 0..Size
    BY <1>1, RingWrapped DEF CountInv, TypeOK, CountMatchesPointers
  (* Popping k of the count bytes moves itBegin towards itEnd.             *)
  <1>6. ASSUME NEW k \in 0..count, itBegin' = IncrementIt(itBegin, k),
               count' = count - k, itEnd' = itEnd
        PROVE  CountMatchesPointers'
    <2>1. itBegin' = Wrapped(itBegin + k)
      BY <1>5, <1>6, IncrementItWrapped, SizeAssumption
    <2>2. EndPos' = Wrapped(itBegin' + count')
      BY <1>5, <1>6, <2>1, SizeAssumption DEF Wrapped, EndPos
    <2> QED
      BY <1>1, <2>2, RingWrapped DEF TypeOK, CountMatchesPointers
  <1>7. ASSUME NEW n \in 0..MaxCall, RBuff_popoff(n)
        PROVE  CountMatchesPointers'
    <2>1. Lesser(n, count) \in 0..count
      BY <1>5, MaxCallAssumption, SizeAssumption DEF Lesser
    <2> QED
      BY <1>6, <1>7, <2>1 DEF RBuff_popoff
  <1>8. CASE RBuff_popoff_byte
    <2>1. CASE count = 0
      BY <1>8, <2>1 DEF RBuff_popoff_byte, CountInv, CountMatchesPointers, EndPos
    <2>2. CASE count > 0
      <3>1. 1 \in 0..count
        BY <1>5, <2>2
      <3> QED
        BY <1>6, <1>8, <2>2, <3>1 DEF RBuff_popoff_byte
    <2> QED
      BY <1>5, <2>1, <2>2, SizeAssumption
  <1>9. ASSUME NEW noOver, RBuff_init(noOver)
        PROVE  CountMatchesPointers'
    <2>1. EndPos' = Wrapped(itBegin' + count')
      BY <1>9, SizeAssumption DEF RBuff_init, EndPos, Wrapped
    <2> QED
      BY <1>1, <2>1, RingWrapped DEF TypeOK, CountMatchesPointers
  <1>10. CASE RBuff_reset
    BY <1>9, <1>10 DEF RBuff_reset
  <1> QED
    BY <1>2, <1>3, <1>4, <1>7, <1>8, <1>9, <1>10 DEF QueueOps

(* RBuff_increment_it does so as long as the bytes fit in the free room.   *)
LEMMA IncrementCount ==
  ASSUME CountInv, NEW n \in 0..MaxCall, n <= RBuff_get_remaining,
         RBuff_increment_it(n)
  PROVE  CountMatchesPointers'
PROOF
  <1>1. TypeOK /\ TypeOK'
    BY IncrementType DEF CountInv
  <1>2. /\ EndPos = Wrapped(itBegin + count)
        /\ itBegin \in 0..Size - 1 /\ itEnd \in 0..Size /\ count \in 0..Size
    BY <1>1, RingWrapped DEF CountInv, TypeOK, CountMatchesPointers
  <1>3. n \in 1..Size - count
    BY <1>2, MaxCallAssumption, SizeAssumption
       DEF RBuff_get_remaining, RBuff_get_size, RBuff_get_count, RBuff_increment_it
  <1>4. /\ itBegin' = itBegin
        /\ count' = count + n
        /\ itEnd' = Wrapped(itEnd + n)
    BY <1>2, <1>3, IncrementItWrapped, SizeAssumption DEF RBuff_increment_it
  <1>5. EndPos' = Wrapped(itBegin' + count')
    BY <1>2, <1>3, <1>4, SizeAssumption DEF Wrapped, EndPos
  <1> QED
    BY <1>1, <1>5, RingWrapped DEF TypeOK, CountMatchesPointers

(* As long as callers commit bytes only into the free room, the number of  *)
(* bytes RBuff_get_count reports is the distance between the two pointers, *)
(* for every buffer size and through every wrap-around.                    *)
THEOREM CountIsDistance == SpecInRoom => [](TypeOK /\ CountMatchesPointers)
PROOF
  <1>1. Init => CountInv
    <2> SUFFICES ASSUME Init PROVE CountInv
      OBVIOUS
    <2>1. TypeOK
      BY InitType
    <2>2. EndPos = Wrapped(itBegin + count)
      BY SizeAssumption DEF Init, EndPos, Wrapped
    <2> QED
      BY <2>1, <2>2, RingWrapped DEF TypeOK, CountMatchesPointers, CountInv
  <1>2. CountInv /\ [NextInRoom]_vars => CountInv'
    <2> SUFFICES ASSUME CountInv, [NextInRoom]_vars PROVE CountInv'
      OBVIOUS
    <2>1. CASE QueueOps
      BY <2>1, QueueOpsType, QueueOpsCount DEF CountInv
    <2>2. ASSUME NEW n \in 0..MaxCall, n <= RBuff_get_remaining, RBuff_increment_it(n)
          PROVE  CountInv'
      BY <2>2, IncrementType, IncrementCount DEF CountInv
    <2>3. CASE UNCHANGED vars
      BY <2>3 DEF vars, CountInv, TypeOK, CountMatchesPointers, EndPos
    <2> QED
      BY <2>1, <2>2, <2>3 DEF NextInRoom
  <1> QED
    BY <1>1, <1>2, PTL DEF SpecInRoom, CountInv

-----------------------------------------------------------------------------
(* The buffer as a queue.                                                  *)

(* The c bytes from offset b on, around the ring.                          *)
Ring(mem, b, c) == [j \in 1..c |-> mem[Wrapped(b + j - 1)]]

(* A stretch of the ring is a sequence of bytes.                           *)
LEMMA RingIs ==
  ASSUME NEW mem \in [Offset -> Byte], NEW b \in Offset, NEW c \in 0..Size
  PROVE  /\ Ring(mem, b, c) \in Seq(Byte) /\ Len(Ring(mem, b, c)) = c
         /\ \A j \in 1..c : Ring(mem, b, c)[j] = mem[Wrapped(b + j - 1)]
<1>1. ASSUME NEW j \in 1..c PROVE mem[Wrapped(b + j - 1)] \in Byte
  BY SizeAssumption DEF Wrapped
<1>2. Ring(mem, b, c) \in [1..c -> Byte]
  BY <1>1 DEF Ring
<1>3. c \in Nat
  BY SizeAssumption
<1>4. Ring(mem, b, c) \in Seq(Byte) /\ Len(Ring(mem, b, c)) = c
  BY <1>2, <1>3, SeqDef
<1>5. \A j \in 1..c : Ring(mem, b, c)[j] = mem[Wrapped(b + j - 1)]
  BY DEF Ring
<1> QED BY <1>4, <1>5

(* The two memcpy of RBuff_copy deliver the bytes around the ring.         *)
LEMMA CopiedIsRing ==
  ASSUME CountInv, NEW n \in 0..count
  PROVE  Copied(n) = Ring(buff, itBegin, n)
<1> DEFINE run == BeginItToBuffEnd(itBegin, itEnd)
<1>1. /\ EndPos = Wrapped(itBegin + count)
      /\ itBegin \in 0..Size - 1 /\ itEnd \in 0..Size /\ count \in 0..Size
  BY RingWrapped DEF CountInv, TypeOK, CountMatchesPointers
<1>2. ASSUME NEW j \in 1..n, run < n, j > run
      PROVE  j - run - 1 = Wrapped(itBegin + j - 1)
  BY <1>1, <1>2, SizeAssumption DEF BeginItToBuffEnd, Wrapped, EndPos
<1>3. ASSUME NEW j \in 1..n, ~(run < n /\ j > run)
      PROVE  itBegin + j - 1 = Wrapped(itBegin + j - 1)
  BY <1>1, <1>3, SizeAssumption DEF BeginItToBuffEnd, Wrapped, EndPos
<1> QED BY <1>2, <1>3 DEF Copied, Ring

(* So the object, read as a queue, is the stretch from itBegin on.         *)
LEMMA ContentsIsRing == CountInv => Contents = Ring(buff, itBegin, count)
<1> SUFFICES ASSUME CountInv PROVE Contents = Ring(buff, itBegin, count)
  OBVIOUS
<1>1. count \in 0..count
  BY SizeAssumption DEF CountInv, TypeOK
<1> QED BY <1>1, CopiedIsRing DEF Contents

(* The same of the next state.                                             *)
LEMMA ContentsNext == CountInv' => Contents' = Ring(buff', itBegin', count')
<1>1. (CountInv => Contents = Ring(buff, itBegin, count))'
  BY ContentsIsRing, PTL
<1> QED BY <1>1

(* The oldest bytes are a shorter stretch.                                 *)
LEMMA RingPrefix ==
  ASSUME NEW mem \in [Offset -> Byte], NEW b \in Offset, NEW c \in 0..Size, NEW k \in 0..c
  PROVE  SubSeq(Ring(mem, b, c), 1, k) = Ring(mem, b, k)
<1> DEFINE s == Ring(mem, b, c)
           t == SubSeq(s, 1, k)
           r == Ring(mem, b, k)
<1>1. s \in Seq(Byte) /\ Len(s) = c /\ \A j \in 1..c : s[j] = mem[Wrapped(b + j - 1)]
  BY RingIs
<1>2. r \in Seq(Byte) /\ Len(r) = k /\ \A j \in 1..k : r[j] = mem[Wrapped(b + j - 1)]
  <2>1. k \in 0..Size
    BY SizeAssumption
  <2> QED BY <2>1, RingIs
<1> HIDE DEF s, r
<1>3. t \in Seq(Byte) /\ Len(t) = k /\ \A j \in 1..k : t[j] = s[j]
  BY <1>1, SizeAssumption
<1>4. \A j \in 1..k : t[j] = r[j]
  BY <1>1, <1>2, <1>3, SizeAssumption
<1>5. t = r
  <2> HIDE DEF t
  <2> QED BY <1>2, <1>3, <1>4, SeqEqual
<1> QED BY <1>5 DEF s, r

(* What is left without the k oldest bytes is the stretch from k on.       *)
LEMMA RingSuffix ==
  ASSUME NEW mem \in [Offset -> Byte], NEW b \in Offset, NEW c \in 0..Size, NEW k \in 0..c
  PROVE  SubSeq(Ring(mem, b, c), c - (c - k) + 1, c) = Ring(mem, Wrapped(b + k), c - k)
<1> DEFINE s == Ring(mem, b, c)
           t == SubSeq(s, c - (c - k) + 1, c)
           r == Ring(mem, Wrapped(b + k), c - k)
<1>1. s \in Seq(Byte) /\ Len(s) = c /\ \A j \in 1..c : s[j] = mem[Wrapped(b + j - 1)]
  BY RingIs
<1>2. /\ r \in Seq(Byte) /\ Len(r) = c - k
      /\ \A j \in 1..(c - k) : r[j] = mem[Wrapped(Wrapped(b + k) + j - 1)]
  <2>1. Wrapped(b + k) \in Offset /\ c - k \in 0..Size
    BY SizeAssumption DEF Wrapped
  <2> QED BY <2>1, RingIs
<1>3. ASSUME NEW j \in 1..(c - k) PROVE Wrapped(Wrapped(b + k) + j - 1) = Wrapped(b + (k + j) - 1)
  BY SizeAssumption DEF Wrapped
<1> HIDE DEF s, r
<1>4. t \in Seq(Byte) /\ Len(t) = c - k /\ \A j \in 1..(c - k) : t[j] = s[k + j]
  BY <1>1, SizeAssumption
<1>5. ASSUME NEW j \in 1..(c - k) PROVE t[j] = r[j]
  <2>1. k + j \in 1..c
    BY SizeAssumption
  <2>2. s[k + j] = mem[Wrapped(b + (k + j) - 1)]
    BY <1>1, <2>1
  <2>3. r[j] = mem[Wrapped(b + (k + j) - 1)]
    BY <1>2, <1>3
  <2> HIDE DEF t
  <2> QED BY <1>4, <2>2, <2>3
<1>6. t = r
  <2> HIDE DEF t
  <2> QED BY <1>2, <1>4, <1>5, SeqEqual
<1> QED BY <1>6 DEF s, r

(* Bounds of the object, without the remainder.                            *)
LEMMA CountFacts ==
  ASSUME CountInv
  PROVE  /\ EndPos = Wrapped(itBegin + count) /\ buff \in [Offset -> Byte]
         /\ itBegin \in Offset /\ itEnd \in 0..Size /\ count \in 0..Size /\ noOverwrite \in BOOLEAN
BY RingWrapped DEF CountInv, TypeOK, CountMatchesPointers

(* The queue has 'count' bytes.                                            *)
LEMMA ContentsIs ==
  ASSUME CountInv
  PROVE  Contents = Ring(buff, itBegin, count) /\ Contents \in Seq(Byte) /\ Len(Contents) = count
BY CountFacts, ContentsIsRing, RingIs

(* An empty stretch is the empty queue.                                    *)
LEMMA RingEmpty == ASSUME NEW mem, NEW b PROVE Ring(mem, b, 0) = <<>>
BY DEF Ring

(* RBuff_copy hands out the oldest bytes and keeps them.                   *)
LEMMA CopyPeeks ==
  ASSUME CountInv, NEW n \in 0..MaxCall, RBuff_copy(n) PROVE Fifo!Peek(n)
<1> DEFINE k == Lesser(n, count)
<1>1. k \in 0..count
  BY CountFacts, MaxCallAssumption, SizeAssumption DEF Lesser
<1>2. ret' = [n |-> k, bytes |-> Copied(k)] /\ UNCHANGED <<buff, itBegin, itEnd, count, noOverwrite>>
  BY DEF RBuff_copy, Returns
<1>3. Fifo!Lower(n, Len(Contents)) = k
  BY ContentsIs DEF Fifo!Lower, Lesser
<1> HIDE DEF k
<1>4. Copied(k) = SubSeq(Contents, 1, k)
  BY <1>1, CountFacts, ContentsIs, CopiedIsRing, RingPrefix
<1>5. Contents' = Contents
  BY <1>2 DEF Contents, Copied, BeginItToBuffEnd
<1> QED BY <1>2, <1>3, <1>4, <1>5 DEF Fifo!Peek, Fifo!FirstOf

(* Moving itBegin over k bytes drops the k oldest.                         *)
LEMMA Drops ==
  ASSUME CountInv, CountInv', NEW k \in 0..count, itBegin' = IncrementIt(itBegin, k), count' = count - k, buff' = buff
  PROVE  /\ Contents' = SubSeq(Contents, Len(Contents) - (Len(Contents) - k) + 1, Len(Contents))
         /\ Copied(k) = SubSeq(Contents, 1, k)
<1>1. itBegin' = Wrapped(itBegin + k)
  <2>1. k \in 0..Size /\ itBegin \in 0..Size
    BY CountFacts, SizeAssumption
  <2> QED BY <2>1, IncrementItWrapped
<1>2. Contents' = Ring(buff, Wrapped(itBegin + k), count - k)
  BY <1>1, ContentsNext
<1>3. SubSeq(Ring(buff, itBegin, count), count - (count - k) + 1, count) = Ring(buff, Wrapped(itBegin + k), count - k)
  BY CountFacts, RingSuffix
<1>4. Copied(k) = SubSeq(Contents, 1, k)
  BY CountFacts, ContentsIs, CopiedIsRing, RingPrefix
<1> QED BY <1>2, <1>3, <1>4, ContentsIs

(* RBuff_popoff hands out the oldest bytes and drops them.                 *)
LEMMA PopoffPops ==
  ASSUME CountInv, CountInv', NEW n \in 0..MaxCall, RBuff_popoff(n) PROVE Fifo!Pop(n)
<1> DEFINE k == Lesser(n, count)
<1>1. k \in 0..count
  BY CountFacts, MaxCallAssumption, SizeAssumption DEF Lesser
<1>2. /\ ret' = [n |-> k, bytes |-> Copied(k)] /\ UNCHANGED <<buff, noOverwrite>>
      /\ itBegin' = IncrementIt(itBegin, k) /\ count' = count - k
  BY DEF RBuff_popoff, Returns
<1>3. Fifo!Lower(n, Len(Contents)) = k
  BY ContentsIs DEF Fifo!Lower, Lesser
<1> HIDE DEF k
<1>4. /\ Contents' = SubSeq(Contents, Len(Contents) - (Len(Contents) - k) + 1, Len(Contents))
      /\ Copied(k) = SubSeq(Contents, 1, k)
  BY <1>1, <1>2, Drops
<1> QED BY <1>2, <1>3, <1>4 DEF Fifo!Pop, Fifo!FirstOf, Fifo!LastOf

(* RBuff_popoff_byte hands out and drops one, or refuses an empty buffer.  *)
LEMMA PopoffBytePops ==
  ASSUME CountInv, CountInv', RBuff_popoff_byte PROVE Fifo!PopEmpty \/ Fifo!Pop(1)
<1>1. CASE count = 0
  <2>1. ret' = [n |-> -1, bytes |-> <<>>] /\ UNCHANGED <<buff, itBegin, itEnd, count, noOverwrite>>
    BY <1>1 DEF RBuff_popoff_byte, Returns
  <2>2. Contents' = Contents
    BY <2>1 DEF Contents, Copied, BeginItToBuffEnd
  <2>3. Contents = <<>>
    BY <1>1, ContentsIs, RingEmpty
  <2> QED BY <2>1, <2>2, <2>3 DEF Fifo!PopEmpty
<1>2. CASE count > 0
  <2>1. /\ ret' = [n |-> 1, bytes |-> <<buff[itBegin]>>] /\ UNCHANGED <<buff, noOverwrite>>
        /\ itBegin' = IncrementIt(itBegin, 1) /\ count' = count - 1
    BY <1>2, CountFacts DEF RBuff_popoff_byte, Returns
  <2>2. 1 \in 0..count
    BY <1>2, CountFacts
  <2>3. Copied(1) = <<buff[itBegin]>>
    <3> DEFINE r == Ring(buff, itBegin, 1)
               u == <<buff[itBegin]>>
    <3>1. r \in Seq(Byte) /\ Len(r) = 1 /\ r[1] = buff[itBegin]
      <4>1. 1 \in 0..Size /\ 1 \in 1..1 /\ Wrapped(itBegin + 1 - 1) = itBegin
        BY CountFacts, SizeAssumption DEF Wrapped
      <4>2. /\ Ring(buff, itBegin, 1) \in Seq(Byte) /\ Len(Ring(buff, itBegin, 1)) = 1
            /\ \A j \in 1..1 : Ring(buff, itBegin, 1)[j] = buff[Wrapped(itBegin + j - 1)]
        BY <4>1, CountFacts, RingIs
      <4> QED BY <4>1, <4>2
    <3>2. u \in Seq(Byte) /\ Len(u) = 1 /\ u[1] = buff[itBegin]
      BY CountFacts
    <3> HIDE DEF r, u
    <3>3. r = u
      BY <3>1, <3>2, SeqEqual
    <3> QED BY <2>2, <3>3, CopiedIsRing DEF r, u
  <2>4. /\ Contents' = SubSeq(Contents, Len(Contents) - (Len(Contents) - 1) + 1, Len(Contents))
        /\ Copied(1) = SubSeq(Contents, 1, 1)
    BY <2>1, <2>2, Drops
  <2>5. Fifo!Lower(1, Len(Contents)) = 1
    BY <2>2, ContentsIs, CountFacts DEF Fifo!Lower
  <2> QED BY <2>1, <2>3, <2>4, <2>5 DEF Fifo!Pop, Fifo!FirstOf, Fifo!LastOf
<1> QED BY <1>1, <1>2, CountFacts

(* RBuff_init and RBuff_reset empty the queue.                             *)
LEMMA InitResets ==
  ASSUME CountInv', NEW noOver \in BOOLEAN, RBuff_init(noOver) PROVE Fifo!Reset
<1>1. ret' = [n |-> 0, bytes |-> <<>>] /\ count' = 0 /\ noOverwrite' = noOver
  BY DEF RBuff_init, Returns
<1>2. Contents' = <<>>
  BY <1>1, ContentsNext, RingEmpty
<1> QED BY <1>1, <1>2 DEF Fifo!Reset

(* RBuff_increment_it appends what the caller wrote behind the queue.      *)
LEMMA IncrementCommits ==
  ASSUME CountInv, CountInv', NEW n \in 0..MaxCall, n <= RBuff_get_remaining, RBuff_increment_it(n)
  PROVE  Fifo!Commit(n)
<1>1. n \in Nat /\ n > 0 /\ count + n <= Size
  BY CountFacts, MaxCallAssumption, SizeAssumption
     DEF RBuff_get_remaining, RBuff_get_size, RBuff_get_count, RBuff_increment_it
<1>2. ret' = [n |-> 0, bytes |-> <<>>] /\ count' = count + n /\ UNCHANGED <<buff, itBegin, noOverwrite>>
  BY <1>1, CountFacts, SizeAssumption DEF RBuff_increment_it, Returns
<1> DEFINE w == [j \in 1..n |-> buff[Wrapped(itBegin + (count + j) - 1)]]
           q == Contents
           r == Ring(buff, itBegin, count + n)
<1>3. w \in [1..n -> Byte]
  <2>1. ASSUME NEW j \in 1..n PROVE buff[Wrapped(itBegin + (count + j) - 1)] \in Byte
    <3>1. Wrapped(itBegin + (count + j) - 1) \in Offset
      BY <1>1, CountFacts, SizeAssumption DEF Wrapped
    <3> QED BY <3>1, CountFacts
  <2> QED BY <2>1
<1>4. w \in Seq(Byte) /\ Len(w) = n /\ \A j \in 1..n : w[j] = buff[Wrapped(itBegin + (count + j) - 1)]
  BY <1>1, <1>3, SeqDef
<1>5. /\ q \in Seq(Byte) /\ Len(q) = count /\ count \in Nat
      /\ \A j \in 1..count : q[j] = buff[Wrapped(itBegin + j - 1)]
  <2>1. q = Ring(buff, itBegin, count) /\ count \in 0..Size /\ count \in Nat
    BY ContentsIs, CountFacts, SizeAssumption
  <2> HIDE DEF q
  <2> QED BY <2>1, CountFacts, RingIs
<1>6. r \in Seq(Byte) /\ Len(r) = count + n /\ \A j \in 1..(count + n) : r[j] = buff[Wrapped(itBegin + j - 1)]
  <2>1. count + n \in 0..Size
    BY <1>1, CountFacts
  <2> QED BY <2>1, CountFacts, RingIs
<1> HIDE DEF w, q, r
<1>7. q \o w = r
  <2> DEFINE z == q \o w
  <2>1. /\ z \in Seq(Byte) /\ Len(z) = count + n
        /\ \A j \in 1..(count + n) : z[j] = IF j <= count THEN q[j] ELSE w[j - count]
    BY <1>4, <1>5, ConcatProperties
  <2> HIDE DEF z
  <2>2. ASSUME NEW j \in 1..(count + n) PROVE z[j] = r[j]
    <3>1. CASE j <= count
      <4>1. j \in 1..count
        BY <1>1, <1>5, <3>1
      <4>2. z[j] = q[j]
        BY <2>1, <3>1
      <4> QED BY <1>5, <1>6, <4>1, <4>2
    <3>2. CASE j > count
      <4>1. j - count \in 1..n /\ count + (j - count) = j
        BY <1>1, <1>5, <3>2
      <4>2. w[j - count] = buff[Wrapped(itBegin + j - 1)]
        BY <1>4, <4>1
      <4>3. z[j] = w[j - count]
        BY <1>5, <2>1, <3>2
      <4> QED BY <1>6, <4>2, <4>3
    <3> QED BY <1>1, <1>5, <3>1, <3>2
  <2>3. z = r
    BY <1>6, <2>1, <2>2, SeqEqual
  <2> QED BY <2>3 DEF z
<1>8. Contents' = Contents \o w
  BY <1>2, <1>7, ContentsNext DEF q, r
<1> QED BY <1>1, <1>2, <1>3, <1>5, <1>8 DEF Fifo!Commit, q

-----------------------------------------------------------------------------
(* A push.  It writes n bytes of data behind the c0 bytes that stay.       *)

(* The two-part copy of RBuff_pushback writes the bytes around the ring    *)
(* from itEnd on and no other byte that stays.                             *)
LEMMA CopyInWrites ==
  ASSUME CountInv, NEW data \in Seq(Byte), NEW b \in Offset, NEW c0 \in 0..Size, NEW n \in 0..(Size - c0),
         n <= Len(data), EndPos = Wrapped(b + c0), CopyIn(data, n, b)
  PROVE  /\ \A j \in 1..c0 : buff'[Wrapped(b + j - 1)] = buff[Wrapped(b + j - 1)]
         /\ \A j \in 1..n : buff'[Wrapped(b + (c0 + j) - 1)] = data[j]
<1> DEFINE run == EndItToBuffEnd(b, itEnd)
           one == Memcpy(buff, itEnd, data, 0, run)
<1>0. itEnd \in 0..Size /\ buff \in [Offset -> Byte] /\ DOMAIN buff = Offset /\ c0 \in Nat /\ n \in Nat
  BY CountFacts, SizeAssumption
<1>1. run \in 0..Size /\ run = IF itEnd < b THEN b - itEnd ELSE Size - itEnd
  BY <1>0, SizeAssumption DEF EndItToBuffEnd
<1>2. /\ n > run => buff' = Memcpy(one, 0, data, run, n - run)
      /\ ~(n > run) => buff' = Memcpy(buff, itEnd, data, 0, n)
  BY DEF CopyIn
<1>3. DOMAIN one = Offset
  BY <1>0 DEF Memcpy
<1>4. \A x \in Offset : one[x] = IF itEnd <= x /\ x < itEnd + run THEN data[0 + x - itEnd + 1] ELSE buff[x]
  BY <1>0 DEF Memcpy
<1>5. CASE n > run
  <2>1. \A x \in Offset : buff'[x] = IF 0 <= x /\ x < 0 + (n - run) THEN data[run + x - 0 + 1] ELSE one[x]
    BY <1>2, <1>3, <1>5 DEF Memcpy
  <2> HIDE DEF one, run
  <2>2. ASSUME NEW j \in 1..c0 PROVE buff'[Wrapped(b + j - 1)] = buff[Wrapped(b + j - 1)]
    <3> DEFINE x == Wrapped(b + j - 1)
    <3>1. x \in Offset
      BY <1>0, SizeAssumption DEF Wrapped
    <3>2. ~(0 <= x /\ x < 0 + (n - run)) /\ ~(itEnd <= x /\ x < itEnd + run)
      BY <1>0, <1>1, <1>5, SizeAssumption DEF Wrapped, EndPos
    <3> HIDE DEF x
    <3>3. buff'[x] = one[x] /\ one[x] = buff[x]
      BY <1>4, <2>1, <3>1, <3>2
    <3> QED BY <3>3 DEF x
  <2>3. ASSUME NEW j \in 1..n PROVE buff'[Wrapped(b + (c0 + j) - 1)] = data[j]
    <3> DEFINE x == Wrapped(b + (c0 + j) - 1)
    <3>1. x \in Offset
      BY <1>0, SizeAssumption DEF Wrapped
    <3>2. CASE j <= run
      <4>1. ~(0 <= x /\ x < 0 + (n - run)) /\ itEnd <= x /\ x < itEnd + run /\ 0 + x - itEnd + 1 = j
        BY <1>0, <1>1, <1>5, <3>2, SizeAssumption DEF Wrapped, EndPos
      <4> HIDE DEF x
      <4>2. buff'[x] = one[x] /\ one[x] = data[j]
        BY <1>4, <2>1, <3>1, <4>1
      <4> QED BY <4>2 DEF x
    <3>3. CASE ~(j <= run)
      <4>1. 0 <= x /\ x < 0 + (n - run) /\ run + x - 0 + 1 = j
        BY <1>0, <1>1, <1>5, <3>3, SizeAssumption DEF Wrapped, EndPos
      <4> HIDE DEF x
      <4>2. buff'[x] = data[j]
        BY <2>1, <3>1, <4>1
      <4> QED BY <4>2 DEF x
    <3> QED BY <3>2, <3>3
  <2> QED BY <2>2, <2>3
<1>6. CASE ~(n > run)
  <2>1. \A x \in Offset : buff'[x] = IF itEnd <= x /\ x < itEnd + n THEN data[0 + x - itEnd + 1] ELSE buff[x]
    BY <1>0, <1>2, <1>6 DEF Memcpy
  <2> HIDE DEF one, run
  <2>2. ASSUME NEW j \in 1..c0 PROVE buff'[Wrapped(b + j - 1)] = buff[Wrapped(b + j - 1)]
    <3> DEFINE x == Wrapped(b + j - 1)
    <3>1. x \in Offset
      BY <1>0, SizeAssumption DEF Wrapped
    <3>2. ~(itEnd <= x /\ x < itEnd + n)
      BY <1>0, <1>1, <1>6, SizeAssumption DEF Wrapped, EndPos
    <3> HIDE DEF x
    <3>3. buff'[x] = buff[x]
      BY <2>1, <3>1, <3>2
    <3> QED BY <3>3 DEF x
  <2>3. ASSUME NEW j \in 1..n PROVE buff'[Wrapped(b + (c0 + j) - 1)] = data[j]
    <3> DEFINE x == Wrapped(b + (c0 + j) - 1)
    <3>1. x \in Offset
      BY <1>0, SizeAssumption DEF Wrapped
    <3>2. itEnd <= x /\ x < itEnd + n /\ 0 + x - itEnd + 1 = j
      BY <1>0, <1>1, <1>6, SizeAssumption DEF Wrapped, EndPos
    <3> HIDE DEF x
    <3>3. buff'[x] = data[j]
      BY <2>1, <3>1, <3>2
    <3> QED BY <3>3 DEF x
  <2> QED BY <2>2, <2>3
<1> QED BY <1>5, <1>6

(* The part of the caller's array that counts is its last bytes.           *)
LEMMA TailIsLast ==
  ASSUME NEW array \in Seq(Byte)
  PROVE  Fifo!LastOf(array, Fifo!Lower(Len(array), Size)) = Tail_of(array)
<1>1. Len(array) \in Nat
  OBVIOUS
<1>2. CASE Len(array) > Size
  <2>1. Fifo!Lower(Len(array), Size) = Size
    BY <1>1, <1>2, SizeAssumption DEF Fifo!Lower
  <2> QED BY <1>2, <2>1 DEF Fifo!LastOf, Tail_of
<1>3. CASE ~(Len(array) > Size)
  <2>1. Fifo!Lower(Len(array), Size) = Len(array)
    BY <1>1, <1>3, SizeAssumption DEF Fifo!Lower
  <2>2. Len(array) - Len(array) + 1 = 1
    BY <1>1
  <2>3. SubSeq(array, 1, Len(array)) = array
    <3> DEFINE s == SubSeq(array, 1, Len(array))
    <3>1. s \in Seq(Byte) /\ Len(s) = Len(array) /\ \A j \in 1..Len(array) : s[j] = array[j]
      BY <1>1
    <3> HIDE DEF s
    <3>2. s = array
      BY <3>1, SeqEqual
    <3> QED BY <3>2 DEF s
  <2> QED BY <1>3, <2>1, <2>2, <2>3 DEF Fifo!LastOf, Tail_of
<1> QED BY <1>2, <1>3

(* What a push leaves: behind the bytes it has not displaced, the stored   *)
(* ones.                                                                   *)
LEMMA PushLeaves ==
  ASSUME CountInv, CountInv', NEW array, NEW data \in Seq(Byte), data = Tail_of(array), Len(data) \in 1..Size,
         RBuff_pushback(array)
  PROVE  /\ Contents' \in Seq(Byte) /\ Len(Contents') = count - Displaced(data) + Stored(data)
         /\ \A j \in 1..(count - Displaced(data) + Stored(data)) :
              Contents'[j] = (Contents \o data)[Displaced(data) + j]
<1> DEFINE n == Stored(data)
           k == Displaced(data)
           c0 == count - k
           b == IncrementIt(itBegin, k)
           q == Contents
           r == Ring(buff', b, c0 + n)
<1>1. n \in 0..Len(data) /\ k \in 0..count /\ c0 + n \in 0..Size
  BY PushAmounts DEF CountInv
<1>2. CopyIn(data, n, b) /\ itBegin' = b /\ count' = Lesser(c0 + n, Size)
  BY DEF RBuff_pushback
<1> HIDE DEF n, k
<1>3. b = Wrapped(itBegin + k) /\ b \in Offset
  <2>1. k \in 0..Size /\ itBegin \in 0..Size
    BY <1>1, CountFacts, SizeAssumption
  <2>2. b = Wrapped(itBegin + k)
    BY <2>1, IncrementItWrapped
  <2>3. Wrapped(itBegin + k) \in Offset
    BY <1>1, CountFacts, SizeAssumption DEF Wrapped
  <2> QED BY <2>2, <2>3
<1>4. /\ c0 \in 0..Size /\ n \in 0..(Size - c0) /\ n <= Len(data) /\ c0 \in Nat /\ n \in Nat
  BY <1>1, CountFacts, SizeAssumption
<1>5. EndPos = Wrapped(b + c0)
  <2>1. Wrapped(Wrapped(itBegin + k) + (count - k)) = Wrapped(itBegin + count)
    BY <1>1, CountFacts, SizeAssumption DEF Wrapped
  <2> QED BY <1>3, <2>1, CountFacts
<1>6. count' = c0 + n
  <2>1. Lesser(c0 + n, Size) = c0 + n
    BY <1>1, SizeAssumption DEF Lesser
  <2> QED BY <1>2, <2>1
<1> HIDE DEF b
<1>7. ASSUME NEW j \in 1..c0 PROVE Wrapped(b + j - 1) = Wrapped(itBegin + (k + j) - 1)
  <2>1. j \in 1..(count - k) /\ itBegin \in Offset /\ count \in 0..Size
    BY CountFacts
  <2> HIDE DEF c0
  <2>2. Wrapped(Wrapped(itBegin + k) + j - 1) = Wrapped(itBegin + (k + j) - 1)
    BY <1>1, <2>1, SizeAssumption DEF Wrapped
  <2> QED BY <1>3, <2>2
<1> HIDE DEF c0
<1>8. /\ \A j \in 1..c0 : buff'[Wrapped(b + j - 1)] = buff[Wrapped(b + j - 1)]
      /\ \A j \in 1..n : buff'[Wrapped(b + (c0 + j) - 1)] = data[j]
  BY <1>2, <1>3, <1>4, <1>5, CopyInWrites
<1>9. /\ q \in Seq(Byte) /\ Len(q) = count /\ count \in Nat
      /\ \A j \in 1..count : q[j] = buff[Wrapped(itBegin + j - 1)]
  <2>1. q = Ring(buff, itBegin, count) /\ count \in 0..Size /\ count \in Nat
    BY ContentsIs, CountFacts, SizeAssumption
  <2> HIDE DEF q
  <2> QED BY <2>1, CountFacts, RingIs
<1>10. /\ r \in Seq(Byte) /\ Len(r) = c0 + n /\ \A j \in 1..(c0 + n) : r[j] = buff'[Wrapped(b + j - 1)]
  <2>1. buff' \in [Offset -> Byte]
    BY DEF CountInv, TypeOK
  <2> QED BY <1>1, <1>3, <2>1, RingIs DEF c0
<1>11. Contents' = r
  BY <1>2, <1>6, ContentsNext
<1> DEFINE all == q \o data
<1>12. /\ all \in Seq(Byte) /\ Len(all) = count + Len(data)
       /\ \A j \in 1..(count + Len(data)) : all[j] = IF j <= count THEN q[j] ELSE data[j - count]
  <2> HIDE DEF q
  <2> QED BY <1>9, ConcatProperties
<1> HIDE DEF q, r, all
<1>13. ASSUME NEW j \in 1..(c0 + n) PROVE r[j] = all[k + j]
  <2>0. k + j \in 1..(count + Len(data))
    BY <1>1, <1>4, <1>9 DEF c0
  <2>1. CASE j <= c0
    <3>1. j \in 1..c0 /\ k + j \in 1..count /\ k + j <= count
      BY <1>1, <1>4, <1>9, <2>1 DEF c0
    <3>2. r[j] = buff[Wrapped(itBegin + (k + j) - 1)]
      BY <1>7, <1>8, <1>10, <3>1
    <3>3. all[k + j] = q[k + j]
      BY <1>12, <2>0, <3>1
    <3> QED BY <1>9, <3>1, <3>2, <3>3
  <2>2. CASE j > c0
    <3>1. j - c0 \in 1..n /\ c0 + (j - c0) = j /\ ~(k + j <= count) /\ (k + j) - count = j - c0
      BY <1>1, <1>4, <1>9, <2>2 DEF c0
    <3>2. r[j] = data[j - c0]
      BY <1>8, <1>10, <3>1
    <3>3. all[k + j] = data[(k + j) - count]
      BY <1>12, <2>0, <3>1
    <3> QED BY <3>1, <3>2, <3>3
  <2> QED BY <1>4, <2>1, <2>2
<1> QED BY <1>10, <1>11, <1>13 DEF n, k, c0, q, all

(* RBuff_pushback appends to the queue: the newest Size bytes stay, or,    *)
(* under rbuffNoOverwrite, the oldest.                                     *)
LEMMA PushbackPushes ==
  ASSUME CountInv, CountInv', NEW array \in Seq(Byte), Tail_of(array) \in Seq(Byte), Len(Tail_of(array)) \in 1..Size,
         RBuff_pushback(array)
  PROVE  Fifo!Push(array)
<1> DEFINE data == Tail_of(array)
           all == Contents \o data
           m == Fifo!Lower(Len(all), Size)
           len == Len(data)
<1>0. count \in 0..Size /\ noOverwrite \in BOOLEAN /\ count \in Nat /\ len \in 1..Size /\ Size \in Nat
  BY CountFacts, SizeAssumption
<1>1. all \in Seq(Byte) /\ Len(all) = count + len
  BY ContentsIs, ConcatProperties
<1>2. ret' = [n |-> Stored(data), bytes |-> array] /\ noOverwrite' = noOverwrite
  BY DEF RBuff_pushback, Returns
<1>3. /\ Contents' \in Seq(Byte) /\ Len(Contents') = count - Displaced(data) + Stored(data)
      /\ \A j \in 1..(count - Displaced(data) + Stored(data)) : Contents'[j] = all[Displaced(data) + j]
  BY PushLeaves
<1>4. Fifo!LastOf(array, Fifo!Lower(Len(array), Size)) = data
  BY TailIsLast
<1> HIDE DEF data, all
<1>5. m \in 0..(count + len) /\ m = IF count + len < Size THEN count + len ELSE Size
  BY <1>0, <1>1 DEF Fifo!Lower
<1>6. CASE noOverwrite
  <2> DEFINE s == SubSeq(all, 1, m)
  <2>1. /\ Displaced(data) = 0 /\ count - Displaced(data) + Stored(data) = m
        /\ Stored(data) = IF len < Size - count THEN len ELSE Size - count
    BY <1>0, <1>5, <1>6 DEF Displaced, Stored
  <2>2. s \in Seq(Byte) /\ Len(s) = m /\ \A j \in 1..m : s[j] = all[j]
    <3> HIDE DEF m
    <3> QED BY <1>0, <1>1, <1>5
  <2> HIDE DEF s, m
  <2>3. \A j \in 1..m : Contents'[j] = s[j]
    BY <1>3, <1>5, <2>1, <2>2
  <2>4. Contents' = s
    BY <1>3, <2>1, <2>2, <2>3, SeqEqual
  <2>5. Stored(data) = Fifo!Lower(Len(data), Size - Len(Contents))
    BY <2>1, ContentsIs DEF Fifo!Lower
  <2>6. Contents' = Fifo!FirstOf(Contents \o data, Fifo!Lower(Len(Contents \o data), Size))
    BY <2>4 DEF Fifo!FirstOf, s, m, all
  <2>7. ret' = [n |-> Fifo!Lower(Len(data), Size - Len(Contents)), bytes |-> array]
    BY <1>2, <2>5
  <2> QED BY <1>2, <1>4, <1>6, <2>6, <2>7 DEF Fifo!Push
<1>7. CASE ~noOverwrite
  <2> DEFINE s == SubSeq(all, Len(all) - m + 1, Len(all))
             k == Displaced(data)
  <2>1. /\ k \in Nat /\ count - k + Stored(data) = m /\ Stored(data) = len
        /\ (count + len) - m = k
    <3> HIDE DEF m
    <3>1. Stored(data) = len
      BY <1>7 DEF Stored
    <3>2. k = IF len + count > Size THEN Lesser(len + count - Size, count) ELSE 0
      BY <1>7 DEF Displaced
    <3> HIDE DEF len, k
    <3>3. k = IF len + count > Size THEN len + count - Size ELSE 0
      BY <1>0, <3>2 DEF Lesser
    <3> QED BY <1>0, <1>5, <3>1, <3>3
  <2>2. s \in Seq(Byte) /\ Len(s) = m /\ \A j \in 1..m : s[j] = all[k + j]
    <3>1. Len(all) - m + 1 = k + 1 /\ k + m = Len(all) /\ m \in Nat
      BY <1>0, <1>1, <1>5, <2>1
    <3> HIDE DEF m, k
    <3>2. k + 1 \in 1..(Len(all) + 1) /\ Len(all) \in (k + 1) - 1..Len(all) /\ Len(all) - (k + 1) + 1 = m
      BY <1>1, <2>1, <3>1
    <3>3. /\ SubSeq(all, k + 1, Len(all)) \in Seq(Byte) /\ Len(SubSeq(all, k + 1, Len(all))) = m
          /\ \A j \in 1..m : SubSeq(all, k + 1, Len(all))[j] = all[(k + 1) + j - 1]
      BY <1>1, <3>2, SubSeqProperties
    <3>4. \A j \in 1..m : (k + 1) + j - 1 = k + j
      BY <2>1
    <3> QED BY <3>1, <3>3, <3>4
  <2> HIDE DEF s, m, k
  <2>3. \A j \in 1..m : Contents'[j] = s[j]
    BY <1>3, <2>1, <2>2 DEF k
  <2>4. Contents' = s
    BY <1>3, <2>1, <2>2, <2>3, SeqEqual DEF k
  <2>6. Contents' = Fifo!LastOf(Contents \o data, Fifo!Lower(Len(Contents \o data), Size))
    BY <2>4 DEF Fifo!LastOf, s, m, all
  <2>7. ret' = [n |-> Len(data), bytes |-> array]
    BY <1>2, <2>1
  <2> QED BY <1>2, <1>4, <1>7, <2>6, <2>7 DEF Fifo!Push
<1> QED BY <1>6, <1>7

-----------------------------------------------------------------------------
(* Every call on the object is a call on the queue.  (MaxCall only bounds  *)
(* the arrays of the queue's callers; those of one byte must be among      *)
(* them.)                                                                  *)
LEMMA StepsImplement ==
  ASSUME MaxCall >= 1, CountInv, CountInv', [NextInRoom]_vars
  PROVE  [Fifo!Next]_(Fifo!vars)
<1>0. 1 \in 0..MaxCall
  BY MaxCallAssumption
<1>1. ASSUME NEW array \in Arrays, RBuff_pushback(array) PROVE Fifo!Next
  <2>1. array \in Seq(Byte) /\ array \in Fifo!Arrays
    BY MaxCallAssumption DEF Arrays, Fifo!Arrays
  <2>2. Fifo!Push(array)
    BY <1>1, <2>1, TailType, PushbackPushes
  <2> QED BY <2>1, <2>2 DEF Fifo!Next
<1>2. ASSUME NEW byte \in Byte, RBuff_pushback_byte(byte) PROVE Fifo!Next
  <2>1. Tail_of(<<byte>>) = <<byte>> /\ <<byte>> \in Seq(Byte) /\ Len(<<byte>>) \in 1..Size
    BY SizeAssumption DEF Tail_of
  <2>2. Fifo!Push(<<byte>>)
    BY <1>2, <2>1, PushbackPushes DEF RBuff_pushback_byte
  <2>3. <<byte>> \in Fifo!Arrays
    <3>1. 1 \in 1..MaxCall /\ <<byte>> \in [1..1 -> Byte]
      BY <1>0, MaxCallAssumption
    <3> QED BY <3>1 DEF Fifo!Arrays
  <2> QED BY <2>2, <2>3 DEF Fifo!Next
<1>3. ASSUME NEW n \in 0..MaxCall, RBuff_copy(n) PROVE Fifo!Next
  BY <1>3, CopyPeeks DEF Fifo!Next
<1>4. ASSUME NEW n \in 0..MaxCall, RBuff_popoff(n) PROVE Fifo!Next
  BY <1>4, PopoffPops DEF Fifo!Next
<1>5. RBuff_popoff_byte => Fifo!Next
  BY <1>0, PopoffBytePops DEF Fifo!Next
<1>6. ASSUME NEW noOver \in BOOLEAN, RBuff_init(noOver) PROVE Fifo!Next
  BY <1>6, InitResets DEF Fifo!Next
<1>7. RBuff_reset => Fifo!Next
  BY <1>6, CountFacts DEF RBuff_reset
<1>8. ASSUME NEW n \in 0..MaxCall, n <= RBuff_get_remaining, RBuff_increment_it(n) PROVE Fifo!Next
  BY <1>8, IncrementCommits DEF Fifo!Next
<1>9. CASE UNCHANGED vars
  <2>1. Contents' = Contents
    BY <1>9 DEF vars, Contents, Copied, BeginItToBuffEnd
  <2> QED BY <1>9, <2>1 DEF vars, Fifo!vars
<1>10. QueueOps => Fifo!Next
  BY <1>1, <1>2, <1>3, <1>4, <1>5, <1>6, <1>7 DEF QueueOps
<1> QED BY <1>8, <1>9, <1>10 DEF NextInRoom

(* The rotational buffer implements the bounded queue: for every size and  *)
(* both overwrite modes, through every wrap-around, bytes leave in the     *)
(* order they came in, and a push that does not fit drops the oldest bytes *)
(* or refuses the surplus, as BoundedFifo says.                            *)
THEOREM RBuffIsFifo ==
  ASSUME MaxCall >= 1 PROVE SpecInRoom => ImplementsFifo
<1>1. Init => Fifo!Init
  <2> SUFFICES ASSUME Init PROVE Fifo!Init
    OBVIOUS
  <2>1. Contents = <<>>
    BY DEF Init, Contents, Copied
  <2> QED BY <2>1 DEF Init, Fifo!Init
<1>2. CountInv /\ CountInv' /\ [NextInRoom]_vars => [Fifo!Next]_(Fifo!vars)
  BY StepsImplement
<1>3. SpecInRoom => []CountInv
  BY CountIsDistance, PTL DEF CountInv
<1> QED BY <1>1, <1>2, <1>3, PTL DEF SpecInRoom, ImplementsFifo, Fifo!Spec

-----------------------------------------------------------------------------
(* The iterator.                                                           *)

(* The buffer is as RBuffIt_next needs it: the count agrees with the       *)
(* pointers and itEnd does not rest on buffEnd.                            *)
Walkable == itEnd # Size /\ CountMatchesPointers

(* An iterator that has delivered walk items of a buffer that did not      *)
(* change since stands on the last of them.                                *)
OnItem ==
  it # NULL /\ walk >= 0 =>
    walk >= 1 /\ (Walkable => walk <= count /\ it = Wrapped(itBegin + (walk - 1)))

ItInv ==
  /\ TypeOK /\ it \in {NULL} \cup (0..Size)
  /\ walk \in Int /\ walk >= -1 /\ (it = NULL => walk <= 0)
  /\ OnItem

(* What RBuffIt_next promises for one call.                                *)
NextDelivers ==
  /\ moved' = 1 => it' \in Offset
  /\ Walkable => /\ (walk >= 0 /\ moved' = 1 => walk' <= count /\ RBuffIt_get_index' = walk' - 1)
                 /\ (walk > 0 /\ moved' = 0 => walk = count)

(* Where the pointers of a buffer that can be walked are.                  *)
LEMMA WalkablePlaces ==
  ASSUME TypeOK, Walkable
  PROVE  itEnd = Wrapped(itBegin + count) /\ itEnd \in Offset
<1>1. itBegin \in Offset /\ count \in 0..Size /\ itEnd \in 0..Size /\ itEnd # Size
  BY DEF TypeOK, Walkable
<1>2. itEnd = (itBegin + count) % Size
  BY <1>1 DEF Walkable, CountMatchesPointers, EndPos
<1>3. (itBegin + count) % Size = Wrapped(itBegin + count)
  BY <1>1, RingWrapped
<1> QED BY <1>1, <1>2, <1>3, SizeAssumption

(* The first call of RBuffIt_next goes to the oldest byte.                 *)
LEMMA NextStarts ==
  ASSUME ItInv, RBuffIt_next, it = NULL
  PROVE  ItInv' /\ NextDelivers
<1>1. TypeOK' /\ Walkable' = Walkable /\ UNCHANGED vars
  BY DEF ItInv, RBuffIt_next, vars, TypeOK, Walkable, CountMatchesPointers, EndPos
<1>2. NULL \notin 0..Size /\ itBegin \in 0..(Size - 1) /\ count \in 0..Size /\ Size \in Nat
  BY NullAssumption, SizeAssumption DEF ItInv, TypeOK
<1>3. CASE count = 0 /\ Stop
  BY <1>1, <1>2, <1>3 DEF ItInv, RBuffIt_next, Stop, OnItem, NextDelivers
<1>4. CASE count > 0 /\ Keep(itBegin)
  <2>1. it' = itBegin /\ moved' = 1 /\ walk' = 1 /\ it' # NULL
    BY <1>2, <1>4 DEF RBuffIt_next, Keep
  <2>2. RBuffIt_get_index' = 0 /\ itBegin' = itBegin /\ count' = count
    BY <1>1, <1>2, <2>1 DEF RBuffIt_get_index, vars
  <2> QED BY <1>1, <1>2, <1>4, <2>1, <2>2 DEF ItInv, OnItem, NextDelivers, Wrapped
<1> QED BY <1>3, <1>4 DEF RBuffIt_next

(* A further call goes to the byte behind the one it is on, around the     *)
(* ring, or ends the walk when that is itEnd.                              *)
LEMMA NextGoesOn ==
  ASSUME ItInv, RBuffIt_next, it # NULL
  PROVE  ItInv' /\ NextDelivers
<1>1. TypeOK' /\ Walkable' = Walkable /\ itBegin' = itBegin /\ count' = count /\ itEnd' = itEnd
  BY DEF ItInv, RBuffIt_next, vars, TypeOK, Walkable, CountMatchesPointers, EndPos
<1>2. /\ NULL \notin 0..Size /\ itBegin \in 0..(Size - 1) /\ count \in 0..Size /\ Size \in Nat \ {0}
      /\ it \in 0..Size /\ walk \in Int /\ walk >= -1
  BY NullAssumption, SizeAssumption DEF ItInv, TypeOK
<1>3. After(it) \in 0..(Size - 1)
  BY <1>2 DEF After
<1>4. ASSUME Walkable, walk >= 0
      PROVE  /\ walk \in 1..count
             /\ After(it) = Wrapped(itBegin + walk)
             /\ itEnd = Wrapped(itBegin + count)
  <2>1. walk >= 1 /\ walk <= count /\ it = Wrapped(itBegin + (walk - 1))
    BY <1>4 DEF ItInv, OnItem
  <2>2. itEnd = Wrapped(itBegin + count)
    BY <1>4, WalkablePlaces DEF ItInv
  <2> QED BY <1>2, <2>1, <2>2 DEF After, Wrapped
<1>5. CASE After(it) = itEnd /\ Stop
  <2>1. it' = NULL /\ moved' = 0 /\ walk' \in {-1, 0}
    BY <1>2, <1>5 DEF RBuffIt_next, Stop
  <2>2. ASSUME Walkable, walk > 0 PROVE walk = count
    BY <1>2, <1>4, <1>5, <2>2 DEF Wrapped
  <2> QED BY <1>1, <2>1, <2>2 DEF ItInv, OnItem, NextDelivers
<1>6. CASE After(it) # itEnd /\ Keep(After(it))
  <2>1. it' = After(it) /\ moved' = 1 /\ walk' = IF walk = -1 THEN -1 ELSE walk + 1
    BY <1>2, <1>6 DEF RBuffIt_next, Keep
  <2>2. it' # NULL /\ it' \in 0..(Size - 1)
    BY <1>2, <1>3, <2>1
  <2>3. RBuffIt_get_index' = IF it' < itBegin THEN (Size - itBegin) + it' ELSE it' - itBegin
    BY <1>1, <1>2, <2>2 DEF RBuffIt_get_index
  <2>4. ASSUME Walkable, walk >= 0
        PROVE  walk' <= count /\ it' = Wrapped(itBegin + (walk' - 1)) /\ RBuffIt_get_index' = walk' - 1
    <3>1. walk' = walk + 1 /\ walk \in 1..count /\ it' = Wrapped(itBegin + walk)
      BY <1>2, <1>4, <2>1, <2>4
    <3>2. walk # count
      BY <1>4, <1>6, <2>4
    <3> QED BY <1>2, <2>3, <3>1, <3>2 DEF Wrapped
  <2> QED BY <1>1, <1>2, <2>1, <2>2, <2>4 DEF ItInv, OnItem, NextDelivers
<1> QED BY <1>5, <1>6 DEF RBuffIt_next

(* However the owner of the buffer and the iterator take turns, an         *)
(* iterator that has not met a change stands on the item it counted.       *)
LEMMA StepsKeepItInv == ItInv /\ [ItNext]_allVars => ItInv'
<1> SUFFICES ASSUME ItInv, [ItNext]_allVars PROVE ItInv'
  OBVIOUS
<1>0. NULL \notin 0..Size /\ itBegin \in 0..(Size - 1) /\ itEnd \in 0..Size /\ Size \in Nat \ {0}
  BY NullAssumption, SizeAssumption DEF ItInv, TypeOK
<1>1. CASE RBuffIt_next
  BY <1>1, NextStarts, NextGoesOn
<1>2. CASE RBuffIt_prev
  <2>1. TypeOK'
    BY <1>2 DEF ItInv, RBuffIt_prev, vars, TypeOK
  <2>2. it' \in {NULL} \cup (0..Size)
    BY <1>0, <1>2 DEF ItInv, RBuffIt_prev, Keep, Stop, Before
  <2> QED BY <1>2, <2>1, <2>2 DEF ItInv, RBuffIt_prev, OnItem
<1>3. CASE RBuffIt_reset
  BY <1>3 DEF ItInv, RBuffIt_reset, OnItem, vars, TypeOK
<1>4. CASE BufferStep
  <2>1. TypeOK'
    BY <1>4, QueueOpsType, IncrementType DEF ItInv, BufferStep, Unseen, Next
  <2> QED BY <1>4, <2>1 DEF ItInv, BufferStep, Unseen, OnItem
<1>5. CASE UNCHANGED allVars
  BY <1>5 DEF allVars, itVars, vars, ItInv, OnItem, TypeOK, Walkable, CountMatchesPointers, EndPos
<1> QED BY <1>1, <1>2, <1>3, <1>4, <1>5 DEF ItNext, ItStep

(* An iterator that is used while its buffer goes on being pushed to and   *)
(* popped from goes to bytes of the buffer, and over a buffer that does    *)
(* not change it delivers the stored bytes in order, each once, and stops  *)
(* with the last of them, for every size of the buffer - unless the end    *)
(* pointer rests on buffEnd, where RBuffIt.c:79 never meets it and the     *)
(* walk goes on for ever (WalkEnds).                                       *)
THEOREM IteratorWalksInOrder == ItSpec => WalkInOrder
<1>1. ItInit => ItInv
  BY InitType DEF ItInit, ItInv, OnItem
<1>2. ItInv /\ RBuffIt_next => NextDelivers
  BY NextStarts, NextGoesOn
<1>3. ItInv => [/\ RBuffIt_next /\ moved' = 1 => it' \in Offset
                /\ itEnd # Size /\ CountMatchesPointers =>
                     /\ (RBuffIt_next /\ walk >= 0 /\ moved' = 1
                           => walk' <= count /\ RBuffIt_get_index' = walk' - 1)
                     /\ (RBuffIt_next /\ walk > 0 /\ moved' = 0 => walk = count)]_allVars
  BY <1>2 DEF NextDelivers, Walkable
<1> QED BY <1>1, <1>3, StepsKeepItInv, PTL DEF ItSpec, WalkInOrder
=============================================================================
