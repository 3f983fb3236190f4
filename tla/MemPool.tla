------------------------------ MODULE MemPool ------------------------------
(***************************************************************************)
(* The pool of preallocated blocks of source/MemPool.c, on top of the      *)
(* ArrayList that stores them.  Blocks are never moved or removed before   *)
(* the pool is deleted, so block n is the one in slot n.  alloc_cb and     *)
(* malloc may fail.                                                        *)
(***************************************************************************)
EXTENDS Capacities, Sequences, FiniteSets

CONSTANTS
  UseMutex,   \* use_mutex of newMemPool_ex
  MayFail     \* TRUE when alloc_cb and malloc may run out of memory

VARIABLES
  list,            \* array->list: n in slot n, or NULL
  capacity,        \* array->capacity
  count,           \* array->count
  reserving,       \* blocks whose reserving_pool is set
  reserved_count,  \* pool->reserved_count
  locked,          \* array->mutex is held
  held,            \* blocks that callers hold: returned and not given back
  ret,             \* the block the last call returned (0: NULL)
  status           \* "none": no pool, "ok", "stuck": the caller waits for a
                   \* mutex nobody will release, "fault": NULL dereferenced

poolVars == <<list, capacity, count, reserving, reserved_count, locked>>
vars == <<poolVars, held, ret, status>>

(* The list under the pool.  Only its operations on capacity are used.     *)
Array == INSTANCE ArrayList WITH
           Item <- 1..TopCap, owner <- <<>>, pc <- "idle", todo <- "none",
           it <- 1, end <- 0, temp <- <<>>, i <- 0, fault <- FALSE

NULL == Array!NULL

-----------------------------------------------------------------------------
(* How many of 'need' blocks in a row can be allocated.                    *)
Allocated(need) == IF MayFail THEN 0..need ELSE {need}

(* fill_resized_memory on array 'a' holding 'from' blocks, when the first  *)
(* n of the missing blocks could be allocated.  The error return leaves    *)
(* the mutex locked.                                                       *)
Fill(a, from, n) ==
  /\ list' = [k \in 1..Len(a) |-> IF from < k /\ k <= from + n THEN k ELSE a[k]]
  /\ capacity' = Len(a)
  /\ count' = from + n
  /\ locked' = (UseMutex /\ from + n < Len(a))

(* The loop of MemPool_reserve_block over array 'a': the first slot whose  *)
(* block is not reserved is taken; a slot without a block is dereferenced. *)
Open(a) == {k \in 1..Len(a) : a[k] = NULL \/ k \notin reserving}

Scan(a) ==
  IF Open(a) = {} THEN ret' = NULL /\ UNCHANGED <<reserving, reserved_count, held, status>>
  ELSE LET k == Array!FirstOf(Open(a))
       IN IF a[k] = NULL
          THEN /\ status' = "fault" /\ ret' = NULL
               /\ UNCHANGED <<reserving, reserved_count, held>>
          ELSE /\ reserving' = reserving \cup {k}
               /\ reserved_count' = reserved_count + 1
               /\ held' = held \cup {k}
               /\ ret' = k
               /\ UNCHANGED status

ReturnsNull ==
  /\ ret' = NULL
  /\ UNCHANGED <<reserving, reserved_count, held>>

Exhausted == reserved_count = capacity

ReserveFree ==
  /\ ~Exhausted
  /\ Scan(list)
  /\ UNCHANGED <<list, capacity, count, locked>>

(* Mutant: a full pool is reported without trying to grow.                 *)
ReserveAtMax_neverGrows ==
  /\ Exhausted
  /\ ReturnsNull
  /\ UNCHANGED <<list, capacity, count, locked, status>>

(* expand refuses at the maximum, and cannot double a capacity of 0.       *)
ReserveAtMax ==
  /\ Exhausted
  /\ capacity = MaxCap \/ capacity = 0
  /\ ReturnsNull
  /\ UNCHANGED <<list, capacity, count, locked, status>>

(* expand doubles the array, waiting for the array's mutex first, and n of *)
(* the new blocks can be allocated.                                        *)
ReserveGrows ==
  /\ Exhausted
  /\ capacity # MaxCap /\ capacity # 0
  /\ IF locked
     THEN status' = "stuck" /\ ReturnsNull /\ UNCHANGED <<list, capacity, count, locked>>
     ELSE LET grown == Array!Grown(2 * capacity)
              need  == Len(grown) - count
          IN \E n \in Allocated(need) :
               /\ Fill(grown, count, n)
               /\ IF n < need THEN ReturnsNull /\ UNCHANGED status
                              ELSE Scan(list')

MemPool_reserve_block ==
  /\ status = "ok"
  /\ ReserveFree \/ ReserveAtMax \/ ReserveGrows

(* Mutant: the pool's counter is not lowered.                              *)
MemPool_unreserve_block_noCount(block) ==
  /\ status = "ok"
  /\ block \in held
  /\ reserving' = reserving \ {block}
  /\ held' = held \ {block}
  /\ ret' = NULL
  /\ UNCHANGED <<list, capacity, count, reserved_count, locked, status>>

MemPool_unreserve_block(block) ==
  /\ status = "ok"
  /\ block \in held
  /\ reserved_count' = reserved_count - 1
  /\ reserving' = reserving \ {block}
  /\ held' = held \ {block}
  /\ ret' = NULL
  /\ UNCHANGED <<list, capacity, count, locked, status>>

(* A pool whose first blocks cannot be allocated is deleted again.         *)
newMemPool_ex ==
  /\ status = "none"
  /\ reserving' = {} /\ reserved_count' = 0 /\ held' = {} /\ ret' = NULL
  /\ \E n \in Allocated(StartCap) :
       IF n < StartCap
       THEN UNCHANGED <<list, capacity, count, locked, status>>
       ELSE Fill(Array!Empty(StartCap), 0, n) /\ status' = "ok"

(* Deleting a pool while a block is reserved is the caller's error.        *)
delMemPool ==
  /\ status = "ok"
  /\ held = {}
  /\ status' = "none"
  /\ list' = <<>> /\ capacity' = 0 /\ count' = 0 /\ locked' = FALSE
  /\ reserving' = {} /\ reserved_count' = 0 /\ ret' = NULL
  /\ UNCHANGED held

-----------------------------------------------------------------------------
Init ==
  /\ list = <<>> /\ capacity = 0 /\ count = 0 /\ locked = FALSE
  /\ reserving = {} /\ reserved_count = 0 /\ held = {} /\ ret = NULL
  /\ status = "none"

Next ==
  \/ capacity <= TopCap /\ MemPool_reserve_block
  \/ \E block \in 1..TopCap : MemPool_unreserve_block(block)
  \/ newMemPool_ex
  \/ delMemPool

Spec == Init /\ [][Next]_vars

-----------------------------------------------------------------------------

(* The three records of what is reserved - the pool's counter, the marks   *)
(* in the blocks and the callers' pointers - agree, so that no block has   *)
(* two holders, and the blocks fill the array from the front without       *)
(* holes, which fill_resized_memory relies on when it continues at slot    *)
(* 'count'.  Allocation failures do not disturb this, and although they    *)
(* leave the array's mutex locked no later call waits for it: a pool with  *)
(* an unfilled slot is never exhausted again, so that expand is not        *)
(* reached.                                                                *)
BooksBalance ==
  /\ reserved_count = Cardinality(held)
  /\ reserving = held
  /\ \A k \in 1..capacity : list[k] = IF k <= count THEN k ELSE NULL
  /\ held \subseteq 1..count
  /\ status # "stuck"

(* As long as no allocation failed - which the array shows by a slot       *)
(* without a block - the pool turns a caller away only when its maximum is *)
(* reached and every block of it is reserved.                              *)
RefusesOnlyWhenExhausted ==
  [][MemPool_reserve_block /\ ret' = NULL /\ count' = capacity' /\ status' = "ok" =>
       capacity = MaxCap /\ held = 1..MaxCap]_vars

=============================================================================
