---------------------------- MODULE MCContainers ---------------------------
(***************************************************************************)
(* The containers of the library in one state space, each on its own: the  *)
(* array list (which this module extends), the pool of blocks on top of    *)
(* it, the doubly linked list and the history.  'part' says which one a    *)
(* behaviour is about; the others keep their initial state.                *)
(***************************************************************************)
EXTENDS ArrayList

CONSTANTS
  UseMutex, MayFail, PoolCap,  \* of MemPool; PoolCap is its maximum and bound
  N, Shared,                   \* of DList
  Keep, Limit,                 \* of ListHistory
  Careful                      \* of both

ASSUME ChainAssumption == N \in Nat
ASSUME HistoryAssumption == Keep \in Nat /\ Limit \in Nat
ASSUME PoolAssumption == PoolCap \in Nat \ {0} /\ StartCap <= PoolCap

VARIABLES
  part,
  blocks, blockCap, blockCount, reserving, reserved_count, locked, held, ret, status,
  m, taken,
  h, given

poolVars == <<blocks, blockCap, blockCount, reserving, reserved_count, locked, held, ret, status>>
chainVars == <<m, taken>>
historyVars == <<h, given>>

Pool == INSTANCE MemPool WITH
          MaxCap <- PoolCap, TopCap <- PoolCap,
          list <- blocks, capacity <- blockCap, count <- blockCount

Chain == INSTANCE DList WITH held <- taken

History == INSTANCE ListHistory

ContainersInit ==
  /\ part \in {"array", "pool", "chain", "history"}
  /\ Init /\ Pool!Init /\ Chain!Init /\ History!Init
  /\ part # "chain" => ~m.pending

ContainersNext ==
  /\ \/ part = "array" /\ Next /\ UNCHANGED <<poolVars, chainVars, historyVars>>
     \/ part = "pool" /\ Pool!Next /\ UNCHANGED <<vars, chainVars, historyVars>>
     \/ part = "chain" /\ Chain!Next /\ UNCHANGED <<vars, poolVars, historyVars>>
     \/ part = "history" /\ History!Next /\ UNCHANGED <<vars, poolVars, chainVars>>
  /\ UNCHANGED part

allVars == <<part, vars, poolVars, chainVars, historyVars>>

(* A call that has begun goes on; callers need not call.                   *)
ContainersSpec ==
  /\ ContainersInit /\ [][ContainersNext]_allVars
  /\ WF_allVars(part = "array" /\ LoopStep /\ UNCHANGED <<part, poolVars, chainVars, historyVars>>)

-----------------------------------------------------------------------------
(* The books of the pool balance (MemPool.tla).                            *)
PoolBooksBalance == Pool!BooksBalance

(* A pool without allocation failures refuses only when every block of its *)
(* maximum is reserved (MemPool.tla).                                      *)
PoolRefusesOnlyWhenExhausted == Pool!RefusesOnlyWhenExhausted

(* The links, edges, count and parents of a DList agree (DList.tla).       *)
WellLinked == Chain!WellLinked

(* A value of a DList lives as long as it is held (DList.tla).             *)
HeldValuesLive == Chain!HeldValuesLive

(* The calls of a DList that take an index act there (DList.tla).          *)
ActsAtIndex == Chain!ActsAtIndex

(* A DList implements a sequence (SeqList.tla).                            *)
ImplementsSeq == Chain!ImplementsSeq

(* A history is one chain with the oldest item first (ListHistory.tla).    *)
HistoryInOrder == History!HistoryInOrder
=============================================================================
