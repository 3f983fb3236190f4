------------------------- MODULE MCContainers_proof ------------------------
(***************************************************************************)
(* Proofs about the array list, the pool of blocks on top of it and the    *)
(* history.                                                                *)
(*                                                                         *)
(* ArrayList: no loop and no store leaves the allocation, the list holds   *)
(* exactly what it owns, and the look-ups agree, for any number of items   *)
(* and any capacity.  The loops have no bound but 'count', so the          *)
(* invariant says, for each of them, which items lie behind it and which   *)
(* are still to be met.                                                    *)
(*                                                                         *)
(* MemPool: the counter, the marks and the callers' pointers agree, and a  *)
(* caller is refused only when the pool is exhausted.                      *)
(*                                                                         *)
(* ListHistory: the record describes one chain, in the order the items     *)
(* came in; the invariant names the chain and follows it through each      *)
(* call.                                                                   *)
(***************************************************************************)
EXTENDS MCContainers, SequenceTheorems, FiniteSetTheorems, FunctionTheorems, TLAPS

-----------------------------------------------------------------------------
(* The invariant.                                                          *)

(* An array of pointers that holds no item twice.                          *)
Array(s) ==
  /\ s \in Seq(Item \cup {NULL})
  /\ \A l, n \in Slots(s) : s[l] = s[n] => l = n

(* The slots the loop has behind it.                                       *)
Passed == Slots(list) \cap 1..(it - 1)

Owned ==
  /\ Array(list) /\ capacity = Len(list) /\ capacity <= MaxCap
  /\ count = Cardinality(Slots(list))
  /\ owner \in [Item -> {"caller", "list", "freed"}]
  /\ Held(list) = {x \in Item : owner[x] = "list"}
  /\ it \in Nat \ {0}
  /\ ~fault

(* The new array holds, from its start and in their order, the items the   *)
(* copy has passed.                                                        *)
Copying ==
  /\ Array(temp) /\ Len(temp) <= MaxCap
  /\ i = Cardinality(Passed) /\ i <= Len(temp)
  /\ Slots(temp) = 1..i
  /\ Held(temp) = {list[n] : n \in Passed}
  /\ SameOrder(list, temp)

(* No hole is behind the sift and no item beyond the end it searches from. *)
Sifting ==
  /\ 1..(it - 1) \subseteq Slots(list) /\ it <= count + 1
  /\ end \in Nat /\ end <= Len(list) /\ \A n \in Slots(list) : n <= end

Looping ==
  /\ pc \in {"copy", "cut"} => Copying
  /\ pc = "cut" => i >= count \/ i = Len(temp)
  /\ pc = "clear" => Passed = {}
  /\ pc = "sift" => Sifting
  /\ pc = "deleted" => count = 0

AInv == Owned /\ Looping

-----------------------------------------------------------------------------
(* Numbers.                                                                *)

(* A set of natural numbers that is not empty has a least element.         *)
LEMMA FirstOfIs ==
  ASSUME NEW T \in SUBSET Nat, T # {}
  PROVE  FirstOf(T) \in T /\ \A l \in T : FirstOf(T) <= l
<1> DEFINE R == OpToRel(<, Nat)
           P(n) == \A l \in T : n <= l
<1>1. IsWellFoundedOn(R, Nat)
  BY NatLessThanWellFounded
<1>2. \A x, y \in Nat : <<y, x>> \in R <=> y < x
  BY DEF OpToRel
<1> HIDE DEF R
<1>3. PICK n \in T : \A l \in T : ~(<<l, n>> \in R)
  BY <1>1, WFMin
<1>4. ASSUME NEW l \in T PROVE n <= l
  <2>1. l \in Nat /\ n \in Nat
    OBVIOUS
  <2>2. ~(l < n)
    BY <1>2, <1>3, <2>1
  <2> QED BY <2>1, <2>2
<1>5. \E k \in T : P(k)
  BY <1>4
<1> HIDE DEF P
<1>6. (CHOOSE k \in T : P(k)) \in T /\ P(CHOOSE k \in T : P(k))
  BY <1>5
<1>7. FirstOf(T) = CHOOSE k \in T : P(k)
  BY DEF FirstOf, P
<1> QED BY <1>6, <1>7 DEF P

(* A set of natural numbers below a bound has a greatest element.          *)
LEMMA LastOfIs ==
  ASSUME NEW b \in Nat, NEW T \in SUBSET (0..b), T # {}
  PROVE  LastOf(T) \in T /\ \A l \in T : LastOf(T) >= l
<1> DEFINE U == {b - n : n \in T}
           P(n) == \A l \in T : n >= l
<1>1. U \in SUBSET Nat /\ U # {}
  <2>1. \A n \in T : b - n \in Nat
    OBVIOUS
  <2>2. PICK n \in T : TRUE
    OBVIOUS
  <2>3. b - n \in U
    OBVIOUS
  <2> QED BY <2>1, <2>3
<1>2. FirstOf(U) \in U /\ \A l \in U : FirstOf(U) <= l
  <2> HIDE DEF U
  <2> QED BY <1>1, FirstOfIs
<1>3. PICK n \in T : FirstOf(U) = b - n
  BY <1>2
<1>4. ASSUME NEW l \in T PROVE n >= l
  <2>1. b - n <= b - l
    BY <1>2, <1>3
  <2> QED BY <2>1
<1>5. \E k \in T : P(k)
  BY <1>4
<1> HIDE DEF P
<1>6. (CHOOSE k \in T : P(k)) \in T /\ P(CHOOSE k \in T : P(k))
  BY <1>5
<1>7. LastOf(T) = CHOOSE k \in T : P(k)
  BY DEF LastOf, P
<1> QED BY <1>6, <1>7 DEF P

(* The first n slots are n.                                                *)
LEMMA UpTo ==
  ASSUME NEW n \in Nat
  PROVE  IsFiniteSet(1..n) /\ Cardinality(1..n) = n
<1>1. 1 \in Int /\ n \in Int
  OBVIOUS
<1>2. IsFiniteSet(1..n) /\ Cardinality(1..n) = IF 1 > n THEN 0 ELSE n - 1 + 1
  BY <1>1, FS_Interval
<1> QED BY <1>2

(* An array is a function on its slots.                                    *)
LEMMA FunctionIsArray ==
  ASSUME NEW n \in Nat, NEW S, NEW f \in [1..n -> S]
  PROVE  f \in Seq(S) /\ Len(f) = n
BY SMT

-----------------------------------------------------------------------------
(* Arrays.                                                                 *)

(* An array has no more items than slots, and as many items as filled ones.*)
LEMMA ArrayFacts ==
  ASSUME NEW s, Array(s)
  PROVE  /\ Len(s) \in Nat /\ \A n \in 1..Len(s) : s[n] \in Item \cup {NULL}
         /\ Slots(s) = {n \in 1..Len(s) : s[n] # NULL} /\ IsFiniteSet(Slots(s))
         /\ Cardinality(Slots(s)) \in Nat /\ Cardinality(Slots(s)) <= Len(s)
         /\ Held(s) \subseteq Item /\ IsFiniteSet(Held(s))
         /\ Cardinality(Held(s)) = Cardinality(Slots(s))
<1>1. Len(s) \in Nat /\ \A n \in 1..Len(s) : s[n] \in Item \cup {NULL}
  BY LenProperties DEF Array
<1>2. Slots(s) = {n \in 1..Len(s) : s[n] # NULL}
  BY DEF Slots, Filled
<1>3. IsFiniteSet(1..Len(s)) /\ Cardinality(1..Len(s)) = Len(s)
  BY <1>1, UpTo
<1>4. Slots(s) \in SUBSET (1..Len(s))
  BY <1>2
<1>5. IsFiniteSet(Slots(s)) /\ Cardinality(Slots(s)) <= Len(s)
  BY <1>3, <1>4, FS_Subset
<1>6. Cardinality(Slots(s)) \in Nat
  BY <1>5, FS_CardinalityType
<1>7. Held(s) \subseteq Item
  BY <1>1, <1>2 DEF Held
<1> DEFINE f == [n \in Slots(s) |-> s[n]]
<1>8. f \in Bijection(Slots(s), Held(s))
  BY DEF Bijection, Injection, Surjection, IsInjective, Array, Held
<1>9. ExistsBijection(Slots(s), Held(s))
  BY <1>8 DEF ExistsBijection
<1>10. IsFiniteSet(Held(s)) /\ Cardinality(Held(s)) = Cardinality(Slots(s))
  BY <1>5, <1>9, FS_Bijection
<1> QED BY <1>1, <1>2, <1>5, <1>6, <1>7, <1>10

(* A store to one slot.                                                    *)
Put(s, p, x) == [s EXCEPT ![p] = x]

(* A store changes its slot and no other.                                  *)
LEMMA PutIs ==
  ASSUME NEW s, Array(s), NEW p \in 1..Len(s), NEW x \in Item \cup {NULL}
  PROVE  /\ Put(s, p, x) \in Seq(Item \cup {NULL}) /\ Len(Put(s, p, x)) = Len(s)
         /\ Put(s, p, x)[p] = x /\ \A n \in 1..Len(s) : n # p => Put(s, p, x)[n] = s[n]
         /\ Slots(Put(s, p, x)) = {n \in 1..Len(s) : Put(s, p, x)[n] # NULL}
<1>0. Len(s) \in Nat /\ s \in [1..Len(s) -> Item \cup {NULL}]
  BY ArrayFacts, LenProperties DEF Array
<1>1. Put(s, p, x) \in [1..Len(s) -> Item \cup {NULL}]
  BY <1>0 DEF Put
<1>2. Put(s, p, x) \in Seq(Item \cup {NULL}) /\ Len(Put(s, p, x)) = Len(s)
  BY <1>0, <1>1, FunctionIsArray
<1>3. Put(s, p, x)[p] = x /\ \A n \in 1..Len(s) : n # p => Put(s, p, x)[n] = s[n]
  BY <1>0 DEF Put
<1> QED BY <1>2, <1>3 DEF Slots, Filled

(* An item is stored in a free slot.                                       *)
LEMMA StoredIn ==
  ASSUME NEW s, Array(s), NEW p \in 1..Len(s), s[p] = NULL, NEW x \in Item, x \notin Held(s)
  PROVE  /\ Array(Put(s, p, x)) /\ Len(Put(s, p, x)) = Len(s)
         /\ Slots(Put(s, p, x)) = Slots(s) \cup {p} /\ Held(Put(s, p, x)) = Held(s) \cup {x}
         /\ Cardinality(Slots(Put(s, p, x))) = Cardinality(Slots(s)) + 1
         /\ \A n \in Slots(s) : Put(s, p, x)[n] = s[n]
<1> DEFINE t == Put(s, p, x)
<1>0. IsFiniteSet(Slots(s)) /\ Slots(s) = {n \in 1..Len(s) : s[n] # NULL} /\ x # NULL
  BY ArrayFacts, ItemAssumption
<1>1. /\ t \in Seq(Item \cup {NULL}) /\ Len(t) = Len(s)
      /\ t[p] = x /\ \A n \in 1..Len(s) : n # p => t[n] = s[n]
      /\ Slots(t) = {n \in 1..Len(s) : t[n] # NULL}
  BY PutIs
<1> HIDE DEF t
<1>5. Slots(t) = Slots(s) \cup {p} /\ p \notin Slots(s)
  BY <1>0, <1>1
<1>6. \A n \in Slots(s) : t[n] = s[n] /\ s[n] \in Held(s)
  BY <1>0, <1>1, <1>5 DEF Held
<1>7. Held(t) = Held(s) \cup {x}
  <2>1. Held(t) = {t[n] : n \in Slots(s)} \cup {t[p]}
    BY <1>5 DEF Held
  <2>2. {t[n] : n \in Slots(s)} = Held(s)
    BY <1>6 DEF Held
  <2> QED BY <1>1, <2>1, <2>2
<1>8. \A l, n \in Slots(t) : t[l] = t[n] => l = n
  BY <1>1, <1>5, <1>6 DEF Array
<1>9. Cardinality(Slots(t)) = Cardinality(Slots(s)) + 1
  BY <1>0, <1>5, FS_AddElement
<1> QED BY <1>1, <1>5, <1>6, <1>7, <1>8, <1>9 DEF Array, t

(* A filled slot is cleared.                                               *)
LEMMA ClearedAt ==
  ASSUME NEW s, Array(s), NEW p \in Slots(s)
  PROVE  /\ Array(Put(s, p, NULL)) /\ Len(Put(s, p, NULL)) = Len(s)
         /\ Slots(Put(s, p, NULL)) = Slots(s) \ {p} /\ Held(Put(s, p, NULL)) = Held(s) \ {s[p]}
         /\ \A n \in Slots(s) \ {p} : Put(s, p, NULL)[n] = s[n]
         /\ Cardinality(Slots(Put(s, p, NULL))) = Cardinality(Slots(s)) - 1
<1> DEFINE t == Put(s, p, NULL)
<1>0. IsFiniteSet(Slots(s)) /\ Slots(s) = {n \in 1..Len(s) : s[n] # NULL}
  BY ArrayFacts
<1>1. /\ t \in Seq(Item \cup {NULL}) /\ Len(t) = Len(s)
      /\ t[p] = NULL /\ \A n \in 1..Len(s) : n # p => t[n] = s[n]
      /\ Slots(t) = {n \in 1..Len(s) : t[n] # NULL}
  BY <1>0, PutIs
<1> HIDE DEF t
<1>5. Slots(t) = Slots(s) \ {p}
  BY <1>0, <1>1
<1>6. \A n \in Slots(s) \ {p} : t[n] = s[n]
  BY <1>0, <1>1
<1>7. Held(t) = Held(s) \ {s[p]}
  <2>1. Held(t) = {s[n] : n \in Slots(s) \ {p}}
    BY <1>5, <1>6 DEF Held
  <2>2. \A n \in Slots(s) : s[n] = s[p] => n = p
    BY DEF Array
  <2> QED BY <2>1, <2>2 DEF Held
<1>8. \A l, n \in Slots(t) : t[l] = t[n] => l = n
  BY <1>5, <1>6 DEF Array
<1>9. Cardinality(Slots(t)) = Cardinality(Slots(s)) - 1
  BY <1>0, <1>5, FS_RemoveElement
<1> QED BY <1>1, <1>5, <1>6, <1>7, <1>8, <1>9 DEF Array, t

(* What the sift does to a hole and an item.                               *)
Move(s, p, e) == [s EXCEPT ![p] = s[e], ![e] = NULL]

(* An item is moved to a free slot.                                        *)
LEMMA MovedTo ==
  ASSUME NEW s, Array(s), NEW p \in 1..Len(s), s[p] = NULL, NEW e \in Slots(s)
  PROVE  /\ Array(Move(s, p, e)) /\ Len(Move(s, p, e)) = Len(s)
         /\ Slots(Move(s, p, e)) = (Slots(s) \ {e}) \cup {p} /\ Held(Move(s, p, e)) = Held(s)
         /\ Cardinality(Slots(Move(s, p, e))) = Cardinality(Slots(s))
<1> DEFINE u == Put(s, e, NULL)
           v == Put(u, p, s[e])
<1>0. Len(s) \in Nat /\ s \in [1..Len(s) -> Item \cup {NULL}]
      /\ Slots(s) = {n \in 1..Len(s) : s[n] # NULL} /\ Cardinality(Slots(s)) \in Nat
  BY ArrayFacts, LenProperties DEF Array
<1>1. e \in 1..Len(s) /\ e # p /\ s[e] \in Item /\ s[e] \in Held(s)
  BY <1>0 DEF Held
<1>2. v = Move(s, p, e)
  <2> DEFINE w == [s EXCEPT ![p] = s[e]]
             z == [w EXCEPT ![e] = NULL]
  <2>1. w \in [1..Len(s) -> Item \cup {NULL}] /\ u \in [1..Len(s) -> Item \cup {NULL}]
    BY <1>0, <1>1 DEF Put
  <2>2. \A n \in 1..Len(s) : w[n] = (IF n = p THEN s[e] ELSE s[n]) /\ u[n] = (IF n = e THEN NULL ELSE s[n])
    BY <1>0, <1>1 DEF Put
  <2> HIDE DEF w, u
  <2>3. z \in [1..Len(s) -> Item \cup {NULL}] /\ v \in [1..Len(s) -> Item \cup {NULL}]
    BY <1>0, <1>1, <2>1 DEF Put
  <2>4. \A n \in 1..Len(s) : z[n] = (IF n = e THEN NULL ELSE w[n]) /\ v[n] = (IF n = p THEN s[e] ELSE u[n])
    BY <1>0, <1>1, <2>1 DEF Put
  <2> HIDE DEF z, v
  <2>5. \A n \in 1..Len(s) : z[n] = v[n]
    BY <1>1, <2>2, <2>4
  <2>6. z = v
    BY <2>3, <2>5
  <2> QED BY <2>6 DEF z, w, Move
<1>3. /\ Array(u) /\ Len(u) = Len(s) /\ Slots(u) = Slots(s) \ {e} /\ Held(u) = Held(s) \ {s[e]}
      /\ Cardinality(Slots(u)) = Cardinality(Slots(s)) - 1
  BY ClearedAt
<1>4. u[p] = NULL
  BY <1>0, <1>1 DEF Put
<1> HIDE DEF u
<1>5. /\ Array(v) /\ Len(v) = Len(u) /\ Slots(v) = Slots(u) \cup {p} /\ Held(v) = Held(u) \cup {s[e]}
      /\ Cardinality(Slots(v)) = Cardinality(Slots(u)) + 1
  <2>1. Array(u) /\ p \in 1..Len(u) /\ u[p] = NULL /\ s[e] \in Item /\ s[e] \notin Held(u)
    BY <1>1, <1>3, <1>4
  <2> QED BY <2>1, StoredIn
<1> HIDE DEF v
<1>6. Held(v) = Held(s)
  BY <1>1, <1>3, <1>5
<1>7. Cardinality(Slots(v)) = Cardinality(Slots(s))
  BY <1>0, <1>3, <1>5
<1>8. Slots(v) = (Slots(s) \ {e}) \cup {p} /\ Len(v) = Len(s)
  BY <1>3, <1>5
<1> QED BY <1>2, <1>5, <1>6, <1>7, <1>8

(* A fresh array is empty.                                                 *)
LEMMA EmptyArray ==
  ASSUME NEW n \in Nat
  PROVE  /\ Array(Empty(n)) /\ Len(Empty(n)) = n
         /\ Slots(Empty(n)) = {} /\ Held(Empty(n)) = {} /\ Cardinality(Slots(Empty(n))) = 0
<1> DEFINE s == Empty(n)
<1>1. s \in [1..n -> Item \cup {NULL}] /\ \A k \in 1..n : s[k] = NULL
  BY DEF Empty
<1> HIDE DEF s
<1>2. s \in Seq(Item \cup {NULL}) /\ Len(s) = n
  BY <1>1, FunctionIsArray
<1>3. Slots(s) = {} /\ Held(s) = {}
  BY <1>1, <1>2 DEF Slots, Filled, Held
<1> QED BY <1>2, <1>3, FS_EmptySet DEF Array, s

(* No array at all holds nothing.                                          *)
LEMMA NoArray ==
  Array(<<>>) /\ Len(<<>>) = 0 /\ Slots(<<>>) = {} /\ Held(<<>>) = {} /\ Cardinality(Slots(<<>>)) = 0
<1>1. <<>> \in Seq(Item \cup {NULL}) /\ Len(<<>>) = 0
  BY EmptySeq
<1>2. Slots(<<>>) = {} /\ Held(<<>>) = {}
  BY <1>1 DEF Slots, Filled, Held
<1> QED BY <1>1, <1>2, FS_EmptySet DEF Array

(* A larger array holds the same items in the same slots.                  *)
LEMMA GrownArray ==
  ASSUME Array(list), NEW c \in Nat, c > Len(list)
  PROVE  /\ Array(Grown(c)) /\ Len(Grown(c)) = GrownTo(c) /\ GrownTo(c) > Len(list)
         /\ GrownTo(c) <= c /\ GrownTo(c) \in Nat
         /\ Slots(Grown(c)) = Slots(list) /\ Held(Grown(c)) = Held(list)
         /\ \A n \in 1..GrownTo(c) : Grown(c)[n] = IF n <= Len(list) THEN list[n] ELSE NULL
<1> DEFINE s == Grown(c)
<1>0. /\ Len(list) \in Nat /\ \A n \in 1..Len(list) : list[n] \in Item \cup {NULL}
      /\ Slots(list) = {n \in 1..Len(list) : list[n] # NULL}
  BY ArrayFacts
<1>1. GrownTo(c) \in Nat /\ GrownTo(c) > Len(list) /\ GrownTo(c) <= c
  BY <1>0, CapAssumption, EmptySeq DEF GrownTo
<1>2. /\ s \in [1..GrownTo(c) -> Item \cup {NULL}]
      /\ \A n \in 1..GrownTo(c) : s[n] = IF n <= Len(list) THEN list[n] ELSE NULL
  BY <1>0, <1>1 DEF Grown
<1> HIDE DEF s
<1>3. s \in Seq(Item \cup {NULL}) /\ Len(s) = GrownTo(c)
  BY <1>1, <1>2, FunctionIsArray
<1>4. Slots(s) = {n \in 1..GrownTo(c) : s[n] # NULL}
  BY <1>3 DEF Slots, Filled
<1>5. Slots(s) = Slots(list)
  BY <1>0, <1>1, <1>2, <1>4
<1>6. \A n \in Slots(list) : s[n] = list[n]
  BY <1>0, <1>1, <1>2
<1>7. Held(s) = Held(list)
  BY <1>5, <1>6 DEF Held
<1>8. \A l, n \in Slots(s) : s[l] = s[n] => l = n
  BY <1>5, <1>6 DEF Array
<1> QED BY <1>1, <1>2, <1>3, <1>5, <1>7, <1>8 DEF Array, s

-----------------------------------------------------------------------------
(* qsort.                                                                  *)

(* Induction over the natural numbers, for a set of them.                  *)
LEMMA SetInduction ==
  ASSUME NEW T \in SUBSET Nat, 0 \in T, \A n \in T : n + 1 \in T
  PROVE  T = Nat
<1> SUFFICES ASSUME Nat \ T # {} PROVE FALSE
  OBVIOUS
<1> DEFINE n == FirstOf(Nat \ T)
<1>1. n \in Nat \ T /\ \A l \in Nat \ T : n <= l
  BY FirstOfIs
<1> HIDE DEF n
<1>2. n # 0 /\ n - 1 \in Nat
  BY <1>1
<1>3. n - 1 \in T
  BY <1>1, <1>2
<1> QED BY <1>1, <1>2, <1>3

(* A finite set of numbers can be put in order.                            *)
LEMMA OrderExists ==
  ASSUME NEW n \in Nat, NEW S \in SUBSET Nat, IsFiniteSet(S), Cardinality(S) = n
  PROVE  \E t \in [1..n -> S] :
           /\ \A x \in S : \E k \in 1..n : t[k] = x
           /\ \A k \in 1..(n - 1) : t[k] <= t[k + 1]
<1> DEFINE InOrder(k, R) ==
             \E t \in [1..k -> R] :
               /\ \A x \in R : \E l \in 1..k : t[l] = x
               /\ \A l \in 1..(k - 1) : t[l] <= t[l + 1]
           T == {k \in Nat : \A R \in SUBSET Nat :
                               IsFiniteSet(R) /\ Cardinality(R) = k => InOrder(k, R)}
<1>1. 0 \in T
  <2> SUFFICES ASSUME NEW R \in SUBSET Nat, IsFiniteSet(R), Cardinality(R) = 0 PROVE InOrder(0, R)
    OBVIOUS
  <2>1. R = {}
    BY FS_EmptySet
  <2> DEFINE z == [l \in 1..0 |-> 0]
  <2>2. z \in [1..0 -> R]
    OBVIOUS
  <2> HIDE DEF z
  <2>3. \A l \in 1..(0 - 1) : z[l] <= z[l + 1]
    OBVIOUS
  <2>4. \A x \in R : \E l \in 1..0 : z[l] = x
    BY <2>1
  <2> QED BY <2>2, <2>3, <2>4
<1>2. ASSUME NEW k \in T PROVE k + 1 \in T
  <2> SUFFICES ASSUME NEW R \in SUBSET Nat, IsFiniteSet(R), Cardinality(R) = k + 1 PROVE InOrder(k + 1, R)
    OBVIOUS
  <2>0. k \in Nat
    BY <1>2
  <2>1. R # {}
    BY <2>0, FS_EmptySet
  <2> DEFINE x == FirstOf(R)
             Q == R \ {x}
  <2>2. x \in R /\ \A l \in R : x <= l
    BY <2>1, FirstOfIs
  <2> HIDE DEF x
  <2>3. Q \in SUBSET Nat /\ IsFiniteSet(Q) /\ Cardinality(Q) = k
    <3>1. IsFiniteSet(Q) /\ Cardinality(Q) = Cardinality(R) - 1
      BY <2>2, FS_RemoveElement
    <3>2. Cardinality(Q) = k
      BY <2>0, <3>1
    <3>3. Q \in SUBSET Nat
      OBVIOUS
    <3> QED BY <3>1, <3>2, <3>3
  <2>4. InOrder(k, Q)
    BY <1>2, <2>3
  <2>5. PICK t \in [1..k -> Q] : /\ \A y \in Q : \E l \in 1..k : t[l] = y
                                 /\ \A l \in 1..(k - 1) : t[l] <= t[l + 1]
    BY <2>4
  <2> DEFINE u == [l \in 1..(k + 1) |-> IF l = 1 THEN x ELSE t[l - 1]]
  <2>6. u \in [1..(k + 1) -> R] /\ u[1] = x /\ \A l \in 1..k : u[l + 1] = t[l]
    <3>1. \A l \in 1..(k + 1) : l # 1 => l - 1 \in 1..k
      BY <2>0
    <3>2. \A l \in 1..(k + 1) : l # 1 => t[l - 1] \in Q
      BY <3>1
    <3>3. u \in [1..(k + 1) -> R]
      BY <2>2, <3>2
    <3>4. \A l \in 1..k : l + 1 \in 1..(k + 1) /\ l + 1 # 1 /\ (l + 1) - 1 = l
      BY <2>0
    <3>5. 1 \in 1..(k + 1)
      BY <2>0
    <3> QED BY <3>3, <3>4, <3>5
  <2> HIDE DEF u
  <2>7. \A y \in R : \E l \in 1..(k + 1) : u[l] = y
    <3> SUFFICES ASSUME NEW y \in R PROVE \E l \in 1..(k + 1) : u[l] = y
      OBVIOUS
    <3>1. CASE y = x
      BY <2>0, <2>6, <3>1
    <3>2. CASE y # x
      <4>1. PICK l \in 1..k : t[l] = y
        BY <2>5, <3>2
      <4>2. l + 1 \in 1..(k + 1) /\ u[l + 1] = y
        BY <2>0, <2>6, <4>1
      <4> QED BY <4>2
    <3> QED BY <3>1, <3>2
  <2>8. \A l \in 1..((k + 1) - 1) : u[l] <= u[l + 1]
    <3> SUFFICES ASSUME NEW l \in 1..k PROVE u[l] <= u[l + 1]
      BY <2>0
    <3>1. u[l + 1] = t[l] /\ t[l] \in R
      BY <2>5, <2>6
    <3>2. CASE l = 1
      BY <2>2, <2>6, <3>1, <3>2
    <3>3. CASE l # 1
      <4>1. l - 1 \in 1..(k - 1) /\ l - 1 \in 1..k /\ (l - 1) + 1 = l
        BY <2>0, <3>3
      <4>2. u[l] = t[l - 1] /\ t[l - 1] <= t[l]
        BY <2>5, <2>6, <4>1
      <4> QED BY <3>1, <4>2
    <3> QED BY <3>2, <3>3
  <2> QED BY <2>6, <2>7, <2>8
<1> HIDE DEF InOrder
<1>3. T = Nat
  <2>1. T \in SUBSET Nat
    OBVIOUS
  <2> HIDE DEF T
  <2> QED BY <1>1, <1>2, <2>1, SetInduction
<1>4. InOrder(n, S)
  BY <1>3
<1> QED BY <1>4 DEF InOrder

(* An array whose first c slots are in order.                              *)
Qsorted(s, c) == [n \in 1..Len(s) |-> IF n <= c THEN Sorted(s, c)[n] ELSE s[n]]

(* Sorting the items of an array without holes keeps them.                 *)
LEMMA SortedArray ==
  ASSUME NEW s, Array(s), NEW c \in Nat, Slots(s) = 1..c, Cardinality(Slots(s)) = c
  PROVE  /\ Array(Qsorted(s, c)) /\ Len(Qsorted(s, c)) = Len(s)
         /\ Slots(Qsorted(s, c)) = Slots(s) /\ Held(Qsorted(s, c)) = Held(s)
         /\ \A k \in 1..(c - 1) : Qsorted(s, c)[k] <= Qsorted(s, c)[k + 1]
<1> DEFINE R == {s[k] : k \in 1..c}
           P(f) == /\ \A x \in R : \E k \in 1..c : f[k] = x
                   /\ \A k \in 1..(c - 1) : f[k] <= f[k + 1]
           q == Sorted(s, c)
           t == Qsorted(s, c)
<1>0. /\ Len(s) \in Nat /\ \A n \in 1..Len(s) : s[n] \in Item \cup {NULL}
      /\ Slots(s) = {n \in 1..Len(s) : s[n] # NULL} /\ c <= Len(s)
      /\ R = Held(s) /\ R \subseteq Item /\ IsFiniteSet(R) /\ Cardinality(R) = c
  BY ArrayFacts DEF Held
<1>1. R \in SUBSET Nat
  BY <1>0, ItemAssumption
<1>2. q \in [1..c -> R] /\ P(q)
  <2>1. q = CHOOSE f \in [1..c -> R] : P(f)
    BY DEF Sorted
  <2> HIDE DEF R
  <2>2. \E f \in [1..c -> R] : P(f)
    BY <1>0, <1>1, OrderExists
  <2> HIDE DEF P, q
  <2> QED BY <2>1, <2>2
<1> HIDE DEF q, R
<1>3. q \in Surjection(1..c, R)
  BY <1>2 DEF Surjection
<1>4. IsFiniteSet(1..c)
  BY <1>0, FS_Interval
<1>5. Cardinality(1..c) = c
  OBVIOUS
<1>6. q \in Injection(1..c, R)
  BY <1>0, <1>3, <1>4, <1>5, FS_SurjSameCardinalityImpliesInj
<1>7. \A l, n \in 1..c : q[l] = q[n] => l = n
  BY <1>6 DEF Injection, IsInjective
<1>8. /\ t \in [1..Len(s) -> Item \cup {NULL}]
      /\ \A n \in 1..Len(s) : t[n] = IF n <= c THEN q[n] ELSE s[n]
  <2>1. \A n \in 1..Len(s) : n <= c => n \in 1..c
    BY <1>0
  <2>2. \A n \in 1..Len(s) : n <= c => q[n] \in Item
    BY <1>0, <1>2, <2>1
  <2>3. t = [n \in 1..Len(s) |-> IF n <= c THEN q[n] ELSE s[n]]
    BY DEF q, Qsorted
  <2> HIDE DEF t
  <2> QED BY <1>0, <2>2, <2>3
<1> HIDE DEF t
<1>9. t \in Seq(Item \cup {NULL}) /\ Len(t) = Len(s)
  BY <1>0, <1>8, FunctionIsArray
<1>10. Slots(t) = {n \in 1..Len(s) : t[n] # NULL}
  BY <1>9 DEF Slots, Filled
<1>11. \A n \in 1..c : n \in 1..Len(s) /\ t[n] = q[n] /\ q[n] \in R /\ q[n] # NULL
  <2>1. \A n \in 1..c : n \in 1..Len(s) /\ n <= c
    BY <1>0
  <2>2. \A n \in 1..c : q[n] \in R
    BY <1>2
  <2> QED BY <1>0, <1>8, <2>1, <2>2, ItemAssumption
<1>12. Slots(t) = 1..c
  <2>1. ASSUME NEW n \in 1..Len(s), n \notin 1..c PROVE t[n] = NULL
    <3>1. s[n] = NULL
      BY <1>0, <2>1
    <3>2. ~(n <= c)
      BY <1>0, <2>1
    <3> QED BY <1>8, <3>1, <3>2
  <2> QED BY <1>10, <1>11, <2>1
<1>13. Held(t) = R
  BY <1>2, <1>11, <1>12 DEF Held
<1>14. \A l, n \in Slots(t) : t[l] = t[n] => l = n
  BY <1>7, <1>11, <1>12
<1>15. \A k \in 1..(c - 1) : t[k] <= t[k + 1]
  <2> SUFFICES ASSUME NEW k \in 1..(c - 1) PROVE t[k] <= t[k + 1]
    OBVIOUS
  <2>1. k \in 1..c /\ k + 1 \in 1..c
    OBVIOUS
  <2> QED BY <1>2, <1>11, <2>1
<1> QED BY <1>0, <1>9, <1>12, <1>13, <1>14, <1>15 DEF Array, t

-----------------------------------------------------------------------------
(* The calls keep the invariant.                                           *)

(* The books are kept when an array with other contents goes with the      *)
(* owners of what it holds.                                                *)
LEMMA NewBooks ==
  ASSUME Array(list'), capacity' = Len(list'), capacity' <= MaxCap, count' = Cardinality(Slots(list')),
         owner' \in [Item -> {"caller", "list", "freed"}],
         Held(list') = {x \in Item : owner'[x] = "list"},
         it' \in Nat \ {0}, ~fault'
  PROVE  Owned'
BY DEF Owned, Array, Slots, Filled, Held

(* They are kept by a step that changes none of it.                        *)
LEMMA SameBooks ==
  ASSUME Owned, UNCHANGED <<list, capacity, count, owner, fault>>, it' \in Nat \ {0}
  PROVE  Owned'
BY DEF Owned, Array, Slots, Filled, Held

(* Nothing is in progress between calls.                                   *)
LEMMA IdleLoops == ASSUME pc' = "idle" PROVE Looping'
BY DEF Looping

(* What one loop looks at.                                                 *)
LEMMA SameLoops ==
  ASSUME Looping, UNCHANGED <<list, count, pc, it, end, temp, i>> PROVE Looping'
<1>1. Passed' = Passed
  BY DEF Passed
<1>2. Copying => Copying'
  BY <1>1 DEF Copying
<1>3. Sifting => Sifting'
  BY DEF Sifting
<1> QED BY <1>1, <1>2, <1>3 DEF Looping

(* The doubling of ArrayList_expand makes room and stays below max_cap.    *)
LEMMA ExpandedCapIs ==
  ASSUME capacity \in Nat, capacity <= MaxCap
  PROVE  /\ ExpandedCap \in Nat /\ ExpandedCap <= MaxCap
         /\ capacity < MaxCap => ExpandedCap > capacity
         /\ capacity = MaxCap => ExpandedCap = capacity
BY CapAssumption DEF ExpandedCap

(* ArrayList_add: the item goes behind the last one, the first hole is     *)
(* reused, or the array grows first; or the caller keeps the item.         *)
LEMMA AddKeepsAInv ==
  ASSUME AInv, NEW item \in Item, ArrayList_add(item) PROVE AInv'
<1>0. /\ Owned /\ pc = "idle" /\ pc' = "idle" /\ it' = it /\ it \in Nat \ {0} /\ owner[item] = "caller"
      /\ Array(list) /\ capacity = Len(list) /\ capacity <= MaxCap /\ count = Cardinality(Slots(list))
      /\ owner \in [Item -> {"caller", "list", "freed"}]
      /\ Held(list) = {x \in Item : owner[x] = "list"} /\ ~fault
  BY DEF AInv, Owned, ArrayList_add, loopVars
<1>1. /\ Len(list) \in Nat /\ Slots(list) = {n \in 1..Len(list) : list[n] # NULL}
      /\ count \in Nat /\ count <= Len(list) /\ item \notin Held(list)
  BY <1>0, ArrayFacts
<1>2. ASSUME NEW s, Array(s), NEW p \in 1..Len(s), s[p] = NULL, Held(s) = Held(list), Slots(s) = Slots(list),
             list' = Put(s, p, item), capacity' = Len(s), Len(s) <= MaxCap, count' = count + 1,
             owner' = [owner EXCEPT ![item] = "list"], ~fault'
      PROVE Owned'
  <2>1. /\ Array(list') /\ Len(list') = Len(s) /\ Held(list') = Held(s) \cup {item}
        /\ Cardinality(Slots(list')) = Cardinality(Slots(s)) + 1
    <3>1. Array(s) /\ p \in 1..Len(s) /\ s[p] = NULL /\ item \in Item /\ item \notin Held(s)
      BY <1>1, <1>2
    <3>2. /\ Array(Put(s, p, item)) /\ Len(Put(s, p, item)) = Len(s)
          /\ Held(Put(s, p, item)) = Held(s) \cup {item}
          /\ Cardinality(Slots(Put(s, p, item))) = Cardinality(Slots(s)) + 1
      BY <3>1, StoredIn
    <3> QED BY <1>2, <3>2
  <2>2. owner' \in [Item -> {"caller", "list", "freed"}]
    BY <1>0, <1>2
  <2>3. Held(list') = {x \in Item : owner'[x] = "list"}
    BY <1>0, <1>2, <2>1
  <2> QED BY <1>0, <1>2, <2>1, <2>2, <2>3, NewBooks
<1>3. CASE count < capacity
  <2> DEFINE free == {n \in 1..Len(list) : list[n] = NULL}
             p == FirstOf(free)
  <2>1. free # {}
    <3> SUFFICES ASSUME free = {} PROVE FALSE
      OBVIOUS
    <3>1. Slots(list) = 1..Len(list)
      BY <1>1
    <3>2. Cardinality(1..Len(list)) = Len(list)
      BY <1>1, UpTo
    <3>3. count = Cardinality(Slots(list)) /\ capacity = Len(list)
      BY <1>0
    <3>4. count = Len(list)
      BY <3>1, <3>2, <3>3
    <3>5. count = capacity /\ count \in Nat
      BY <1>1, <3>3, <3>4
    <3> HIDE DEF free
    <3> QED BY <1>3, <3>5
  <2>2. p \in free
    <3>1. free \in SUBSET Nat
      BY <1>1
    <3> HIDE DEF free
    <3> QED BY <2>1, <3>1, FirstOfIs
  <2>3. /\ list' = [list EXCEPT ![p] = item] /\ count' = count + 1 /\ capacity' = capacity
        /\ owner' = [owner EXCEPT ![item] = "list"] /\ fault' = fault
    BY <1>0, <1>1, <1>3, <2>1 DEF ArrayList_add
  <2> HIDE DEF p
  <2>4. p \in 1..Len(list) /\ list[p] = NULL /\ list' = Put(list, p, item)
    BY <2>2, <2>3 DEF Put
  <2>5. Owned'
    BY <1>0, <1>2, <2>3, <2>4
  <2> QED BY <1>0, <2>5, IdleLoops DEF AInv
<1>4. CASE count >= capacity /\ capacity = MaxCap
  <2>1. UNCHANGED <<list, capacity, count, owner, fault>>
    BY <1>0, <1>1, <1>4 DEF ArrayList_add
  <2> QED BY <1>0, <2>1, SameBooks, IdleLoops DEF AInv
<1>5. CASE count >= capacity /\ capacity # MaxCap
  <2> DEFINE c == ExpandedCap
             grown == Grown(c)
  <2>1. c \in Nat /\ c <= MaxCap /\ c > capacity /\ c # capacity /\ count = Len(list)
    BY <1>0, <1>1, <1>5, ExpandedCapIs, CapAssumption
  <2> HIDE DEF c
  <2>2. /\ Array(grown) /\ Len(grown) > Len(list) /\ Len(grown) <= c /\ Len(grown) \in Nat
        /\ Slots(grown) = Slots(list) /\ Held(grown) = Held(list)
        /\ \A n \in 1..Len(grown) : grown[n] = IF n <= Len(list) THEN list[n] ELSE NULL
    BY <1>0, <2>1, GrownArray
  <2>3. count + 1 \in 1..Len(grown) /\ grown[count + 1] = NULL /\ Len(grown) <= MaxCap
    BY <1>0, <1>1, <2>1, <2>2, CapAssumption
  <2> HIDE DEF grown
  <2>4. /\ list' = [grown EXCEPT ![count + 1] = item] /\ capacity' = Len(grown) /\ count' = count + 1
        /\ owner' = [owner EXCEPT ![item] = "list"] /\ fault' = fault
    BY <1>0, <1>1, <1>5, <2>1, <2>2, <2>3 DEF ArrayList_add, c, grown
  <2> DEFINE p == count + 1
  <2>5. p \in 1..Len(grown) /\ grown[p] = NULL /\ list' = Put(grown, p, item)
    BY <2>3, <2>4 DEF Put
  <2> HIDE DEF p
  <2>6. Owned'
    BY <1>0, <1>2, <2>2, <2>3, <2>4, <2>5
  <2> QED BY <1>0, <2>6, IdleLoops DEF AInv
<1> QED BY <1>0, <1>1, <1>3, <1>4, <1>5

(* The removals: one slot is cleared and its item freed or handed back.    *)
LEMMA RemoveKeepsAInv ==
  ASSUME AInv, NEW item \in Item, NEW to \in {"freed", "caller"}, RemoveTo(item, to) PROVE AInv'
<1> DEFINE at == {n \in Slots(list) : list[n] = item}
           p == FirstOf(at)
<1>0. /\ pc' = "idle" /\ it' = it /\ it \in Nat \ {0} /\ at # {}
      /\ Array(list) /\ capacity = Len(list) /\ capacity <= MaxCap /\ count = Cardinality(Slots(list))
      /\ owner \in [Item -> {"caller", "list", "freed"}]
      /\ Held(list) = {x \in Item : owner[x] = "list"} /\ ~fault
      /\ list' = [list EXCEPT ![p] = NULL] /\ count' = count - 1
      /\ owner' = [owner EXCEPT ![item] = to] /\ capacity' = capacity /\ fault' = fault
  BY DEF AInv, Owned, RemoveTo, loopVars
<1>1. p \in Slots(list) /\ list[p] = item
  <2>1. at \in SUBSET Nat
    BY <1>0, ArrayFacts
  <2>2. p \in at
    <3> HIDE DEF at
    <3> QED BY <1>0, <2>1, FirstOfIs
  <2> QED BY <2>2
<1> HIDE DEF p
<1>2. list' = Put(list, p, NULL)
  BY <1>0 DEF Put
<1>3. /\ Array(list') /\ Len(list') = Len(list) /\ Held(list') = Held(list) \ {item}
      /\ Cardinality(Slots(list')) = Cardinality(Slots(list)) - 1
  <2>1. /\ Array(Put(list, p, NULL)) /\ Len(Put(list, p, NULL)) = Len(list)
        /\ Held(Put(list, p, NULL)) = Held(list) \ {list[p]}
        /\ Cardinality(Slots(Put(list, p, NULL))) = Cardinality(Slots(list)) - 1
    BY <1>0, <1>1, ClearedAt
  <2> QED BY <1>1, <1>2, <2>1
<1>4. owner' \in [Item -> {"caller", "list", "freed"}] /\ Held(list') = {x \in Item : owner'[x] = "list"}
  BY <1>0, <1>3
<1>5. Owned'
  BY <1>0, <1>3, <1>4, NewBooks
<1> QED BY <1>0, <1>5, IdleLoops DEF AInv

(* An address that is allocated again was on no list.                      *)
LEMMA MallocKeepsAInv ==
  ASSUME AInv, NEW item \in Item, Malloc(item) PROVE AInv'
<1>1. owner' \in [Item -> {"caller", "list", "freed"}] /\ Held(list) = {x \in Item : owner'[x] = "list"}
  BY DEF AInv, Owned, Malloc
<1>2. Owned'
  BY <1>1, NewBooks DEF AInv, Owned, Malloc, loopVars
<1> QED BY <1>2, SameLoops DEF AInv, Malloc, loopVars

(* The list is empty when its array is handed out or dropped.              *)
LEMMA HandedOut ==
  ASSUME AInv, list' = <<>>, capacity' = 0, count' = 0, UNCHANGED <<fault, it>>,
         owner' = [x \in Item |-> IF x \in Held(list) THEN "caller" ELSE owner[x]]
  PROVE  Owned'
<1>1. /\ Array(list') /\ Len(list') = 0 /\ Held(list') = {} /\ Cardinality(Slots(list')) = 0
  BY NoArray
<1>2. owner' \in [Item -> {"caller", "list", "freed"}] /\ {x \in Item : owner'[x] = "list"} = {}
  BY DEF AInv, Owned
<1> QED BY <1>1, <1>2, NewBooks, CapAssumption DEF AInv, Owned

(* ArrayList_resize grows in one step, empties the list for 0, or enters   *)
(* the copying loop with an empty new array.                               *)
LEMMA ResizeKeepsAInv ==
  ASSUME AInv, NEW c \in Nat, c <= MaxCap, ArrayList_resize(c) PROVE AInv'
<1>0. /\ Owned /\ pc = "idle" /\ it \in Nat \ {0}
      /\ Array(list) /\ capacity = Len(list) /\ capacity <= MaxCap /\ count = Cardinality(Slots(list))
      /\ owner \in [Item -> {"caller", "list", "freed"}]
      /\ Held(list) = {x \in Item : owner[x] = "list"} /\ ~fault /\ Len(list) \in Nat
  BY ArrayFacts DEF AInv, Owned, ArrayList_resize
<1>1. CASE c > capacity
  <2>1. /\ list' = Grown(c) /\ capacity' = GrownTo(c) /\ UNCHANGED <<count, owner, fault, loopVars>>
    BY <1>0, <1>1 DEF ArrayList_resize
  <2>2. /\ Array(list') /\ Len(list') = GrownTo(c) /\ GrownTo(c) <= c /\ GrownTo(c) \in Nat
        /\ Slots(list') = Slots(list) /\ Held(list') = Held(list)
    BY <1>0, <1>1, <2>1, GrownArray
  <2>3. GrownTo(c) <= MaxCap
    BY <2>2, CapAssumption
  <2>4. Owned'
    BY <1>0, <2>1, <2>2, <2>3, NewBooks DEF loopVars
  <2> QED BY <1>0, <2>1, <2>4, IdleLoops DEF AInv, loopVars
<1>2. CASE 0 < c /\ c < capacity
  <2>1. /\ pc' = "copy" /\ it' = 1 /\ temp' = Empty(c) /\ i' = 0
        /\ UNCHANGED <<list, capacity, count, owner, fault, todo, end>>
    BY <1>0, <1>2 DEF ArrayList_resize
  <2>2. Owned'
    BY <1>0, <2>1, SameBooks
  <2>3. Passed' = {}
    BY <1>0, <2>1, ArrayFacts DEF Passed
  <2>4. /\ Array(temp') /\ Len(temp') = c /\ Slots(temp') = {} /\ Held(temp') = {}
    BY <2>1, EmptyArray
  <2>5. Copying'
    <3>1. Cardinality(Passed') = 0 /\ {list'[n] : n \in Passed'} = {}
      BY <2>3, FS_EmptySet
    <3>2. i' = 0 /\ 1..i' = {} /\ i' <= Len(temp') /\ Len(temp') <= MaxCap
      BY <2>1, <2>4
    <3>3. SameOrder(list', temp')
      BY <2>4 DEF SameOrder
    <3> QED BY <2>4, <3>1, <3>2, <3>3 DEF Copying
  <2> QED BY <2>1, <2>2, <2>5 DEF AInv, Looping
<1>3. CASE c = 0
  <2>1. /\ list' = <<>> /\ count' = 0 /\ capacity' = 0
        /\ owner' = [x \in Item |-> IF x \in Held(list) THEN "caller" ELSE owner[x]]
        /\ UNCHANGED <<fault, loopVars>>
    BY <1>0, <1>3 DEF ArrayList_resize
  <2> QED BY <1>0, <2>1, HandedOut, IdleLoops DEF AInv, loopVars
<1> QED BY <1>0, <1>1, <1>2, <1>3 DEF ArrayList_resize

(* ArrayList_extract_array hands every item to the caller.                 *)
LEMMA ExtractKeepsAInv == ASSUME AInv, ArrayList_extract_array PROVE AInv'
BY HandedOut, IdleLoops DEF AInv, ArrayList_extract_array, loopVars

(* ArrayList_clear enters its loop with no slot passed.                    *)
LEMMA ClearBeginsInAInv ==
  ASSUME AInv, NEW then, ArrayList_clear(then) PROVE AInv'
<1>1. Owned'
  BY SameBooks DEF AInv, ArrayList_clear
<1>2. Passed' = {}
  BY ArrayFacts DEF AInv, Owned, Passed, ArrayList_clear
<1> QED BY <1>1, <1>2 DEF AInv, Looping, ArrayList_clear

(* ArrayList_sift and ArrayList_sort enter their loop at the first slot,   *)
(* searching from the end of the array.                                    *)
LEMMA SiftBeginsInAInv ==
  ASSUME AInv, NEW then, ArrayList_sift(then) PROVE AInv'
<1>0. Array(list) /\ Len(list) \in Nat /\ Slots(list) \subseteq 1..Len(list) /\ count \in Nat /\ capacity = Len(list)
  BY ArrayFacts DEF AInv, Owned
<1>1. Owned'
  BY SameBooks DEF AInv, ArrayList_sift
<1>2. Sifting'
  BY <1>0 DEF Sifting, Slots, Filled, ArrayList_sift
<1> QED BY <1>1, <1>2 DEF AInv, Looping, ArrayList_sift

(* A new list is empty and owns nothing.                                   *)
LEMMA NewKeepsAInv == ASSUME AInv, newArrayList_ex PROVE AInv'
<1>1. Array(list') /\ Len(list') = StartCap /\ Held(list') = {} /\ Cardinality(Slots(list')) = 0
  BY EmptyArray, CapAssumption DEF newArrayList_ex
<1>2. Slots(list) = {} /\ Held(list) = {}
  <2>1. IsFiniteSet(Slots(list)) /\ Cardinality(Slots(list)) = 0
    BY ArrayFacts DEF AInv, Owned, Looping, newArrayList_ex
  <2>2. Slots(list) = {}
    BY <2>1, FS_EmptySet
  <2> QED BY <2>2 DEF Held
<1>3. Owned'
  BY <1>1, <1>2, NewBooks, CapAssumption DEF AInv, Owned, newArrayList_ex
<1> QED BY <1>3, IdleLoops DEF AInv, newArrayList_ex

-----------------------------------------------------------------------------
(* The loops keep the invariant.                                           *)

(* The slots behind a loop grow by the one it passes, and are all of the   *)
(* filled ones when it runs off the array.                                 *)
LEMMA Passing ==
  ASSUME Array(list), it \in Nat \ {0}
  PROVE  /\ Passed \in SUBSET Slots(list) /\ IsFiniteSet(Passed) /\ Cardinality(Passed) \in Nat
         /\ Cardinality(Passed) <= Cardinality(Slots(list)) /\ it \notin Passed
         /\ it > Len(list) => Passed = Slots(list)
         /\ Cardinality(Passed) = Cardinality(Slots(list)) => Passed = Slots(list)
         /\ Slots(list) \cap 1..it = Passed \cup (Slots(list) \cap {it})
         /\ (it + 1) - 1 = it
<1>1. Len(list) \in Nat /\ Slots(list) = {n \in 1..Len(list) : list[n] # NULL} /\ IsFiniteSet(Slots(list))
  BY ArrayFacts
<1>2. Passed \in SUBSET Slots(list) /\ it \notin Passed
  BY DEF Passed
<1>3. /\ IsFiniteSet(Passed) /\ Cardinality(Passed) <= Cardinality(Slots(list))
      /\ Cardinality(Passed) = Cardinality(Slots(list)) => Passed = Slots(list)
  BY <1>1, <1>2, FS_Subset
<1>4. Cardinality(Passed) \in Nat
  BY <1>3, FS_CardinalityType
<1>5. it > Len(list) => Passed = Slots(list)
  <2> SUFFICES ASSUME it > Len(list), NEW n \in Slots(list) PROVE n \in Passed
    BY <1>2
  <2>1. n \in 1..Len(list)
    BY <1>1
  <2>2. n \in 1..(it - 1)
    BY <1>1, <2>1
  <2> QED BY <2>2 DEF Passed
<1>6. Slots(list) \cap 1..it = Passed \cup (Slots(list) \cap {it})
  <2>1. 1..it = 1..(it - 1) \cup {it}
    OBVIOUS
  <2> QED BY <2>1 DEF Passed
<1> QED BY <1>2, <1>3, <1>4, <1>5, <1>6

(* The item at the copy's place goes behind the copied ones, which are the *)
(* passed ones.                                                            *)
LEMMA OrderAppended ==
  ASSUME Array(list), it \in Slots(list), it \in Nat, Slots(temp) \subseteq Nat, SameOrder(list, temp),
         Held(temp) = {list[n] : n \in Passed},
         NEW p \in Nat, NEW t, Slots(t) = Slots(temp) \cup {p}, t[p] = list[it],
         \A n \in Slots(temp) : t[n] = temp[n] /\ n < p
  PROVE  SameOrder(list, t)
<1>1. ASSUME NEW l \in Slots(list), NEW q \in Slots(temp), list[l] = temp[q] PROVE l < it
  <2>1. temp[q] \in Held(temp)
    BY DEF Held
  <2>2. PICK k \in Passed : list[k] = list[l]
    BY <1>1, <2>1
  <2>3. k \in Slots(list) /\ k \in 1..(it - 1)
    BY <2>2 DEF Passed
  <2>4. k = l
    BY <2>2, <2>3 DEF Array
  <2> QED BY <2>3, <2>4
<1>2. ASSUME NEW l \in Slots(list), list[l] = list[it] PROVE l = it
  BY <1>2 DEF Array
<1>3. Slots(list) \subseteq Nat
  BY ArrayFacts
<1>4. SUFFICES ASSUME NEW l \in Slots(list), NEW n \in Slots(list), NEW a \in Slots(t), NEW b \in Slots(t),
                      list[l] = t[a], list[n] = t[b]
               PROVE  l < n <=> a < b
  BY DEF SameOrder
<1>5. CASE a \in Slots(temp) /\ b \in Slots(temp)
  BY <1>4, <1>5 DEF SameOrder
<1>6. CASE a = p /\ b = p
  BY <1>2, <1>3, <1>4, <1>6
<1>7. CASE a = p /\ b \in Slots(temp)
  BY <1>1, <1>2, <1>3, <1>4, <1>7
<1>8. CASE a \in Slots(temp) /\ b = p
  BY <1>1, <1>2, <1>3, <1>4, <1>8
<1> QED BY <1>4, <1>5, <1>6, <1>7, <1>8

(* The copy meets as many items as there are before the array ends.        *)
LEMMA CopyKeepsAInv == ASSUME AInv, ResizeCopy PROVE AInv'
<1>0. /\ Owned /\ Array(list) /\ it \in Nat \ {0} /\ count = Cardinality(Slots(list)) /\ ~fault /\ Len(list) \in Nat
      /\ pc = "copy" /\ Array(temp) /\ Len(temp) <= MaxCap /\ Len(temp) \in Nat /\ i = Cardinality(Passed) /\ i <= Len(temp)
      /\ Slots(temp) = 1..i /\ Held(temp) = {list[n] : n \in Passed} /\ i \in Nat /\ count \in Nat
      /\ SameOrder(list, temp) /\ UNCHANGED <<list, capacity, count, owner>>
  BY ArrayFacts, Passing DEF AInv, Owned, Looping, Copying, ResizeCopy
<1>1. CASE i < count /\ i < Len(temp)
  <2>1. it <= Len(list)
    BY <1>0, <1>1, Passing
  <2>2. /\ it' = it + 1 /\ UNCHANGED <<pc, todo, end, fault>>
        /\ \/ list[it] # NULL /\ temp' = [temp EXCEPT ![i + 1] = list[it]] /\ i' = i + 1
           \/ list[it] = NULL /\ UNCHANGED <<temp, i>>
    BY <1>0, <1>1, <2>1 DEF ResizeCopy
  <2>3. Owned'
    BY <1>0, <2>2, SameBooks
  <2>4. Passed' = Passed \cup (Slots(list) \cap {it})
    BY <1>0, <2>2, Passing DEF Passed
  <2>5. it \in Slots(list) <=> list[it] # NULL
    BY <1>0, <2>1, ArrayFacts
  <2>6. CASE list[it] # NULL
    <3> DEFINE p == i + 1
               x == list[it]
    <3>1. p \in 1..Len(temp) /\ p \notin Slots(temp) /\ p \in Nat
      BY <1>0, <1>1
    <3>2. temp[p] = NULL
      BY <1>0, <3>1, ArrayFacts
    <3>3. x \in Item /\ x \notin Held(temp)
      <4>1. it \in Slots(list) /\ it \notin Passed /\ Passed \subseteq Slots(list)
        BY <1>0, <2>5, <2>6, Passing
      <4>2. \A n \in Passed : list[n] # list[it]
        BY <1>0, <4>1 DEF Array
      <4>3. list[it] \in Held(list) /\ Held(list) \subseteq Item
        BY <1>0, <4>1, ArrayFacts DEF Held
      <4> QED BY <1>0, <4>2, <4>3
    <3>4. temp' = Put(temp, p, x) /\ i' = p /\ Passed' = Passed \cup {it}
      BY <2>2, <2>4, <2>5, <2>6 DEF Put
    <3> HIDE DEF x
    <3>5. /\ Array(Put(temp, p, x)) /\ Len(Put(temp, p, x)) = Len(temp)
          /\ Slots(Put(temp, p, x)) = Slots(temp) \cup {p} /\ Held(Put(temp, p, x)) = Held(temp) \cup {x}
      <4> HIDE DEF p
      <4> QED BY <1>0, <3>1, <3>2, <3>3, StoredIn
    <3>6. Cardinality(Passed') = i'
      <4>1. IsFiniteSet(Passed) /\ it \notin Passed
        BY <1>0, Passing
      <4>2. Cardinality(Passed \cup {it}) = Cardinality(Passed) + 1
        BY <4>1, FS_AddElement
      <4> QED BY <1>0, <3>4, <4>2
    <3>7. Slots(temp') = 1..i'
      <4>1. 1..p = 1..i \cup {p}
        BY <1>0
      <4> QED BY <1>0, <3>4, <3>5, <4>1
    <3>8. Held(temp') = {list'[n] : n \in Passed'}
      <4>1. {list[n] : n \in Passed \cup {it}} = {list[n] : n \in Passed} \cup {list[it]}
        OBVIOUS
      <4> QED BY <1>0, <3>4, <3>5, <4>1 DEF x
    <3>9. Array(temp') /\ Len(temp') <= MaxCap /\ i' <= Len(temp')
      BY <1>0, <1>1, <3>1, <3>4, <3>5
    <3>10. SameOrder(list', temp')
      <4>1. it \in Slots(list) /\ list' = list
        BY <1>0, <2>2, <2>5, <2>6
      <4>2. Slots(temp') = Slots(temp) \cup {p} /\ temp'[p] = list[it]
        BY <1>0, <3>1, <3>3, <3>4, <3>5, PutIs DEF x
      <4>3. \A n \in Slots(temp) : temp'[n] = temp[n] /\ n < p
        <5>1. Slots(temp) = 1..i /\ i \in Nat /\ i < p
          BY <1>0, <3>1
        <5>2. \A n \in 1..Len(temp) : n # p => Put(temp, p, x)[n] = temp[n]
          <6> HIDE DEF p
          <6> QED BY <1>0, <3>1, <3>3, PutIs
        <5>3. Slots(temp) \subseteq 1..Len(temp)
          BY DEF Slots, Filled
        <5> HIDE DEF p
        <5>4. \A n \in Slots(temp) : n < p /\ n # p
          BY <5>1, <3>1
        <5> QED BY <3>4, <5>2, <5>3, <5>4
      <4> HIDE DEF p
      <4> QED BY <1>0, <3>1, <4>1, <4>2, <4>3, OrderAppended
    <3>11. Copying'
      BY <3>6, <3>7, <3>8, <3>9, <3>10 DEF Copying
    <3> QED BY <1>0, <2>2, <2>3, <3>11 DEF AInv, Looping
  <2>7. CASE list[it] = NULL
    <3>1. Passed' = Passed /\ UNCHANGED <<temp, i, list>>
      BY <1>0, <2>2, <2>4, <2>5, <2>7
    <3>2. Copying'
      BY <1>0, <3>1 DEF Copying
    <3> QED BY <1>0, <2>2, <2>3, <3>2 DEF AInv, Looping
  <2> QED BY <2>6, <2>7
<1>2. CASE ~(i < count /\ i < Len(temp))
  <2>1. pc' = "cut" /\ UNCHANGED <<todo, it, end, i, temp, fault>>
    BY <1>2 DEF ResizeCopy
  <2>2. Owned'
    BY <1>0, <2>1, SameBooks
  <2>3. Passed' = Passed
    BY <1>0, <2>1 DEF Passed
  <2>4. Copying'
    BY <1>0, <2>1, <2>3 DEF Copying
  <2>5. i' >= count' \/ i' = Len(temp')
    BY <1>0, <1>2, <2>1
  <2> QED BY <2>1, <2>2, <2>4, <2>5 DEF AInv, Looping
<1> QED BY <1>1, <1>2

(* Clearing slots of an array leaves the order of what is left.            *)
LEMMA OrderCut ==
  ASSUME NEW s, NEW u, NEW t, SameOrder(s, t), Slots(u) \subseteq Slots(s), \A n \in Slots(u) : u[n] = s[n]
  PROVE  SameOrder(u, t)
BY DEF SameOrder

(* The item at a loop's place is freed and its slot cleared.               *)
LEMMA FreedAt ==
  ASSUME AInv, it \in Slots(list), it' = it + 1, list' = Put(list, it, NULL), count' = count - 1,
         owner' = [owner EXCEPT ![list[it]] = "freed"], UNCHANGED <<capacity, fault>>
  PROVE  /\ Owned' /\ Passed' = Passed /\ \A n \in Passed : list'[n] = list[n]
         /\ Slots(list') \subseteq Slots(list) /\ \A n \in Slots(list') : list'[n] = list[n]
<1>0. /\ Array(list) /\ capacity = Len(list) /\ capacity <= MaxCap /\ count = Cardinality(Slots(list))
      /\ owner \in [Item -> {"caller", "list", "freed"}] /\ it \in Nat \ {0}
      /\ Held(list) = {x \in Item : owner[x] = "list"} /\ ~fault
  BY DEF AInv, Owned
<1>2. /\ Array(list') /\ Len(list') = Len(list) /\ Slots(list') = Slots(list) \ {it}
      /\ Held(list') = Held(list) \ {list[it]} /\ \A n \in Slots(list) \ {it} : list'[n] = list[n]
      /\ Cardinality(Slots(list')) = Cardinality(Slots(list)) - 1
  <2>1. /\ Array(Put(list, it, NULL)) /\ Len(Put(list, it, NULL)) = Len(list)
        /\ Slots(Put(list, it, NULL)) = Slots(list) \ {it} /\ Held(Put(list, it, NULL)) = Held(list) \ {list[it]}
        /\ \A n \in Slots(list) \ {it} : Put(list, it, NULL)[n] = list[n]
        /\ Cardinality(Slots(Put(list, it, NULL))) = Cardinality(Slots(list)) - 1
    BY <1>0, ClearedAt
  <2> QED BY <2>1
<1>3. list[it] \in Item
  BY <1>0, ArrayFacts DEF Held
<1>4. owner' \in [Item -> {"caller", "list", "freed"}] /\ Held(list') = {x \in Item : owner'[x] = "list"}
  <2> DEFINE y == list[it]
  <2>1. owner' = [owner EXCEPT ![y] = "freed"] /\ y \in Item /\ Held(list') = Held(list) \ {y}
    BY <1>2, <1>3
  <2> HIDE DEF y
  <2>2. owner' \in [Item -> {"caller", "list", "freed"}]
    BY <1>0, <2>1
  <2>3. \A z \in Item : owner'[z] = "list" <=> z # y /\ owner[z] = "list"
    BY <1>0, <2>1
  <2>4. Held(list) \ {y} = {x \in Item : owner'[x] = "list"}
    BY <1>0, <2>3
  <2> QED BY <2>1, <2>2, <2>4
<1>5. Owned'
  BY <1>0, <1>2, <1>4, NewBooks
<1>6. Passed' = Passed /\ Passed \subseteq Slots(list) \ {it}
  <2>1. /\ Slots(list) \cap 1..it = Passed \cup (Slots(list) \cap {it}) /\ it \notin Passed
        /\ (it + 1) - 1 = it /\ Passed \subseteq Slots(list)
    BY <1>0, Passing
  <2>2. Passed' = (Slots(list) \ {it}) \cap 1..it
    BY <1>2, <2>1 DEF Passed
  <2> QED BY <2>1, <2>2
<1> QED BY <1>2, <1>5, <1>6

(* A loop passes a hole.                                                   *)
LEMMA HoleAt ==
  ASSUME AInv, it \notin Slots(list), it' = it + 1, UNCHANGED <<list, count, owner, capacity, fault>>
  PROVE  Owned' /\ Passed' = Passed
<1>0. Array(list) /\ it \in Nat \ {0}
  BY DEF AInv, Owned
<1>1. Owned'
  BY <1>0, SameBooks DEF AInv
<1>2. Slots(list) \cap 1..it = Passed \cup (Slots(list) \cap {it}) /\ (it + 1) - 1 = it
  BY <1>0, Passing
<1>3. Passed' = Slots(list) \cap 1..it
  BY <1>2 DEF Passed
<1> QED BY <1>1, <1>2, <1>3

(* A truncating resize frees what it did not copy, and that only.          *)
LEMMA CutKeepsAInv == ASSUME AInv, ResizeCut PROVE AInv' /\ CutLeaves
<1>0. /\ Owned /\ Array(list) /\ it \in Nat \ {0} /\ count = Cardinality(Slots(list)) /\ ~fault /\ Len(list) \in Nat
      /\ pc = "cut" /\ Array(temp) /\ Len(temp) <= MaxCap /\ Len(temp) \in Nat /\ i = Cardinality(Passed) /\ i <= Len(temp)
      /\ Slots(temp) = 1..i /\ Held(temp) = {list[n] : n \in Passed} /\ i \in Nat /\ count \in Nat
      /\ SameOrder(list, temp)
      /\ i >= count \/ i = Len(temp)
  BY ArrayFacts, Passing DEF AInv, Owned, Looping, Copying, ResizeCut
<1>1. CASE count > Len(temp)
  <2>1. it <= Len(list)
    BY <1>0, <1>1, Passing
  <2>2. it \in Slots(list) <=> list[it] # NULL
    BY <1>0, <2>1, ArrayFacts
  <2>3. it' = it + 1 /\ UNCHANGED <<pc, todo, end, temp, i, fault, capacity>>
    BY <1>0, <1>1, <2>1 DEF ResizeCut
  <2>4. /\ Owned' /\ Passed' = Passed /\ \A n \in Passed : list'[n] = list[n]
        /\ Slots(list') \subseteq Slots(list) /\ \A n \in Slots(list') : list'[n] = list[n]
    <3>1. CASE list[it] # NULL
      <4>1. list' = Put(list, it, NULL) /\ count' = count - 1 /\ owner' = [owner EXCEPT ![list[it]] = "freed"]
        BY <1>0, <1>1, <2>1, <3>1 DEF ResizeCut, Put
      <4> QED BY <2>2, <2>3, <3>1, <4>1, FreedAt
    <3>2. CASE list[it] = NULL
      <4>1. UNCHANGED <<list, count, owner>>
        BY <1>0, <1>1, <2>1, <3>2 DEF ResizeCut
      <4>2. it \notin Slots(list)
        BY <2>2, <3>2
      <4>3. Owned' /\ Passed' = Passed
        BY <2>3, <4>1, <4>2, HoleAt
      <4> QED BY <4>1, <4>3
    <3> QED BY <3>1, <3>2
  <2>5. {list'[n] : n \in Passed'} = {list[n] : n \in Passed}
    BY <2>4
  <2>6. Copying'
    <3>1. SameOrder(list', temp)
      BY <1>0, <2>4, OrderCut
    <3> QED BY <1>0, <2>3, <2>4, <2>5, <3>1 DEF Copying
  <2>7. i = Len(temp)
    BY <1>0, <1>1
  <2>8. ASSUME NEW n \in Slots(list), list[n] \in Held(temp) PROVE n < it
    <3>1. PICK k \in Passed : list[k] = list[n]
      BY <1>0, <2>8
    <3>2. k \in Slots(list) /\ k \in 1..(it - 1)
      BY <3>1 DEF Passed
    <3>3. k = n
      BY <1>0, <3>1, <3>2 DEF Array
    <3> QED BY <1>0, <3>2, <3>3
  <2> QED BY <1>0, <2>3, <2>4, <2>6, <2>7, <2>8 DEF AInv, Looping, CutLeaves
<1>2. CASE ~(count > Len(temp))
  <2>1. list' = temp /\ capacity' = Len(temp) /\ pc' = "idle" /\ it' = 1 /\ UNCHANGED <<count, owner, fault>>
    BY <1>2 DEF ResizeCut, Return
  <2>2. i = count
    <3>1. i <= count
      BY <1>0, Passing
    <3> QED BY <1>0, <1>2, <3>1
  <2>3. Passed = Slots(list)
    BY <1>0, <2>2, Passing
  <2>4. Held(list') = Held(list)
    BY <1>0, <2>1, <2>3 DEF Held
  <2>5. Cardinality(Slots(list')) = count
    BY <1>0, <2>1, <2>2, UpTo
  <2>6. Owned'
    BY <1>0, <2>1, <2>4, <2>5, NewBooks DEF Owned
  <2> QED BY <1>0, <2>1, <2>4, <2>6, IdleLoops DEF AInv, CutLeaves
<1> QED BY <1>1, <1>2

(* The clearing loop meets every item before the array ends.               *)
LEMMA ClearKeepsAInv == ASSUME AInv, ClearStep PROVE AInv'
<1>0. /\ Owned /\ Array(list) /\ it \in Nat \ {0} /\ count = Cardinality(Slots(list)) /\ ~fault /\ Len(list) \in Nat
      /\ pc = "clear" /\ Passed = {} /\ count \in Nat /\ IsFiniteSet(Slots(list))
  BY ArrayFacts, Passing DEF AInv, Owned, Looping, ClearStep
<1>1. CASE count > 0
  <2>1. it <= Len(list)
    <3> SUFFICES ASSUME it > Len(list) PROVE FALSE
      BY <1>0
    <3>1. Slots(list) = {}
      BY <1>0, Passing
    <3> QED BY <1>0, <1>1, <3>1, FS_EmptySet
  <2>2. it \in Slots(list) <=> list[it] # NULL
    BY <1>0, <2>1, ArrayFacts
  <2>3. it' = it + 1 /\ UNCHANGED <<pc, todo, end, temp, i, fault, capacity>>
    BY <1>0, <1>1, <2>1 DEF ClearStep
  <2>4. Owned' /\ Passed' = Passed
    <3>1. CASE list[it] # NULL
      <4>1. list' = Put(list, it, NULL) /\ count' = count - 1 /\ owner' = [owner EXCEPT ![list[it]] = "freed"]
        BY <1>0, <1>1, <2>1, <3>1 DEF ClearStep, Put
      <4> QED BY <2>2, <2>3, <3>1, <4>1, FreedAt
    <3>2. CASE list[it] = NULL
      <4>1. UNCHANGED <<list, count, owner>>
        BY <1>0, <1>1, <2>1, <3>2 DEF ClearStep
      <4> QED BY <2>2, <2>3, <3>2, <4>1, HoleAt
    <3> QED BY <3>1, <3>2
  <2> QED BY <1>0, <2>3, <2>4 DEF AInv, Looping
<1>2. CASE count = 0
  <2>1. Slots(list) = {} /\ Held(list) = {}
    <3>1. Slots(list) = {}
      BY <1>0, <1>2, FS_EmptySet
    <3> QED BY <3>1 DEF Held
  <2>2. CASE todo = "delete"
    <3>1. pc' = "deleted" /\ list' = <<>> /\ capacity' = 0 /\ it' = 1 /\ UNCHANGED <<count, owner, fault>>
      BY <1>2, <2>2 DEF ClearStep
    <3>2. Array(list') /\ Len(list') = 0 /\ Held(list') = {} /\ Cardinality(Slots(list')) = 0
      BY <3>1, NoArray
    <3>3. Owned'
      BY <1>0, <1>2, <2>1, <3>1, <3>2, NewBooks, CapAssumption DEF Owned
    <3> QED BY <1>2, <3>1, <3>3 DEF AInv, Looping
  <2>3. CASE todo # "delete"
    <3>1. pc' = "idle" /\ it' = 1 /\ UNCHANGED <<list, capacity, count, owner, fault>>
      BY <1>2, <2>3 DEF ClearStep, Return
    <3> QED BY <1>0, <3>1, SameBooks, IdleLoops DEF AInv
  <2> QED BY <2>2, <2>3
<1> QED BY <1>0, <1>1, <1>2

(* A hole is filled with an item from beyond it: there is one, for there   *)
(* are 'count' items and fewer of them behind the sift.                    *)
LEMMA SiftKeepsAInv == ASSUME AInv, SiftStep PROVE AInv' /\ SiftLeaves
<1>0. /\ Owned /\ Array(list) /\ it \in Nat \ {0} /\ count = Cardinality(Slots(list)) /\ ~fault /\ Len(list) \in Nat
      /\ pc = "sift" /\ count \in Nat /\ IsFiniteSet(Slots(list)) /\ count <= Len(list)
      /\ Slots(list) = {n \in 1..Len(list) : list[n] # NULL}
      /\ 1..(it - 1) \subseteq Slots(list) /\ it <= count + 1
      /\ end \in Nat /\ end <= Len(list) /\ \A n \in Slots(list) : n <= end
      /\ UNCHANGED <<capacity, owner, fault>>
  BY ArrayFacts DEF AInv, Owned, Looping, Sifting, SiftStep
<1>9. /\ capacity = Len(list) /\ capacity <= MaxCap /\ owner \in [Item -> {"caller", "list", "freed"}]
       /\ Held(list) = {x \in Item : owner[x] = "list"} /\ it + 1 \in Nat \ {0}
  BY DEF AInv, Owned
<1>1. CASE it > count
  <2>1. /\ list' = (IF todo = "sort" THEN Qsorted(list, count) ELSE list)
        /\ pc' = "idle" /\ it' = 1 /\ count' = count
    BY <1>1 DEF SiftStep, Return, Qsorted
  <2>2. Slots(list) = 1..count
    <3>1. 1..count \in SUBSET Slots(list)
      <4>1. it - 1 = count
        BY <1>0, <1>1
      <4> QED BY <1>0, <4>1
    <3>2. Cardinality(1..count) = count
      BY <1>0, UpTo
    <3>3. Cardinality(Slots(list)) = Cardinality(1..count)
      BY <1>0, <3>2
    <3> QED BY <1>0, <3>1, <3>3, FS_Subset
  <2>3. /\ Array(list') /\ Len(list') = Len(list) /\ Slots(list') = Slots(list) /\ Held(list') = Held(list)
    <3>1. CASE todo = "sort"
      <4>1. /\ Array(Qsorted(list, count)) /\ Len(Qsorted(list, count)) = Len(list)
            /\ Slots(Qsorted(list, count)) = Slots(list) /\ Held(Qsorted(list, count)) = Held(list)
        BY <1>0, <2>2, SortedArray
      <4> QED BY <2>1, <3>1, <4>1
    <3>2. CASE todo # "sort"
      BY <1>0, <2>1, <3>2
    <3> QED BY <3>1, <3>2
  <2>4. Owned'
    <3>0. it' = 1 /\ count' = count
      BY <2>1
    <3>5. Cardinality(Slots(list')) = Cardinality(Slots(list))
      BY <2>3
    <3>1. capacity' = Len(list') /\ capacity' <= MaxCap
      BY <1>0, <1>9, <2>3
    <3>3. count' = Cardinality(Slots(list'))
      BY <1>0, <3>0, <3>5
    <3>4. owner' \in [Item -> {"caller", "list", "freed"}] /\ it' \in Nat \ {0} /\ ~fault'
      BY <1>0, <1>9, <3>0
    <3>2. Held(list') = {x \in Item : owner'[x] = "list"}
      BY <1>0, <1>9, <2>3
    <3> QED BY <2>3, <3>1, <3>2, <3>3, <3>4, NewBooks
  <2>5. ASSUME todo = "sort", NEW n \in 1..(count - 1) PROVE list'[n] < list'[n + 1]
    <3>1. list' = Qsorted(list, count)
      BY <2>1, <2>5
    <3>2. Qsorted(list, count)[n] <= Qsorted(list, count)[n + 1]
      BY <1>0, <2>2, SortedArray
    <3>3. n \in Slots(list') /\ n + 1 \in Slots(list') /\ n # n + 1
      <4>1. n \in 1..count /\ n + 1 \in 1..count /\ n # n + 1
        BY <1>0
      <4>2. Slots(list') = 1..count
        BY <2>2, <2>3
      <4> QED BY <4>1, <4>2
    <3>4. list'[n] # list'[n + 1]
      BY <2>3, <3>3 DEF Array
    <3>5. list'[n] \in Item /\ list'[n + 1] \in Item
      BY <1>0, <1>9, <2>3, <3>3, ArrayFacts DEF Held
    <3>6. list'[n] \in Nat /\ list'[n + 1] \in Nat /\ list'[n] <= list'[n + 1]
      BY <3>1, <3>2, <3>5, ItemAssumption
    <3> QED BY <3>4, <3>6
  <2>6. AInv'
    BY <2>1, <2>4, IdleLoops DEF AInv
  <2>7. SiftLeaves
    <3>1. pc' = "idle" /\ count' = count /\ Slots(list') = 1..count' /\ Held(list') = Held(list)
      BY <2>1, <2>2, <2>3
    <3> QED BY <2>5, <3>1 DEF SiftLeaves
  <2> QED BY <2>6, <2>7
<1>2. CASE it <= count /\ list[it] # NULL
  <2>1. it' = it + 1 /\ UNCHANGED <<list, count, pc, todo, end, temp, i>>
    BY <1>0, <1>2 DEF SiftStep
  <2>2. Owned'
    <3>1. it' \in Nat \ {0}
      BY <1>9, <2>1
    <3> QED BY <1>0, <2>1, <3>1, SameBooks
  <2>3. 1..it \subseteq Slots(list)
    <3>1. it \in Slots(list)
      BY <1>0, <1>2
    <3>2. 1..it = 1..(it - 1) \cup {it}
      BY <1>0
    <3> QED BY <1>0, <3>1, <3>2
  <2>4. Sifting'
    <3>1. (it + 1) - 1 = it /\ it + 1 <= count + 1
      BY <1>0, <1>2
    <3> QED BY <1>0, <2>1, <2>3, <3>1 DEF Sifting
  <2> QED BY <1>0, <2>1, <2>2, <2>4 DEF AInv, Looping, SiftLeaves
<1>3. CASE it <= count /\ list[it] = NULL
  <2> DEFINE M == {n \in it..end : n = it \/ list[n] # NULL}
             e == LastOf(M)
  <2>0. it \in 1..Len(list) /\ it \notin Slots(list)
    BY <1>0, <1>3
  <2>1. PICK l \in Slots(list) : l > it
    <3> SUFFICES ASSUME \A n \in Slots(list) : ~(n > it) PROVE FALSE
      OBVIOUS
    <3>1. Slots(list) \in SUBSET (1..(it - 1))
      <4> SUFFICES ASSUME NEW n \in Slots(list) PROVE n \in 1..(it - 1)
        OBVIOUS
      <4>1. n # it /\ ~(n > it) /\ n \in 1..Len(list)
        BY <1>0, <2>0
      <4> QED BY <1>0, <4>1
    <3>2. it - 1 \in Nat
      BY <1>0
    <3>3. IsFiniteSet(1..(it - 1)) /\ Cardinality(1..(it - 1)) = it - 1
      BY <3>2, UpTo
    <3>4. Cardinality(Slots(list)) <= it - 1
      BY <3>1, <3>3, FS_Subset
    <3>5. count <= it - 1
      BY <1>0, <3>4
    <3> QED BY <1>0, <1>3, <3>5
  <2>2. M \in SUBSET (0..end) /\ l \in M
    <3>1. l \in it..end /\ list[l] # NULL
      BY <1>0, <2>1
    <3>2. it..end \subseteq 0..end
      BY <1>0
    <3> QED BY <3>1, <3>2
  <2>3. e \in M /\ \A n \in M : e >= n
    <3> HIDE DEF M
    <3> QED BY <1>0, <2>2, LastOfIs
  <2> HIDE DEF e
  <2>4. e \in it..end /\ e > it
    BY <1>0, <2>1, <2>2, <2>3
  <2>5. e \in Slots(list) /\ e # it
    BY <1>0, <2>3, <2>4
  <2>6. /\ list' = [list EXCEPT ![it] = list[e], ![e] = NULL]
        /\ it' = it + 1 /\ end' = e /\ UNCHANGED <<count, pc, todo, temp, i>>
    BY <1>0, <1>3, <2>5 DEF SiftStep, e
  <2>7. /\ Array(list') /\ Len(list') = Len(list) /\ Held(list') = Held(list)
        /\ Slots(list') = (Slots(list) \ {e}) \cup {it} /\ Cardinality(Slots(list')) = Cardinality(Slots(list))
    <3>1. list' = Move(list, it, e)
      BY <2>6 DEF Move
    <3>2. /\ Array(Move(list, it, e)) /\ Len(Move(list, it, e)) = Len(list)
          /\ Slots(Move(list, it, e)) = (Slots(list) \ {e}) \cup {it}
          /\ Held(Move(list, it, e)) = Held(list)
          /\ Cardinality(Slots(Move(list, it, e))) = Cardinality(Slots(list))
      BY <1>0, <1>3, <2>0, <2>5, MovedTo
    <3> QED BY <3>1, <3>2
  <2>8. Owned'
    BY <1>0, <1>9, <2>6, <2>7, NewBooks
  <2>9. 1..it \subseteq Slots(list')
    <3>1. 1..it = 1..(it - 1) \cup {it} /\ e \notin 1..(it - 1)
      BY <1>0, <2>4
    <3> QED BY <1>0, <2>7, <3>1
  <2>10. ASSUME NEW n \in Slots(list') PROVE n <= e
    <3>1. n \in Slots(list) \/ n = it
      BY <2>7
    <3>2. CASE n \in Slots(list) /\ n >= it
      <4>1. n \in M
        BY <1>0, <3>2
      <4> QED BY <1>0, <2>3, <2>4, <4>1
    <3>3. CASE n = it \/ n < it
      BY <1>0, <2>4, <2>7, <3>1, <3>3
    <3> QED BY <1>0, <3>1, <3>2, <3>3
  <2>11. Sifting'
    <3>1. (it + 1) - 1 = it /\ it + 1 <= count + 1 /\ e \in Nat /\ e <= Len(list)
      BY <1>0, <1>3, <2>4
    <3> QED BY <2>6, <2>7, <2>9, <2>10, <3>1 DEF Sifting
  <2> QED BY <1>0, <2>6, <2>8, <2>11 DEF AInv, Looping, SiftLeaves
<1> QED BY <1>0, <1>1, <1>2, <1>3

-----------------------------------------------------------------------------
(* The theorems.                                                           *)

(* A new list is in order.                                                 *)
LEMMA InitAInv == Init => AInv
<1> SUFFICES ASSUME Init PROVE AInv
  OBVIOUS
<1>1. Array(list) /\ Len(list) = StartCap /\ Held(list) = {} /\ Cardinality(Slots(list)) = 0
  BY EmptyArray, CapAssumption DEF Init
<1>2. owner \in [Item -> {"caller", "list", "freed"}] /\ {x \in Item : owner[x] = "list"} = {}
  BY DEF Init
<1>3. Owned
  BY <1>1, <1>2, CapAssumption DEF Init, Owned
<1> QED BY <1>3 DEF AInv, Looping, Init

(* Every call and every iteration of a loop keeps the invariant.           *)
LEMMA NextAInv == ASSUME AInv, [Next]_vars PROVE AInv'
<1>1. ASSUME NEW x \in Item,
             \/ ArrayList_add(x) \/ ArrayList_remove(x) \/ ArrayList_remove_no_free(x) \/ Malloc(x)
      PROVE AInv'
  BY <1>1, AddKeepsAInv, RemoveKeepsAInv, MallocKeepsAInv DEF ArrayList_remove, ArrayList_remove_no_free
<1>2. CASE ArrayList_shrink
  <2>1. count \in Nat /\ count <= MaxCap
    BY ArrayFacts, CapAssumption DEF AInv, Owned
  <2> QED BY <1>2, <2>1, ResizeKeepsAInv DEF ArrayList_shrink
<1>3. CASE ArrayList_expand
  <2>1. capacity \in Nat /\ capacity <= MaxCap
    BY ArrayFacts DEF AInv, Owned
  <2>2. ExpandedCap \in Nat /\ ExpandedCap <= MaxCap
    BY <2>1, ExpandedCapIs
  <2> QED BY <1>3, <2>2, ResizeKeepsAInv DEF ArrayList_expand
<1>4. CASE ArrayList_extract_array
  BY <1>4, ExtractKeepsAInv
<1>5. CASE ArrayList_clear("none") \/ delArrayList
  BY <1>5, ClearBeginsInAInv DEF delArrayList
<1>6. CASE newArrayList_ex
  BY <1>6, NewKeepsAInv
<1>7. CASE ArrayList_sift("none") \/ ArrayList_sift("sort")
  BY <1>7, SiftBeginsInAInv
<1>8. CASE LoopStep
  BY <1>8, CopyKeepsAInv, CutKeepsAInv, ClearKeepsAInv, SiftKeepsAInv DEF LoopStep
<1>9. ASSUME NEW n \in 0..TopCap, n <= MaxCap, ArrayList_resize(n) PROVE AInv'
  BY <1>9, ResizeKeepsAInv, CapAssumption
<1>10. CASE UNCHANGED vars
  BY <1>10, SameBooks, SameLoops DEF AInv, Owned, vars
<1> QED BY <1>1, <1>2, <1>3, <1>4, <1>5, <1>6, <1>7, <1>8, <1>9, <1>10 DEF Next, Common

(* The invariant of the list, through every call and loop.                 *)
THEOREM ListInvariant == SafetySpec => []AInv
BY InitAInv, NextAInv, PTL DEF SafetySpec

(* A truncating resize frees only what comes after what it keeps, and a    *)
(* sift or sort leaves exactly the items there were, without a hole before *)
(* them: its return for a corrupted list is never taken.                   *)
THEOREM LoopsLoseNothing == SafetySpec => LoopsKeepItems
<1>1. ASSUME AInv, [Next]_vars PROVE [CutLeaves /\ SiftLeaves]_vars
  <2>1. CASE ResizeCut
    <3>1. CutLeaves
      BY <1>1, <2>1, CutKeepsAInv
    <3>2. SiftLeaves
      BY <2>1 DEF SiftLeaves, ResizeCut
    <3> QED BY <3>1, <3>2
  <2>2. CASE SiftStep
    <3>1. SiftLeaves
      BY <1>1, <2>2, SiftKeepsAInv
    <3>2. CutLeaves
      BY <2>2 DEF CutLeaves, SiftStep
    <3> QED BY <3>1, <3>2
  <2>3. CASE ClearStep \/ ResizeCopy \/ newArrayList_ex
    BY <2>3 DEF CutLeaves, SiftLeaves, ClearStep, ResizeCopy, newArrayList_ex
  <2>4. CASE \E x \in Item : Malloc(x)
    <3>1. pc' = pc /\ list' = list
      BY <2>4 DEF Malloc, loopVars
    <3>2. pc = "cut" => \A n \in Slots(list) : list[n] \in Held(temp) => n < it
      <4> SUFFICES ASSUME pc = "cut", NEW n \in Slots(list), list[n] \in Held(temp) PROVE n < it
        OBVIOUS
      <4>0. Array(list) /\ Held(temp) = {list[k] : k \in Passed} /\ it \in Nat
        BY <1>1 DEF AInv, Owned, Looping, Copying
      <4>1. PICK k \in Passed : list[k] = list[n]
        BY <4>0
      <4>2. k \in Slots(list) /\ k \in 1..(it - 1)
        BY <4>1 DEF Passed
      <4>3. k = n
        BY <4>0, <4>1, <4>2 DEF Array
      <4> QED BY <4>0, <4>2, <4>3
    <3> QED BY <3>1, <3>2 DEF CutLeaves, SiftLeaves
  <2>5. CASE pc = "idle"
    BY <2>5 DEF CutLeaves, SiftLeaves
  <2>6. CASE UNCHANGED vars
    BY <2>6
  <2>7. \/ pc = "idle" \/ ResizeCut \/ SiftStep \/ ClearStep \/ ResizeCopy \/ newArrayList_ex
        \/ \E x \in Item : Malloc(x)
        \/ UNCHANGED vars
    BY <1>1 DEF Next, Common, LoopStep, ArrayList_add, ArrayList_remove, ArrayList_remove_no_free, RemoveTo,
                ArrayList_shrink, ArrayList_expand, ArrayList_resize, ArrayList_extract_array, ArrayList_clear,
                delArrayList, ArrayList_sift
  <2> QED BY <2>1, <2>2, <2>3, <2>4, <2>5, <2>6, <2>7
<1> QED BY <1>1, ListInvariant, PTL DEF SafetySpec, LoopsKeepItems

(* No loop of ArrayList_resize or ArrayList_clear, none of which checks a  *)
(* bound, walks off the array, and ArrayList_add does not write behind it. *)
THEOREM StaysInArray == SafetySpec => []NoOverrun
<1>1. AInv => NoOverrun
  BY DEF AInv, Owned, NoOverrun
<1> QED BY <1>1, ListInvariant, PTL

(* The list owns what it holds, once, and 'count' is its number: through   *)
(* every resize, truncation, sift and sort no item is lost, kept after it  *)
(* was freed, or freed twice.                                              *)
THEOREM OwnershipExact == SafetySpec => []OwnsWhatItHolds
<1>1. AInv => OwnsWhatItHolds
  <2> SUFFICES ASSUME AInv PROVE OwnsWhatItHolds
    OBVIOUS
  <2>1. Cardinality(Held(list)) = Cardinality(Slots(list))
    BY ArrayFacts DEF AInv, Owned
  <2> QED BY <2>1 DEF AInv, Owned, OwnsWhatItHolds
<1> QED BY <1>1, ListInvariant, PTL

-----------------------------------------------------------------------------
(* Look-ups.                                                               *)

(* The virtual index of a slot: the number of items before it.             *)
Rank(n) == Cardinality(Slots(list) \cap 1..(n - 1))

(* Virtual indices are below 'count' and ascend with the slots.            *)
LEMMA RanksAscend ==
  ASSUME Array(list), NEW n \in Slots(list)
  PROVE  /\ Rank(n) \in Nat /\ Rank(n) < Cardinality(Slots(list))
         /\ \A l \in Slots(list) : l < n => Rank(l) < Rank(n)
         /\ (\A l \in Slots(list) : n <= l) => Rank(n) = 0
<1> DEFINE B(k) == Slots(list) \cap 1..(k - 1)
<1>0. /\ Len(list) \in Nat /\ Slots(list) = {k \in 1..Len(list) : list[k] # NULL} /\ IsFiniteSet(Slots(list))
      /\ Cardinality(Slots(list)) \in Nat
  BY ArrayFacts
<1>1. ASSUME NEW k PROVE B(k) \in SUBSET Slots(list) /\ IsFiniteSet(B(k)) /\ Cardinality(B(k)) \in Nat
  <2>1. B(k) \in SUBSET Slots(list)
    OBVIOUS
  <2>2. IsFiniteSet(B(k))
    BY <1>0, <2>1, FS_Subset
  <2> QED BY <2>1, <2>2, FS_CardinalityType
<1>2. ASSUME NEW k \in Slots(list), NEW T, IsFiniteSet(T), B(k) \subseteq T, k \in T
      PROVE Cardinality(B(k)) < Cardinality(T)
  <2>1. k \notin B(k)
    BY <1>0
  <2>2. Cardinality(B(k) \cup {k}) = Cardinality(B(k)) + 1
    BY <1>1, <2>1, FS_AddElement
  <2>3. B(k) \cup {k} \in SUBSET T
    BY <1>2
  <2>4. Cardinality(B(k) \cup {k}) <= Cardinality(T)
    BY <1>2, <2>3, FS_Subset
  <2>5. Cardinality(T) \in Nat /\ Cardinality(B(k)) \in Nat
    BY <1>1, <1>2, FS_CardinalityType
  <2> QED BY <2>2, <2>4, <2>5
<1>3. Cardinality(B(n)) < Cardinality(Slots(list))
  BY <1>0, <1>1, <1>2
<1>4. ASSUME NEW l \in Slots(list), l < n PROVE Cardinality(B(l)) < Cardinality(B(n))
  <2>1. l \in B(n)
    BY <1>0, <1>4
  <2>2. 1..(l - 1) \subseteq 1..(n - 1)
    BY <1>0, <1>4
  <2>3. B(l) \subseteq B(n) /\ IsFiniteSet(B(n))
    BY <1>1, <2>2
  <2> QED BY <1>2, <2>1, <2>3
<1>5. ASSUME \A l \in Slots(list) : n <= l PROVE Cardinality(B(n)) = 0
  <2>1. B(n) = {}
    BY <1>0, <1>5
  <2> QED BY <2>1, FS_EmptySet
<1> QED BY <1>1, <1>3, <1>4, <1>5 DEF Rank

(* Between calls every look-up of an item finds it, and its virtual index  *)
(* leads back to it, wherever the holes of the array are.                  *)
THEOREM LookupsFindTheSame == SafetySpec => []LookupsAgree
<1>1. ASSUME AInv, pc = "idle" PROVE LookupsAgree
  <2>0. /\ Array(list) /\ Len(list) \in Nat /\ Slots(list) = {n \in 1..Len(list) : list[n] # NULL}
        /\ count = Cardinality(Slots(list)) /\ count \in Nat /\ IsFiniteSet(Slots(list))
        /\ Slots(list) \in SUBSET Nat /\ Held(list) \subseteq Item
    BY <1>1, ArrayFacts DEF AInv, Owned
  <2> DEFINE at(v) == {n \in Slots(list) : Rank(n) = v}
  <2>1. ASSUME NEW n \in Slots(list) PROVE ArrayList_get_by_index(Rank(n)) = list[n]
    <3>1. n \in at(Rank(n)) /\ at(Rank(n)) \in SUBSET Nat /\ at(Rank(n)) # {}
      BY <2>0
    <3> DEFINE f == FirstOf(at(Rank(n)))
    <3>2. f \in at(Rank(n))
      <4> HIDE DEF at
      <4> QED BY <3>1, FirstOfIs
    <3>3. f \in Slots(list) /\ Rank(f) = Rank(n)
      BY <3>2
    <3> HIDE DEF f
    <3>4. f = n
      <4>1. f \in Nat /\ n \in Nat
        BY <2>0, <3>3
      <4>2. Rank(f) \in Nat /\ Rank(n) \in Nat /\ (f < n => Rank(f) < Rank(n)) /\ (n < f => Rank(n) < Rank(f))
        BY <2>0, <3>3, RanksAscend
      <4> QED BY <3>3, <4>1, <4>2
    <3>5. ~(Rank(n) >= count)
      <4>1. Rank(n) \in Nat /\ Rank(n) < Cardinality(Slots(list))
        BY <2>0, RanksAscend
      <4> QED BY <2>0, <4>1
    <3>6. ArrayList_get_by_index(Rank(n)) = list[f]
      BY <3>1, <3>5 DEF ArrayList_get_by_index, Rank, f
    <3> QED BY <3>4, <3>6
  <2>2. ASSUME NEW x \in Held(list) PROVE ArrayList_get_by_index(ArrayList_get_item_index(x)) = x
    <3> DEFINE of == {n \in Slots(list) : list[n] = x}
    <3>1. of # {} /\ of \in SUBSET Nat
      BY <2>0 DEF Held
    <3>2. FirstOf(of) \in of
      <4> HIDE DEF of
      <4> QED BY <3>1, FirstOfIs
    <3> DEFINE n == FirstOf(of)
    <3>3. n \in Slots(list) /\ list[n] = x
      BY <3>2
    <3>4. ArrayList_get_item_index(x) = Rank(n)
      BY <3>1 DEF ArrayList_get_item_index, Rank
    <3> HIDE DEF n
    <3> QED BY <2>1, <3>3, <3>4
  <2>3. ASSUME NEW x \in Held(list) PROVE ArrayList_find_item_by_value(x) = x
    BY DEF ArrayList_find_item_by_value, Held
  <2>4. ArrayList_get_by_index(0) = ArrayList_get_first_item
    <3>1. CASE Slots(list) = {}
      <4>1. count = 0
        BY <2>0, <3>1, FS_EmptySet
      <4> QED BY <3>1, <4>1 DEF ArrayList_get_by_index, ArrayList_get_first_item
    <3>2. CASE Slots(list) # {}
      <4> DEFINE n == FirstOf(Slots(list))
      <4>1. n \in Slots(list) /\ \A l \in Slots(list) : n <= l
        BY <2>0, <3>2, FirstOfIs
      <4>2. ArrayList_get_first_item = list[n]
        BY <3>2 DEF ArrayList_get_first_item
      <4> HIDE DEF n
      <4>3. Rank(n) = 0
        BY <2>0, <4>1, RanksAscend
      <4> QED BY <2>1, <4>1, <4>2, <4>3
    <3> QED BY <3>1, <3>2
  <2>5. Slots(list) = 1..count => \A x \in Item : ArrayList_contains(x) <=> x \in Held(list)
    BY <2>0 DEF ArrayList_contains, Held
  <2> QED BY <2>2, <2>3, <2>4, <2>5 DEF LookupsAgree
<1>2. AInv => LookupsAgree
  BY <1>1 DEF LookupsAgree
<1> QED BY <1>2, ListInvariant, PTL

-----------------------------------------------------------------------------
(* The pool.                                                               *)

(* The books balance, the array has its capacity and room for the blocks,  *)
(* it is at least as large as it was made, and a failed allocation, which  *)
(* leaves the mutex locked, leaves a slot without a block too.             *)
PoolInv ==
  /\ PoolBooksBalance
  /\ blockCap \in Nat /\ blocks \in [1..blockCap -> Nat]
  /\ blockCount \in Nat /\ blockCount <= blockCap
  /\ locked => blockCount < blockCap
  /\ status \in {"none", "ok", "fault"}
  /\ status = "ok" => blockCap >= StartCap

-----------------------------------------------------------------------------
(* Counting in the instance of MemPool is counting.                        *)
LEMMA PoolCounts == ASSUME NEW S PROVE Pool!Cardinality(S) = Cardinality(S)
BY DEF Pool!Cardinality, Cardinality

(* The least element, in the instance of MemPool.                          *)
LEMMA PoolFirstOf ==
  ASSUME NEW T \in SUBSET Nat, T # {}
  PROVE  Pool!Array!FirstOf(T) \in T
<1>1. Pool!Array!FirstOf(T) = FirstOf(T)
  BY DEF Pool!Array!FirstOf, FirstOf
<1> QED BY <1>1, FirstOfIs

(* What PoolInv says, without its counters.                                *)
LEMMA PoolFacts ==
  ASSUME PoolInv
  PROVE  /\ reserved_count = Cardinality(held) /\ reserving = held /\ held \subseteq 1..blockCount
         /\ \A k \in 1..blockCap : blocks[k] = IF k <= blockCount THEN k ELSE 0
         /\ blockCap \in Nat /\ blockCount \in Nat /\ blockCount <= blockCap
         /\ IsFiniteSet(held) /\ Cardinality(held) \in Nat /\ Cardinality(held) <= blockCount
         /\ Len(blocks) = blockCap
<1>1. /\ reserved_count = Cardinality(held) /\ reserving = held /\ held \subseteq 1..blockCount
      /\ \A k \in 1..blockCap : blocks[k] = IF k <= blockCount THEN k ELSE 0
      /\ blockCap \in Nat /\ blockCount \in Nat /\ blockCount <= blockCap
      /\ blocks \in [1..blockCap -> Nat]
  BY PoolCounts DEF PoolInv, PoolBooksBalance, Pool!BooksBalance, Pool!NULL, Pool!Array!NULL
<1>2. IsFiniteSet(1..blockCount) /\ Cardinality(1..blockCount) = blockCount
  BY <1>1, UpTo
<1>3. IsFiniteSet(held) /\ Cardinality(held) <= Cardinality(1..blockCount)
  BY <1>1, <1>2, FS_Subset
<1>4. Cardinality(held) \in Nat
  BY <1>3, FS_CardinalityType
<1>5. Len(blocks) = blockCap
  BY <1>1, FunctionIsArray
<1> QED BY <1>1, <1>2, <1>3, <1>4, <1>5

(* When every slot has its block reserved, the array is full of blocks.    *)
LEMMA ExhaustedIsFull ==
  ASSUME PoolInv, Pool!Exhausted
  PROVE  blockCount = blockCap /\ held = 1..blockCap /\ ~locked
<1>1. Cardinality(held) = blockCap
  BY PoolFacts DEF Pool!Exhausted
<1>2. blockCount = blockCap
  BY <1>1, PoolFacts
<1>3. held \in SUBSET (1..blockCap) /\ IsFiniteSet(1..blockCap) /\ Cardinality(1..blockCap) = blockCap
  BY <1>2, PoolFacts, UpTo
<1>4. held = 1..blockCap
  BY <1>1, <1>3, FS_Subset
<1>5. ~locked
  BY <1>2, PoolFacts DEF PoolInv
<1> QED BY <1>2, <1>4, <1>5

(* PoolInv in the next state, from its parts.                              *)
LEMMA NewPool ==
  ASSUME reserved_count' = Cardinality(held'), reserving' = held', held' \subseteq 1..blockCount',
         \A k \in 1..blockCap' : blocks'[k] = IF k <= blockCount' THEN k ELSE 0,
         blockCap' \in Nat, blocks' \in [1..blockCap' -> Nat],
         blockCount' \in Nat, blockCount' <= blockCap', locked' => blockCount' < blockCap',
         status' \in {"none", "ok", "fault"}, status' = "ok" => blockCap' >= StartCap
  PROVE  PoolInv'
<1>1. Pool!Cardinality(held') = Cardinality(held')
  BY PoolCounts
<1>2. status' # "stuck"
  OBVIOUS
<1>3. PoolBooksBalance'
  BY <1>1, <1>2 DEF PoolBooksBalance, Pool!BooksBalance, Pool!NULL, Pool!Array!NULL
<1> QED BY <1>3 DEF PoolInv

-----------------------------------------------------------------------------
(* The loop of MemPool_reserve_block over an array 'a' of c slots, the     *)
(* first n of which hold blocks: it takes one that nobody holds, meets an  *)
(* empty slot, or finds every slot's block reserved.                       *)
LEMMA Scans ==
  ASSUME PoolInv, status = "ok", NEW c \in Nat, NEW n \in 0..c, blockCount <= n, NEW a, Len(a) = c,
         \A k \in 1..c : a[k] = IF k <= n THEN k ELSE 0,
         Pool!Scan(a)
  PROVE  \/ /\ 1..c \subseteq held /\ ret' = 0
            /\ UNCHANGED <<reserving, reserved_count, held, status>>
         \/ /\ status' = "fault" /\ ret' = 0 /\ n < c
            /\ UNCHANGED <<reserving, reserved_count, held>>
         \/ \E k \in 1..n : /\ k \notin held /\ ret' = k
                            /\ reserving' = reserving \cup {k} /\ held' = held \cup {k}
                            /\ reserved_count' = reserved_count + 1 /\ status' = status
<1> DEFINE open == Pool!Open(a)
<1>1. open = {k \in 1..c : a[k] = 0 \/ k \notin held}
  BY PoolFacts DEF Pool!Open, Pool!NULL, Pool!Array!NULL
<1>2. open \in SUBSET Nat
  BY <1>1
<1>3. CASE open = {}
  <2>1. ret' = 0 /\ UNCHANGED <<reserving, reserved_count, held, status>>
    BY <1>3 DEF Pool!Scan, Pool!NULL, Pool!Array!NULL
  <2>2. 1..c \subseteq held
    BY <1>1, <1>3
  <2> QED BY <2>1, <2>2
<1>4. CASE open # {}
  <2> DEFINE k == Pool!Array!FirstOf(open)
  <2>1. k \in open
    BY <1>2, <1>4, PoolFirstOf
  <2>2. k \in 1..c /\ (a[k] = 0 \/ k \notin held)
    BY <1>1, <2>1
  <2>3. IF a[k] = 0
        THEN status' = "fault" /\ ret' = 0 /\ UNCHANGED <<reserving, reserved_count, held>>
        ELSE /\ reserving' = reserving \cup {k} /\ reserved_count' = reserved_count + 1
             /\ held' = held \cup {k} /\ ret' = k /\ UNCHANGED status
    BY <1>4 DEF Pool!Scan, Pool!NULL, Pool!Array!NULL
  <2> HIDE DEF k
  <2>4. CASE a[k] = 0
    <3>1. n < c
      BY <2>2, <2>4
    <3> QED BY <2>3, <2>4, <3>1
  <2>5. CASE a[k] # 0
    <3>1. k \in 1..n /\ k \notin held
      BY <2>2, <2>5
    <3> QED BY <2>3, <2>5, <3>1
  <2> QED BY <2>4, <2>5
<1> QED BY <1>3, <1>4

(* The reserved blocks after the loop over the array 'blocks''.            *)
LEMMA ScanBalances ==
  ASSUME PoolInv, status = "ok", blockCap' \in Nat, blockCount' \in 0..blockCap', blockCount <= blockCount',
         blocks' \in [1..blockCap' -> Nat],
         \A k \in 1..blockCap' : blocks'[k] = IF k <= blockCount' THEN k ELSE 0,
         locked' => blockCount' < blockCap', blockCap' >= StartCap, NEW a, a = blocks', Pool!Scan(a)
  PROVE  PoolInv'
<1>0. Len(a) = blockCap'
  BY FunctionIsArray
<1>1. \/ /\ 1..blockCap' \subseteq held /\ ret' = 0
         /\ UNCHANGED <<reserving, reserved_count, held, status>>
      \/ /\ status' = "fault" /\ ret' = 0 /\ blockCount' < blockCap'
         /\ UNCHANGED <<reserving, reserved_count, held>>
      \/ \E k \in 1..blockCount' :
           /\ k \notin held /\ ret' = k
           /\ reserving' = reserving \cup {k} /\ held' = held \cup {k}
           /\ reserved_count' = reserved_count + 1 /\ status' = status
  BY <1>0, Scans
<1>2. held \subseteq 1..blockCount'
  BY PoolFacts
<1>3. CASE UNCHANGED <<reserving, reserved_count, held>> /\ status' \in {status, "fault"}
  <2>1. reserved_count' = Cardinality(held') /\ reserving' = held' /\ held' \subseteq 1..blockCount'
    BY <1>2, <1>3, PoolFacts
  <2> QED BY <1>3, <2>1, NewPool
<1>4. ASSUME NEW k \in 1..blockCount', k \notin held, held' = held \cup {k}, reserving' = reserving \cup {k},
             reserved_count' = reserved_count + 1, status' = status
      PROVE  PoolInv'
  <2>1. Cardinality(held \cup {k}) = Cardinality(held) + 1
    BY <1>4, PoolFacts, FS_AddElement
  <2>2. reserved_count' = Cardinality(held') /\ reserving' = held' /\ held' \subseteq 1..blockCount'
    BY <1>2, <1>4, <2>1, PoolFacts
  <2> QED BY <1>4, <2>2, NewPool
<1> QED BY <1>1, <1>3, <1>4

(* The array that expand makes of a full one.                              *)
LEMMA GrownPool ==
  ASSUME PoolInv, blockCap # 0, blockCount = blockCap
  PROVE  LET g == Pool!Array!Grown(2 * blockCap)
         IN  /\ Len(g) = 2 * blockCap
             /\ \A k \in 1..(2 * blockCap) : g[k] = IF k <= blockCount THEN k ELSE 0
<1> DEFINE c == 2 * blockCap
           f == [n \in 1..c |-> IF n <= blockCap THEN blocks[n] ELSE 0]
<1>1. blocks # <<>> /\ Len(blocks) = blockCap /\ blockCap \in Nat /\ c \in Nat
  BY PoolFacts
<1>2. Pool!Array!Grown(c) = f
  BY <1>1 DEF Pool!Array!Grown, Pool!Array!GrownTo, Pool!Array!NULL
<1>3. \A k \in 1..c : f[k] = IF k <= blockCount THEN k ELSE 0
  BY <1>1, PoolFacts
<1>4. f \in [1..c -> Nat]
  BY <1>3
<1>5. Len(f) = c
  <2> HIDE DEF f, c
  <2> QED BY <1>1, <1>4, FunctionIsArray
<1> QED BY <1>2, <1>3, <1>5

(* fill_resized_memory puts the blocks it could allocate behind those that *)
(* are there, and keeps the mutex only if one is missing.                  *)
LEMMA Fills ==
  ASSUME NEW a, NEW c \in Nat, Len(a) = c, NEW from \in 0..c, NEW n \in 0..(c - from),
         \A k \in 1..c : a[k] = IF k <= from THEN k ELSE 0,
         Pool!Fill(a, from, n)
  PROVE  /\ blockCap' = c /\ blockCount' = from + n /\ blocks' \in [1..c -> Nat]
         /\ \A k \in 1..c : blocks'[k] = IF k <= from + n THEN k ELSE 0
         /\ locked' => from + n < c
<1> DEFINE f == [k \in 1..c |-> IF from < k /\ k <= from + n THEN k ELSE a[k]]
<1>1. blockCap' = c /\ blockCount' = from + n /\ blocks' = f /\ locked' = (UseMutex /\ from + n < c)
  BY DEF Pool!Fill
<1>2. \A k \in 1..c : f[k] = IF k <= from + n THEN k ELSE 0
  OBVIOUS
<1>3. f \in [1..c -> Nat]
  BY <1>2
<1> QED BY <1>1, <1>2, <1>3

(* An exhausted pool that can grow: the mutex is free, and the blocks it   *)
(* gets go behind the others.  With all of them the search begins again.   *)
LEMMA Grows ==
  ASSUME PoolInv, status = "ok", Pool!ReserveGrows
  PROVE  /\ blockCap # 0 /\ blockCap' = 2 * blockCap /\ blockCap' \in Nat /\ held = 1..blockCap
         /\ blockCount' \in 0..blockCap' /\ blockCount <= blockCount' /\ blocks' \in [1..blockCap' -> Nat]
         /\ \A k \in 1..blockCap' : blocks'[k] = IF k <= blockCount' THEN k ELSE 0
         /\ locked' => blockCount' < blockCap'
         /\ blockCap' >= StartCap
         /\ \/ blockCount' < blockCap' /\ Pool!ReturnsNull /\ UNCHANGED status
            \/ blockCount' = blockCap' /\ Pool!Scan(blocks')
<1> DEFINE g == Pool!Array!Grown(2 * blockCap)
           c == 2 * blockCap
           need == c - blockCount
<1>1. blockCount = blockCap /\ held = 1..blockCap /\ ~locked /\ blockCap # 0
  BY ExhaustedIsFull DEF Pool!ReserveGrows
<1>2. Len(g) = c /\ \A k \in 1..c : g[k] = IF k <= blockCount THEN k ELSE 0
  BY <1>1, GrownPool
<1>3. /\ blockCap \in Nat /\ c \in Nat /\ blockCount \in 0..c /\ need \in Nat /\ c >= blockCap
  BY <1>1, PoolFacts
<1>4. PICK n \in Pool!Allocated(need) :
         /\ Pool!Fill(g, blockCount, n)
         /\ IF n < need THEN Pool!ReturnsNull /\ UNCHANGED status ELSE Pool!Scan(blocks')
  BY <1>1, <1>2 DEF Pool!ReserveGrows
<1>5. n \in 0..need
  BY <1>3, <1>4 DEF Pool!Allocated
<1> HIDE DEF g
<1>6. /\ blockCap' = c /\ blockCount' = blockCount + n /\ blocks' \in [1..c -> Nat]
      /\ \A k \in 1..c : blocks'[k] = IF k <= blockCount + n THEN k ELSE 0
      /\ locked' => blockCount + n < c
  BY <1>2, <1>3, <1>4, <1>5, Fills
<1>7. blockCap >= StartCap
  BY DEF PoolInv
<1>8. blockCount + n \in 0..c /\ blockCount <= blockCount + n /\ c >= StartCap
  BY <1>3, <1>5, <1>7, CapAssumption
<1>9. \/ blockCount + n < c /\ Pool!ReturnsNull /\ UNCHANGED status
      \/ blockCount + n = c /\ Pool!Scan(blocks')
  BY <1>3, <1>4, <1>5
<1> HIDE DEF c
<1> QED BY <1>1, <1>3, <1>6, <1>8, <1>9 DEF c

(* The books after the pool has grown.                                     *)
LEMMA GrowKeepsPool ==
  ASSUME PoolInv, status = "ok", Pool!ReserveGrows PROVE PoolInv'
<1>1. CASE Pool!ReturnsNull /\ UNCHANGED status
  <2>1. UNCHANGED <<reserving, reserved_count, held, status>>
    BY <1>1 DEF Pool!ReturnsNull
  <2>2. reserved_count' = Cardinality(held') /\ reserving' = held' /\ held' \subseteq 1..blockCount'
    BY <2>1, Grows, PoolFacts
  <2> QED BY <2>1, <2>2, Grows, NewPool
<1>2. CASE Pool!Scan(blocks')
  BY <1>2, Grows, ScanBalances
<1> QED BY <1>1, <1>2, Grows

(* A call that grew the pool and got every new block returns one of them.  *)
LEMMA GrownScans ==
  ASSUME PoolInv, status = "ok", Pool!ReserveGrows, status' = "ok", blockCount' = blockCap'
  PROVE  ret' # 0
<1>1. /\ blockCap' \in Nat /\ blockCap' \in 0..blockCap' /\ blockCount <= blockCap'
      /\ \A k \in 1..blockCap' : blocks'[k] = IF k <= blockCap' THEN k ELSE 0
      /\ Pool!Scan(blocks') /\ held = 1..blockCap
  BY Grows
<1>2. Len(blocks') = blockCap'
  BY Grows, FunctionIsArray
<1>3. blockCap' \in 1..blockCap' /\ blockCap' \notin held
  BY <1>1, Grows, PoolFacts
<1>4. 1..blockCap' \subseteq held \/ status' = "fault" \/ \E k \in 1..blockCap' : ret' = k
  BY <1>1, <1>2, Scans
<1> QED BY <1>1, <1>3, <1>4

(* MemPool_reserve_block.                                                  *)
LEMMA ReserveKeepsPool ==
  ASSUME PoolInv, Pool!MemPool_reserve_block PROVE PoolInv'
<1>1. status = "ok"
  BY DEF Pool!MemPool_reserve_block
<1>2. /\ blocks \in [1..blockCap -> Nat] /\ (locked => blockCount < blockCap) /\ blockCap >= StartCap
  BY <1>1 DEF PoolInv
<1>3. CASE Pool!ReserveFree
  <2>1. Pool!Scan(blocks) /\ UNCHANGED <<blocks, blockCap, blockCount, locked>>
    BY <1>3 DEF Pool!ReserveFree
  <2>2. /\ blockCap' \in Nat /\ blockCount' \in 0..blockCap' /\ blockCount <= blockCount'
        /\ blocks' \in [1..blockCap' -> Nat] /\ (locked' => blockCount' < blockCap')
        /\ \A k \in 1..blockCap' : blocks'[k] = IF k <= blockCount' THEN k ELSE 0
        /\ blockCap' >= StartCap /\ blocks = blocks'
    BY <1>2, <2>1, PoolFacts
  <2> QED BY <1>1, <2>1, <2>2, ScanBalances
<1>4. CASE Pool!ReserveAtMax
  <2>1. UNCHANGED <<blocks, blockCap, blockCount, locked, reserving, reserved_count, held, status>>
    BY <1>4 DEF Pool!ReserveAtMax, Pool!ReturnsNull
  <2> QED BY <2>1 DEF PoolInv, PoolBooksBalance, Pool!BooksBalance
<1>5. CASE Pool!ReserveGrows
  BY <1>1, <1>5, GrowKeepsPool
<1> QED BY <1>3, <1>4, <1>5 DEF Pool!MemPool_reserve_block

(* A block comes back from the one who holds it.                           *)
LEMMA UnreserveKeepsPool ==
  ASSUME PoolInv, NEW block \in held, Pool!MemPool_unreserve_block(block) PROVE PoolInv'
<1>1. /\ reserved_count' = reserved_count - 1 /\ reserving' = reserving \ {block} /\ held' = held \ {block}
      /\ UNCHANGED <<blocks, blockCap, blockCount, locked, status>>
  BY DEF Pool!MemPool_unreserve_block
<1>2. Cardinality(held \ {block}) = Cardinality(held) - 1
  BY PoolFacts, FS_RemoveElement
<1>3. reserved_count' = Cardinality(held') /\ reserving' = held' /\ held' \subseteq 1..blockCount'
  BY <1>1, <1>2, PoolFacts
<1>4. \A k \in 1..blockCap' : blocks'[k] = IF k <= blockCount' THEN k ELSE 0
  BY <1>1, PoolFacts
<1>5. /\ blockCap' \in Nat /\ blocks' \in [1..blockCap' -> Nat]
      /\ blockCount' \in Nat /\ blockCount' <= blockCap' /\ (locked' => blockCount' < blockCap')
      /\ status' \in {"none", "ok", "fault"} /\ (status' = "ok" => blockCap' >= StartCap)
  BY <1>1 DEF PoolInv
<1> QED BY <1>3, <1>4, <1>5, NewPool

(* A pool without blocks: before it is made, and when it is deleted.       *)
LEMMA EmptyPool ==
  ASSUME blocks' = <<>>, blockCap' = 0, blockCount' = 0, locked' = FALSE, reserving' = {},
         reserved_count' = 0, held' = {}, status' = "none"
  PROVE  PoolInv'
<1>1. Cardinality({}) = 0 /\ <<>> \in [1..0 -> Nat] /\ 1..0 = {}
  BY FS_EmptySet
<1> QED BY <1>1, NewPool

(* newMemPool_ex: all of the first blocks, or no pool.                     *)
LEMMA NewKeepsPool ==
  ASSUME PoolInv, Pool!newMemPool_ex PROVE PoolInv'
<1> DEFINE a == Pool!Array!Empty(StartCap)
<1>0. reserving' = {} /\ reserved_count' = 0 /\ held' = {} /\ Cardinality({}) = 0 /\ status = "none"
  BY FS_EmptySet DEF Pool!newMemPool_ex
<1>1. PICK n \in Pool!Allocated(StartCap) :
        IF n < StartCap THEN UNCHANGED <<blocks, blockCap, blockCount, locked, status>>
        ELSE Pool!Fill(a, 0, n) /\ status' = "ok"
  BY DEF Pool!newMemPool_ex
<1>2. n \in 0..StartCap /\ StartCap \in Nat
  BY CapAssumption DEF Pool!Allocated
<1>3. CASE n < StartCap
  <2>1. UNCHANGED <<blocks, blockCap, blockCount, locked, status>>
    BY <1>1, <1>3
  <2>2. reserved_count' = Cardinality(held') /\ reserving' = held' /\ held' \subseteq 1..blockCount'
    BY <1>0
  <2>3. \A k \in 1..blockCap' : blocks'[k] = IF k <= blockCount' THEN k ELSE 0
    BY <2>1, PoolFacts
  <2>4. /\ blockCap' \in Nat /\ blocks' \in [1..blockCap' -> Nat]
        /\ blockCount' \in Nat /\ blockCount' <= blockCap' /\ (locked' => blockCount' < blockCap')
        /\ status' \in {"none", "ok", "fault"} /\ (status' = "ok" => blockCap' >= StartCap)
    BY <2>1 DEF PoolInv
  <2> QED BY <2>2, <2>3, <2>4, NewPool
<1>4. CASE ~(n < StartCap)
  <2>1. Pool!Fill(a, 0, n) /\ status' = "ok" /\ n = StartCap
    BY <1>1, <1>2, <1>4
  <2>2. Len(a) = StartCap /\ \A k \in 1..StartCap : a[k] = 0
    <3>1. a = [k \in 1..StartCap |-> 0]
      BY DEF Pool!Array!Empty, Pool!Array!NULL
    <3>2. [k \in 1..StartCap |-> 0] \in [1..StartCap -> Nat]
      OBVIOUS
    <3> HIDE DEF a
    <3> QED BY <1>2, <3>1, <3>2, FunctionIsArray
  <2>3. \A k \in 1..StartCap : a[k] = IF k <= 0 THEN k ELSE 0
    BY <1>2, <2>2
  <2> HIDE DEF a
  <2>4. /\ blockCap' = StartCap /\ blockCount' = 0 + n /\ blocks' \in [1..StartCap -> Nat]
        /\ \A k \in 1..StartCap : blocks'[k] = IF k <= 0 + n THEN k ELSE 0
        /\ locked' => 0 + n < StartCap
    <3>1. 0 \in 0..StartCap /\ n \in 0..(StartCap - 0)
      BY <1>2
    <3> QED BY <1>2, <2>1, <2>2, <2>3, <3>1, Fills
  <2>5. /\ blockCap' \in Nat /\ blocks' \in [1..blockCap' -> Nat]
        /\ \A k \in 1..blockCap' : blocks'[k] = IF k <= blockCount' THEN k ELSE 0
        /\ blockCount' \in Nat /\ blockCount' <= blockCap' /\ (locked' => blockCount' < blockCap')
        /\ status' \in {"none", "ok", "fault"} /\ (status' = "ok" => blockCap' >= StartCap)
    BY <1>2, <2>1, <2>4
  <2>6. reserved_count' = Cardinality(held') /\ reserving' = held' /\ held' \subseteq 1..blockCount'
    BY <1>0
  <2> QED BY <2>5, <2>6, NewPool
<1> QED BY <1>3, <1>4

(* PoolInv through the steps of the run.                                   *)
LEMMA PoolSteps == ASSUME PoolInv, [ContainersNext]_allVars PROVE PoolInv'
<1>1. CASE Pool!MemPool_reserve_block
  BY <1>1, ReserveKeepsPool
<1>2. ASSUME NEW block \in 1..PoolCap, Pool!MemPool_unreserve_block(block) PROVE PoolInv'
  <2>1. block \in held
    BY <1>2 DEF Pool!MemPool_unreserve_block
  <2> QED BY <1>2, <2>1, UnreserveKeepsPool
<1>3. CASE Pool!newMemPool_ex
  BY <1>3, NewKeepsPool
<1>4. CASE Pool!delMemPool
  <2>1. /\ blocks' = <<>> /\ blockCap' = 0 /\ blockCount' = 0 /\ locked' = FALSE /\ reserving' = {}
        /\ reserved_count' = 0 /\ held' = {} /\ status' = "none"
    BY <1>4 DEF Pool!delMemPool
  <2> QED BY <2>1, EmptyPool
<1>5. CASE UNCHANGED poolVars
  BY <1>5 DEF poolVars, PoolInv, PoolBooksBalance, Pool!BooksBalance
<1>6. Pool!Next \/ UNCHANGED poolVars
  BY DEF ContainersNext, allVars
<1> QED BY <1>1, <1>2, <1>3, <1>4, <1>5, <1>6 DEF Pool!Next

(* The invariant of the pool.                                              *)
THEOREM PoolInvariant == ContainersSpec => []PoolInv
<1>1. ContainersInit => PoolInv
  <2>1. Pool!Cardinality({}) = 0 /\ <<>> \in [1..0 -> Nat] /\ 1..0 = {}
    BY FS_EmptySet, PoolCounts
  <2> QED BY <2>1, CapAssumption DEF ContainersInit, Pool!Init, PoolInv, PoolBooksBalance, Pool!BooksBalance,
                                     Pool!NULL, Pool!Array!NULL
<1> QED BY <1>1, PoolSteps, PTL DEF ContainersSpec

(* The pool's counter, the marks in the blocks and the callers' pointers   *)
(* agree and the blocks fill the array from the front, whatever            *)
(* allocations fail; no call waits for the mutex a failed one has kept.    *)
THEOREM PoolBooks == ContainersSpec => []PoolBooksBalance
BY PoolInvariant, PTL DEF PoolInv

(* A pool that was made with a block turns a caller away, while no         *)
(* allocation has failed, only at its maximum and with every block taken.  *)
(* (A capacity of 0 cannot be doubled: such a pool refuses every call.)    *)
THEOREM PoolRefusals ==
  ASSUME StartCap # 0 PROVE ContainersSpec => PoolRefusesOnlyWhenExhausted
<1> DEFINE Refused == /\ Pool!MemPool_reserve_block /\ ret' = Pool!NULL
                      /\ blockCount' = blockCap' /\ status' = "ok"
<1>1. ASSUME PoolInv, Refused PROVE blockCap = PoolCap /\ held = 1..PoolCap
  <2>0. status = "ok" /\ ret' = 0 /\ blockCount' = blockCap' /\ status' = "ok"
    BY <1>1 DEF Pool!MemPool_reserve_block, Pool!NULL, Pool!Array!NULL
  <2>9. blockCap # 0 /\ blockCap \in Nat
    BY <1>1, <2>0, CapAssumption DEF PoolInv
  <2>1. CASE Pool!ReserveFree
    <3>1. Pool!Scan(blocks) /\ ~Pool!Exhausted
      BY <2>1 DEF Pool!ReserveFree
    <3>2. 1..blockCap \subseteq held
      BY <1>1, <2>0, <3>1, PoolFacts, Scans
    <3>3. held = 1..blockCap
      <4>1. held \subseteq 1..blockCount /\ 1..blockCount \subseteq 1..blockCap
        BY <1>1, PoolFacts
      <4> QED BY <3>2, <4>1
    <3>4. Cardinality(held) = blockCap
      BY <2>9, <3>3, UpTo
    <3> QED BY <1>1, <3>1, <3>4, PoolFacts DEF Pool!Exhausted
  <2>2. CASE Pool!ReserveAtMax
    BY <1>1, <2>9, <2>2, ExhaustedIsFull DEF Pool!ReserveAtMax
  <2>3. CASE Pool!ReserveGrows
    BY <1>1, <2>0, <2>3, GrownScans
  <2> QED BY <1>1, <2>1, <2>2, <2>3 DEF Pool!MemPool_reserve_block
<1>2. PoolInv /\ [ContainersNext]_allVars =>
        [Refused => blockCap = PoolCap /\ held = 1..PoolCap]_(Pool!vars)
  BY <1>1
<1> QED BY <1>2, PoolInvariant, PTL DEF ContainersSpec, PoolRefusesOnlyWhenExhausted, Pool!RefusesOnlyWhenExhausted

-----------------------------------------------------------------------------
(* The array list of the run behaves as ArrayList says, whatever the other *)
(* containers do: what is shown of it above holds.                         *)
THEOREM ListOfContainers ==
  ContainersSpec => [](NoOverrun /\ OwnsWhatItHolds /\ LookupsAgree) /\ LoopsKeepItems
<1>1. ContainersInit => Init
  BY DEF ContainersInit
<1>2. [ContainersNext]_allVars => [Next]_vars
  BY DEF ContainersNext, allVars
<1>3. ContainersSpec => SafetySpec
  BY <1>1, <1>2, PTL DEF ContainersSpec, SafetySpec
<1> QED BY <1>3, StaysInArray, OwnershipExact, LookupsFindTheSame, LoopsLoseNothing, PTL

-----------------------------------------------------------------------------
(* The history.                                                            *)

(* The things a sequence is made of, each of them once.                    *)
Things(c) == {c[j] : j \in 1..Len(c)}
EachOnce(c) == \A j, k \in 1..Len(c) : c[j] = c[k] => j = k

(* The links spell out c, and nothing else has one.                        *)
Strung(next, c) ==
  /\ c \in Seq(History!Thing) /\ EachOnce(c) /\ next \in [History!Links -> History!Links]
  /\ \A l \in 1..Len(c) : next[c[l]] = IF l = Len(c) THEN 0 ELSE c[l + 1]
  /\ \A a \in History!Links : a \notin Things(c) => next[a] = 0

First(c) == IF Len(c) = 0 THEN 0 ELSE c[1]
Final(c) == IF Len(c) = 0 THEN 0 ELSE c[Len(c)]

(* The places of a sequence of things.                                     *)
LEMMA ThingsAre ==
  ASSUME NEW c \in Seq(History!Thing)
  PROVE  /\ Len(c) \in Nat /\ DOMAIN c = 1..Len(c)
         /\ \A l \in 1..Len(c) : c[l] \in History!Thing /\ c[l] \in History!Links /\ c[l] # 0 /\ c[l] \in Things(c)
         /\ 0 \in History!Links /\ 0 \notin Things(c) /\ Things(c) \subseteq History!Thing
         /\ First(c) \in History!Links /\ Final(c) \in History!Links
<1>1. Len(c) \in Nat /\ DOMAIN c = 1..Len(c) /\ \A l \in 1..Len(c) : c[l] \in History!Thing
  OBVIOUS
<1>2. \A a \in History!Thing : a \in History!Links /\ a # 0
  BY HistoryAssumption DEF History!Thing, History!Links
<1>3. 0 \in History!Links
  BY HistoryAssumption DEF History!Links
<1>4. \A l \in 1..Len(c) : c[l] \in Things(c)
  BY DEF Things
<1>5. 0 \notin Things(c) /\ Things(c) \subseteq History!Thing
  BY <1>1, <1>2 DEF Things
<1>6. Len(c) # 0 => 1 \in 1..Len(c) /\ Len(c) \in 1..Len(c)
  BY <1>1
<1>7. First(c) \in History!Links /\ Final(c) \in History!Links
  BY <1>1, <1>2, <1>3, <1>6 DEF First, Final
<1> QED BY <1>1, <1>2, <1>3, <1>4, <1>5, <1>7

(* There are no more things in it than there are.                          *)
LEMMA NoMoreThanKeep ==
  ASSUME NEW c \in Seq(History!Thing), EachOnce(c)
  PROVE  Len(c) <= Keep
<1>1. Len(c) \in Nat /\ \A l \in 1..Len(c) : c[l] \in History!Thing
  BY ThingsAre
<1>2. IsFiniteSet(1..Len(c)) /\ Cardinality(1..Len(c)) = Len(c)
  BY <1>1, UpTo
<1>3. IsFiniteSet(History!Thing) /\ Cardinality(History!Thing) = Keep
  BY HistoryAssumption, UpTo DEF History!Thing
<1> DEFINE f == [l \in 1..Len(c) |-> c[l]]
           T == Things(c)
<1>4. f \in [1..Len(c) -> T] /\ \A x \in T : \E l \in 1..Len(c) : f[l] = x
  BY DEF Things
<1>5. \A j, k \in 1..Len(c) : f[j] = f[k] => j = k
  BY DEF EachOnce
<1>6. f \in Bijection(1..Len(c), T)
  <2> HIDE DEF f, T
  <2> QED BY <1>4, <1>5 DEF Bijection, Injection, Surjection, IsInjective
<1>7. ExistsBijection(1..Len(c), T)
  <2> HIDE DEF f, T
  <2> QED BY <1>6 DEF ExistsBijection
<1>8. Cardinality(T) = Cardinality(1..Len(c))
  <2> HIDE DEF f, T
  <2> QED BY <1>2, <1>7, FS_Bijection
<1>9. T \subseteq History!Thing
  BY <1>1 DEF Things
<1>10. Cardinality(T) <= Cardinality(History!Thing)
  <2> HIDE DEF T
  <2> QED BY <1>3, <1>9, FS_Subset
<1> QED BY <1>2, <1>3, <1>8, <1>10

(* The walk of Reach.                                                      *)
Wanders(next, a, g) == g = [k \in 0..Keep |-> IF k = 0 THEN a ELSE next[g[k - 1]]]

(* There is one such walk.                                                 *)
LEMMA OneWalk ==
  ASSUME NEW next, NEW a, NEW f, Wanders(next, a, f), NEW g, Wanders(next, a, g), NEW k \in 0..Keep
  PROVE  f[k] = g[k]
<1> DEFINE T == {j \in 0..Keep : f[j] # g[j]}
<1>1. ASSUME T # {} PROVE FALSE
  <2>1. T \in SUBSET Nat
    OBVIOUS
  <2> HIDE DEF T
  <2>2. PICK n : n = FirstOf(T)
    OBVIOUS
  <2>3. n \in T /\ \A l \in T : n <= l
    BY <1>1, <2>1, <2>2, FirstOfIs
  <2>4. n \in 0..Keep /\ f[n] # g[n]
    BY <2>3 DEF T
  <2>5. n # 0
    BY <2>4 DEF Wanders
  <2>6. n - 1 \in 0..Keep /\ n - 1 \notin T
    BY <2>3, <2>4, <2>5, HistoryAssumption
  <2>7. f[n - 1] = g[n - 1]
    BY <2>6 DEF T
  <2>8. f[n] = next[f[n - 1]] /\ g[n] = next[g[n - 1]]
    BY <2>4, <2>5 DEF Wanders
  <2> QED BY <2>4, <2>7, <2>8
<1> QED BY <1>1

(* Reach spells out the chain.                                             *)
LEMMA ReachIs ==
  ASSUME NEW next, NEW c, Strung(next, c), NEW a, a = First(c)
  PROVE  History!Reach(next, a) = c
<1>1. c \in Seq(History!Thing) /\ EachOnce(c) /\ Len(c) \in Nat /\ Len(c) <= Keep
  BY ThingsAre, NoMoreThanKeep DEF Strung
<1>2. \A l \in 1..Len(c) : c[l] # 0
  BY <1>1, ThingsAre
<1>3. next[0] = 0
  BY <1>1, ThingsAre DEF Strung
<1>4. PICK g : g = [k \in 0..Keep |-> IF k < Len(c) THEN c[k + 1] ELSE 0]
  OBVIOUS
<1>5. ASSUME NEW k \in 0..Keep PROVE g[k] = IF k = 0 THEN a ELSE next[g[k - 1]]
  <2>1. CASE k = 0
    BY <1>1, <1>4, <2>1, HistoryAssumption DEF First
  <2>2. CASE k # 0 /\ k <= Len(c)
    <3>1. k - 1 \in 0..Keep /\ k - 1 < Len(c) /\ k - 1 + 1 = k /\ k \in 1..Len(c)
      BY <1>1, <2>2, HistoryAssumption
    <3>2. g[k - 1] = c[k]
      BY <1>4, <3>1
    <3>3. next[c[k]] = IF k = Len(c) THEN 0 ELSE c[k + 1]
      BY <3>1 DEF Strung
    <3>4. g[k] = IF k = Len(c) THEN 0 ELSE c[k + 1]
      BY <1>1, <1>4, <2>2
    <3> QED BY <2>2, <3>2, <3>3, <3>4
  <2>3. CASE k > Len(c)
    <3>1. k - 1 \in 0..Keep /\ ~(k - 1 < Len(c)) /\ ~(k < Len(c)) /\ k # 0
      BY <1>1, <2>3, HistoryAssumption
    <3>2. g[k - 1] = 0 /\ g[k] = 0
      BY <1>4, <3>1
    <3> QED BY <1>3, <3>1, <3>2
  <2> QED BY <1>1, <2>1, <2>2, <2>3
<1>6. g = [k \in 0..Keep |-> g[k]]
  BY <1>4
<1>7. Wanders(next, a, g)
  BY <1>5, <1>6 DEF Wanders
<1>8. PICK w : w = CHOOSE f : Wanders(next, a, f)
  OBVIOUS
<1>9. Wanders(next, a, w)
  BY <1>7, <1>8
<1>10. \A k \in 0..Keep : w[k] = g[k]
  BY <1>7, <1>9, OneWalk
<1>11. {j \in 0..Keep : w[j] # 0} = 0..(Len(c) - 1)
  <2>1. ASSUME NEW j \in 0..Keep PROVE w[j] # 0 <=> j < Len(c)
    <3>1. CASE j < Len(c)
      <4>1. j + 1 \in 1..Len(c) /\ w[j] = c[j + 1]
        BY <1>1, <1>4, <1>10, <3>1
      <4> QED BY <1>2, <3>1, <4>1
    <3>2. CASE ~(j < Len(c))
      BY <1>4, <1>10, <3>2
    <3> QED BY <3>1, <3>2
  <2> QED BY <1>1, <2>1, HistoryAssumption
<1>12. Cardinality(0..(Len(c) - 1)) = Len(c)
  <2>1. Cardinality(0..(Len(c) - 1)) = IF 0 > Len(c) - 1 THEN 0 ELSE (Len(c) - 1) - 0 + 1
    BY <1>1, FS_Interval
  <2> QED BY <1>1, <2>1
<1>13. \A T : History!Cardinality(T) = Cardinality(T)
  BY DEF History!Cardinality, Cardinality
<1>14. History!Reach(next, a) = [k \in 1..History!Cardinality({j \in 0..Keep : w[j] # 0}) |-> w[k - 1]]
  BY <1>8 DEF History!Reach, Wanders
<1>15. History!Reach(next, a) = [k \in 1..Len(c) |-> w[k - 1]]
  BY <1>11, <1>12, <1>13, <1>14
<1>16. ASSUME NEW k \in 1..Len(c) PROVE w[k - 1] = c[k]
  <2>1. k - 1 \in 0..Keep /\ k - 1 < Len(c) /\ k - 1 + 1 = k
    BY <1>1, HistoryAssumption
  <2> QED BY <1>4, <1>10, <2>1
<1>17. c = [k \in 1..Len(c) |-> c[k]]
  BY <1>1
<1> QED BY <1>15, <1>16, <1>17

(* c without its j-th thing.                                               *)
Lacking(c, j) == [l \in 1..(Len(c) - 1) |-> IF l < j THEN c[l] ELSE c[l + 1]]

(* A function on 1..n is a sequence.                                       *)
LEMMA IsSequence ==
  ASSUME NEW n \in Nat, NEW f, f = [l \in 1..n |-> f[l]], \A l \in 1..n : f[l] \in History!Thing
  PROVE  f \in Seq(History!Thing) /\ Len(f) = n
OBVIOUS

(* d is c without its j-th thing.                                          *)
LackingAt(d, c, j) ==
  /\ d \in Seq(History!Thing) /\ Len(d) = Len(c) - 1
  /\ \A l \in 1..Len(d) : d[l] = IF l < j THEN c[l] ELSE c[l + 1]
  /\ EachOnce(d) /\ Things(d) = Things(c) \ {c[j]}

(* The sequence without one of its things.                                 *)
LEMMA LackingIs ==
  ASSUME NEW c \in Seq(History!Thing), EachOnce(c), NEW j \in 1..Len(c), NEW d, d = Lacking(c, j)
  PROVE  LackingAt(d, c, j)
<1>1. Len(c) \in Nat /\ \A l \in 1..Len(c) : c[l] \in History!Thing
  BY ThingsAre
<1>2. PICK n : n = Len(c) - 1
  OBVIOUS
<1>3. n \in Nat /\ n + 1 = Len(c)
  BY <1>1, <1>2
<1>4. \A l \in 1..n : l \in 1..Len(c) /\ l + 1 \in 1..Len(c)
  BY <1>3
<1>5. d = [l \in 1..n |-> IF l < j THEN c[l] ELSE c[l + 1]]
  BY <1>2 DEF Lacking
<1>6. \A l \in 1..n : d[l] = IF l < j THEN c[l] ELSE c[l + 1]
  BY <1>5
<1>7. \A l \in 1..n : d[l] \in History!Thing
  BY <1>1, <1>4, <1>6
<1>8. d = [l \in 1..n |-> d[l]]
  BY <1>5
<1>9. d \in Seq(History!Thing) /\ Len(d) = n
  BY <1>3, <1>7, <1>8, IsSequence
<1>10. EachOnce(d)
  <2>1. ASSUME NEW k \in 1..n, NEW l \in 1..n, d[k] = d[l] PROVE k = l
    <3>1. d[k] = IF k < j THEN c[k] ELSE c[k + 1]
      BY <1>6
    <3>2. d[l] = IF l < j THEN c[l] ELSE c[l + 1]
      BY <1>6
    <3>3. (IF k < j THEN k ELSE k + 1) = (IF l < j THEN l ELSE l + 1)
      BY <1>4, <2>1, <3>1, <3>2 DEF EachOnce
    <3> QED BY <3>3
  <2> QED BY <1>9, <2>1 DEF EachOnce
<1>11. Things(d) = Things(c) \ {c[j]}
  <2>1. ASSUME NEW l \in 1..n PROVE d[l] \in Things(c) \ {c[j]}
    <3>1. d[l] = IF l < j THEN c[l] ELSE c[l + 1]
      BY <1>6
    <3>2. CASE l < j
      BY <1>4, <3>1, <3>2 DEF Things, EachOnce
    <3>3. CASE ~(l < j)
      <4>1. l + 1 # j
        BY <3>3
      <4> QED BY <1>4, <3>1, <3>3, <4>1 DEF Things, EachOnce
    <3> QED BY <3>2, <3>3
  <2>2. ASSUME NEW k \in 1..Len(c), c[k] # c[j] PROVE c[k] \in Things(d)
    <3>1. k # j
      BY <2>2
    <3>2. CASE k < j
      <4>1. k \in 1..n /\ d[k] = c[k]
        BY <1>3, <1>6, <3>2
      <4> QED BY <1>9, <4>1 DEF Things
    <3>3. CASE k > j
      <4>1. k - 1 \in 1..n /\ ~(k - 1 < j) /\ k - 1 + 1 = k
        BY <1>3, <3>3
      <4>2. d[k - 1] = c[k]
        BY <1>6, <4>1
      <4> QED BY <1>9, <4>1, <4>2 DEF Things
    <3> QED BY <3>1, <3>2, <3>3
  <2> QED BY <1>9, <2>1, <2>2 DEF Things
<1> QED BY <1>2, <1>6, <1>9, <1>10, <1>11 DEF LackingAt

(* The links when the j-th thing is freed.                                 *)
LEMMA StrungWithout ==
  ASSUME NEW next, NEW c, Strung(next, c), NEW j \in 1..Len(c), NEW other, other \in [History!Links -> History!Links],
         \A a \in History!Links : other[a] = IF a = c[j] THEN 0
                                             ELSE IF j > 1 /\ a = c[j - 1] THEN next[c[j]] ELSE next[a]
  PROVE  Strung(other, Lacking(c, j))
<1>1. c \in Seq(History!Thing) /\ EachOnce(c)
  BY DEF Strung
<1>2. Len(c) \in Nat /\ \A l \in 1..Len(c) : c[l] \in History!Links
  BY <1>1, ThingsAre
<1>3. PICK d : d = Lacking(c, j)
  OBVIOUS
<1>4. LackingAt(d, c, j)
  BY <1>1, <1>3, LackingIs
<1>5. Len(d) = Len(c) - 1 /\ \A l \in 1..Len(d) : d[l] = IF l < j THEN c[l] ELSE c[l + 1]
  BY <1>4 DEF LackingAt
<1>6. \A k, l \in 1..Len(c) : k # l => c[k] # c[l]
  BY <1>1 DEF EachOnce
<1>7. ASSUME NEW l \in 1..Len(d) PROVE other[d[l]] = IF l = Len(d) THEN 0 ELSE d[l + 1]
  <2>1. CASE l < j - 1
    <3>1. l \in 1..Len(c) /\ l # j /\ d[l] = c[l] /\ l # Len(c) /\ l < j /\ l + 1 < j /\ l + 1 \in 1..Len(d) /\ l # Len(d)
      BY <1>2, <1>5, <2>1
    <3>2. j > 1 => j - 1 \in 1..Len(c) /\ l # j - 1
      BY <1>2, <2>1
    <3>3. other[c[l]] = next[c[l]]
      BY <1>2, <1>6, <3>1, <3>2
    <3>4. next[c[l]] = c[l + 1]
      BY <3>1 DEF Strung
    <3>5. d[l + 1] = c[l + 1]
      BY <1>5, <3>1
    <3> QED BY <3>1, <3>3, <3>4, <3>5
  <2>2. CASE l = j - 1
    <3>1. l \in 1..Len(c) /\ l # j /\ d[l] = c[l] /\ l < j /\ j > 1
      BY <1>2, <1>5, <2>2
    <3>2. other[c[l]] = next[c[j]]
      BY <1>2, <1>6, <2>2, <3>1
    <3>3. next[c[j]] = IF j = Len(c) THEN 0 ELSE c[j + 1]
      BY DEF Strung
    <3>4. j = Len(c) <=> l = Len(d)
      BY <1>2, <1>5, <2>2
    <3>5. l # Len(d) => l + 1 \in 1..Len(d) /\ l + 1 = j
      BY <1>2, <1>5, <2>2
    <3>6. l # Len(d) => d[l + 1] = c[j + 1]
      BY <1>5, <3>5
    <3> QED BY <3>1, <3>2, <3>3, <3>4, <3>6
  <2>3. CASE l >= j
    <3>1. l + 1 \in 1..Len(c) /\ l + 1 # j /\ d[l] = c[l + 1] /\ (l + 1 = Len(c) <=> l = Len(d))
      BY <1>2, <1>5, <2>3
    <3>2. j > 1 => j - 1 \in 1..Len(c) /\ l + 1 # j - 1
      BY <1>2, <2>3
    <3>3. other[c[l + 1]] = next[c[l + 1]]
      BY <1>2, <1>6, <3>1, <3>2
    <3>4. PICK k : k = l + 1
      OBVIOUS
    <3>5. next[c[k]] = IF k = Len(c) THEN 0 ELSE c[k + 1]
      BY <3>1, <3>4 DEF Strung
    <3>6. l # Len(d) => k \in 1..Len(d) /\ ~(k < j)
      BY <1>2, <1>5, <2>3, <3>4
    <3>7. l # Len(d) => d[k] = c[k + 1]
      BY <1>5, <3>6
    <3> QED BY <3>1, <3>3, <3>4, <3>5, <3>7
  <2> QED BY <1>2, <1>5, <2>1, <2>2, <2>3
<1>8. ASSUME NEW a \in History!Links, a \notin Things(d) PROVE other[a] = 0
  <2>1. Things(d) = Things(c) \ {c[j]}
    BY <1>4 DEF LackingAt
  <2>2. CASE a = c[j]
    BY <2>2
  <2>3. CASE a # c[j]
    <3>1. a \notin Things(c)
      BY <1>8, <2>1, <2>3
    <3>2. next[a] = 0
      BY <3>1 DEF Strung
    <3>3. j > 1 => a # c[j - 1]
      <4>1. j > 1 => j - 1 \in 1..Len(c)
        BY <1>2
      <4> QED BY <3>1, <4>1 DEF Things
    <3> QED BY <2>3, <3>2, <3>3
  <2> QED BY <2>2, <2>3
<1>9. d \in Seq(History!Thing) /\ EachOnce(d)
  BY <1>4 DEF LackingAt
<1> QED BY <1>3, <1>7, <1>8, <1>9 DEF Strung

(* d is c with x behind it.                                                *)
MoreAt(d, c, x) ==
  /\ d \in Seq(History!Thing) /\ Len(d) = Len(c) + 1 /\ EachOnce(d) /\ Things(d) = Things(c) \cup {x}
  /\ d[Len(c) + 1] = x /\ \A l \in 1..Len(c) : d[l] = c[l]

(* The sequence with one thing more.                                       *)
LEMMA MoreIs ==
  ASSUME NEW c \in Seq(History!Thing), EachOnce(c), NEW x \in History!Thing, x \notin Things(c),
         NEW d, d = Append(c, x)
  PROVE  MoreAt(d, c, x)
<1>1. Len(c) \in Nat
  BY ThingsAre
<1>2. d \in Seq(History!Thing) /\ Len(d) = Len(c) + 1 /\ d[Len(c) + 1] = x /\ \A l \in 1..Len(c) : d[l] = c[l]
  OBVIOUS
<1>3. \A l \in 1..Len(d) : l \in 1..Len(c) \/ l = Len(c) + 1
  BY <1>1, <1>2
<1>4. \A l \in 1..Len(c) : c[l] # x /\ l \in 1..Len(d) /\ Len(c) + 1 \in 1..Len(d)
  BY <1>1, <1>2 DEF Things
<1>5. EachOnce(d)
  BY <1>2, <1>3, <1>4 DEF EachOnce
<1>6. Len(c) + 1 \in 1..Len(d) /\ \A l \in 1..Len(c) : l \in 1..Len(d)
  BY <1>1, <1>2
<1>7. Things(d) = Things(c) \cup {x}
  <2>1. \A l \in 1..Len(d) : d[l] \in Things(c) \cup {x}
    BY <1>2, <1>3 DEF Things
  <2>2. x \in Things(d) /\ \A l \in 1..Len(c) : c[l] \in Things(d)
    BY <1>2, <1>6 DEF Things
  <2>3. Things(d) \subseteq Things(c) \cup {x}
    BY <2>1 DEF Things
  <2>4. Things(c) \subseteq Things(d)
    BY <2>2 DEF Things
  <2> QED BY <2>2, <2>3, <2>4
<1> QED BY <1>2, <1>5, <1>7 DEF MoreAt

(* The links when it is linked behind the last one.                        *)
LEMMA StrungLonger ==
  ASSUME NEW next, NEW c, Strung(next, c), NEW x \in History!Thing, x \notin Things(c),
         NEW other, other = IF Final(c) = 0 THEN next ELSE [next EXCEPT ![Final(c)] = x]
  PROVE  Strung(other, Append(c, x))
<1>1. c \in Seq(History!Thing) /\ EachOnce(c) /\ next \in [History!Links -> History!Links]
  BY DEF Strung
<1>2. /\ Len(c) \in Nat /\ Final(c) \in History!Links
      /\ \A l \in 1..Len(c) : c[l] \in History!Links /\ c[l] # 0 /\ c[l] \in Things(c)
  BY <1>1, ThingsAre
<1>3. x \in History!Links /\ x # 0
  BY HistoryAssumption DEF History!Thing, History!Links
<1>4. PICK d : d = Append(c, x)
  OBVIOUS
<1>5. /\ d \in Seq(History!Thing) /\ Len(d) = Len(c) + 1 /\ EachOnce(d) /\ Things(d) = Things(c) \cup {x}
      /\ d[Len(c) + 1] = x /\ \A l \in 1..Len(c) : d[l] = c[l]
  <2>1. MoreAt(d, c, x)
    BY <1>1, <1>4, MoreIs
  <2> QED BY <2>1 DEF MoreAt
<1>6. Final(c) = 0 <=> Len(c) = 0
  BY <1>2 DEF Final
<1>7. Len(c) # 0 => Final(c) = c[Len(c)] /\ Len(c) \in 1..Len(c)
  BY <1>2 DEF Final
<1>8. other \in [History!Links -> History!Links]
  BY <1>1, <1>2, <1>3
<1>9. ASSUME NEW a \in History!Links PROVE other[a] = IF Len(c) # 0 /\ a = c[Len(c)] THEN x ELSE next[a]
  BY <1>1, <1>2, <1>6, <1>7
<1>10. ASSUME NEW l \in 1..Len(d) PROVE other[d[l]] = IF l = Len(d) THEN 0 ELSE d[l + 1]
  <2>1. CASE l = Len(d)
    <3>1. d[l] = x /\ next[x] = 0
      BY <1>3, <1>5, <2>1 DEF Strung
    <3>2. Len(c) # 0 => x # c[Len(c)]
      BY <1>2, <1>7
    <3> QED BY <1>3, <1>9, <2>1, <3>1, <3>2
  <2>2. CASE l = Len(c)
    <3>1. l \in 1..Len(c) /\ d[l] = c[l] /\ l # Len(d) /\ d[l + 1] = x /\ Len(c) # 0
      BY <1>2, <1>5, <2>2
    <3> QED BY <1>2, <1>9, <2>2, <3>1
  <2>3. CASE l < Len(c)
    <3>1. l \in 1..Len(c) /\ l + 1 \in 1..Len(c) /\ l # Len(d) /\ l # Len(c)
      BY <1>2, <1>5, <2>3
    <3>2. c[l] # c[Len(c)]
      BY <1>1, <1>2, <1>7, <3>1 DEF EachOnce
    <3>3. other[c[l]] = next[c[l]]
      BY <1>2, <1>9, <3>1, <3>2
    <3>4. next[c[l]] = c[l + 1]
      BY <3>1 DEF Strung
    <3> QED BY <1>5, <3>1, <3>3, <3>4
  <2> QED BY <1>2, <1>5, <2>1, <2>2, <2>3
<1>11. ASSUME NEW a \in History!Links, a \notin Things(d) PROVE other[a] = 0
  <2>1. a \notin Things(c)
    BY <1>5, <1>11
  <2>2. Len(c) # 0 => a # c[Len(c)]
    BY <1>2, <1>7, <2>1
  <2>3. next[a] = 0
    BY <2>1 DEF Strung
  <2> QED BY <1>9, <2>2, <2>3
<1> QED BY <1>4, <1>5, <1>8, <1>10, <1>11 DEF Strung

-----------------------------------------------------------------------------
(* What the calls make of the history.                                     *)

(* s is a history with these fields.                                       *)
Record == [next : [History!Links -> History!Links], list_root : History!Links, list_end : History!Links,
           count : Int, fault : BOOLEAN]

Fields(s, a, r, e, n) ==
  s \in Record /\ s.next = a /\ s.list_root = r /\ s.list_end = e /\ s.count = n /\ s.fault = FALSE

(* s is a history with the chain c.                                        *)
Keeps(s, c) == Fields(s, s.next, First(c), Final(c), Len(c)) /\ Strung(s.next, c)

(* The links are set.                                                      *)
LEMMA NextSet ==
  ASSUME NEW s, NEW a, NEW r, NEW e, NEW n, Fields(s, a, r, e, n),
         NEW x \in [History!Links -> History!Links]
  PROVE  Fields([s EXCEPT !.next = x], x, r, e, n)
BY DEF Fields, Record

(* The end is set.                                                         *)
LEMMA EndSet ==
  ASSUME NEW s, NEW a, NEW r, NEW e, NEW n, Fields(s, a, r, e, n),
         NEW x \in History!Links
  PROVE  Fields([s EXCEPT !.list_end = x], a, r, x, n)
BY DEF Fields, Record

(* The count is set.                                                       *)
LEMMA CountSet ==
  ASSUME NEW s, NEW a, NEW r, NEW e, NEW n, Fields(s, a, r, e, n),
         NEW x \in Int
  PROVE  Fields([s EXCEPT !.count = x], a, r, e, x)
BY DEF Fields, Record

(* The root and the count are set.                                         *)
LEMMA RootCountSet ==
  ASSUME NEW s, NEW a, NEW r, NEW e, NEW n, Fields(s, a, r, e, n),
         NEW x \in History!Links, NEW y \in Int
  PROVE  Fields([s EXCEPT !.list_root = x, !.count = y], a, x, e, y)
BY DEF Fields, Record

(* The root and the links are set.                                         *)
LEMMA RootNextSet ==
  ASSUME NEW s, NEW a, NEW r, NEW e, NEW n, Fields(s, a, r, e, n),
         NEW x \in History!Links,
         NEW y \in [History!Links -> History!Links]
  PROVE  Fields([s EXCEPT !.list_root = x, !.next = y], y, x, e, n)
BY DEF Fields, Record

(* Both ends are set.                                                      *)
LEMMA EndsSet ==
  ASSUME NEW s, NEW a, NEW r, NEW e, NEW n, Fields(s, a, r, e, n),
         NEW x \in History!Links, NEW y \in History!Links
  PROVE  Fields([s EXCEPT !.list_root = x, !.list_end = y], a, x, y, n)
BY DEF Fields, Record

(* Its fields.                                                             *)
LEMMA KeepsIs ==
  ASSUME NEW s, NEW c, Keeps(s, c)
  PROVE  /\ s.list_root = First(c) /\ s.list_end = Final(c) /\ s.count = Len(c) /\ ~s.fault
         /\ Fields(s, s.next, First(c), Final(c), Len(c))
         /\ Strung(s.next, c) /\ c \in Seq(History!Thing) /\ EachOnce(c) /\ Len(c) \in Nat
         /\ s.next \in [History!Links -> History!Links]
<1>1. Fields(s, s.next, First(c), Final(c), Len(c)) /\ Strung(s.next, c)
  BY DEF Keeps
<1>2. s.list_root = First(c) /\ s.list_end = Final(c) /\ s.count = Len(c) /\ ~s.fault
  BY <1>1 DEF Fields
<1>3. c \in Seq(History!Thing) /\ EachOnce(c) /\ s.next \in [History!Links -> History!Links]
  BY <1>1 DEF Strung
<1>4. Len(c) \in Nat
  BY <1>3
<1> QED BY <1>1, <1>2, <1>3, <1>4

(* Its ends.                                                               *)
LEMMA EndsAre ==
  ASSUME NEW c \in Seq(History!Thing)
  PROVE  /\ Len(c) = 0 => First(c) = 0 /\ Final(c) = 0
         /\ Len(c) # 0 => First(c) = c[1] /\ Final(c) = c[Len(c)] /\ First(c) # 0 /\ Final(c) # 0
                          /\ 1 \in 1..Len(c) /\ Len(c) \in 1..Len(c)
<1>1. Len(c) \in Nat /\ \A l \in 1..Len(c) : c[l] # 0
  BY ThingsAre
<1>2. Len(c) # 0 => 1 \in 1..Len(c) /\ Len(c) \in 1..Len(c)
  BY <1>1
<1> QED BY <1>1, <1>2 DEF First, Final

(* The items of the chain.                                                 *)
LEMMA ChainThings ==
  ASSUME NEW next, NEW c, Strung(next, c), NEW a, a = First(c)
  PROVE  History!ToSet(History!Reach(next, a)) = Things(c)
<1>1. History!Reach(next, a) = c
  BY ReachIs
<1>2. DOMAIN c = 1..Len(c)
  BY ThingsAre DEF Strung
<1> QED BY <1>1, <1>2 DEF History!ToSet, Things

(* The item before the first, and before one that is not there, is NULL.   *)
LEMMA NoneBefore ==
  ASSUME NEW s, NEW c, Keeps(s, c), NEW x \in History!Thing, x \notin Things(c) \/ x = First(c)
  PROVE  History!Find_One_Before(s, x) = 0
<1>1. s.list_root = First(c) /\ Strung(s.next, c) /\ c \in Seq(History!Thing)
  BY KeepsIs
<1>2. History!ToSet(History!Reach(s.next, s.list_root)) = Things(c)
  BY <1>1, ChainThings
<1>3. CASE x = First(c)
  BY <1>1, <1>3 DEF History!Find_One_Before
<1>4. CASE x \notin Things(c)
  <2>1. ASSUME NEW l \in 1..Len(c), s.next[c[l]] = x PROVE FALSE
    <3>1. s.next[c[l]] = IF l = Len(c) THEN 0 ELSE c[l + 1]
      BY <1>1 DEF Strung
    <3>2. x # 0
      BY HistoryAssumption DEF History!Thing
    <3>3. l # Len(c) => l + 1 \in 1..Len(c)
      BY <1>1
    <3> QED BY <1>4, <2>1, <3>1, <3>2, <3>3 DEF Things
  <2>2. \A a \in Things(c) : s.next[a] # x
    BY <2>1 DEF Things
  <2>3. {a \in Things(c) : s.next[a] = x} = {}
    BY <2>2
  <2> QED BY <1>2, <2>3 DEF History!Find_One_Before
<1> QED BY <1>3, <1>4

(* Before any other is the one before.                                     *)
LEMMA OneBefore ==
  ASSUME NEW s, NEW c, Keeps(s, c), NEW j \in 1..Len(c), j # 1
  PROVE  History!Find_One_Before(s, c[j]) = c[j - 1]
<1>1. s.list_root = First(c) /\ Strung(s.next, c) /\ c \in Seq(History!Thing) /\ EachOnce(c) /\ Len(c) \in Nat
  BY KeepsIs
<1>2. History!ToSet(History!Reach(s.next, s.list_root)) = Things(c)
  BY <1>1, ChainThings
<1>3. \A l \in 1..Len(c) : c[l] # 0
  BY <1>1, ThingsAre
<1>4. PICK k : k = j - 1
  OBVIOUS
<1>5. k \in 1..Len(c) /\ k # Len(c) /\ k + 1 = j /\ 1 \in 1..Len(c) /\ Len(c) # 0
  BY <1>1, <1>4
<1>6. s.next[c[k]] = c[j] /\ c[k] \in Things(c)
  BY <1>1, <1>5 DEF Strung, Things
<1>7. ASSUME NEW l \in 1..Len(c), s.next[c[l]] = c[j] PROVE c[l] = c[k]
  <2>1. s.next[c[l]] = IF l = Len(c) THEN 0 ELSE c[l + 1]
    BY <1>1 DEF Strung
  <2>2. l # Len(c)
    BY <1>3, <1>7, <2>1
  <2>3. l + 1 \in 1..Len(c) /\ c[l + 1] = c[j]
    BY <1>1, <1>7, <2>1, <2>2
  <2>4. l + 1 = j
    BY <1>1, <2>3 DEF EachOnce
  <2>5. l = k
    BY <1>5, <2>4
  <2> QED BY <2>5
<1>8. \A a \in Things(c) : s.next[a] = c[j] => a = c[k]
  BY <1>7 DEF Things
<1>9. {a \in Things(c) : s.next[a] = c[j]} = {c[k]}
  BY <1>6, <1>8
<1>10. s.list_root # c[j]
  BY <1>1, <1>5, EndsAre DEF EachOnce
<1>11. (CHOOSE a \in {c[k]} : TRUE) = c[k]
  OBVIOUS
<1> QED BY <1>2, <1>4, <1>9, <1>10, <1>11 DEF History!Find_One_Before

(* The ends when the j-th thing is gone.                                   *)
LEMMA EndsWithout ==
  ASSUME NEW next, NEW c, Strung(next, c), NEW j \in 1..Len(c), NEW d, d = Lacking(c, j)
  PROVE  /\ First(d) = IF j = 1 THEN next[c[1]] ELSE First(c)
         /\ Final(d) = IF j = Len(c) THEN (IF j = 1 THEN 0 ELSE c[j - 1]) ELSE Final(c)
         /\ Len(d) = Len(c) - 1
<1>1. c \in Seq(History!Thing) /\ EachOnce(c) /\ Len(c) \in Nat /\ Len(c) # 0
  BY DEF Strung
<1>2. LackingAt(d, c, j)
  BY <1>1, LackingIs
<1>3. /\ d \in Seq(History!Thing) /\ Len(d) = Len(c) - 1
      /\ \A l \in 1..Len(d) : d[l] = IF l < j THEN c[l] ELSE c[l + 1]
  BY <1>2 DEF LackingAt
<1>4. 1 \in 1..Len(c) /\ First(c) = c[1] /\ Final(c) = c[Len(c)]
  BY <1>1, EndsAre
<1>5. next[c[1]] = IF 1 = Len(c) THEN 0 ELSE c[1 + 1]
  BY <1>4 DEF Strung
<1>6. CASE Len(c) = 1
  <2>1. Len(d) = 0 /\ j = 1
    BY <1>3, <1>6
  <2> QED BY <1>3, <1>5, <1>6, <2>1, EndsAre
<1>7. CASE Len(c) # 1
  <2>1. Len(d) \in Nat /\ Len(d) # 0 /\ 1 \in 1..Len(d) /\ Len(d) \in 1..Len(d) /\ Len(d) + 1 = Len(c)
    BY <1>1, <1>3, <1>7
  <2>2. First(d) = d[1] /\ Final(d) = d[Len(d)]
    BY <1>3, <2>1, EndsAre
  <2>3. d[1] = (IF 1 < j THEN c[1] ELSE c[1 + 1])
    BY <1>3, <2>1
  <2>4. d[Len(d)] = (IF Len(d) < j THEN c[Len(d)] ELSE c[Len(d) + 1])
    BY <1>3, <2>1
  <2>5. First(d) = IF j = 1 THEN next[c[1]] ELSE First(c)
    BY <1>4, <1>5, <1>7, <2>2, <2>3
  <2>6. Len(d) < j <=> j = Len(c)
    BY <1>1, <2>1
  <2>7. j = Len(c) => j - 1 = Len(d) /\ j # 1
    BY <1>1, <1>7, <2>1
  <2>8. Final(d) = IF j = Len(c) THEN (IF j = 1 THEN 0 ELSE c[j - 1]) ELSE Final(c)
    BY <1>4, <2>1, <2>2, <2>4, <2>6, <2>7
  <2> QED BY <1>3, <2>5, <2>8
<1> QED BY <1>6, <1>7

(* A history that has lost the j-th thing of its chain.                    *)
LEMMA KeepsRest ==
  ASSUME NEW s, NEW c, Keeps(s, c), NEW j \in 1..Len(c), NEW other, other \in [History!Links -> History!Links],
         \A a \in History!Links : other[a] = IF a = c[j] THEN 0
                                             ELSE IF j > 1 /\ a = c[j - 1] THEN s.next[c[j]] ELSE s.next[a],
         NEW t, NEW r, NEW e, NEW n, Fields(t, other, r, e, n), r = IF j = 1 THEN s.next[c[1]] ELSE First(c),
         e = IF j = Len(c) THEN (IF j = 1 THEN 0 ELSE c[j - 1]) ELSE Final(c), n = Len(c) - 1
  PROVE  Keeps(t, Lacking(c, j))
<1>1. PICK next : next = s.next
  OBVIOUS
<1>2. Strung(next, c)
  BY <1>1, KeepsIs
<1>3. \A a \in History!Links : other[a] = IF a = c[j] THEN 0
                                          ELSE IF j > 1 /\ a = c[j - 1] THEN next[c[j]] ELSE next[a]
  BY <1>1
<1>4. Strung(other, Lacking(c, j))
  BY <1>2, <1>3, StrungWithout
<1>5. PICK d : d = Lacking(c, j)
  OBVIOUS
<1>6. /\ First(d) = IF j = 1 THEN next[c[1]] ELSE First(c)
      /\ Final(d) = IF j = Len(c) THEN (IF j = 1 THEN 0 ELSE c[j - 1]) ELSE Final(c)
      /\ Len(d) = Len(c) - 1
  BY <1>2, <1>5, EndsWithout
<1>7. r = First(d) /\ e = Final(d) /\ n = Len(d)
  BY <1>1, <1>6
<1>8. t.next = other
  BY DEF Fields
<1>9. Fields(t, t.next, First(d), Final(d), Len(d))
  BY <1>7, <1>8
<1> QED BY <1>4, <1>5, <1>8, <1>9 DEF Keeps

(* One that is counted down.                                               *)
LEMMA CountDownIs ==
  ASSUME NEW s, NEW a, NEW r, NEW e, NEW n, Fields(s, a, r, e, n), n \in Nat, n # 0, NEW k, k = n - 1
  PROVE  Fields(History!CountDown(s), a, r, e, k)
<1>1. s.count = n /\ s.count # 0 /\ k \in Int
  BY DEF Fields
<1>2. History!CountDown(s) = [s EXCEPT !.count = k]
  BY <1>1 DEF History!CountDown
<1> QED BY <1>1, <1>2, CountSet

(* The first item is taken out.                                            *)
LEMMA DelRootIs ==
  ASSUME NEW s, NEW a, NEW r, NEW e, NEW n, Fields(s, a, r, e, n), NEW other, other = [a EXCEPT ![r] = 0]
  PROVE  Fields(History!delRoot(s), other, a[r], e, n)
<1>1. /\ s.next = a /\ s.list_root = r /\ a \in [History!Links -> History!Links] /\ r \in History!Links
      /\ 0 \in History!Links
  BY HistoryAssumption DEF Fields, Record, History!Links
<1>2. other \in [History!Links -> History!Links] /\ a[r] \in History!Links
  BY <1>1
<1>3. PICK x : x = a[r]
  OBVIOUS
<1>4. History!delRoot(s) = [s EXCEPT !.list_root = x, !.next = other]
  BY <1>1, <1>3 DEF History!delRoot
<1>5. Fields([s EXCEPT !.list_root = x, !.next = other], other, x, e, n)
  BY <1>2, <1>3, RootNextSet
<1> QED BY <1>3, <1>4, <1>5

(* A pop takes the first item, if there is one.                            *)
LEMMA PopIs ==
  ASSUME NEW s, NEW c, Keeps(s, c)
  PROVE  Keeps(History!Pop_Off(s), IF Len(c) = 0 THEN c ELSE Lacking(c, 1))
<1>1. /\ c \in Seq(History!Thing) /\ EachOnce(c) /\ Len(c) \in Nat
      /\ s.next \in [History!Links -> History!Links]
      /\ s.list_root = First(c) /\ s.list_end = Final(c)
  BY KeepsIs
<1>0. PICK next : next = s.next
  OBVIOUS
<1>2. Fields(s, next, First(c), Final(c), Len(c)) /\ Strung(next, c)
  BY <1>0, KeepsIs
<1>3. 0 \in History!Links
  BY <1>1, ThingsAre
<1>4. PICK t : t = IF s.list_end = s.list_root THEN [s EXCEPT !.list_end = 0] ELSE s
  OBVIOUS
<1>5. PICK e : e = IF Final(c) = First(c) THEN 0 ELSE Final(c)
  OBVIOUS
<1>6. Fields(t, next, First(c), e, Len(c))
  <2>1. Fields([s EXCEPT !.list_end = 0], next, First(c), 0, Len(c))
    BY <1>2, <1>3, EndSet
  <2> QED BY <1>1, <1>2, <1>4, <1>5, <2>1
<1>7. CASE Len(c) = 0
  <2>1. First(c) = 0 /\ Final(c) = 0 /\ e = Final(c)
    BY <1>1, <1>5, <1>7, EndsAre
  <2>2. History!Pop_Off(s) = t
    BY <1>1, <1>4, <2>1 DEF History!Pop_Off
  <2>3. t.next = next
    BY <1>6 DEF Fields
  <2>4. Keeps(t, c)
    BY <1>2, <1>6, <2>1, <2>3 DEF Keeps
  <2> QED BY <1>7, <2>2, <2>4
<1>8. CASE Len(c) # 0
  <2>1. First(c) = c[1] /\ Final(c) = c[Len(c)] /\ First(c) # 0 /\ 1 \in 1..Len(c) /\ Len(c) \in 1..Len(c)
    BY <1>1, <1>8, EndsAre
  <2>2. c[1] = c[Len(c)] <=> 1 = Len(c)
    BY <1>1, <2>1 DEF EachOnce
  <2>3. e = IF 1 = Len(c) THEN 0 ELSE Final(c)
    BY <1>5, <2>1, <2>2
  <2>4. PICK other : other = [next EXCEPT ![First(c)] = 0]
    OBVIOUS
  <2>5. PICK x : x = next[First(c)]
    OBVIOUS
  <2>6. PICK u : u = History!delRoot(t)
    OBVIOUS
  <2>7. Fields(u, other, x, e, Len(c))
    BY <1>6, <2>4, <2>5, <2>6, DelRootIs
  <2>8. PICK n : n = Len(c) - 1
    OBVIOUS
  <2>9. PICK v : v = History!CountDown(u)
    OBVIOUS
  <2>10. Fields(v, other, x, e, n)
    BY <1>1, <1>8, <2>7, <2>8, <2>9, CountDownIs
  <2>11. History!Pop_Off(s) = v
    BY <1>1, <1>4, <2>1, <2>6, <2>9 DEF History!Pop_Off
  <2>12. other \in [History!Links -> History!Links] /\ \A a \in History!Links : other[a] = IF a = c[1] THEN 0 ELSE next[a]
    BY <1>0, <1>1, <1>3, <2>1, <2>4
  <2>13. PICK j : j = 1
    OBVIOUS
  <2>14. \A a \in History!Links : other[a] = IF a = c[j] THEN 0
                                            ELSE IF j > 1 /\ a = c[j - 1] THEN s.next[c[j]] ELSE s.next[a]
    BY <1>0, <2>12, <2>13
  <2>15. x = IF j = 1 THEN s.next[c[1]] ELSE First(c)
    BY <1>0, <2>1, <2>5, <2>13
  <2>16. e = IF j = Len(c) THEN (IF j = 1 THEN 0 ELSE c[j - 1]) ELSE Final(c)
    BY <2>3, <2>13
  <2>17. j \in 1..Len(c)
    BY <2>1, <2>13
  <2>18. Keeps(v, Lacking(c, j))
    BY <2>8, <2>10, <2>12, <2>14, <2>15, <2>16, <2>17, KeepsRest
  <2> QED BY <1>8, <2>11, <2>13, <2>18
<1> QED BY <1>7, <1>8

(* The history with an item linked behind its last one.                    *)
LEMMA KeepsMore ==
  ASSUME NEW s, NEW c, Keeps(s, c), NEW x \in History!Thing, x \notin Things(c), NEW t,
         NEW other, NEW r, NEW n, Fields(t, other, r, x, n),
         other = IF Final(c) = 0 THEN s.next ELSE [s.next EXCEPT ![Final(c)] = x],
         r = IF First(c) = 0 THEN x ELSE First(c), n = Len(c) + 1
  PROVE  Keeps(t, Append(c, x))
<1>1. c \in Seq(History!Thing) /\ EachOnce(c) /\ Len(c) \in Nat
  BY KeepsIs
<1>2. PICK next : next = s.next
  OBVIOUS
<1>3. Strung(next, c)
  BY <1>2, KeepsIs
<1>4. other = IF Final(c) = 0 THEN next ELSE [next EXCEPT ![Final(c)] = x]
  BY <1>2
<1>5. Strung(other, Append(c, x))
  BY <1>3, <1>4, StrungLonger
<1>6. PICK d : d = Append(c, x)
  OBVIOUS
<1>7. MoreAt(d, c, x)
  BY <1>1, <1>6, MoreIs
<1>8. d \in Seq(History!Thing) /\ Len(d) = Len(c) + 1 /\ d[Len(c) + 1] = x /\ \A l \in 1..Len(c) : d[l] = c[l]
  BY <1>7 DEF MoreAt
<1>9. Len(d) # 0
  BY <1>1, <1>8
<1>10. First(d) = d[1] /\ Final(d) = x
  BY <1>8, <1>9, EndsAre
<1>11. d[1] = IF First(c) = 0 THEN x ELSE First(c)
  <2>1. CASE Len(c) = 0
    <3>1. First(c) = 0
      BY <1>1, <2>1, EndsAre
    <3>2. Len(c) + 1 = 1
      BY <2>1
    <3> QED BY <1>8, <3>1, <3>2
  <2>2. CASE Len(c) # 0
    <3>1. First(c) = c[1] /\ First(c) # 0 /\ 1 \in 1..Len(c)
      BY <1>1, <2>2, EndsAre
    <3> QED BY <1>8, <3>1
  <2> QED BY <2>1, <2>2
<1>12. r = First(d) /\ n = Len(d)
  BY <1>8, <1>10, <1>11
<1>13. t.next = other
  BY DEF Fields
<1>14. Fields(t, t.next, First(d), Final(d), Len(d))
  BY <1>10, <1>12, <1>13
<1> QED BY <1>5, <1>6, <1>13, <1>14 DEF Keeps

(* A push appends the item, and takes the first one if there are too many. *)
LEMMA PushIs ==
  ASSUME NEW s, NEW c, Keeps(s, c), NEW x \in History!Thing, x \notin Things(c)
  PROVE  Keeps(History!Push_Back(s, x), IF Len(c) + 1 > Limit THEN Lacking(Append(c, x), 1) ELSE Append(c, x))
<1>1. /\ c \in Seq(History!Thing) /\ EachOnce(c) /\ Len(c) \in Nat
      /\ s.next \in [History!Links -> History!Links] /\ s.list_end = Final(c)
      /\ Final(c) \in History!Links /\ First(c) \in History!Links
  BY KeepsIs, ThingsAre
<1>2. PICK next : next = s.next
  OBVIOUS
<1>3. Fields(s, next, First(c), Final(c), Len(c))
  BY <1>2, KeepsIs
<1>4. PICK longer : longer = [next EXCEPT ![Final(c)] = x]
  OBVIOUS
<1>5. PICK other : other = IF Final(c) = 0 THEN next ELSE longer
  OBVIOUS
<1>6. x \in History!Links
  BY HistoryAssumption DEF History!Thing, History!Links
<1>7. longer \in [History!Links -> History!Links]
  BY <1>1, <1>2, <1>4, <1>6
<1>8. PICK t1 : t1 = IF Final(c) = 0 THEN s ELSE [s EXCEPT !.next = longer]
  OBVIOUS
<1>9. Fields(t1, other, First(c), Final(c), Len(c))
  <2>1. Fields([s EXCEPT !.next = longer], longer, First(c), Final(c), Len(c))
    BY <1>3, <1>7, NextSet
  <2> QED BY <1>3, <1>5, <1>8, <2>1
<1>10. PICK t2 : t2 = [t1 EXCEPT !.list_end = x]
  OBVIOUS
<1>11. Fields(t2, other, First(c), x, Len(c))
  BY <1>6, <1>9, <1>10, EndSet
<1>12. History!newListHistoryItem(s, x) = t2
  BY <1>1, <1>2, <1>4, <1>8, <1>10 DEF History!newListHistoryItem
<1>13. PICK r : r = IF First(c) = 0 THEN x ELSE First(c)
  OBVIOUS
<1>14. PICK n : n = Len(c) + 1
  OBVIOUS
<1>15. PICK t : t = [t2 EXCEPT !.list_root = r, !.count = n]
  OBVIOUS
<1>16. r \in History!Links /\ n \in Int
  BY <1>1, <1>6, <1>13, <1>14
<1>17. Fields(t, other, r, x, n)
  BY <1>11, <1>15, <1>16, RootCountSet
<1>18. t2.list_root = First(c) /\ t2.count = Len(c)
  BY <1>11 DEF Fields
<1>19. t = [t2 EXCEPT !.list_root = IF @ = 0 THEN x ELSE @, !.count = @ + 1]
  BY <1>13, <1>14, <1>15, <1>18
<1>20. t.count = n
  BY <1>17 DEF Fields
<1>21. History!Push_Back(s, x) = IF Len(c) + 1 > Limit THEN History!Pop_Off(t) ELSE t
  BY <1>12, <1>14, <1>19, <1>20 DEF History!Push_Back
<1>22. Keeps(t, Append(c, x))
  BY <1>2, <1>4, <1>5, <1>13, <1>14, <1>17, KeepsMore
<1>23. PICK d : d = Append(c, x)
  OBVIOUS
<1>24. Len(d) # 0
  BY <1>1, <1>23
<1>25. Keeps(History!Pop_Off(t), IF Len(d) = 0 THEN d ELSE Lacking(d, 1))
  BY <1>22, <1>23, PopIs
<1>26. Keeps(History!Pop_Off(t), Lacking(d, 1))
  BY <1>24, <1>25
<1> QED BY <1>21, <1>22, <1>23, <1>26

(* The links when an item behind another is taken out.                     *)
LEMMA UnlinkedIs ==
  ASSUME NEW s, NEW c, Keeps(s, c), NEW j \in 1..Len(c), j # 1
  PROVE  \E other \in [History!Links -> History!Links] :
           /\ Fields(History!Unlinked(s, c[j]), other, First(c), Final(c), Len(c))
           /\ \A a \in History!Links : other[a] = IF a = c[j] THEN 0
                                                  ELSE IF j > 1 /\ a = c[j - 1] THEN s.next[c[j]] ELSE s.next[a]
<1>1. /\ c \in Seq(History!Thing) /\ EachOnce(c) /\ Len(c) \in Nat
      /\ s.next \in [History!Links -> History!Links] /\ s.list_root = First(c)
  BY KeepsIs
<1>2. PICK next : next = s.next
  OBVIOUS
<1>3. Fields(s, next, First(c), Final(c), Len(c))
  BY <1>2, KeepsIs
<1>4. PICK k : k = j - 1
  OBVIOUS
<1>5. k \in 1..Len(c) /\ k # j /\ 1 \in 1..Len(c) /\ Len(c) # 0 /\ j > 1
  BY <1>1, <1>4
<1>6. PICK b : b = c[k]
  OBVIOUS
<1>7. PICK x : x = c[j]
  OBVIOUS
<1>8. b \in History!Links /\ x \in History!Links /\ 0 \in History!Links /\ b # x /\ b # 0
  BY <1>1, <1>5, <1>6, <1>7, ThingsAre DEF EachOnce
<1>9. History!Find_One_Before(s, x) = b
  BY <1>4, <1>6, <1>7, OneBefore
<1>10. s.list_root # x
  BY <1>1, <1>5, <1>7, EndsAre DEF EachOnce
<1>11. PICK o1 : o1 = [next EXCEPT ![b] = next[x]]
  OBVIOUS
<1>12. PICK o2 : o2 = [o1 EXCEPT ![x] = 0]
  OBVIOUS
<1>13. o1 \in [History!Links -> History!Links] /\ o2 \in [History!Links -> History!Links]
  BY <1>1, <1>2, <1>8, <1>11, <1>12
<1>14. PICK t1 : t1 = [s EXCEPT !.next = o1]
  OBVIOUS
<1>15. PICK t2 : t2 = [t1 EXCEPT !.next = o2]
  OBVIOUS
<1>16. Fields(t1, o1, First(c), Final(c), Len(c))
  BY <1>3, <1>13, <1>14, NextSet
<1>17. Fields(t2, o2, First(c), Final(c), Len(c))
  BY <1>13, <1>15, <1>16, NextSet
<1>18. t1.next = o1 /\ s.next = next
  BY <1>2, <1>16 DEF Fields
<1>19. [s EXCEPT !.next[b] = s.next[x], !.next[x] = 0] = t2
  <2>1. t1 = [s EXCEPT !.next[b] = s.next[x]]
    BY <1>2, <1>11, <1>14
  <2>2. t2 = [t1 EXCEPT !.next[x] = 0]
    BY <1>12, <1>15, <1>18
  <2> QED BY <2>1, <2>2
<1>20. History!Unlinked(s, x) = t2
  BY <1>8, <1>9, <1>10, <1>19 DEF History!Unlinked
<1>21. \A a \in History!Links : o2[a] = IF a = x THEN 0 ELSE IF a = b THEN next[x] ELSE next[a]
  BY <1>1, <1>2, <1>8, <1>11, <1>12
<1>22. \A a \in History!Links : o2[a] = IF a = c[j] THEN 0
                                       ELSE IF j > 1 /\ a = c[j - 1] THEN s.next[c[j]] ELSE s.next[a]
  BY <1>2, <1>4, <1>5, <1>6, <1>7, <1>21
<1> QED BY <1>7, <1>13, <1>17, <1>20, <1>22

(* What a removal leaves: the chain, or the chain without one of its       *)
(* items.                                                                  *)
LEMMA RemoveIs ==
  ASSUME NEW s, NEW c, Keeps(s, c), NEW x \in History!Thing, First(c) # 0, ~(First(c) = x /\ Final(c) = x)
  PROVE  \/ Keeps(History!Remove_item(s, x), c)
         \/ \E j \in 1..Len(c) : Keeps(History!Remove_item(s, x), Lacking(c, j))
<1>1. /\ c \in Seq(History!Thing) /\ EachOnce(c) /\ Len(c) \in Nat
      /\ s.next \in [History!Links -> History!Links] /\ s.list_root = First(c) /\ s.list_end = Final(c)
      /\ Strung(s.next, c)
  BY KeepsIs
<1>2. PICK next : next = s.next
  OBVIOUS
<1>3. Fields(s, next, First(c), Final(c), Len(c))
  BY <1>2, KeepsIs
<1>4. Len(c) # 0
  BY <1>1, EndsAre
<1>5. First(c) = c[1] /\ Final(c) = c[Len(c)] /\ Final(c) # 0 /\ 1 \in 1..Len(c) /\ Len(c) \in 1..Len(c)
  BY <1>1, <1>4, EndsAre
<1>6. PICK n : n = Len(c) - 1
  OBVIOUS
<1>7. PICK t : t = History!Unlinked(s, x)
  OBVIOUS
<1>8. CASE x \notin Things(c)
  <2>1. x # First(c) /\ x # Final(c)
    BY <1>5, <1>8 DEF Things
  <2>2. History!Find_One_Before(s, x) = 0
    BY <1>8, NoneBefore
  <2>3. t = s
    BY <1>1, <1>7, <2>1, <2>2 DEF History!Unlinked
  <2>4. History!Remove_item(s, x) = s
    BY <1>1, <1>5, <1>7, <2>1, <2>3 DEF History!Remove_item
  <2> QED BY <2>4
<1>9. CASE x = First(c)
  <2>1. x # Final(c) /\ 1 # Len(c)
    BY <1>5, <1>9
  <2>2. t = History!delRoot(s)
    BY <1>1, <1>7, <1>9 DEF History!Unlinked
  <2>3. PICK other : other = [next EXCEPT ![First(c)] = 0]
    OBVIOUS
  <2>4. PICK r : r = next[First(c)]
    OBVIOUS
  <2>5. Fields(t, other, r, Final(c), Len(c))
    BY <1>3, <2>2, <2>3, <2>4, DelRootIs
  <2>6. r = c[2] /\ First(c) # c[2]
    <3>1. next[c[1]] = c[1 + 1]
      BY <1>1, <1>2, <1>5, <2>1 DEF Strung
    <3>2. 1 + 1 = 2 /\ 2 \in 1..Len(c) /\ 1 # 2
      <4>1. PICK k : k = Len(c)
        OBVIOUS
      <4>2. k \in Nat /\ k # 0 /\ k # 1
        BY <1>1, <1>4, <2>1, <4>1
      <4>3. 2 \in 1..k
        BY <4>2
      <4> QED BY <4>1, <4>3
    <3>3. c[1] # c[2]
      BY <1>1, <1>5, <3>2 DEF EachOnce
    <3> QED BY <1>5, <2>4, <3>1, <3>2, <3>3
  <2>7. t # s
    BY <1>1, <2>5, <2>6 DEF Fields
  <2>8. PICK v : v = History!CountDown(t)
    OBVIOUS
  <2>9. Fields(v, other, r, Final(c), n)
    BY <1>1, <1>4, <1>6, <2>5, <2>8, CountDownIs
  <2>10. History!Remove_item(s, x) = v
    BY <1>1, <1>5, <1>7, <2>1, <2>7, <2>8 DEF History!Remove_item
  <2>11. 0 \in History!Links
    BY <1>1, ThingsAre
  <2>12. other \in [History!Links -> History!Links] /\ \A a \in History!Links : other[a] = IF a = c[1] THEN 0 ELSE next[a]
    BY <1>1, <1>2, <1>5, <2>3, <2>11
  <2>13. PICK j : j = 1
    OBVIOUS
  <2>14. \A a \in History!Links : other[a] = IF a = c[j] THEN 0
                                            ELSE IF j > 1 /\ a = c[j - 1] THEN s.next[c[j]] ELSE s.next[a]
    BY <1>2, <2>12, <2>13
  <2>15. r = IF j = 1 THEN s.next[c[1]] ELSE First(c)
    BY <1>2, <1>5, <2>4, <2>13
  <2>16. Final(c) = IF j = Len(c) THEN (IF j = 1 THEN 0 ELSE c[j - 1]) ELSE Final(c)
    BY <2>1, <2>13
  <2>17. j \in 1..Len(c)
    BY <1>5, <2>13
  <2>18. PICK e : e = Final(c)
    OBVIOUS
  <2>19. Keeps(v, Lacking(c, j))
    BY <1>6, <2>9, <2>12, <2>14, <2>15, <2>16, <2>17, <2>18, KeepsRest
  <2> QED BY <2>10, <2>17, <2>19
<1>10. CASE x # First(c) /\ x \in Things(c)
  <2>1. PICK j \in 1..Len(c) : x = c[j]
    BY <1>10 DEF Things
  <2>2. j # 1
    BY <1>5, <1>10, <2>1
  <2>3. PICK other \in [History!Links -> History!Links] :
           /\ Fields(History!Unlinked(s, c[j]), other, First(c), Final(c), Len(c))
           /\ \A a \in History!Links : other[a] = IF a = c[j] THEN 0
                                                  ELSE IF j > 1 /\ a = c[j - 1] THEN s.next[c[j]] ELSE s.next[a]
    BY <2>2, UnlinkedIs
  <2>4. Fields(t, other, First(c), Final(c), Len(c))
    BY <1>7, <2>1, <2>3
  <2>5. PICK b : b = c[j - 1]
    OBVIOUS
  <2>6. History!Find_One_Before(s, x) = b
    BY <2>1, <2>2, <2>5, OneBefore
  <2>7. j - 1 \in 1..Len(c)
    BY <1>1, <2>2
  <2>8. b \in History!Links /\ b # 0
    BY <1>1, <2>5, <2>7, ThingsAre
  <2>9. First(c) = IF j = 1 THEN s.next[c[1]] ELSE First(c)
    BY <2>2
  <2>10. CASE j = Len(c)
    <3>1. x = Final(c)
      BY <1>5, <2>1, <2>10
    <3>2. PICK u : u = [t EXCEPT !.list_end = b]
      OBVIOUS
    <3>3. Fields(u, other, First(c), b, Len(c))
      BY <2>4, <2>8, <3>2, EndSet
    <3>4. PICK v : v = History!CountDown(u)
      OBVIOUS
    <3>5. Fields(v, other, First(c), b, n)
      BY <1>1, <1>4, <1>6, <3>3, <3>4, CountDownIs
    <3>6. History!Remove_item(s, x) = v
      BY <1>1, <1>5, <1>7, <2>6, <2>8, <3>1, <3>2, <3>4 DEF History!Remove_item
    <3>7. b = IF j = Len(c) THEN (IF j = 1 THEN 0 ELSE c[j - 1]) ELSE Final(c)
      BY <2>2, <2>5, <2>10
    <3>8. PICK r : r = First(c)
      OBVIOUS
    <3>9. Fields(v, other, r, b, n) /\ r = IF j = 1 THEN s.next[c[1]] ELSE First(c)
      BY <2>9, <3>5, <3>8
    <3>10. Keeps(v, Lacking(c, j))
      BY <1>6, <2>3, <3>7, <3>9, KeepsRest
    <3> QED BY <3>6, <3>10
  <2>11. CASE j # Len(c)
    <3>1. x # Final(c)
      BY <1>1, <1>5, <2>1, <2>11 DEF EachOnce
    <3>2. next[x] = c[j + 1]
      BY <1>1, <1>2, <2>1, <2>11 DEF Strung
    <3>3. j + 1 \in 1..Len(c)
      BY <1>1, <2>11
    <3>4. next[x] # 0 /\ x \in History!Links
      BY <1>1, <2>1, <3>2, <3>3, ThingsAre
    <3>5. other[x] = 0
      BY <2>1, <2>3, <3>4
    <3>6. t # s
      BY <1>2, <2>4, <3>4, <3>5 DEF Fields
    <3>7. PICK v : v = History!CountDown(t)
      OBVIOUS
    <3>8. History!Remove_item(s, x) = v
      BY <1>1, <1>5, <1>7, <3>1, <3>6, <3>7 DEF History!Remove_item
    <3>9. Fields(v, other, First(c), Final(c), n)
      BY <1>1, <1>4, <1>6, <2>4, <3>7, CountDownIs
    <3>10. PICK r : r = First(c)
      OBVIOUS
    <3>11. PICK e : e = Final(c)
      OBVIOUS
    <3>12. e = IF j = Len(c) THEN (IF j = 1 THEN 0 ELSE c[j - 1]) ELSE Final(c)
      BY <2>11, <3>11
    <3>13. Fields(v, other, r, e, n) /\ r = IF j = 1 THEN s.next[c[1]] ELSE First(c)
      BY <2>9, <3>9, <3>10, <3>11
    <3>14. Keeps(v, Lacking(c, j))
      BY <1>6, <2>3, <3>12, <3>13, KeepsRest
    <3> QED BY <3>8, <3>14
  <2> QED BY <2>10, <2>11
<1> QED BY <1>8, <1>9, <1>10

(* A rotation puts the first item behind the last.                         *)
LEMMA TurnIs ==
  ASSUME NEW s, NEW c, Keeps(s, c), First(c) # 0
  PROVE  Keeps(History!Move_Top_to_Bottom(s), Append(Lacking(c, 1), c[1]))
<1>1. /\ c \in Seq(History!Thing) /\ EachOnce(c) /\ Len(c) \in Nat
      /\ s.next \in [History!Links -> History!Links] /\ s.list_root = First(c) /\ s.list_end = Final(c)
      /\ First(c) \in History!Links /\ Final(c) \in History!Links /\ 0 \in History!Links
  BY KeepsIs, ThingsAre
<1>2. PICK next : next = s.next
  OBVIOUS
<1>3. Fields(s, next, First(c), Final(c), Len(c)) /\ Strung(next, c)
  BY <1>2, KeepsIs
<1>4. Len(c) # 0
  BY <1>1, EndsAre
<1>5. First(c) = c[1] /\ Final(c) = c[Len(c)] /\ Final(c) # 0 /\ 1 \in 1..Len(c) /\ Len(c) \in 1..Len(c)
  BY <1>1, <1>4, EndsAre
<1>6. PICK x : x = c[1]
  OBVIOUS
<1>7. PICK e : e = Final(c)
  OBVIOUS
<1>8. PICK o1 : o1 = [next EXCEPT ![e] = x]
  OBVIOUS
<1>9. o1 \in [History!Links -> History!Links] /\ o1[e] = x /\ x \in History!Links /\ e \in History!Links
  BY <1>1, <1>2, <1>5, <1>6, <1>7, <1>8
<1>10. PICK t1 : t1 = [s EXCEPT !.next = o1]
  OBVIOUS
<1>11. Fields(t1, o1, x, e, Len(c))
  BY <1>3, <1>5, <1>6, <1>7, <1>9, <1>10, NextSet
<1>12. t1.next = o1 /\ t1.list_root = x /\ t1.list_end = e
  BY <1>11 DEF Fields
<1>13. PICK r : r = o1[x]
  OBVIOUS
<1>14. r \in History!Links
  BY <1>9, <1>13
<1>15. PICK t2 : t2 = [t1 EXCEPT !.list_root = r, !.list_end = x]
  OBVIOUS
<1>16. Fields(t2, o1, r, x, Len(c))
  BY <1>9, <1>11, <1>14, <1>15, EndsSet
<1>17. t2.next = o1 /\ t2.list_end = x
  BY <1>16 DEF Fields
<1>18. PICK o2 : o2 = [o1 EXCEPT ![x] = 0]
  OBVIOUS
<1>19. PICK t : t = [t2 EXCEPT !.next = o2]
  OBVIOUS
<1>20. o2 \in [History!Links -> History!Links]
  BY <1>1, <1>9, <1>18
<1>21. Fields(t, o2, r, x, Len(c))
  BY <1>16, <1>19, <1>20, NextSet
<1>22. History!Move_Top_to_Bottom(s) = t
  <2>1. t1 = [s EXCEPT !.next[s.list_end] = s.list_root]
    BY <1>1, <1>2, <1>5, <1>6, <1>7, <1>8, <1>10
  <2>2. t2 = [t1 EXCEPT !.list_root = t1.next[t1.list_root], !.list_end = t1.next[t1.list_end]]
    BY <1>9, <1>12, <1>13, <1>15
  <2>3. t = [t2 EXCEPT !.next[t2.list_end] = 0]
    BY <1>17, <1>18, <1>19
  <2>4. s.list_end # 0
    BY <1>1, <1>5
  <2> QED BY <2>1, <2>2, <2>3, <2>4 DEF History!Move_Top_to_Bottom
<1>23. PICK d : d = Lacking(c, 1)
  OBVIOUS
<1>24. PICK other : other = [next EXCEPT ![x] = 0]
  OBVIOUS
<1>25. other \in [History!Links -> History!Links] /\ \A a \in History!Links : other[a] = IF a = x THEN 0 ELSE next[a]
  BY <1>1, <1>2, <1>9, <1>24
<1>26. Strung(other, d)
  <2>1. PICK j : j = 1
    OBVIOUS
  <2>2. \A a \in History!Links : other[a] = IF a = c[j] THEN 0
                                            ELSE IF j > 1 /\ a = c[j - 1] THEN next[c[j]] ELSE next[a]
    BY <1>6, <1>25, <2>1
  <2>3. j \in 1..Len(c)
    BY <1>5, <2>1
  <2>4. Strung(other, Lacking(c, j))
    BY <1>3, <1>25, <2>2, <2>3, StrungWithout
  <2> QED BY <1>23, <2>1, <2>4
<1>27. LackingAt(d, c, 1)
  BY <1>1, <1>5, <1>23, LackingIs
<1>28. Things(d) = Things(c) \ {x} /\ d \in Seq(History!Thing) /\ EachOnce(d) /\ Len(d) = Len(c) - 1
  BY <1>6, <1>27 DEF LackingAt
<1>29. PICK one : one = 1
  OBVIOUS
<1>30. /\ First(d) = IF one = 1 THEN next[c[1]] ELSE First(c)
       /\ Final(d) = IF one = Len(c) THEN (IF one = 1 THEN 0 ELSE c[one - 1]) ELSE Final(c)
       /\ Len(d) = Len(c) - 1
  <2>1. one \in 1..Len(c) /\ d = Lacking(c, one)
    BY <1>5, <1>23, <1>29
  <2> QED BY <1>3, <2>1, EndsWithout
<1>31. First(d) = next[x] /\ Final(d) = IF 1 = Len(c) THEN 0 ELSE e
  BY <1>6, <1>7, <1>29, <1>30
<1>32. e = x <=> 1 = Len(c)
  BY <1>1, <1>5, <1>6, <1>7 DEF EachOnce
<1>33. next[x] = 0 <=> 1 = Len(c)
  <2>1. next[x] = IF 1 = Len(c) THEN 0 ELSE c[1 + 1]
    BY <1>3, <1>5, <1>6 DEF Strung
  <2>2. ASSUME 1 # Len(c) PROVE 1 + 1 \in 1..Len(c)
    <3>1. PICK k : k = Len(c)
      OBVIOUS
    <3>2. k \in Nat /\ k # 0 /\ k # 1
      BY <1>1, <1>4, <2>2, <3>1
    <3>3. 1 + 1 \in 1..k
      BY <3>2
    <3> QED BY <3>1, <3>3
  <2>3. \A l \in 1..Len(c) : c[l] # 0
    BY <1>1, ThingsAre
  <2> QED BY <2>1, <2>2, <2>3
<1>34. x \in History!Thing
  BY <1>1, <1>5, <1>6, ThingsAre
<1>35. o2 = IF Final(d) = 0 THEN other ELSE [other EXCEPT ![Final(d)] = x]
  <2>1. CASE 1 = Len(c)
    BY <1>1, <1>2, <1>8, <1>9, <1>18, <1>24, <1>31, <1>32, <2>1
  <2>2. CASE 1 # Len(c)
    BY <1>1, <1>2, <1>5, <1>7, <1>8, <1>9, <1>18, <1>24, <1>31, <1>32, <2>2
  <2> QED BY <2>1, <2>2
<1>36. x \notin Things(d)
  BY <1>28
<1>37. PICK f : f = Append(d, x)
  OBVIOUS
<1>38. Strung(o2, f)
  BY <1>26, <1>34, <1>35, <1>36, <1>37, StrungLonger
<1>39. MoreAt(f, d, x)
  BY <1>28, <1>34, <1>36, <1>37, MoreIs
<1>40. f \in Seq(History!Thing) /\ Len(f) = Len(d) + 1 /\ f[Len(d) + 1] = x /\ \A l \in 1..Len(d) : f[l] = d[l]
  BY <1>39 DEF MoreAt
<1>41. Len(f) = Len(c) /\ Len(d) \in Nat
  BY <1>1, <1>28, <1>40
<1>42. Final(f) = x /\ First(f) = f[1]
  BY <1>4, <1>40, <1>41, EndsAre
<1>43. First(f) = r
  <2>1. CASE 1 = Len(c)
    <3>1. f[1] = x
      BY <1>40, <1>41, <2>1
    <3> QED BY <1>9, <1>13, <1>32, <1>42, <2>1, <3>1
  <2>2. CASE 1 # Len(c)
    <3>1. Len(d) # 0
      BY <1>1, <1>28, <2>2
    <3>2. First(d) = d[1] /\ 1 \in 1..Len(d)
      BY <1>28, <3>1, EndsAre
    <3>3. f[1] = next[x]
      BY <1>31, <1>40, <3>2
    <3>4. o1[x] = next[x]
      BY <1>1, <1>2, <1>8, <1>9, <1>32, <2>2
    <3> QED BY <1>13, <1>42, <3>3, <3>4
  <2> QED BY <2>1, <2>2
<1>44. t.next = o2
  BY <1>21 DEF Fields
<1>45. Fields(t, t.next, First(f), Final(f), Len(f))
  BY <1>21, <1>41, <1>42, <1>43, <1>44
<1>46. Keeps(t, f)
  BY <1>38, <1>44, <1>45 DEF Keeps
<1> QED BY <1>6, <1>22, <1>23, <1>37, <1>46

-----------------------------------------------------------------------------
(* The order of the items.                                                 *)

(* G says which of the things of c came in earlier.                        *)
Ranked(c, G) == \A j, k \in 1..Len(c) : <<c[j], c[k]>> \in G <=> j < k

(* The order of those that stay.                                           *)
LEMMA RankedRest ==
  ASSUME NEW c \in Seq(History!Thing), EachOnce(c), NEW j \in 1..Len(c), NEW G, Ranked(c, G)
  PROVE  Ranked(Lacking(c, j), G)
<1>1. PICK d : d = Lacking(c, j)
  OBVIOUS
<1>2. LackingAt(d, c, j)
  BY <1>1, LackingIs
<1>3. Len(d) = Len(c) - 1 /\ Len(c) \in Nat /\ \A l \in 1..Len(d) : d[l] = IF l < j THEN c[l] ELSE c[l + 1]
  BY <1>2 DEF LackingAt
<1>4. ASSUME NEW k \in 1..Len(d), NEW l \in 1..Len(d) PROVE <<d[k], d[l]>> \in G <=> k < l
  <2>1. PICK p : p = IF k < j THEN k ELSE k + 1
    OBVIOUS
  <2>2. PICK q : q = IF l < j THEN l ELSE l + 1
    OBVIOUS
  <2>3. p \in 1..Len(c) /\ q \in 1..Len(c) /\ (p < q <=> k < l)
    BY <1>3, <2>1, <2>2
  <2>4. d[k] = c[p] /\ d[l] = c[q]
    BY <1>3, <2>1, <2>2
  <2> QED BY <2>3, <2>4 DEF Ranked
<1> QED BY <1>1, <1>4 DEF Ranked

(* The order when x comes in.                                              *)
LEMMA RankedMore ==
  ASSUME NEW c \in Seq(History!Thing), EachOnce(c), NEW x \in History!Thing, x \notin Things(c), NEW G, Ranked(c, G),
         NEW H, H = {p \in G : {p[1], p[2]} \subseteq Things(c)} \cup (Things(c) \X {x})
  PROVE  Ranked(Append(c, x), H)
<1>1. PICK d : d = Append(c, x)
  OBVIOUS
<1>2. MoreAt(d, c, x)
  BY <1>1, MoreIs
<1>3. Len(d) = Len(c) + 1 /\ d[Len(c) + 1] = x /\ Len(c) \in Nat /\ \A l \in 1..Len(c) : d[l] = c[l]
  BY <1>2 DEF MoreAt
<1>4. ASSUME NEW a, NEW b PROVE <<a, b>> \in H <=> \/ <<a, b>> \in G /\ a \in Things(c) /\ b \in Things(c)
                                                   \/ a \in Things(c) /\ b = x
  OBVIOUS
<1>5. \A l \in 1..Len(c) : c[l] \in Things(c)
  BY ThingsAre
<1>6. ASSUME NEW k \in 1..Len(d), NEW l \in 1..Len(d) PROVE <<d[k], d[l]>> \in H <=> k < l
  <2>1. CASE k \in 1..Len(c) /\ l \in 1..Len(c)
    <3>1. d[k] = c[k] /\ d[l] = c[l] /\ c[k] \in Things(c) /\ c[l] \in Things(c) /\ c[l] # x
      BY <1>3, <1>5, <2>1
    <3>2. <<c[k], c[l]>> \in G <=> k < l
      BY <2>1 DEF Ranked
    <3> QED BY <1>4, <3>1, <3>2
  <2>2. CASE k \in 1..Len(c) /\ l = Len(c) + 1
    <3>1. d[k] \in Things(c) /\ d[l] = x /\ k < l
      BY <1>3, <1>5, <2>2
    <3> QED BY <1>4, <3>1
  <2>3. CASE k = Len(c) + 1
    <3>1. d[k] \notin Things(c) /\ ~(k < l)
      BY <1>3, <2>3
    <3> QED BY <1>4, <3>1
  <2> QED BY <1>3, <2>1, <2>2, <2>3
<1> QED BY <1>1, <1>6 DEF Ranked

(* The invariant: the record describes one chain, no longer than the       *)
(* limit, and its order is the order its items came in.                    *)
HistoryInv == \E c : Keeps(h, c) /\ Len(c) <= Limit /\ Ranked(c, given)

(* No history is longer for a loss.                                        *)
LEMMA RestIs ==
  ASSUME NEW c \in Seq(History!Thing), EachOnce(c), NEW j \in 1..Len(c)
  PROVE  /\ Lacking(c, j) \in Seq(History!Thing) /\ EachOnce(Lacking(c, j)) /\ Len(Lacking(c, j)) = Len(c) - 1
         /\ Things(Lacking(c, j)) = Things(c) \ {c[j]}
<1>1. PICK d : d = Lacking(c, j)
  OBVIOUS
<1>2. LackingAt(d, c, j)
  BY <1>1, LackingIs
<1> QED BY <1>1, <1>2 DEF LackingAt

(* It starts empty.                                                        *)
LEMMA EmptyKeeps ==
  ASSUME NEW s \in Record, s.next = [a \in History!Links |-> 0], s.list_root = 0, s.list_end = 0, s.count = 0,
         s.fault = FALSE
  PROVE  Keeps(s, <<>>) /\ Len(<<>>) = 0 /\ \A G : Ranked(<<>>, G)
<1>1. <<>> \in Seq(History!Thing) /\ Len(<<>>) = 0 /\ 0 \in History!Links
  BY HistoryAssumption DEF History!Links
<1>2. First(<<>>) = 0 /\ Final(<<>>) = 0
  BY <1>1 DEF First, Final
<1>3. EachOnce(<<>>) /\ \A G : Ranked(<<>>, G)
  BY <1>1 DEF EachOnce, Ranked
<1>4. Strung(s.next, <<>>)
  BY <1>1, <1>3 DEF Strung
<1>5. Fields(s, s.next, 0, 0, 0)
  BY DEF Fields
<1> QED BY <1>1, <1>2, <1>3, <1>4, <1>5 DEF Keeps

(* All of it is set.                                                       *)
LEMMA AllSet ==
  ASSUME NEW s \in Record, s.fault = FALSE, NEW a \in [History!Links -> History!Links],
         NEW r \in History!Links, NEW e \in History!Links, NEW n \in Int
  PROVE  Fields([s EXCEPT !.next = a, !.list_root = r, !.list_end = e, !.count = n], a, r, e, n)
BY DEF Fields, Record

(* Every call preserves it.                                                *)
LEMMA HistorySteps ==
  ASSUME Careful, HistoryInv, [ContainersNext]_allVars
  PROVE  HistoryInv'
<1>1. PICK c : Keeps(h, c) /\ Len(c) <= Limit /\ Ranked(c, given)
  BY DEF HistoryInv
<1>2. /\ h.list_root = First(c) /\ h.list_end = Final(c) /\ Strung(h.next, c) /\ c \in Seq(History!Thing)
      /\ EachOnce(c) /\ Len(c) \in Nat
  BY <1>1, KeepsIs
<1>3. History!ToSet(History!Hist) = Things(c)
  BY <1>2, ChainThings DEF History!Hist
<1>4. Limit \in Nat
  BY HistoryAssumption
<1>5. ASSUME NEW d, Keeps(h', d), Len(d) <= Limit, Ranked(d, given') PROVE HistoryInv'
  BY <1>5 DEF HistoryInv
<1>6. ASSUME NEW j \in 1..Len(c), Keeps(h', Lacking(c, j)), given' = given PROVE HistoryInv'
  <2>1. Ranked(Lacking(c, j), given')
    BY <1>1, <1>2, <1>6, RankedRest
  <2>2. Len(Lacking(c, j)) <= Limit
    <3>1. Len(Lacking(c, j)) = Len(c) - 1
      BY <1>2, RestIs
    <3> QED BY <1>1, <1>2, <1>4, <3>1
  <2> QED BY <1>5, <1>6, <2>1, <2>2
<1>7. CASE History!PushItem
  <2>1. PICK x \in History!Thing \ Things(c) : h' = History!Push_Back(h, x) /\ History!ComesIn(x)
    BY <1>3, <1>7 DEF History!PushItem
  <2>2. PICK d : d = Append(c, x)
    OBVIOUS
  <2>3. Things(c) \ {x} = Things(c)
    BY <2>1
  <2>4. given' = {p \in given : {p[1], p[2]} \subseteq Things(c)} \cup (Things(c) \X {x})
    BY <1>3, <2>1, <2>3 DEF History!ComesIn
  <2>5. Ranked(d, given')
    BY <1>1, <1>2, <2>1, <2>2, <2>4, RankedMore
  <2>6. Keeps(h', IF Len(c) + 1 > Limit THEN Lacking(d, 1) ELSE d)
    BY <1>1, <2>1, <2>2, PushIs
  <2>7. MoreAt(d, c, x)
    BY <1>2, <2>1, <2>2, MoreIs
  <2>8. d \in Seq(History!Thing) /\ EachOnce(d) /\ Len(d) = Len(c) + 1
    BY <2>7 DEF MoreAt
  <2>9. CASE Len(c) + 1 > Limit
    <3>1. 1 \in 1..Len(d)
      BY <1>2, <2>8
    <3>2. Ranked(Lacking(d, 1), given')
      BY <2>5, <2>8, <3>1, RankedRest
    <3>3. Len(Lacking(d, 1)) = Len(d) - 1
      BY <2>8, <3>1, RestIs
    <3>4. Len(Lacking(d, 1)) <= Limit
      BY <1>1, <1>2, <2>8, <3>3
    <3>5. Keeps(h', Lacking(d, 1))
      BY <2>6, <2>9
    <3> QED BY <1>5, <3>2, <3>4, <3>5
  <2>10. CASE ~(Len(c) + 1 > Limit)
    <3>1. Keeps(h', d)
      BY <2>6, <2>10
    <3>2. Len(d) <= Limit
      BY <1>2, <1>4, <2>8, <2>10
    <3> QED BY <1>5, <2>5, <3>1, <3>2
  <2> QED BY <2>9, <2>10
<1>8. CASE History!PopItem
  <2>1. h' = History!Pop_Off(h) /\ given' = given
    BY <1>8 DEF History!PopItem
  <2>2. Keeps(h', IF Len(c) = 0 THEN c ELSE Lacking(c, 1))
    BY <1>1, <2>1, PopIs
  <2>3. CASE Len(c) = 0
    <3>1. Keeps(h', c) /\ Ranked(c, given')
      BY <1>1, <2>1, <2>2, <2>3
    <3> QED BY <1>1, <1>5, <3>1
  <2>4. CASE Len(c) # 0
    <3>1. 1 \in 1..Len(c) /\ Keeps(h', Lacking(c, 1))
      BY <1>2, <2>2, <2>4
    <3> QED BY <1>6, <2>1, <3>1
  <2> QED BY <2>3, <2>4
<1>9. CASE History!RemoveItem
  <2>1. PICK x \in History!Thing : History!SafeRemove(x) /\ h' = History!Remove_item(h, x) /\ given' = given
    BY <1>9 DEF History!RemoveItem
  <2>2. First(c) # 0 /\ ~(First(c) = x /\ Final(c) = x)
    BY <1>2, <2>1 DEF History!SafeRemove
  <2>3. Keeps(h', c) \/ \E j \in 1..Len(c) : Keeps(h', Lacking(c, j))
    BY <1>1, <2>1, <2>2, RemoveIs
  <2>4. CASE Keeps(h', c)
    <3>1. Ranked(c, given')
      BY <1>1, <2>1
    <3> QED BY <1>1, <1>5, <2>4, <3>1
  <2>5. CASE \E j \in 1..Len(c) : Keeps(h', Lacking(c, j))
    BY <1>6, <2>1, <2>5
  <2> QED BY <2>3, <2>4, <2>5
<1>10. CASE History!MoveTop
  <2>1. First(c) # 0 /\ h' = History!Move_Top_to_Bottom(h) /\ History!ComesIn(First(c))
    BY <1>2, <1>10 DEF History!MoveTop
  <2>2. Len(c) # 0
    BY <1>2, <2>1, EndsAre
  <2>3. First(c) = c[1] /\ 1 \in 1..Len(c)
    BY <1>2, <2>2, EndsAre
  <2>4. PICK x : x = c[1]
    OBVIOUS
  <2>5. PICK d : d = Lacking(c, 1)
    OBVIOUS
  <2>6. d \in Seq(History!Thing) /\ EachOnce(d) /\ Len(d) = Len(c) - 1 /\ Things(d) = Things(c) \ {x}
    BY <1>2, <2>3, <2>4, <2>5, RestIs
  <2>7. x \in History!Thing /\ x \notin Things(d)
    BY <1>2, <2>3, <2>4, <2>6, ThingsAre
  <2>8. Ranked(d, given)
    BY <1>1, <1>2, <2>3, <2>5, RankedRest
  <2>9. given' = {p \in given : {p[1], p[2]} \subseteq Things(d)} \cup (Things(d) \X {x})
    BY <1>3, <2>1, <2>3, <2>4, <2>6 DEF History!ComesIn
  <2>10. PICK f : f = Append(d, x)
    OBVIOUS
  <2>11. Ranked(f, given')
    BY <2>6, <2>7, <2>8, <2>9, <2>10, RankedMore
  <2>12. Keeps(h', f)
    BY <1>1, <2>1, <2>4, <2>5, <2>10, TurnIs
  <2>13. Len(f) = Len(d) + 1
    BY <2>6, <2>10
  <2>14. Len(f) <= Limit
    BY <1>1, <1>2, <2>6, <2>13
  <2> QED BY <1>5, <2>11, <2>12, <2>14
<1>11. CASE History!MoveItem
  <2>1. PICK x \in History!Thing : History!SafeMoveItem(x) /\ h' = History!Move_to_Bottom(h, x) /\ given' = given
    BY <1>11 DEF History!MoveItem
  <2>2. h.list_root # 0 /\ History!Find_One_Before(h, x) = 0
    BY <2>1 DEF History!SafeMoveItem
  <2>3. h' = h
    BY <2>1, <2>2 DEF History!Move_to_Bottom
  <2>4. Keeps(h', c) /\ Ranked(c, given')
    BY <1>1, <2>1, <2>3
  <2> QED BY <1>1, <1>5, <2>4
<1>12. CASE History!Renew
  <2>1. PICK none : none = [a \in History!Links |-> 0]
    OBVIOUS
  <2>2. h' = [h EXCEPT !.next = none, !.list_root = 0, !.list_end = 0, !.count = 0]
    BY <1>12, <2>1 DEF History!Renew
  <2>3. 0 \in History!Links /\ none \in [History!Links -> History!Links]
    BY <2>1, HistoryAssumption DEF History!Links
  <2>4. h \in Record /\ h.fault = FALSE
    BY <1>1 DEF Keeps, Fields
  <2>5. PICK s : s = h
    OBVIOUS
  <2>6. PICK t : t = [s EXCEPT !.next = none, !.list_root = 0, !.list_end = 0, !.count = 0]
    OBVIOUS
  <2>7. /\ t \in Record /\ t.next = none /\ t.list_root = 0 /\ t.list_end = 0 /\ t.count = 0
        /\ t.fault = FALSE
    <3>1. s \in Record /\ s.fault = FALSE
      BY <2>4, <2>5
    <3>2. PICK o : o = 0
      OBVIOUS
    <3>3. t = [s EXCEPT !.next = none, !.list_root = o, !.list_end = o, !.count = o]
      BY <2>6, <3>2
    <3>4. o \in History!Links /\ o \in Int
      BY <2>3, <3>2
    <3>5. Fields(t, none, o, o, o)
      BY <2>3, <3>1, <3>3, <3>4, AllSet
    <3> QED BY <3>2, <3>5 DEF Fields
  <2>8. Keeps(t, <<>>) /\ Len(<<>>) = 0 /\ \A G : Ranked(<<>>, G)
    BY <2>1, <2>7, EmptyKeeps
  <2>9. Keeps(h', <<>>) /\ Ranked(<<>>, given') /\ Len(<<>>) <= Limit
    BY <1>4, <2>2, <2>5, <2>6, <2>8
  <2> QED BY <1>5, <2>9
<1>13. CASE UNCHANGED historyVars
  <2>1. h' = h /\ given' = given
    BY <1>13 DEF historyVars
  <2>2. Keeps(h', c) /\ Ranked(c, given')
    BY <1>1, <2>1
  <2> QED BY <1>1, <1>5, <2>2
<1> QED BY <1>7, <1>8, <1>9, <1>10, <1>11, <1>12, <1>13 DEF ContainersNext, allVars, History!Next

(* What it says of the history.                                            *)
LEMMA InOrderIs ==
  ASSUME HistoryInv
  PROVE  HistoryInOrder
<1>1. PICK c : Keeps(h, c) /\ Len(c) <= Limit /\ Ranked(c, given)
  BY DEF HistoryInv
<1>2. /\ h.list_root = First(c) /\ h.list_end = Final(c) /\ Strung(h.next, c) /\ c \in Seq(History!Thing)
      /\ EachOnce(c) /\ Len(c) \in Nat /\ h.count = Len(c) /\ ~h.fault
  BY <1>1, KeepsIs
<1>3. History!Hist = c
  BY <1>2, ReachIs DEF History!Hist
<1>4. DOMAIN c = 1..Len(c)
  BY <1>2
<1>5. History!IsInjective(c)
  BY <1>2, <1>4 DEF History!IsInjective, EachOnce
<1>6. Final(c) = IF c = <<>> THEN 0 ELSE History!Last(c)
  BY <1>2 DEF Final, History!Last
<1> QED BY <1>1, <1>2, <1>3, <1>5, <1>6 DEF HistoryInOrder, History!HistoryInOrder, Ranked

(* However careful callers order their pushes, pops, removals and          *)
(* rotations, of any number of items under any limit: the root, the end    *)
(* and the count describe one chain that ends, no longer than the limit,   *)
(* and it holds its items in the order they came in, the oldest first.     *)
THEOREM HistoryStaysInOrder ==
  ASSUME Careful PROVE ContainersSpec => []HistoryInOrder
<1>1. ASSUME ContainersInit PROVE HistoryInv
  <2>1. PICK none : none = [a \in History!Links |-> 0]
    OBVIOUS
  <2>2. h = [next |-> none, list_root |-> 0, list_end |-> 0, count |-> 0, fault |-> FALSE] /\ given = {}
    BY <1>1, <2>1 DEF ContainersInit, History!Init
  <2>3. 0 \in History!Links /\ none \in [History!Links -> History!Links]
    BY <2>1, HistoryAssumption DEF History!Links
  <2>4. /\ h \in Record /\ h.next = none /\ h.list_root = 0 /\ h.list_end = 0 /\ h.count = 0
        /\ h.fault = FALSE
    BY <2>2, <2>3 DEF Record
  <2>5. Keeps(h, <<>>) /\ Len(<<>>) = 0 /\ \A G : Ranked(<<>>, G)
    BY <2>1, <2>4, EmptyKeeps
  <2> QED BY <2>5, HistoryAssumption DEF HistoryInv
<1>2. HistoryInv /\ [ContainersNext]_allVars => HistoryInv'
  BY HistorySteps
<1> QED BY <1>1, <1>2, InOrderIs, PTL DEF ContainersSpec
=============================================================================
