----------------------------- MODULE DList_proof ----------------------------
(***************************************************************************)
(* Proofs about the doubly linked list of MCContainers (DList.tla), for    *)
(* any number of items and careful callers: its links, edges, count and    *)
(* parents agree after every sequence of calls, values live as long as     *)
(* they are held, calls act at their index, and what the pointers spell    *)
(* out is a sequence as SeqList describes it.                              *)
(*                                                                         *)
(* The invariant says that the live items are divided into chains that     *)
(* the links spell out both ways and that the list is one of them (Listed).*)
(* From it follows what every walk finds, and for each operation which     *)
(* chains take the place of which:                                         *)
(*   - walks along a chain (WalkOn, WalkBack, Lookups, ChainIs);           *)
(*   - a chain spliced into another or a block cut out (SpliceLinks,       *)
(*     CutLinks), and chains that give way to others (Relinked);           *)
(*   - the operations on items, then those on the list (...Is);            *)
(*   - the callers (...Goes), the invariant and the theorems.              *)
(* Induction over a walk or a run takes the least step that goes wrong     *)
(* (LeastOf).                                                              *)
(***************************************************************************)
EXTENDS MCContainers, Sequences, SequenceTheorems, FiniteSetTheorems,
        FunctionTheorems, WellFoundedInduction, TLAPS

(* Every set of numbers has a least element.                               *)
LEMMA LeastOf ==
  ASSUME NEW T, T \subseteq Nat, T # {}
  PROVE  \E k \in T : \A l \in T : k <= l
<1> DEFINE R == OpToRel(<, Nat)
<1>1. IsWellFoundedOn(R, Nat)
  BY NatLessThanWellFounded
<1>2. \A x, y \in Nat : <<y, x>> \in R <=> y < x
  BY DEF OpToRel
<1> HIDE DEF R
<1>3. PICK k \in T : \A l \in T : ~(<<l, k>> \in R)
  BY <1>1, WFMin
<1>4. ASSUME NEW l \in T PROVE k <= l
  <2>1. l \in Nat /\ k \in Nat
    OBVIOUS
  <2>2. ~(l < k)
    BY <1>2, <1>3, <2>1
  <2> QED BY <2>1, <2>2
<1> QED BY <1>4

(* One step of a walk.                                                     *)
OneOn(link, b) == IF link[b] = 0 THEN b ELSE link[b]

(* A walk is what steps as a walk does.                                    *)
LEMMA WalkIs ==
  ASSUME NEW link, NEW a, NEW k \in Nat, NEW g,
         g = [j \in 0..k |-> IF j = 0 THEN a ELSE OneOn(link, g[j - 1])]
  PROVE  Chain!Walk(link, a, k) = g[k]
<1> DEFINE Eq(f) == f = [j \in 0..k |-> IF j = 0 THEN a ELSE OneOn(link, f[j - 1])]
<1> DEFINE w == CHOOSE f : Eq(f)
<1>1. Eq(w)
  <2>1. Eq(g)
    OBVIOUS
  <2> HIDE DEF Eq
  <2> QED BY <2>1
<1>2. Chain!Walk(link, a, k) = w[k]
  BY DEF Chain!Walk, OneOn
<1> HIDE DEF w
<1> DEFINE T == {j \in 0..k : w[j] # g[j]}
<1>3. ASSUME T # {} PROVE FALSE
  <2>0. T \subseteq Nat
    OBVIOUS
  <2> HIDE DEF T
  <2>1. PICK n \in T : \A l \in T : n <= l
    BY <1>3, <2>0, LeastOf
  <2> USE DEF T
  <2>2. n # 0
    BY <2>1, <1>1
  <2>3. n - 1 \in 0..k /\ n - 1 \notin T
    BY <2>1, <2>2
  <2>4. w[n - 1] = g[n - 1]
    BY <2>3
  <2>5. w[n] = OneOn(link, w[n - 1])
    BY <1>1, <2>1, <2>2
  <2>6. g[n] = OneOn(link, g[n - 1])
    BY <2>1, <2>2
  <2> QED BY <2>1, <2>4, <2>5, <2>6
<1> QED BY <1>2, <1>3

-----------------------------------------------------------------------------
(* The items of a chain, and one that the links spell out, both ways.      *)
Of(c) == {c[j] : j \in 1..Len(c)}

Distinct(c) == \A j, k \in 1..Len(c) : c[j] = c[k] => j = k
Onward(link, c) == \A l \in 1..Len(c) : link[c[l]] = IF l = Len(c) THEN 0 ELSE c[l + 1]
Homeward(link, c) == \A l \in 1..Len(c) : link[c[l]] = IF l = 1 THEN 0 ELSE c[l - 1]

Linked(s, c) ==
  /\ c \in Seq(Chain!Node) /\ Len(c) >= 1 /\ Distinct(c)
  /\ Onward(s.next, c) /\ Homeward(s.prev, c)

(* The memory of a list, as its operations pass it on.                     *)
Memory ==
  [next : [Chain!Addr -> Chain!Addr], prev : [Chain!Addr -> Chain!Addr], begin : Chain!Addr, end : Chain!Addr,
   count : Int, pending : BOOLEAN, mine : SUBSET Chain!Node, live : SUBSET Chain!Node,
   removed : SUBSET Chain!Node, has : SUBSET Chain!Node, refs : [Chain!Node -> Int], fault : BOOLEAN]

(* The items of a sequence of items.                                       *)
LEMMA ItemsAre ==
  ASSUME NEW c \in Seq(Chain!Node)
  PROVE  /\ Len(c) \in Nat /\ DOMAIN c = 1..Len(c)
         /\ \A l \in 1..Len(c) : c[l] \in Chain!Node /\ c[l] \in Chain!Addr /\ c[l] # 0
<1>1. Len(c) \in Nat /\ DOMAIN c = 1..Len(c) /\ \A l \in 1..Len(c) : c[l] \in Chain!Node
  BY ElementOfSeq, LenProperties
<1>2. \A a \in Chain!Node : a \in Chain!Addr /\ a # 0
  BY ChainAssumption DEF Chain!Node, Chain!Addr
<1> QED BY <1>1, <1>2

(* The items between two places of a chain.                                *)
Between(c, p, q) == {c[l] : l \in p..q}

(* Walking on along links that spell out the rest of a chain.              *)
LEMMA WalkOn ==
  ASSUME NEW link, NEW c \in Seq(Chain!Node), NEW j \in 1..Len(c), NEW k \in Nat,
         Onward(link, c)
  PROVE  /\ j + k <= Len(c) => Chain!Walk(link, c[j], k) = c[j + k]
         /\ j + k >= Len(c) => Chain!Walk(link, c[j], k) = c[Len(c)]
<1> DEFINE at(n) == IF j + n <= Len(c) THEN j + n ELSE Len(c)
           g == [n \in 0..k |-> c[at(n)]]
<1>1. Len(c) \in Nat /\ \A l \in 1..Len(c) : c[l] \in Chain!Node /\ c[l] # 0
  BY ItemsAre
<1>2. \A n \in 0..k : at(n) \in 1..Len(c)
  BY <1>1
<1>3. ASSUME NEW n \in 1..k PROVE g[n] = OneOn(link, g[n - 1])
  <2>1. g[n] = c[at(n)] /\ g[n - 1] = c[at(n - 1)] /\ at(n - 1) \in 1..Len(c) /\ n - 1 \in 0..k
    BY <1>2
  <2>2. CASE at(n - 1) = Len(c)
    <3>1. at(n) = Len(c)
      BY <1>1, <2>2
    <3>2. link[c[at(n - 1)]] = 0
      BY <2>1, <2>2 DEF Onward, Homeward
    <3> QED BY <2>1, <2>2, <3>1, <3>2 DEF OneOn
  <2>3. CASE at(n - 1) # Len(c)
    <3>1. at(n) = at(n - 1) + 1 /\ at(n - 1) + 1 \in 1..Len(c)
      <4>1. j + (n - 1) < Len(c) /\ j + n = j + (n - 1) + 1 /\ j + n <= Len(c)
        BY <1>1, <2>3
      <4> QED BY <1>1, <4>1
    <3>2. link[c[at(n - 1)]] = c[at(n - 1) + 1] /\ c[at(n - 1) + 1] # 0
      BY <1>1, <2>1, <2>3, <3>1 DEF Onward, Homeward
    <3> QED BY <2>1, <3>1, <3>2 DEF OneOn
  <2> QED BY <2>2, <2>3
<1>4. g = [n \in 0..k |-> IF n = 0 THEN c[j] ELSE OneOn(link, g[n - 1])]
  <2>1. ASSUME NEW n \in 0..k PROVE g[n] = IF n = 0 THEN c[j] ELSE OneOn(link, g[n - 1])
    <3>1. CASE n = 0
      BY <1>1, <3>1
    <3>2. CASE n # 0
      <4>1. n \in 1..k
        BY <3>2
      <4> QED BY <1>3, <3>2, <4>1
    <3> QED BY <3>1, <3>2
  <2> QED BY <2>1
<1>5. Chain!Walk(link, c[j], k) = g[k]
  <2> HIDE DEF g
  <2> QED BY ONLY k \in Nat, <1>4, WalkIs
<1>6. g[k] = c[at(k)]
  OBVIOUS
<1>7. (j + k <= Len(c) => at(k) = j + k) /\ (j + k >= Len(c) => at(k) = Len(c))
  BY <1>1
<1> QED BY <1>5, <1>6, <1>7

(* Walking back.                                                           *)
LEMMA WalkBack ==
  ASSUME NEW link, NEW c \in Seq(Chain!Node), NEW j \in 1..Len(c), NEW k \in Nat,
         Homeward(link, c)
  PROVE  /\ j - k >= 1 => Chain!Walk(link, c[j], k) = c[j - k]
         /\ j - k <= 1 => Chain!Walk(link, c[j], k) = c[1]
<1> DEFINE at(n) == IF j - n >= 1 THEN j - n ELSE 1
           g == [n \in 0..k |-> c[at(n)]]
<1>1. Len(c) \in Nat /\ \A l \in 1..Len(c) : c[l] \in Chain!Node /\ c[l] # 0
  BY ItemsAre
<1>2. \A n \in 0..k : at(n) \in 1..Len(c)
  BY <1>1
<1>3. ASSUME NEW n \in 1..k PROVE g[n] = OneOn(link, g[n - 1])
  <2>1. g[n] = c[at(n)] /\ g[n - 1] = c[at(n - 1)] /\ at(n - 1) \in 1..Len(c) /\ n - 1 \in 0..k
    BY <1>2
  <2>2. CASE at(n - 1) = 1
    <3>1. at(n) = 1
      BY <1>1, <2>2
    <3>2. link[c[at(n - 1)]] = 0
      BY <2>1, <2>2 DEF Onward, Homeward
    <3> QED BY <2>1, <2>2, <3>1, <3>2 DEF OneOn
  <2>3. CASE at(n - 1) # 1
    <3>1. at(n) = at(n - 1) - 1 /\ at(n - 1) - 1 \in 1..Len(c)
      BY <1>1, <2>1, <2>3
    <3>2. link[c[at(n - 1)]] = c[at(n - 1) - 1] /\ c[at(n - 1) - 1] # 0
      BY <1>1, <2>1, <2>3, <3>1 DEF Onward, Homeward
    <3> QED BY <2>1, <3>1, <3>2 DEF OneOn
  <2> QED BY <2>2, <2>3
<1>4. g = [n \in 0..k |-> IF n = 0 THEN c[j] ELSE OneOn(link, g[n - 1])]
  <2>1. ASSUME NEW n \in 0..k PROVE g[n] = IF n = 0 THEN c[j] ELSE OneOn(link, g[n - 1])
    <3>1. CASE n = 0
      BY <1>1, <3>1
    <3>2. CASE n # 0
      <4>1. n \in 1..k
        BY <3>2
      <4> QED BY <1>3, <3>2, <4>1
    <3> QED BY <3>1, <3>2
  <2> QED BY <2>1
<1>5. Chain!Walk(link, c[j], k) = g[k]
  <2> HIDE DEF g
  <2> QED BY ONLY k \in Nat, <1>4, WalkIs
<1>6. g[k] = c[at(k)]
  OBVIOUS
<1>7. (j - k >= 1 => at(k) = j - k) /\ (j - k <= 1 => at(k) = 1)
  BY <1>1
<1> QED BY <1>5, <1>6, <1>7

(* A chain of different items is no longer than there are items, and has   *)
(* as many of them between two places as there are places.                 *)
LEMMA ChainLength ==
  ASSUME NEW c \in Seq(Chain!Node), Distinct(c)
  PROVE  /\ Len(c) \in Nat /\ Len(c) <= N
         /\ \A p, q \in Int : 1 <= p /\ q <= Len(c) /\ p <= q + 1 =>
              Chain!Cardinality(Between(c, p, q)) = q - p + 1
<1>1. Len(c) \in Nat /\ \A l \in 1..Len(c) : c[l] \in Chain!Node
  BY ItemsAre
<1>2. ASSUME NEW p \in Int, NEW q \in Int, 1 <= p, q <= Len(c), p <= q + 1
      PROVE  Cardinality(Between(c, p, q)) = q - p + 1
  <2> DEFINE f == [l \in p..q |-> c[l]]
             T == Between(c, p, q)
  <2>1. f \in [p..q -> T] /\ \A x \in T : \E l \in p..q : f[l] = x
    BY DEF Between
  <2>2. \A j, k \in p..q : f[j] = f[k] => j = k
    BY <1>1, <1>2 DEF Distinct
  <2>3. f \in Bijection(p..q, T)
    <3> HIDE DEF f, T
    <3> QED BY <2>1, <2>2 DEF Bijection, Injection, Surjection, IsInjective
  <2>4. IsFiniteSet(p..q) /\ Cardinality(p..q) = q - p + 1
    <3>1. IsFiniteSet(p..q) /\ Cardinality(p..q) = IF p > q THEN 0 ELSE q - p + 1
      BY FS_Interval
    <3> QED BY <1>2, <3>1
  <2>5. ExistsBijection(p..q, T)
    <3> HIDE DEF f, T
    <3> QED BY <2>3 DEF ExistsBijection
  <2>6. Cardinality(T) = Cardinality(p..q)
    <3> HIDE DEF f, T
    <3> QED BY <2>4, <2>5, FS_Bijection
  <2> QED BY <2>4, <2>6
<1>3. Len(c) <= N
  <2> DEFINE T == Between(c, 1, Len(c))
  <2>1. Cardinality(T) = Len(c)
    <3>1. 1 <= Len(c) + 1 /\ Len(c) - 1 + 1 = Len(c) /\ Len(c) \in Int
      BY <1>1
    <3> QED BY <1>2, <3>1
  <2>2. T \subseteq Chain!Node
    BY <1>1 DEF Between
  <2>3. IsFiniteSet(Chain!Node) /\ Cardinality(Chain!Node) = N
    <3>1. IsFiniteSet(1..N) /\ Cardinality(1..N) = IF 1 > N THEN 0 ELSE N - 1 + 1
      BY ChainAssumption, FS_Interval
    <3> QED BY <3>1, ChainAssumption DEF Chain!Node
  <2>4. Cardinality(T) <= Cardinality(Chain!Node)
    <3> HIDE DEF T
    <3> QED BY <2>2, <2>3, FS_Subset
  <2> QED BY <2>1, <2>3, <2>4
<1>4. \A T : Chain!Cardinality(T) = Cardinality(T)
  BY DEF Chain!Cardinality, Cardinality
<1>5. ASSUME NEW p \in Int, NEW q \in Int, 1 <= p, q <= Len(c), p <= q + 1
      PROVE  Chain!Cardinality(Between(c, p, q)) = q - p + 1
  BY <1>2, <1>4, <1>5
<1> QED BY <1>1, <1>3, <1>5

(* Walking in a chain.                                                     *)
LEMMA Walks ==
  ASSUME NEW s, NEW c, Linked(s, c), NEW j \in 1..Len(c), NEW k \in Nat
  PROVE  /\ j + k <= Len(c) => Chain!Walk(s.next, c[j], k) = c[j + k]
         /\ j + k >= Len(c) => Chain!Walk(s.next, c[j], k) = c[Len(c)]
         /\ j - k >= 1 => Chain!Walk(s.prev, c[j], k) = c[j - k]
         /\ j - k <= 1 => Chain!Walk(s.prev, c[j], k) = c[1]
<1>1. c \in Seq(Chain!Node) /\ Onward(s.next, c) /\ Homeward(s.prev, c)
  BY DEF Linked
<1>2. /\ j + k <= Len(c) => Chain!Walk(s.next, c[j], k) = c[j + k]
      /\ j + k >= Len(c) => Chain!Walk(s.next, c[j], k) = c[Len(c)]
  BY <1>1, WalkOn
<1>3. /\ j - k >= 1 => Chain!Walk(s.prev, c[j], k) = c[j - k]
      /\ j - k <= 1 => Chain!Walk(s.prev, c[j], k) = c[1]
  BY <1>1, WalkBack
<1> QED BY <1>2, <1>3

(* What the functions that walk along a chain find.                        *)
LEMMA Lookups ==
  ASSUME NEW s, NEW c, Linked(s, c), NEW j \in 1..Len(c)
  PROVE  /\ Chain!Steps(s.next, c[j]) = Len(c) - j /\ Chain!Steps(s.prev, c[j]) = j - 1
         /\ Chain!DListItem_get_first_item(s, c[j]) = c[1]
         /\ Chain!DListItem_get_last_item(s, c[j]) = c[Len(c)]
         /\ Chain!DListItem_count(s, c[j]) = Len(c) /\ Chain!DListItem_index(s, c[j]) = j - 1
<1>1. c \in Seq(Chain!Node) /\ Distinct(c)
  BY DEF Linked
<1>2. /\ Len(c) \in Nat /\ Len(c) <= N /\ N \in Nat /\ c[j] # 0
      /\ \A p, q \in Int : 1 <= p /\ q <= Len(c) /\ p <= q + 1 =>
              Chain!Cardinality(Between(c, p, q)) = q - p + 1
  BY <1>1, ItemsAre, ChainLength, ChainAssumption
<1>3. ASSUME NEW k \in Nat
      PROVE  /\ j + k <= Len(c) => Chain!Walk(s.next, c[j], k) = c[j + k]
             /\ j + k >= Len(c) => Chain!Walk(s.next, c[j], k) = c[Len(c)]
             /\ j - k >= 1 => Chain!Walk(s.prev, c[j], k) = c[j - k]
             /\ j - k <= 1 => Chain!Walk(s.prev, c[j], k) = c[1]
  BY Walks
<1>4. {Chain!Walk(s.next, c[j], k) : k \in 0..N} = Between(c, j, Len(c))
  <2>1. ASSUME NEW k \in 0..N PROVE Chain!Walk(s.next, c[j], k) \in Between(c, j, Len(c))
    <3>1. CASE j + k <= Len(c)
      <4>1. j + k \in j..Len(c) /\ k \in Nat
        BY <1>2, <3>1
      <4> QED BY <1>3, <3>1, <4>1 DEF Between
    <3>2. CASE ~(j + k <= Len(c))
      <4>1. Len(c) \in j..Len(c) /\ k \in Nat /\ j + k >= Len(c)
        BY <1>2, <3>2
      <4> QED BY <1>3, <4>1 DEF Between
    <3> QED BY <3>1, <3>2
  <2>2. ASSUME NEW l \in j..Len(c) PROVE c[l] \in {Chain!Walk(s.next, c[j], k) : k \in 0..N}
    <3>1. l - j \in 0..N /\ j + (l - j) = l /\ l <= Len(c)
      BY <1>2
    <3>2. Chain!Walk(s.next, c[j], l - j) = c[l]
      BY <1>3, <3>1
    <3> QED BY <3>1, <3>2
  <2> QED BY <2>1, <2>2 DEF Between
<1>5. {Chain!Walk(s.prev, c[j], k) : k \in 0..N} = Between(c, 1, j)
  <2>1. ASSUME NEW k \in 0..N PROVE Chain!Walk(s.prev, c[j], k) \in Between(c, 1, j)
    <3>1. CASE j - k >= 1
      <4>1. j - k \in 1..j /\ k \in Nat
        BY <1>2, <3>1
      <4> QED BY <1>3, <3>1, <4>1 DEF Between
    <3>2. CASE ~(j - k >= 1)
      <4>1. 1 \in 1..j /\ k \in Nat /\ j - k <= 1
        BY <1>2, <3>2
      <4> QED BY <1>3, <4>1 DEF Between
    <3> QED BY <3>1, <3>2
  <2>2. ASSUME NEW l \in 1..j PROVE c[l] \in {Chain!Walk(s.prev, c[j], k) : k \in 0..N}
    <3>1. j - l \in 0..N /\ j - (j - l) = l /\ l >= 1
      BY <1>2
    <3>2. Chain!Walk(s.prev, c[j], j - l) = c[l]
      BY <1>3, <3>1
    <3> QED BY <3>1, <3>2
  <2> QED BY <2>1, <2>2 DEF Between
<1>6. Chain!Steps(s.next, c[j]) = Len(c) - j
  <2>1. Chain!Steps(s.next, c[j]) = Chain!Cardinality(Between(c, j, Len(c))) - 1
    BY <1>2, <1>4 DEF Chain!Steps
  <2>2. j \in Int /\ Len(c) \in Int /\ 1 <= j /\ Len(c) <= Len(c) /\ j <= Len(c) + 1
    BY <1>2
  <2>3. Chain!Cardinality(Between(c, j, Len(c))) = Len(c) - j + 1
    BY <1>2, <2>2
  <2> QED BY <1>2, <2>1, <2>3
<1>7. Chain!Steps(s.prev, c[j]) = j - 1
  <2>1. Chain!Steps(s.prev, c[j]) = Chain!Cardinality(Between(c, 1, j)) - 1
    BY <1>2, <1>5 DEF Chain!Steps
  <2>2. j \in Int /\ 1 <= 1 /\ j <= Len(c) /\ 1 <= j + 1
    BY <1>2
  <2>3. Chain!Cardinality(Between(c, 1, j)) = j - 1 + 1
    BY <1>2, <2>2
  <2> QED BY <1>2, <2>1, <2>3
<1>8. Chain!DListItem_get_first_item(s, c[j]) = c[1] /\ Chain!DListItem_get_last_item(s, c[j]) = c[Len(c)]
  <2>1. j + N >= Len(c) /\ j - N <= 1
    BY <1>2
  <2>2. Chain!Walk(s.prev, c[j], N) = c[1] /\ Chain!Walk(s.next, c[j], N) = c[Len(c)]
    BY <1>2, <1>3, <2>1
  <2> QED BY <2>2 DEF Chain!DListItem_get_first_item, Chain!DListItem_get_last_item
<1>9. Chain!DListItem_count(s, c[j]) = Len(c) /\ Chain!DListItem_index(s, c[j]) = j - 1
  BY <1>2, <1>6, <1>7 DEF Chain!DListItem_count, Chain!DListItem_index
<1> QED BY <1>3, <1>6, <1>7, <1>8, <1>9

(* The chain of any of its items is the chain.                             *)
LEMMA ChainIs ==
  ASSUME NEW s, NEW c, Linked(s, c)
  PROVE  /\ Chain!Chain(s, c[1]) = c
         /\ \A j \in 1..Len(c) : Chain!ChainOf(s, c[j]) = c
<1>1. c \in Seq(Chain!Node) /\ Len(c) \in Nat /\ Len(c) >= 1 /\ c[1] # 0 /\ DOMAIN c = 1..Len(c) /\ 1 \in 1..Len(c)
  <2>1. c \in Seq(Chain!Node) /\ Len(c) >= 1
    BY DEF Linked
  <2> QED BY <2>1, ItemsAre
<1>2. Chain!Steps(s.next, c[1]) + 1 = Len(c)
  BY <1>1, Lookups
<1>3. Chain!Chain(s, c[1]) = [k \in 1..Len(c) |-> Chain!Walk(s.next, c[1], k - 1)]
  BY <1>1, <1>2 DEF Chain!Chain
<1>4. ASSUME NEW k \in 1..Len(c) PROVE Chain!Walk(s.next, c[1], k - 1) = c[k]
  <2>1. k - 1 \in Nat /\ 1 + (k - 1) = k /\ k <= Len(c)
    BY <1>1
  <2>2. Chain!Walk(s.next, c[1], k - 1) = c[1 + (k - 1)]
    BY <1>1, <2>1, Walks
  <2> QED BY <2>1, <2>2
<1>5. c = [k \in 1..Len(c) |-> c[k]]
  BY <1>1
<1>6. Chain!Chain(s, c[1]) = c
  BY <1>3, <1>4, <1>5
<1>7. ASSUME NEW j \in 1..Len(c) PROVE Chain!ChainOf(s, c[j]) = c
  BY <1>6, Lookups DEF Chain!ChainOf
<1> QED BY <1>6, <1>7

-----------------------------------------------------------------------------
(* Cutting and putting together sequences of items.                        *)

(* A stretch of a sequence of items.                                       *)
LEMMA PartIs ==
  ASSUME NEW c \in Seq(Chain!Node), NEW p \in Int, NEW q \in Int, 1 <= p, q <= Len(c), p <= q + 1
  PROVE  /\ SubSeq(c, p, q) \in Seq(Chain!Node) /\ Len(SubSeq(c, p, q)) = q - p + 1
         /\ \A l \in 1..(q - p + 1) : SubSeq(c, p, q)[l] = c[p + l - 1]
<1>1. Len(c) \in Nat /\ \A l \in p..q : c[l] \in Chain!Node
  BY ItemsAre
<1>2. /\ SubSeq(c, p, q) \in Seq(Chain!Node)
      /\ Len(SubSeq(c, p, q)) = IF p <= q THEN q - p + 1 ELSE 0
      /\ \A l \in 1..(q - p + 1) : SubSeq(c, p, q)[l] = c[p + l - 1]
  BY <1>1, SubSeqProperties
<1> QED BY <1>2

(* One sequence behind the other.                                          *)
LEMMA JoinIs ==
  ASSUME NEW c \in Seq(Chain!Node), NEW e \in Seq(Chain!Node)
  PROVE  /\ c \o e \in Seq(Chain!Node) /\ Len(c \o e) = Len(c) + Len(e)
         /\ \A l \in 1..Len(c) : (c \o e)[l] = c[l]
         /\ \A l \in 1..Len(e) : (c \o e)[Len(c) + l] = e[l]
<1>1. Len(c) \in Nat /\ Len(e) \in Nat
  BY ItemsAre
<1>2. /\ c \o e \in Seq(Chain!Node) /\ Len(c \o e) = Len(c) + Len(e)
      /\ \A l \in 1..(Len(c) + Len(e)) : (c \o e)[l] = IF l <= Len(c) THEN c[l] ELSE e[l - Len(c)]
  BY ConcatProperties
<1>3. ASSUME NEW l \in 1..Len(c) PROVE (c \o e)[l] = c[l]
  BY <1>1, <1>2
<1>4. ASSUME NEW l \in 1..Len(e) PROVE (c \o e)[Len(c) + l] = e[l]
  <2>1. Len(c) + l \in 1..(Len(c) + Len(e)) /\ ~(Len(c) + l <= Len(c)) /\ Len(c) + l - Len(c) = l
    BY <1>1
  <2> QED BY <1>2, <2>1
<1> QED BY <1>2, <1>3, <1>4

(* What is behind a place.                                                 *)
LEMMA RestIs ==
  ASSUME NEW c \in Seq(Chain!Node), NEW p \in Int, 1 <= p, p <= Len(c) + 1
  PROVE  /\ SubSeq(c, p, Len(c)) \in Seq(Chain!Node) /\ Len(SubSeq(c, p, Len(c))) = Len(c) - p + 1
         /\ \A l \in p..Len(c) : SubSeq(c, p, Len(c))[l - p + 1] = c[l]
<1>1. Len(c) \in Int /\ Len(c) <= Len(c)
  BY ItemsAre
<1>2. /\ SubSeq(c, p, Len(c)) \in Seq(Chain!Node) /\ Len(SubSeq(c, p, Len(c))) = Len(c) - p + 1
      /\ \A l \in 1..(Len(c) - p + 1) : SubSeq(c, p, Len(c))[l] = c[p + l - 1]
  BY <1>1, PartIs
<1>3. \A l \in p..Len(c) : l - p + 1 \in 1..(Len(c) - p + 1) /\ p + (l - p + 1) - 1 = l
  BY <1>1
<1> QED BY <1>2, <1>3

(* Where the items of e are in c, from index k on.                         *)
SplicedAt(d, c, k, e) ==
  /\ d \in Seq(Chain!Node) /\ Len(d) = Len(c) + Len(e)
  /\ \A l \in 1..k : d[l] = c[l]
  /\ \A l \in 1..Len(e) : d[k + l] = e[l]
  /\ \A l \in (k + 1)..Len(c) : d[l + Len(e)] = c[l]

(* S!Spliced puts them there.                                              *)
LEMMA SplicedIs ==
  ASSUME NEW c \in Seq(Chain!Node), NEW e \in Seq(Chain!Node), NEW k \in 0..Len(c)
  PROVE  SplicedAt(Chain!S!Spliced(c, k, e), c, k, e)
<1> DEFINE f == SubSeq(c, 1, k)
           g == SubSeq(c, k + 1, Len(c))
<1>1. Len(c) \in Nat /\ Len(e) \in Nat /\ k \in Int
  BY ItemsAre
<1>2. f \in Seq(Chain!Node) /\ Len(f) = k /\ \A l \in 1..k : f[l] = c[l]
  <2>1. 1 <= 1 /\ k <= Len(c) /\ 1 <= k + 1 /\ k - 1 + 1 = k
    BY <1>1
  <2>2. f \in Seq(Chain!Node) /\ Len(f) = k /\ \A l \in 1..k : f[l] = c[1 + l - 1]
    BY <1>1, <2>1, PartIs
  <2>3. \A l \in 1..k : 1 + l - 1 = l
    BY <1>1
  <2> QED BY <2>2, <2>3
<1>3. g \in Seq(Chain!Node) /\ Len(g) = Len(c) - k /\ \A l \in (k + 1)..Len(c) : g[l - k] = c[l]
  <2>1. 1 <= k + 1 /\ k + 1 <= Len(c) + 1 /\ Len(c) - (k + 1) + 1 = Len(c) - k /\ k + 1 \in Int
    BY <1>1
  <2>2. g \in Seq(Chain!Node) /\ Len(g) = Len(c) - (k + 1) + 1 /\ \A l \in (k + 1)..Len(c) : g[l - (k + 1) + 1] = c[l]
    BY <2>1, RestIs
  <2>3. \A l \in (k + 1)..Len(c) : l - (k + 1) + 1 = l - k
    BY <1>1
  <2> QED BY <2>1, <2>2, <2>3
<1> HIDE DEF f, g
<1> DEFINE u == f \o e
           d == u \o g
<1>4. u \in Seq(Chain!Node) /\ Len(u) = k + Len(e) /\ (\A l \in 1..k : u[l] = c[l]) /\ \A l \in 1..Len(e) : u[k + l] = e[l]
  BY <1>2, JoinIs
<1> HIDE DEF u
<1>5. /\ d \in Seq(Chain!Node) /\ Len(d) = Len(u) + Len(g)
      /\ \A l \in 1..Len(u) : d[l] = u[l]
      /\ \A l \in 1..Len(g) : d[Len(u) + l] = g[l]
  BY <1>3, <1>4, JoinIs
<1>6. Chain!S!Spliced(c, k, e) = d
  BY DEF Chain!S!Spliced, Chain!S!Take, Chain!S!Drop, f, g, u
<1> HIDE DEF d
<1>7. ASSUME NEW l \in 1..k PROVE d[l] = c[l]
  <2>1. l \in 1..Len(u)
    BY <1>1, <1>4
  <2> QED BY <1>4, <1>5, <2>1
<1>8. ASSUME NEW l \in 1..Len(e) PROVE d[k + l] = e[l]
  <2>1. k + l \in 1..Len(u)
    BY <1>1, <1>4
  <2> QED BY <1>4, <1>5, <2>1
<1>9. ASSUME NEW l \in (k + 1)..Len(c) PROVE d[l + Len(e)] = c[l]
  <2>1. l - k \in 1..Len(g) /\ Len(u) + (l - k) = l + Len(e)
    BY <1>1, <1>3, <1>4
  <2>2. d[Len(u) + (l - k)] = g[l - k]
    BY <1>5, <2>1
  <2> QED BY <1>3, <2>1, <2>2
<1>10. Len(d) = Len(c) + Len(e)
  BY <1>1, <1>3, <1>4, <1>5
<1> QED BY <1>5, <1>6, <1>7, <1>8, <1>9, <1>10 DEF SplicedAt

(* c without its n items from index k on.                                  *)
CutAt(d, c, k, n) ==
  /\ d \in Seq(Chain!Node) /\ Len(d) = Len(c) - n
  /\ \A l \in 1..k : d[l] = c[l]
  /\ \A l \in (k + n + 1)..Len(c) : d[l - n] = c[l]

(* S!Without leaves these.                                                 *)
LEMMA WithoutIs ==
  ASSUME NEW c \in Seq(Chain!Node), NEW k \in Nat, NEW n \in Nat, k + n <= Len(c)
  PROVE  CutAt(Chain!S!Without(c, k, n), c, k, n)
<1> DEFINE f == SubSeq(c, 1, k)
           g == SubSeq(c, k + n + 1, Len(c))
<1>1. Len(c) \in Nat
  BY ItemsAre
<1>2. f \in Seq(Chain!Node) /\ Len(f) = k /\ \A l \in 1..k : f[l] = c[l]
  <2>1. 1 <= 1 /\ k <= Len(c) /\ 1 <= k + 1 /\ k - 1 + 1 = k
    BY <1>1
  <2>2. f \in Seq(Chain!Node) /\ Len(f) = k /\ \A l \in 1..k : f[l] = c[1 + l - 1]
    BY <1>1, <2>1, PartIs
  <2>3. \A l \in 1..k : 1 + l - 1 = l
    BY <1>1
  <2> QED BY <2>2, <2>3
<1>3. g \in Seq(Chain!Node) /\ Len(g) = Len(c) - k - n /\ \A l \in (k + n + 1)..Len(c) : g[l - n - k] = c[l]
  <2>1. 1 <= k + n + 1 /\ k + n + 1 <= Len(c) + 1 /\ Len(c) - (k + n + 1) + 1 = Len(c) - k - n /\ k + n + 1 \in Int
    BY <1>1
  <2>2. g \in Seq(Chain!Node) /\ Len(g) = Len(c) - (k + n + 1) + 1 /\ \A l \in (k + n + 1)..Len(c) : g[l - (k + n + 1) + 1] = c[l]
    BY <2>1, RestIs
  <2>3. \A l \in (k + n + 1)..Len(c) : l - (k + n + 1) + 1 = l - n - k
    BY <1>1
  <2> QED BY <2>1, <2>2, <2>3
<1>4. Chain!S!Without(c, k, n) = f \o g
  BY DEF Chain!S!Without, Chain!S!Take, Chain!S!Drop
<1> HIDE DEF f, g
<1> DEFINE d == f \o g
<1>5. /\ d \in Seq(Chain!Node) /\ Len(d) = k + Len(g)
      /\ \A l \in 1..k : d[l] = f[l]
      /\ \A l \in 1..Len(g) : d[k + l] = g[l]
  BY <1>2, <1>3, JoinIs
<1> HIDE DEF d
<1>6. ASSUME NEW l \in (k + n + 1)..Len(c) PROVE d[l - n] = c[l]
  <2>1. l - n - k \in 1..Len(g) /\ k + (l - n - k) = l - n
    BY <1>1, <1>3
  <2>2. d[k + (l - n - k)] = g[l - n - k]
    BY <1>5, <2>1
  <2> QED BY <1>3, <2>1, <2>2
<1>7. Len(d) = Len(c) - n
  BY <1>1, <1>3, <1>5
<1>8. Chain!S!Without(c, k, n) = d
  BY <1>4 DEF d
<1> QED BY <1>2, <1>5, <1>6, <1>7, <1>8 DEF CutAt

-----------------------------------------------------------------------------
(* A place of a sequence that was put together is a place of its parts.    *)
LEMMA SplicedPlaces ==
  ASSUME NEW c \in Seq(Chain!Node), NEW e \in Seq(Chain!Node), NEW k \in 0..Len(c), NEW d, SplicedAt(d, c, k, e),
         NEW l \in 1..Len(d)
  PROVE  \/ l \in 1..k /\ l \in 1..Len(c) /\ d[l] = c[l]
         \/ l - k \in 1..Len(e) /\ d[l] = e[l - k]
         \/ l - Len(e) \in (k + 1)..Len(c) /\ l - Len(e) \in 1..Len(c) /\ d[l] = c[l - Len(e)]
<1>1. Len(c) \in Nat /\ Len(e) \in Nat /\ k \in Nat /\ k <= Len(c) /\ Len(d) = Len(c) + Len(e)
  BY ItemsAre DEF SplicedAt
<1>2. CASE l <= k
  BY <1>1, <1>2 DEF SplicedAt
<1>3. CASE l > k /\ l <= k + Len(e)
  <2>1. l - k \in 1..Len(e) /\ k + (l - k) = l
    BY <1>1, <1>3
  <2>2. d[k + (l - k)] = e[l - k]
    BY <2>1 DEF SplicedAt
  <2> QED BY <2>1, <2>2
<1>4. CASE l > k + Len(e)
  <2>1. l - Len(e) \in (k + 1)..Len(c) /\ l - Len(e) \in 1..Len(c) /\ (l - Len(e)) + Len(e) = l
    BY <1>1, <1>4
  <2>2. d[(l - Len(e)) + Len(e)] = c[l - Len(e)]
    BY <2>1 DEF SplicedAt
  <2> QED BY <2>1, <2>2
<1> QED BY <1>1, <1>2, <1>3, <1>4

(* The items of both, each once.                                           *)
LEMMA SplicedItems ==
  ASSUME NEW c \in Seq(Chain!Node), NEW e \in Seq(Chain!Node), NEW k \in 0..Len(c), NEW d, SplicedAt(d, c, k, e),
         Distinct(c), Distinct(e), Of(c) \cap Of(e) = {}
  PROVE  Distinct(d) /\ Of(d) = Of(c) \cup Of(e)
<1>1. Len(c) \in Nat /\ Len(e) \in Nat /\ k \in Nat /\ k <= Len(c) /\ Len(d) = Len(c) + Len(e)
  BY ItemsAre DEF SplicedAt
<1>2. \A j \in 1..Len(c), l \in 1..Len(e) : c[j] # e[l]
  BY DEF Of
<1>3. ASSUME NEW p \in 1..Len(d), NEW q \in 1..Len(d), d[p] = d[q] PROVE p = q
  <2>1. \/ p \in 1..k /\ p \in 1..Len(c) /\ d[p] = c[p]
        \/ p - k \in 1..Len(e) /\ d[p] = e[p - k]
        \/ p - Len(e) \in (k + 1)..Len(c) /\ p - Len(e) \in 1..Len(c) /\ d[p] = c[p - Len(e)]
    BY SplicedPlaces
  <2>2. \/ q \in 1..k /\ q \in 1..Len(c) /\ d[q] = c[q]
        \/ q - k \in 1..Len(e) /\ d[q] = e[q - k]
        \/ q - Len(e) \in (k + 1)..Len(c) /\ q - Len(e) \in 1..Len(c) /\ d[q] = c[q - Len(e)]
    BY SplicedPlaces
  <2> QED BY <1>1, <1>2, <1>3, <2>1, <2>2 DEF Distinct
<1>4. \A l \in 1..Len(d) : d[l] \in Of(c) \cup Of(e)
  BY SplicedPlaces DEF Of
<1>5. ASSUME NEW l \in 1..Len(c) PROVE c[l] \in Of(d)
  <2>1. CASE l <= k
    BY <1>1, <2>1 DEF SplicedAt, Of
  <2>2. CASE l > k
    <3>1. l + Len(e) \in 1..Len(d) /\ d[l + Len(e)] = c[l]
      BY <1>1, <2>2 DEF SplicedAt
    <3> QED BY <3>1 DEF Of
  <2> QED BY <1>1, <2>1, <2>2
<1>6. ASSUME NEW l \in 1..Len(e) PROVE e[l] \in Of(d)
  <2>1. k + l \in 1..Len(d) /\ d[k + l] = e[l]
    BY <1>1 DEF SplicedAt
  <2> QED BY <2>1 DEF Of
<1>7. Of(d) = Of(c) \cup Of(e)
  BY <1>4, <1>5, <1>6 DEF Of
<1> QED BY <1>3, <1>7 DEF Distinct

(* The links inside of a block, whose ends may point anywhere.             *)
Block(s, e) ==
  /\ e \in Seq(Chain!Node) /\ Len(e) >= 1 /\ Distinct(e)
  /\ \A l \in 1..Len(e) : l < Len(e) => s.next[e[l]] = e[l + 1]
  /\ \A l \in 1..Len(e) : l > 1 => s.prev[e[l]] = e[l - 1]

(* A chain is a block.                                                     *)
LEMMA LinkedIsBlock ==
  ASSUME NEW s, NEW e, Linked(s, e) PROVE Block(s, e)
<1>1. Len(e) \in Nat
  BY ItemsAre DEF Linked
<1> QED BY <1>1 DEF Linked, Block, Onward, Homeward

(* A block e is linked into the chain c behind its first k items.          *)
Woven(s, t, c, k, e) ==
  /\ \A a \in Of(c) \cup Of(e) :
       t.next[a] = IF a = e[Len(e)] THEN IF k < Len(c) THEN c[k + 1] ELSE 0
                   ELSE IF k > 0 /\ a = c[k] THEN e[1] ELSE s.next[a]
  /\ \A a \in Of(c) \cup Of(e) :
       t.prev[a] = IF a = e[1] THEN IF k > 0 THEN c[k] ELSE 0
                   ELSE IF k < Len(c) /\ a = c[k + 1] THEN e[Len(e)] ELSE s.prev[a]

(* The links then spell out the whole.                                     *)
LEMMA SpliceLinks ==
  ASSUME NEW s, NEW t, NEW c, NEW e, NEW d, NEW k \in 0..Len(c),
         Linked(s, c), Block(s, e), Of(c) \cap Of(e) = {}, SplicedAt(d, c, k, e), Woven(s, t, c, k, e)
  PROVE  Linked(t, d)
<1> USE DEF Woven
<1>1. /\ c \in Seq(Chain!Node) /\ e \in Seq(Chain!Node) /\ Distinct(c) /\ Distinct(e)
      /\ Len(c) \in Nat /\ Len(e) \in Nat /\ k \in Nat /\ k <= Len(c) /\ Len(c) >= 1 /\ Len(e) >= 1
      /\ Len(d) = Len(c) + Len(e) /\ d \in Seq(Chain!Node)
  BY ItemsAre DEF Linked, Block, SplicedAt
<1>2. \A j \in 1..Len(c), l \in 1..Len(e) : c[j] # e[l]
  BY DEF Of
<1>3. Distinct(d)
  BY <1>1, SplicedItems
<1>4. /\ \A l \in 1..k : d[l] = c[l]
      /\ \A l \in 1..Len(e) : d[k + l] = e[l]
      /\ \A l \in (k + 1)..Len(c) : d[l + Len(e)] = c[l]
  BY DEF SplicedAt
<1>5. /\ \A l \in 1..Len(c) : s.next[c[l]] = (IF l = Len(c) THEN 0 ELSE c[l + 1])
                           /\ s.prev[c[l]] = (IF l = 1 THEN 0 ELSE c[l - 1])
      /\ \A l \in 1..Len(e) : (l < Len(e) => s.next[e[l]] = e[l + 1]) /\ (l > 1 => s.prev[e[l]] = e[l - 1])
  BY DEF Linked, Block, Onward, Homeward
<1>6. /\ \A l \in 1..Len(c) : c[l] \in Of(c) \cup Of(e)
      /\ \A l \in 1..Len(e) : e[l] \in Of(c) \cup Of(e)
  BY DEF Of
<1>7. ASSUME NEW l \in 1..Len(d)
      PROVE  /\ t.next[d[l]] = IF l = Len(d) THEN 0 ELSE d[l + 1]
             /\ t.prev[d[l]] = IF l = 1 THEN 0 ELSE d[l - 1]
  <2>1. CASE l \in 1..k /\ l \in 1..Len(c) /\ d[l] = c[l]
    <3>1. /\ t.next[c[l]] = IF l = k THEN e[1] ELSE s.next[c[l]]
          /\ t.prev[c[l]] = s.prev[c[l]]
      <4>1. c[l] # e[Len(e)] /\ c[l] # e[1] /\ (k > 0) /\ (c[l] = c[k] <=> l = k) /\ (k < Len(c) => c[l] # c[k + 1])
        BY <1>1, <1>2, <2>1 DEF Distinct
      <4> QED BY <1>6, <2>1, <4>1
    <3>2. d[k + 1] = e[1]
      BY <1>1, <1>4
    <3>3. l < k => d[l + 1] = c[l + 1] /\ s.next[c[l]] = c[l + 1]
      BY <1>1, <1>4, <1>5, <2>1
    <3>4. l > 1 => d[l - 1] = c[l - 1]
      BY <1>1, <1>4, <2>1
    <3>5. l # Len(d) /\ (l = k \/ l < k)
      BY <1>1, <2>1
    <3>6. t.next[d[l]] = IF l = Len(d) THEN 0 ELSE d[l + 1]
      BY <2>1, <3>1, <3>2, <3>3, <3>5
    <3>7. t.prev[d[l]] = IF l = 1 THEN 0 ELSE d[l - 1]
      BY <1>5, <2>1, <3>1, <3>4
    <3> QED BY <3>6, <3>7
  <2>2. CASE l - k \in 1..Len(e) /\ d[l] = e[l - k]
    <3> DEFINE x == l - k
    <3>0. x \in 1..Len(e) /\ d[l] = e[x] /\ l = k + x
      BY <1>1, <2>2
    <3> HIDE DEF x
    <3>1. t.next[e[x]] = IF x = Len(e) THEN IF k < Len(c) THEN c[k + 1] ELSE 0 ELSE s.next[e[x]]
      <4>1. (e[x] = e[Len(e)] <=> x = Len(e)) /\ (k > 0 => e[x] # c[k])
        BY <1>1, <1>2, <3>0 DEF Distinct
      <4> QED BY <1>6, <3>0, <4>1
    <3>2. t.prev[e[x]] = IF x = 1 THEN IF k > 0 THEN c[k] ELSE 0 ELSE s.prev[e[x]]
      <4>0. 1 \in 1..Len(e) /\ (k < Len(c) => k + 1 \in 1..Len(c))
        BY <1>1
      <4>1. (e[x] = e[1] <=> x = 1) /\ (k < Len(c) => e[x] # c[k + 1])
        BY <1>1, <1>2, <3>0, <4>0 DEF Distinct
      <4> QED BY <1>6, <3>0, <4>1
    <3>3. x < Len(e) => d[l + 1] = e[x + 1] /\ s.next[e[x]] = e[x + 1] /\ l # Len(d)
      BY <1>1, <1>4, <1>5, <3>0
    <3>4. x = Len(e) /\ k < Len(c) => d[l + 1] = c[k + 1] /\ l # Len(d)
      <4>1. SUFFICES ASSUME x = Len(e), k < Len(c) PROVE d[l + 1] = c[k + 1] /\ l # Len(d)
        OBVIOUS
      <4>2. k + 1 \in (k + 1)..Len(c) /\ (k + 1) + Len(e) = l + 1
        BY <1>1, <3>0, <4>1
      <4>3. d[(k + 1) + Len(e)] = c[k + 1]
        BY <1>4, <4>2
      <4> QED BY <1>1, <3>0, <4>1, <4>2, <4>3
    <3>5. x = Len(e) /\ ~(k < Len(c)) => l = Len(d)
      BY <1>1, <3>0
    <3>6. x = Len(e) \/ x < Len(e)
      BY <1>1, <3>0
    <3>7. t.next[d[l]] = IF l = Len(d) THEN 0 ELSE d[l + 1]
      BY <3>0, <3>1, <3>3, <3>4, <3>5, <3>6
    <3>8. x > 1 => d[l - 1] = e[x - 1] /\ s.prev[e[x]] = e[x - 1] /\ l # 1
      <4>1. SUFFICES ASSUME x > 1 PROVE d[l - 1] = e[x - 1] /\ s.prev[e[x]] = e[x - 1] /\ l # 1
        OBVIOUS
      <4>2. x - 1 \in 1..Len(e) /\ k + (x - 1) = l - 1 /\ l # 1
        BY <1>1, <3>0, <4>1
      <4>3. d[k + (x - 1)] = e[x - 1]
        BY <1>4, <4>2
      <4> QED BY <1>5, <3>0, <4>1, <4>2, <4>3
    <3>9. x = 1 /\ k > 0 => d[l - 1] = c[k] /\ l # 1
      BY <1>1, <1>4, <3>0
    <3>10. x = 1 /\ ~(k > 0) => l = 1
      BY <1>1, <3>0
    <3>11. x = 1 \/ x > 1
      BY <3>0
    <3>12. t.prev[d[l]] = IF l = 1 THEN 0 ELSE d[l - 1]
      BY <3>0, <3>2, <3>8, <3>9, <3>10, <3>11
    <3> QED BY <3>7, <3>12
  <2>3. CASE l - Len(e) \in (k + 1)..Len(c) /\ l - Len(e) \in 1..Len(c) /\ d[l] = c[l - Len(e)]
    <3> DEFINE x == l - Len(e)
    <3>0. x \in (k + 1)..Len(c) /\ x \in 1..Len(c) /\ d[l] = c[x] /\ l = x + Len(e)
      BY <1>1, <2>3
    <3> HIDE DEF x
    <3>1. /\ t.next[c[x]] = s.next[c[x]]
          /\ t.prev[c[x]] = IF x = k + 1 THEN e[Len(e)] ELSE s.prev[c[x]]
      <4>1. c[x] # e[Len(e)] /\ c[x] # e[1] /\ k < Len(c) /\ (c[x] = c[k + 1] <=> x = k + 1) /\ (k > 0 => c[x] # c[k])
        BY <1>1, <1>2, <3>0 DEF Distinct
      <4> QED BY <1>6, <3>0, <4>1
    <3>2. x < Len(c) => d[l + 1] = c[x + 1] /\ l # Len(d)
      <4>1. SUFFICES ASSUME x < Len(c) PROVE d[l + 1] = c[x + 1] /\ l # Len(d)
        OBVIOUS
      <4>2. x + 1 \in (k + 1)..Len(c) /\ (x + 1) + Len(e) = l + 1 /\ l # Len(d)
        BY <1>1, <3>0, <4>1
      <4> QED BY <1>4, <4>2
    <3>3. x = Len(c) => l = Len(d)
      BY <1>1, <3>0
    <3>4. x = Len(c) \/ x < Len(c)
      BY <1>1, <3>0
    <3>5. t.next[d[l]] = IF l = Len(d) THEN 0 ELSE d[l + 1]
      BY <1>5, <3>0, <3>1, <3>2, <3>3, <3>4
    <3>6. x = k + 1 => d[l - 1] = e[Len(e)] /\ l # 1
      <4>1. SUFFICES ASSUME x = k + 1 PROVE d[l - 1] = e[Len(e)] /\ l # 1
        OBVIOUS
      <4>2. l - 1 = k + Len(e) /\ Len(e) \in 1..Len(e) /\ l # 1
        BY <1>1, <3>0, <4>1
      <4> QED BY <1>4, <4>2
    <3>7. x > k + 1 => d[l - 1] = c[x - 1] /\ l # 1 /\ x # 1
      <4>1. SUFFICES ASSUME x > k + 1 PROVE d[l - 1] = c[x - 1] /\ l # 1 /\ x # 1
        OBVIOUS
      <4>2. x - 1 \in (k + 1)..Len(c) /\ (x - 1) + Len(e) = l - 1 /\ l # 1 /\ x # 1
        BY <1>1, <3>0, <4>1
      <4>3. d[(x - 1) + Len(e)] = c[x - 1]
        BY <1>4, <4>2
      <4> QED BY <4>2, <4>3
    <3>8. x = k + 1 \/ x > k + 1
      BY <1>1, <3>0
    <3>9. t.prev[d[l]] = IF l = 1 THEN 0 ELSE d[l - 1]
      BY <1>5, <3>0, <3>1, <3>6, <3>7, <3>8
    <3> QED BY <3>5, <3>9
  <2> QED BY <1>1, <2>1, <2>2, <2>3, SplicedPlaces
<1> QED BY <1>1, <1>3, <1>7 DEF Linked, Onward, Homeward

(* What is left of a chain when the items from place p to place q go.      *)
LEMMA CutPlaces ==
  ASSUME NEW c \in Seq(Chain!Node), NEW k \in Nat, NEW n \in Nat, k + n <= Len(c), NEW d, CutAt(d, c, k, n),
         NEW l \in 1..Len(d)
  PROVE  \/ l \in 1..k /\ l \in 1..Len(c) /\ d[l] = c[l]
         \/ l + n \in (k + n + 1)..Len(c) /\ l + n \in 1..Len(c) /\ d[l] = c[l + n]
<1>1. Len(c) \in Nat /\ Len(d) = Len(c) - n
  BY ItemsAre DEF CutAt
<1>2. CASE l <= k
  BY <1>1, <1>2 DEF CutAt
<1>3. CASE l > k
  <2>1. l + n \in (k + n + 1)..Len(c) /\ l + n \in 1..Len(c) /\ (l + n) - n = l
    BY <1>1, <1>3
  <2>2. d[(l + n) - n] = c[l + n]
    BY <2>1 DEF CutAt
  <2> QED BY <2>1, <2>2
<1> QED BY <1>1, <1>2, <1>3

(* The items that are left, each once.                                     *)
LEMMA CutItems ==
  ASSUME NEW c \in Seq(Chain!Node), NEW k \in Nat, NEW n \in Nat, k + n <= Len(c), NEW d, CutAt(d, c, k, n),
         Distinct(c)
  PROVE  Distinct(d) /\ Of(d) = Of(c) \ Between(c, k + 1, k + n)
<1>1. Len(c) \in Nat /\ Len(d) = Len(c) - n
  BY ItemsAre DEF CutAt
<1>2. ASSUME NEW p \in 1..Len(d), NEW q \in 1..Len(d), d[p] = d[q] PROVE p = q
  <2>1. \/ p \in 1..k /\ p \in 1..Len(c) /\ d[p] = c[p]
        \/ p + n \in (k + n + 1)..Len(c) /\ p + n \in 1..Len(c) /\ d[p] = c[p + n]
    BY CutPlaces
  <2>2. \/ q \in 1..k /\ q \in 1..Len(c) /\ d[q] = c[q]
        \/ q + n \in (k + n + 1)..Len(c) /\ q + n \in 1..Len(c) /\ d[q] = c[q + n]
    BY CutPlaces
  <2> QED BY <1>1, <1>2, <2>1, <2>2 DEF Distinct
<1>3. ASSUME NEW l \in 1..Len(d) PROVE d[l] \in Of(c) \ Between(c, k + 1, k + n)
  <2>1. PICK x \in 1..Len(c) : d[l] = c[x] /\ ~(x \in (k + 1)..(k + n))
    <3>1. CASE l \in 1..k /\ l \in 1..Len(c) /\ d[l] = c[l]
      <4>1. ~(l \in (k + 1)..(k + n))
        BY <3>1
      <4> QED BY <3>1, <4>1
    <3>2. CASE l + n \in (k + n + 1)..Len(c) /\ l + n \in 1..Len(c) /\ d[l] = c[l + n]
      <4>1. ~(l + n \in (k + 1)..(k + n))
        BY <1>1, <3>2
      <4> QED BY <3>2, <4>1
    <3> QED BY <3>1, <3>2, CutPlaces
  <2>2. ASSUME NEW y \in (k + 1)..(k + n) PROVE c[y] # c[x]
    BY <1>1, <2>1, <2>2 DEF Distinct
  <2> QED BY <2>1, <2>2 DEF Of, Between
<1>4. ASSUME NEW x \in 1..Len(c), c[x] \notin Between(c, k + 1, k + n) PROVE c[x] \in Of(d)
  <2>1. ~(x \in (k + 1)..(k + n))
    BY <1>4 DEF Between
  <2>2. CASE x <= k
    <3>1. x \in 1..Len(d) /\ d[x] = c[x]
      BY <1>1, <2>2 DEF CutAt
    <3> QED BY <3>1 DEF Of
  <2>3. CASE x > k + n
    <3>1. x - n \in 1..Len(d) /\ x \in (k + n + 1)..Len(c)
      BY <1>1, <2>3
    <3>2. d[x - n] = c[x]
      BY <3>1 DEF CutAt
    <3> QED BY <3>1, <3>2 DEF Of
  <2> QED BY <1>1, <2>1, <2>2, <2>3
<1>5. Of(d) = Of(c) \ Between(c, k + 1, k + n)
  BY <1>3, <1>4 DEF Of
<1> QED BY <1>2, <1>5 DEF Distinct

(* There are n items of c behind its first k.                              *)
Fits(c, k, n) == k \in Nat /\ n \in Nat /\ n >= 1 /\ k + n <= Len(c)

(* The neighbours of these items are linked to each other.                 *)
Bridged(s, t, c, k, n, d) ==
  /\ \A a \in Of(d) : t.next[a] = IF k > 0 /\ a = c[k] THEN s.next[c[k + n]] ELSE s.next[a]
  /\ \A a \in Of(d) :
       t.prev[a] = IF k + n < Len(c) /\ a = c[k + n + 1] THEN s.prev[c[k + 1]] ELSE s.prev[a]

(* The links then spell out what is left.                                  *)
LEMMA CutLinks ==
  ASSUME NEW s, NEW t, NEW c, NEW d, NEW k, NEW n, Fits(c, k, n), n < Len(c),
         Linked(s, c), CutAt(d, c, k, n), Bridged(s, t, c, k, n, d)
  PROVE  Linked(t, d)
<1> USE DEF Fits, Bridged
<1>1. /\ c \in Seq(Chain!Node) /\ Distinct(c) /\ Len(c) \in Nat /\ Len(c) >= 1
      /\ Len(d) = Len(c) - n /\ d \in Seq(Chain!Node)
  BY ItemsAre DEF Linked, CutAt
<1>2. Distinct(d) /\ \A l \in 1..Len(d) : d[l] \in Of(d)
  BY <1>1, CutItems DEF Of
<1>3. \A l \in 1..Len(c) : s.next[c[l]] = (IF l = Len(c) THEN 0 ELSE c[l + 1])
                        /\ s.prev[c[l]] = (IF l = 1 THEN 0 ELSE c[l - 1])
  BY DEF Linked, Onward, Homeward
<1>4. /\ \A l \in 1..k : d[l] = c[l]
      /\ \A l \in (k + n + 1)..Len(c) : d[l - n] = c[l]
  BY DEF CutAt
<1>5. k + n \in 1..Len(c) /\ k + 1 \in 1..Len(c)
  BY <1>1
<1>6. k + n < Len(c) => d[k + 1] = c[k + n + 1]
  <2>1. SUFFICES ASSUME k + n < Len(c) PROVE d[k + 1] = c[k + n + 1]
    OBVIOUS
  <2>2. k + n + 1 \in (k + n + 1)..Len(c) /\ (k + n + 1) - n = k + 1
    BY <1>1, <2>1
  <2>3. d[(k + n + 1) - n] = c[k + n + 1]
    BY <1>4, <2>2
  <2> QED BY <2>2, <2>3
<1>7. ASSUME NEW l \in 1..Len(d)
      PROVE  /\ t.next[d[l]] = IF l = Len(d) THEN 0 ELSE d[l + 1]
             /\ t.prev[d[l]] = IF l = 1 THEN 0 ELSE d[l - 1]
  <2>1. CASE l \in 1..k /\ l \in 1..Len(c) /\ d[l] = c[l]
    <3>1. /\ t.next[d[l]] = IF l = k THEN s.next[c[k + n]] ELSE s.next[c[l]]
          /\ t.prev[d[l]] = s.prev[c[l]]
      <4>1. k > 0 /\ k \in 1..Len(c) /\ (k + n < Len(c) => k + n + 1 \in 1..Len(c) /\ l # k + n + 1)
        BY <1>1, <2>1
      <4>2. (c[l] = c[k] <=> l = k) /\ (k + n < Len(c) => c[l] # c[k + n + 1])
        BY <1>1, <2>1, <4>1 DEF Distinct
      <4> QED BY <1>2, <2>1, <4>1, <4>2
    <3>2. l < k => d[l + 1] = c[l + 1] /\ s.next[c[l]] = c[l + 1] /\ l # Len(d)
      BY <1>1, <1>3, <1>4, <2>1
    <3>3. l = k /\ k + n < Len(c) => d[l + 1] = c[k + n + 1] /\ s.next[c[k + n]] = c[k + n + 1] /\ l # Len(d)
      BY <1>1, <1>3, <1>5, <1>6
    <3>4. l = k /\ ~(k + n < Len(c)) => s.next[c[k + n]] = 0 /\ l = Len(d)
      <4>1. ~(k + n < Len(c)) => k + n = Len(c) /\ k = Len(d)
        BY <1>1, <1>5
      <4> QED BY <1>3, <1>5, <4>1
    <3>5. l = k \/ l < k
      BY <2>1
    <3>6. t.next[d[l]] = IF l = Len(d) THEN 0 ELSE d[l + 1]
      BY <3>1, <3>2, <3>3, <3>4, <3>5
    <3>7. l > 1 => d[l - 1] = c[l - 1]
      BY <1>1, <1>4, <2>1
    <3>8. t.prev[d[l]] = IF l = 1 THEN 0 ELSE d[l - 1]
      BY <1>3, <2>1, <3>1, <3>7
    <3> QED BY <3>6, <3>8
  <2>2. CASE l + n \in (k + n + 1)..Len(c) /\ l + n \in 1..Len(c) /\ d[l] = c[l + n]
    <3> DEFINE x == l + n
    <3>0. x \in (k + n + 1)..Len(c) /\ x \in 1..Len(c) /\ d[l] = c[x] /\ l = x - n /\ l > k
      BY <1>1, <2>2
    <3> HIDE DEF x
    <3>1. /\ t.next[d[l]] = s.next[c[x]]
          /\ t.prev[d[l]] = IF x = k + n + 1 THEN s.prev[c[k + 1]] ELSE s.prev[c[x]]
      <4>1. (k > 0 => k \in 1..Len(c) /\ x # k) /\ k + n < Len(c) /\ k + n + 1 \in 1..Len(c)
        BY <1>1, <3>0
      <4>2. (k > 0 => c[x] # c[k]) /\ (c[x] = c[k + n + 1] <=> x = k + n + 1)
        BY <1>1, <3>0, <4>1 DEF Distinct
      <4> QED BY <1>2, <3>0, <4>1, <4>2
    <3>2. x < Len(c) => d[l + 1] = c[x + 1] /\ l # Len(d)
      <4>1. SUFFICES ASSUME x < Len(c) PROVE d[l + 1] = c[x + 1] /\ l # Len(d)
        OBVIOUS
      <4>2. x + 1 \in (k + n + 1)..Len(c) /\ (x + 1) - n = l + 1 /\ l # Len(d)
        BY <1>1, <3>0, <4>1
      <4>3. d[(x + 1) - n] = c[x + 1]
        BY <1>4, <4>2
      <4> QED BY <4>2, <4>3
    <3>3. x = Len(c) => l = Len(d)
      BY <1>1, <3>0
    <3>4. x = Len(c) \/ x < Len(c)
      BY <1>1, <3>0
    <3>5. t.next[d[l]] = IF l = Len(d) THEN 0 ELSE d[l + 1]
      BY <1>3, <3>0, <3>1, <3>2, <3>3, <3>4
    <3>6. x = k + n + 1 /\ k > 0 => d[l - 1] = c[k] /\ s.prev[c[k + 1]] = c[k] /\ l # 1
      <4>1. SUFFICES ASSUME x = k + n + 1, k > 0 PROVE d[l - 1] = c[k] /\ s.prev[c[k + 1]] = c[k] /\ l # 1
        OBVIOUS
      <4>2. l - 1 = k /\ k \in 1..k /\ l # 1 /\ (k + 1) - 1 = k /\ k + 1 # 1
        BY <1>1, <3>0, <4>1
      <4> QED BY <1>3, <1>4, <1>5, <4>2
    <3>7. x = k + n + 1 /\ ~(k > 0) => s.prev[c[k + 1]] = 0 /\ l = 1
      BY <1>1, <1>3, <1>5, <3>0
    <3>8. x > k + n + 1 => d[l - 1] = c[x - 1] /\ l # 1 /\ x # 1
      <4>1. SUFFICES ASSUME x > k + n + 1 PROVE d[l - 1] = c[x - 1] /\ l # 1 /\ x # 1
        OBVIOUS
      <4>2. x - 1 \in (k + n + 1)..Len(c) /\ (x - 1) - n = l - 1 /\ l # 1 /\ x # 1
        BY <1>1, <3>0, <4>1
      <4>3. d[(x - 1) - n] = c[x - 1]
        BY <1>4, <4>2
      <4> QED BY <4>2, <4>3
    <3>9. x = k + n + 1 \/ x > k + n + 1
      BY <1>1, <3>0
    <3>10. t.prev[d[l]] = IF l = 1 THEN 0 ELSE d[l - 1]
      BY <1>3, <3>0, <3>1, <3>6, <3>7, <3>8, <3>9
    <3> QED BY <3>5, <3>10
  <2> QED BY <1>1, <2>1, <2>2, CutPlaces
<1>8. Len(d) >= 1
  BY <1>1
<1> QED BY <1>1, <1>2, <1>7, <1>8 DEF Linked, Onward, Homeward

-----------------------------------------------------------------------------
(* Every live item is in one chain of C, in one place, and nothing else    *)
(* has links.                                                              *)
InChains(s, C) ==
  /\ \A c \in C : Linked(s, c)
  /\ \A c, d \in C : Of(c) \cap Of(d) # {} => c = d
  /\ \A a \in Chain!Node : a \in s.live <=> \E c \in C : a \in Of(c)
  /\ \A a \in Chain!Addr : a \notin s.live => s.next[a] = 0 /\ s.prev[a] = 0

(* The chains Old give way to the chains New.                              *)
LEMMA Relinked ==
  ASSUME NEW s \in Memory, NEW t \in Memory, NEW C, NEW Old, NEW New, InChains(s, C), Old \subseteq C,
         \A c \in New : Linked(t, c) /\ Of(c) \subseteq t.live,
         \A c, d \in New : Of(c) \cap Of(d) # {} => c = d,
         \A c \in New, d \in C \ Old : Of(c) \cap Of(d) = {},
         \A a \in Chain!Node : (\A c \in Old : a \notin Of(c)) /\ (\A c \in New : a \notin Of(c)) =>
           t.next[a] = s.next[a] /\ t.prev[a] = s.prev[a] /\ (a \in t.live <=> a \in s.live),
         \A a \in t.live : (\E c \in Old : a \in Of(c)) => \E c \in New : a \in Of(c),
         \A a \in Chain!Addr : a \notin t.live => t.next[a] = 0 /\ t.prev[a] = 0
  PROVE  InChains(t, (C \ Old) \cup New)
<1>0. \A c \in C : c \in Seq(Chain!Node) /\ Len(c) \in Nat /\ Of(c) \subseteq Chain!Node
  BY ItemsAre DEF InChains, Linked, Of
<1>1. ASSUME NEW c \in C \ Old PROVE Linked(t, c)
  <2>1. Linked(s, c) /\ c \in C
    BY DEF InChains
  <2>2. \A a \in Of(c) : t.next[a] = s.next[a] /\ t.prev[a] = s.prev[a]
    BY <1>0 DEF InChains
  <2>3. \A l \in 1..Len(c) : c[l] \in Of(c)
    BY DEF Of
  <2> QED BY <2>1, <2>2, <2>3 DEF Linked, Onward, Homeward
<1>2. \A c \in (C \ Old) \cup New : Linked(t, c)
  BY <1>1
<1>3. ASSUME NEW c \in (C \ Old) \cup New, NEW d \in (C \ Old) \cup New, Of(c) \cap Of(d) # {}
      PROVE  c = d
  BY <1>3 DEF InChains
<1>4. ASSUME NEW a \in Chain!Node
      PROVE  a \in t.live <=> \E c \in (C \ Old) \cup New : a \in Of(c)
  <2>1. ASSUME a \in t.live PROVE \E c \in (C \ Old) \cup New : a \in Of(c)
    <3>1. CASE \E c \in Old : a \in Of(c)
      BY <2>1, <3>1
    <3>2. CASE \E c \in New : a \in Of(c)
      BY <3>2
    <3>3. CASE (\A c \in Old : a \notin Of(c)) /\ (\A c \in New : a \notin Of(c))
      <4>1. a \in s.live
        BY <2>1, <3>3
      <4>2. PICK c \in C : a \in Of(c)
        BY <4>1 DEF InChains
      <4> QED BY <3>3, <4>2
    <3> QED BY <3>1, <3>2, <3>3
  <2>2. ASSUME NEW c \in (C \ Old) \cup New, a \in Of(c) PROVE a \in t.live
    <3>1. CASE c \in New
      BY <2>2, <3>1
    <3>2. CASE c \in C \ Old
      <4>1. a \in s.live
        BY <2>2, <3>2 DEF InChains
      <4>2. \A d \in Old : a \notin Of(d)
        BY <2>2, <3>2 DEF InChains
      <4>3. \A d \in New : a \notin Of(d)
        BY <2>2, <3>2
      <4> QED BY <4>1, <4>2, <4>3
    <3> QED BY <3>1, <3>2
  <2> QED BY <2>1, <2>2
<1> QED BY <1>2, <1>3, <1>4 DEF InChains

(* Nothing but the links, the parents and the edges has changed.           *)
Rest(s, t) ==
  /\ s \in Memory /\ t \in Memory
  /\ t.pending = s.pending /\ t.live = s.live /\ t.removed = s.removed
  /\ t.has = s.has /\ t.refs = s.refs /\ t.fault = s.fault
Edges(s, t) == t.begin = s.begin /\ t.end = s.end /\ t.count = s.count

Same(s, t) == Rest(s, t) /\ Edges(s, t) /\ t.mine = s.mine

(* Writing one link.                                                       *)
LEMMA NextSet ==
  ASSUME NEW s \in Memory, NEW a \in Chain!Node, NEW b \in Chain!Addr, NEW t, t = Chain!SetNext(s, a, b)
  PROVE  t \in Memory /\ Same(s, t) /\ t.prev = s.prev /\ t.next = [s.next EXCEPT ![a] = b]
<1>1. a # 0 /\ a \in Chain!Addr
  BY ChainAssumption DEF Chain!Node, Chain!Addr
<1>2. t = [s EXCEPT !.next[a] = b]
  BY <1>1 DEF Chain!SetNext
<1> QED BY <1>1, <1>2 DEF Rest, Edges, Same, Memory

(* The other one.                                                          *)
LEMMA PrevSet ==
  ASSUME NEW s \in Memory, NEW a \in Chain!Node, NEW b \in Chain!Addr, NEW t, t = Chain!SetPrev(s, a, b)
  PROVE  t \in Memory /\ Same(s, t) /\ t.next = s.next /\ t.prev = [s.prev EXCEPT ![a] = b]
<1>1. a # 0 /\ a \in Chain!Addr
  BY ChainAssumption DEF Chain!Node, Chain!Addr
<1>2. t = [s EXCEPT !.prev[a] = b]
  BY <1>1 DEF Chain!SetPrev
<1> QED BY <1>1, <1>2 DEF Rest, Edges, Same, Memory

(* Writing one link of what may be no item.                                *)
LEMMA NextIf ==
  ASSUME NEW s \in Memory, NEW a \in Chain!Addr, NEW b \in Chain!Addr, NEW t, t = Chain!IfNext(s, a, b)
  PROVE  /\ t \in Memory /\ Same(s, t) /\ t.prev = s.prev
         /\ t.next = IF a = 0 THEN s.next ELSE [s.next EXCEPT ![a] = b]
<1>1. CASE a = 0
  BY <1>1 DEF Chain!IfNext, Same, Rest, Edges
<1>2. CASE a # 0
  <2>1. a \in Chain!Node /\ t = Chain!SetNext(s, a, b)
    BY <1>2, ChainAssumption DEF Chain!IfNext, Chain!Node, Chain!Addr
  <2> QED BY <1>2, <2>1, NextSet
<1> QED BY <1>1, <1>2

(* The other one.                                                          *)
LEMMA PrevIf ==
  ASSUME NEW s \in Memory, NEW a \in Chain!Addr, NEW b \in Chain!Addr, NEW t, t = Chain!IfPrev(s, a, b)
  PROVE  /\ t \in Memory /\ Same(s, t) /\ t.next = s.next
         /\ t.prev = IF a = 0 THEN s.prev ELSE [s.prev EXCEPT ![a] = b]
<1>1. CASE a = 0
  BY <1>1 DEF Chain!IfPrev, Same, Rest, Edges
<1>2. CASE a # 0
  <2>1. a \in Chain!Node /\ t = Chain!SetPrev(s, a, b)
    BY <1>2, ChainAssumption DEF Chain!IfPrev, Chain!Node, Chain!Addr
  <2> QED BY <1>2, <2>1, PrevSet
<1> QED BY <1>1, <1>2

(* Writing links one after the other leaves the rest as it was.            *)
LEMMA SameOn ==
  ASSUME NEW s, NEW t, NEW u, Same(s, t), Same(t, u)
  PROVE  Same(s, u)
BY DEF Same, Rest, Edges

(* The items of e have come to belong to the list, or to none.             *)
Joined(s, t, e) ==
  Rest(s, t) /\ Edges(s, t) /\ t.next = s.next /\ t.prev = s.prev /\ t.mine = s.mine \cup Of(e)
Left(s, t, e) ==
  Rest(s, t) /\ Edges(s, t) /\ t.next = s.next /\ t.prev = s.prev /\ t.mine = s.mine \ Of(e)

(* A chain whose items all belong to the list or all belong to none.       *)
AsOne(s, e) == Of(e) \subseteq s.mine \/ Of(e) \cap s.mine = {}

(* The chain of an item gets a parent, or loses it.                        *)
LEMMA Parents ==
  ASSUME NEW s \in Memory, NEW e, Linked(s, e), NEW x \in Of(e), AsOne(s, e)
  PROVE  /\ Joined(s, Chain!DListItem_set_list_parent(s, x, TRUE), e)
         /\ Left(s, Chain!DListItem_set_list_parent(s, x, FALSE), e)
<1>1. PICK j \in 1..Len(e) : x = e[j]
  BY DEF Of
<1>2. Chain!ChainOf(s, x) = e /\ e \in Seq(Chain!Node)
  BY <1>1, ChainIs DEF Linked
<1>3. Chain!ToSet(e) = Of(e)
  BY <1>2, ItemsAre DEF Chain!ToSet, Of
<1>4. x \in Chain!Node /\ x # 0 /\ Of(e) \subseteq Chain!Node
  BY <1>1, <1>2, ItemsAre DEF Of
<1>5. ASSUME NEW t, t = Chain!DListItem_set_list_parent(s, x, TRUE) PROVE Joined(s, t, e)
  <2>1. CASE x \in s.mine
    <3>1. t = s /\ s.mine = s.mine \cup Of(e)
      BY <1>5, <2>1 DEF Chain!DListItem_set_list_parent, AsOne
    <3> QED BY <3>1 DEF Joined, Rest, Edges
  <2>2. CASE x \notin s.mine
    <3>1. t = [s EXCEPT !.mine = s.mine \cup Of(e)]
      BY <1>2, <1>3, <1>4, <1>5, <2>2 DEF Chain!DListItem_set_list_parent
    <3> QED BY <1>4, <3>1 DEF Joined, Rest, Edges, Memory
  <2> QED BY <2>1, <2>2
<1>6. ASSUME NEW t, t = Chain!DListItem_set_list_parent(s, x, FALSE) PROVE Left(s, t, e)
  <2>1. CASE x \notin s.mine
    <3>1. t = s /\ s.mine = s.mine \ Of(e)
      BY <1>6, <2>1 DEF Chain!DListItem_set_list_parent, AsOne
    <3> QED BY <3>1 DEF Left, Rest, Edges
  <2>2. CASE x \in s.mine
    <3>1. t = [s EXCEPT !.mine = s.mine \ Of(e)]
      BY <1>2, <1>3, <1>4, <1>6, <2>2 DEF Chain!DListItem_set_list_parent
    <3> QED BY <1>4, <3>1 DEF Left, Rest, Edges, Memory
  <2> QED BY <2>1, <2>2
<1> QED BY <1>5, <1>6

-----------------------------------------------------------------------------
(* The links of e lead into c behind its first k items.                    *)
SplicedInto(s, t, c, k, e) ==
  /\ t.next = [a \in Chain!Addr |->
                 IF a = e[Len(e)] THEN IF k < Len(c) THEN c[k + 1] ELSE 0
                 ELSE IF k > 0 /\ a = c[k] THEN e[1] ELSE s.next[a]]
  /\ t.prev = [a \in Chain!Addr |->
                 IF a = e[1] THEN IF k > 0 THEN c[k] ELSE 0
                 ELSE IF k < Len(c) /\ a = c[k + 1] THEN e[Len(e)] ELSE s.prev[a]]

(* Two chains become one.                                                  *)
LEMMA JoinedChains ==
  ASSUME NEW s, NEW t, NEW C, InChains(s, C), NEW c \in C, NEW e \in C, c # e, NEW k \in 0..Len(c),
         Rest(s, t), SplicedInto(s, t, c, k, e)
  PROVE  /\ InChains(t, (C \ {c, e}) \cup {Chain!S!Spliced(c, k, e)})
         /\ Linked(t, Chain!S!Spliced(c, k, e)) /\ Of(Chain!S!Spliced(c, k, e)) = Of(c) \cup Of(e)
<1> DEFINE d == Chain!S!Spliced(c, k, e)
<1>1. Linked(s, c) /\ Linked(s, e) /\ Of(c) \cap Of(e) = {} /\ Block(s, e)
  BY LinkedIsBlock DEF InChains
<1>2. c \in Seq(Chain!Node) /\ e \in Seq(Chain!Node) /\ Distinct(c) /\ Distinct(e) /\ Len(c) \in Nat /\ Len(e) \in Nat /\ Len(e) >= 1
  BY <1>1, ItemsAre DEF Linked
<1>3. Of(c) \subseteq Chain!Node /\ Of(e) \subseteq Chain!Node /\ Chain!Node \subseteq Chain!Addr /\ e[Len(e)] \in Of(e) /\ e[1] \in Of(e)
  BY <1>2, ItemsAre, ChainAssumption DEF Of, Chain!Node, Chain!Addr
<1>4. SplicedAt(d, c, k, e)
  BY <1>2, SplicedIs
<1> HIDE DEF d
<1>5. Of(d) = Of(c) \cup Of(e)
  BY <1>1, <1>2, <1>4, SplicedItems
<1>7. Woven(s, t, c, k, e)
  BY <1>3 DEF SplicedInto, Woven
<1>8. Linked(t, d)
  BY <1>1, <1>4, <1>7, SpliceLinks
<1>9. Of(c) \subseteq s.live /\ Of(e) \subseteq s.live /\ s \in Memory /\ t \in Memory /\ t.live = s.live
  BY <1>3 DEF InChains, Rest
<1>10. (k > 0 => c[k] \in Of(c)) /\ (k < Len(c) => c[k + 1] \in Of(c))
  BY <1>2 DEF Of
<1>11. \A a \in Chain!Addr : a \notin Of(c) \cup Of(e) => t.next[a] = s.next[a] /\ t.prev[a] = s.prev[a]
  BY <1>3, <1>10 DEF SplicedInto
<1>12. \A a \in Chain!Addr : a \notin t.live => t.next[a] = 0 /\ t.prev[a] = 0
  BY <1>9, <1>11 DEF InChains
<1>13. \A x \in C \ {c, e} : Of(d) \cap Of(x) = {}
  BY <1>5 DEF InChains
<1>14. InChains(t, (C \ {c, e}) \cup {d})
  <2> DEFINE Old == {c, e}
             New == {d}
  <2>1. Old \subseteq C /\ (\A x \in New : Linked(t, x) /\ Of(x) \subseteq t.live)
    BY <1>5, <1>8, <1>9
  <2>2. \A x \in New, y \in C \ Old : Of(x) \cap Of(y) = {}
    BY <1>13
  <2>3. \A a \in Chain!Node : (\A x \in Old : a \notin Of(x)) /\ (\A x \in New : a \notin Of(x)) =>
           t.next[a] = s.next[a] /\ t.prev[a] = s.prev[a] /\ (a \in t.live <=> a \in s.live)
    BY <1>3, <1>9, <1>11
  <2>4. \A a \in t.live : (\E x \in Old : a \in Of(x)) => \E x \in New : a \in Of(x)
    BY <1>5
  <2>5. \A x, y \in New : Of(x) \cap Of(y) # {} => x = y
    OBVIOUS
  <2> HIDE DEF Old, New
  <2>6. InChains(t, (C \ Old) \cup New)
    BY <1>9, <1>12, <2>1, <2>2, <2>3, <2>4, <2>5, Relinked
  <2> QED BY <2>6 DEF Old, New
<1> QED BY <1>5, <1>8, <1>14 DEF d

(* The chain of x gets the parent of a.                                    *)
LEMMA Adopts ==
  ASSUME NEW s \in Memory, NEW e, Linked(s, e), NEW x \in Of(e), AsOne(s, e), NEW a
  PROVE  IF a \in s.mine THEN Joined(s, Chain!Adopt(s, a, x), e) ELSE Left(s, Chain!Adopt(s, a, x), e)
<1>1. CASE a \in s.mine
  <2>1. Chain!Adopt(s, a, x) = Chain!DListItem_set_list_parent(s, x, TRUE)
    BY <1>1 DEF Chain!Adopt, Chain!DListItem_set_list_parent
  <2>2. Joined(s, Chain!DListItem_set_list_parent(s, x, TRUE), e)
    BY Parents
  <2> QED BY <1>1, <2>1, <2>2
<1>2. CASE a \notin s.mine
  <2>1. Chain!Adopt(s, a, x) = Chain!DListItem_set_list_parent(s, x, FALSE)
    BY <1>2 DEF Chain!Adopt, Chain!DListItem_set_list_parent
  <2>2. Left(s, Chain!DListItem_set_list_parent(s, x, FALSE), e)
    BY Parents
  <2> QED BY <1>2, <2>1, <2>2
<1> QED BY <1>1, <1>2

(* The ends of two chains, and what is next to an item of one.             *)
LEMMA Ends ==
  ASSUME NEW s \in Memory, NEW c, Linked(s, c)
  PROVE  /\ c \in Seq(Chain!Node) /\ Len(c) \in Nat /\ Len(c) >= 1 /\ Distinct(c)
         /\ 1 \in 1..Len(c) /\ Len(c) \in 1..Len(c)
         /\ c[1] \in Of(c) /\ c[Len(c)] \in Of(c) /\ Of(c) \subseteq Chain!Node /\ Chain!Node \subseteq Chain!Addr /\ 0 \in Chain!Addr
         /\ \A j \in 1..Len(c) :
              /\ c[j] \in Of(c) /\ c[j] \in Chain!Node /\ c[j] \in Chain!Addr /\ c[j] # 0
              /\ s.next[c[j]] \in Chain!Addr /\ s.prev[c[j]] \in Chain!Addr
              /\ j < Len(c) => s.next[c[j]] = c[j + 1] /\ j + 1 \in 1..Len(c)
              /\ j = Len(c) => s.next[c[j]] = 0
              /\ j > 1 => s.prev[c[j]] = c[j - 1] /\ j - 1 \in 1..Len(c)
              /\ j = 1 => s.prev[c[j]] = 0
<1>1. c \in Seq(Chain!Node) /\ Len(c) >= 1 /\ Distinct(c)
  BY DEF Linked
<1>2. Len(c) \in Nat /\ \A j \in 1..Len(c) : c[j] \in Chain!Node /\ c[j] # 0
  BY <1>1, ItemsAre
<1>3. 1 \in 1..Len(c) /\ Len(c) \in 1..Len(c) /\ Chain!Node \subseteq Chain!Addr /\ 0 \in Chain!Addr
  BY <1>1, <1>2, ChainAssumption DEF Chain!Node, Chain!Addr
<1>4. \A j \in 1..Len(c) : c[j] \in Of(c)
  BY DEF Of
<1>5. Of(c) \subseteq Chain!Node
  BY <1>2 DEF Of
<1>6. ASSUME NEW j \in 1..Len(c)
      PROVE  /\ c[j] \in Of(c) /\ c[j] \in Chain!Node /\ c[j] \in Chain!Addr /\ c[j] # 0
             /\ s.next[c[j]] \in Chain!Addr /\ s.prev[c[j]] \in Chain!Addr
             /\ j < Len(c) => s.next[c[j]] = c[j + 1] /\ j + 1 \in 1..Len(c)
             /\ j = Len(c) => s.next[c[j]] = 0
             /\ j > 1 => s.prev[c[j]] = c[j - 1] /\ j - 1 \in 1..Len(c)
             /\ j = 1 => s.prev[c[j]] = 0
  <2>1. c[j] \in Of(c) /\ c[j] \in Chain!Node /\ c[j] \in Chain!Addr /\ c[j] # 0
    BY <1>2, <1>3, <1>4
  <2>2. s.next[c[j]] \in Chain!Addr /\ s.prev[c[j]] \in Chain!Addr
    BY <2>1 DEF Memory
  <2>3. s.next[c[j]] = IF j = Len(c) THEN 0 ELSE c[j + 1]
    BY DEF Linked, Onward
  <2>4. s.prev[c[j]] = IF j = 1 THEN 0 ELSE c[j - 1]
    BY DEF Linked, Homeward
  <2> QED BY <1>2, <2>1, <2>2, <2>3, <2>4
<1> QED BY <1>1, <1>2, <1>3, <1>4, <1>5, <1>6

(* The chain e goes behind the first k items of c, with the parent of a.   *)
EntersAt(s, t, c, k, e, a) ==
  /\ Rest(s, t) /\ Edges(s, t) /\ SplicedInto(s, t, c, k, e)
  /\ t.mine = IF a \in s.mine THEN s.mine \cup Of(e) ELSE s.mine \ Of(e)

(* The chain e, of which x is an item, goes behind item j of c.            *)
LEMMA InsertsAfter ==
  ASSUME NEW s \in Memory, NEW c, Linked(s, c), NEW e, Linked(s, e), Of(c) \cap Of(e) = {}, AsOne(s, e),
         NEW j \in 1..Len(c), NEW x \in Of(e), NEW t, t = Chain!DListItem_insert_after(s, c[j], x)
  PROVE  EntersAt(s, t, c, j, e, c[j])
<1>1. PICK last : last = e[Len(e)]
  OBVIOUS
<1>2. PICK new : new = e[1]
  OBVIOUS
<1>3. PICK nx : nx = s.next[c[j]]
  OBVIOUS
<1>4. PICK u0 : u0 = Chain!Adopt(s, c[j], new)
  OBVIOUS
<1>5. PICK u1 : u1 = Chain!SetNext(u0, last, nx)
  OBVIOUS
<1>6. PICK u2 : u2 = Chain!IfPrev(u1, nx, last)
  OBVIOUS
<1>7. PICK u3 : u3 = Chain!SetPrev(u2, new, c[j])
  OBVIOUS
<1>8. Chain!DListItem_get_first_item(s, x) = new /\ Chain!DListItem_get_last_item(s, x) = last
  BY <1>1, <1>2, Lookups DEF Of
<1>9. t = Chain!SetNext(u3, c[j], new)
  BY <1>3, <1>4, <1>5, <1>6, <1>7, <1>8 DEF Chain!DListItem_insert_after
<1>10. /\ c[j] \in Chain!Node /\ c[j] \in Of(c) /\ new \in Chain!Node /\ last \in Chain!Node /\ new \in Of(e) /\ last \in Of(e)
       /\ nx \in Chain!Addr /\ Chain!Node \subseteq Chain!Addr /\ nx \notin Of(e)
       /\ IF j < Len(c) THEN nx = c[j + 1] /\ nx # 0 /\ j + 1 \in 1..Len(c) ELSE nx = 0
       /\ Len(c) \in Nat
  <2>1. c[j] \in Chain!Node /\ c[j] \in Of(c) /\ Chain!Node \subseteq Chain!Addr /\ Len(c) \in Nat
    BY Ends
  <2>2. new \in Chain!Node /\ last \in Chain!Node /\ new \in Of(e) /\ last \in Of(e) /\ Of(e) \subseteq Chain!Node
    BY <1>1, <1>2, Ends
  <2>3. CASE j < Len(c)
    <3>1. nx = c[j + 1] /\ j + 1 \in 1..Len(c)
      BY <1>3, <2>3, Ends
    <3>2. c[j + 1] \in Of(c) /\ c[j + 1] # 0 /\ c[j + 1] \in Chain!Addr
      BY <3>1, Ends
    <3> QED BY <2>1, <2>2, <2>3, <3>1, <3>2
  <2>4. CASE ~(j < Len(c))
    <3>1. nx = 0 /\ 0 \in Chain!Addr /\ 0 \notin Chain!Node
      BY <1>3, <2>1, <2>4, Ends DEF Chain!Node
    <3> QED BY <2>1, <2>2, <2>4, <3>1
  <2> QED BY <2>3, <2>4
<1>11. /\ u0 \in Memory /\ Rest(s, u0) /\ Edges(s, u0) /\ u0.next = s.next /\ u0.prev = s.prev
       /\ u0.mine = IF c[j] \in s.mine THEN s.mine \cup Of(e) ELSE s.mine \ Of(e)
  <2>1. IF c[j] \in s.mine THEN Joined(s, u0, e) ELSE Left(s, u0, e)
    BY <1>4, <1>10, Adopts
  <2> QED BY <2>1 DEF Joined, Left, Rest
<1>12. u1 \in Memory /\ Same(u0, u1) /\ u1.prev = u0.prev /\ u1.next = [u0.next EXCEPT ![last] = nx]
  BY <1>5, <1>10, <1>11, NextSet
<1>13. /\ u2 \in Memory /\ Same(u1, u2) /\ u2.next = u1.next
       /\ u2.prev = IF nx = 0 THEN u1.prev ELSE [u1.prev EXCEPT ![nx] = last]
  BY <1>6, <1>10, <1>12, PrevIf
<1>14. u3 \in Memory /\ Same(u2, u3) /\ u3.next = u2.next /\ u3.prev = [u2.prev EXCEPT ![new] = c[j]]
  BY <1>7, <1>10, <1>13, PrevSet
<1>15. t \in Memory /\ Same(u3, t) /\ t.prev = u3.prev /\ t.next = [u3.next EXCEPT ![c[j]] = new]
  BY <1>9, <1>10, <1>14, NextSet
<1>16. Rest(s, t) /\ Edges(s, t) /\ t.mine = IF c[j] \in s.mine THEN s.mine \cup Of(e) ELSE s.mine \ Of(e)
  BY <1>11, <1>12, <1>13, <1>14, <1>15 DEF Same, Rest, Edges
<1>17. c[j] # last /\ nx # new
  BY <1>10
<1>18. s.next \in [Chain!Addr -> Chain!Addr] /\ s.prev \in [Chain!Addr -> Chain!Addr]
  BY DEF Memory
<1>19. t.next = [[s.next EXCEPT ![last] = nx] EXCEPT ![c[j]] = new]
  BY <1>11, <1>12, <1>13, <1>14, <1>15
<1>20. t.prev = [(IF nx = 0 THEN s.prev ELSE [s.prev EXCEPT ![nx] = last]) EXCEPT ![new] = c[j]]
  BY <1>11, <1>12, <1>13, <1>14, <1>15
<1>21. t.next = [a \in Chain!Addr |->
                 IF a = last THEN IF j < Len(c) THEN c[j + 1] ELSE 0
                 ELSE IF j > 0 /\ a = c[j] THEN new ELSE s.next[a]]
  BY <1>10, <1>17, <1>18, <1>19
<1>22. t.prev = [a \in Chain!Addr |->
                 IF a = new THEN IF j > 0 THEN c[j] ELSE 0
                 ELSE IF j < Len(c) /\ a = c[j + 1] THEN last ELSE s.prev[a]]
  BY <1>10, <1>17, <1>18, <1>20
<1> QED BY <1>1, <1>2, <1>16, <1>21, <1>22 DEF SplicedInto, EntersAt

-----------------------------------------------------------------------------
(* The chain e, of which x is an item, goes in front of item k + 1 of c,   *)
(* which is not the first.                                                 *)
LEMMA InsertsBefore ==
  ASSUME NEW s \in Memory, NEW c, Linked(s, c), NEW e, Linked(s, e), Of(c) \cap Of(e) = {}, AsOne(s, e),
         NEW k \in 1..(Len(c) - 1), NEW x \in Of(e), NEW t, t = Chain!DListItem_insert_before(s, c[k + 1], x)
  PROVE  EntersAt(s, t, c, k, e, c[k + 1])
<1>1. PICK last : last = e[Len(e)]
  OBVIOUS
<1>2. PICK new : new = e[1]
  OBVIOUS
<1>3. PICK a : a = c[k + 1]
  OBVIOUS
<1>4. PICK pv : pv = s.prev[a]
  OBVIOUS
<1>5. PICK u0 : u0 = Chain!Adopt(s, a, new)
  OBVIOUS
<1>6. PICK u1 : u1 = Chain!SetNext(u0, last, a)
  OBVIOUS
<1>7. PICK u2 : u2 = Chain!SetPrev(u1, new, pv)
  OBVIOUS
<1>8. PICK u3 : u3 = Chain!SetPrev(u2, a, last)
  OBVIOUS
<1>9. Chain!DListItem_get_first_item(s, x) = new /\ Chain!DListItem_get_last_item(s, x) = last
  BY <1>1, <1>2, Lookups DEF Of
<1>10. t = Chain!SetNext(u3, pv, new)
  BY <1>3, <1>4, <1>5, <1>6, <1>7, <1>8, <1>9 DEF Chain!DListItem_insert_before
<1>11. /\ Len(c) \in Nat /\ k + 1 \in 1..Len(c) /\ k \in 1..Len(c) /\ a \in Chain!Node /\ a \in Of(c)
       /\ pv = c[k] /\ pv \in Chain!Node /\ pv \in Of(c) /\ Chain!Node \subseteq Chain!Addr
  <2>1. Len(c) \in Nat
    BY Ends
  <2>2. k + 1 \in 1..Len(c) /\ k \in 1..Len(c) /\ k + 1 > 1 /\ k + 1 - 1 = k
    BY <2>1
  <2>3. a \in Chain!Node /\ a \in Of(c) /\ pv = c[k + 1 - 1] /\ Chain!Node \subseteq Chain!Addr
    BY <1>3, <1>4, <2>2, Ends
  <2>4. c[k] \in Chain!Node /\ c[k] \in Of(c)
    BY <2>2, Ends
  <2> QED BY <2>1, <2>2, <2>3, <2>4
<1>12. new \in Chain!Node /\ last \in Chain!Node /\ new \in Of(e) /\ last \in Of(e)
  BY <1>1, <1>2, Ends
<1>13. /\ u0 \in Memory /\ Rest(s, u0) /\ Edges(s, u0) /\ u0.next = s.next /\ u0.prev = s.prev
       /\ u0.mine = IF a \in s.mine THEN s.mine \cup Of(e) ELSE s.mine \ Of(e)
  <2>1. IF a \in s.mine THEN Joined(s, u0, e) ELSE Left(s, u0, e)
    BY <1>5, <1>12, Adopts
  <2> QED BY <2>1 DEF Joined, Left, Rest
<1>14. u1 \in Memory /\ Same(u0, u1) /\ u1.prev = u0.prev /\ u1.next = [u0.next EXCEPT ![last] = a]
  BY <1>6, <1>11, <1>12, <1>13, NextSet
<1>15. u2 \in Memory /\ Same(u1, u2) /\ u2.next = u1.next /\ u2.prev = [u1.prev EXCEPT ![new] = pv]
  BY <1>7, <1>11, <1>12, <1>14, PrevSet
<1>16. u3 \in Memory /\ Same(u2, u3) /\ u3.next = u2.next /\ u3.prev = [u2.prev EXCEPT ![a] = last]
  BY <1>8, <1>11, <1>12, <1>15, PrevSet
<1>17. t \in Memory /\ Same(u3, t) /\ t.prev = u3.prev /\ t.next = [u3.next EXCEPT ![pv] = new]
  BY <1>10, <1>11, <1>12, <1>16, NextSet
<1>18. Rest(s, t) /\ Edges(s, t) /\ t.mine = IF a \in s.mine THEN s.mine \cup Of(e) ELSE s.mine \ Of(e)
  BY <1>13, <1>14, <1>15, <1>16, <1>17 DEF Same, Rest, Edges
<1>19. pv # last /\ a # new
  BY <1>11, <1>12
<1>20. s.next \in [Chain!Addr -> Chain!Addr] /\ s.prev \in [Chain!Addr -> Chain!Addr]
  BY DEF Memory
<1>21. t.next = [[s.next EXCEPT ![last] = a] EXCEPT ![pv] = new]
  BY <1>13, <1>14, <1>15, <1>16, <1>17
<1>22. t.prev = [[s.prev EXCEPT ![new] = pv] EXCEPT ![a] = last]
  BY <1>13, <1>14, <1>15, <1>16, <1>17
<1>23. k > 0 /\ k < Len(c)
  BY <1>11
<1>24. t.next = [b \in Chain!Addr |-> IF b = last THEN a ELSE IF b = pv THEN new ELSE s.next[b]]
  BY <1>11, <1>12, <1>19, <1>20, <1>21
<1>25. t.prev = [b \in Chain!Addr |-> IF b = new THEN pv ELSE IF b = a THEN last ELSE s.prev[b]]
  BY <1>11, <1>12, <1>19, <1>20, <1>22
<1>26. SplicedInto(s, t, c, k, e)
  BY <1>1, <1>2, <1>3, <1>11, <1>23, <1>24, <1>25 DEF SplicedInto
<1> QED BY <1>3, <1>18, <1>26 DEF EntersAt

(* The chain e goes behind the last item of c.                             *)
LEMMA PushesBack ==
  ASSUME NEW s \in Memory, NEW c, Linked(s, c), NEW e, Linked(s, e), Of(c) \cap Of(e) = {}, AsOne(s, e),
         NEW x \in Of(e), NEW y \in Of(c), NEW t, t = Chain!DListItem_push_back(s, y, x)
  PROVE  EntersAt(s, t, c, Len(c), e, c[Len(c)])
<1>1. PICK new : new = e[1]
  OBVIOUS
<1>2. PICK a : a = c[Len(c)]
  OBVIOUS
<1>3. PICK u0 : u0 = Chain!Adopt(s, a, new)
  OBVIOUS
<1>4. PICK u1 : u1 = Chain!SetNext(u0, a, new)
  OBVIOUS
<1>5. Chain!DListItem_get_first_item(s, x) = new /\ Chain!DListItem_get_last_item(s, y) = a
  BY <1>1, <1>2, Lookups DEF Of
<1>6. t = Chain!SetPrev(u1, new, a)
  BY <1>3, <1>4, <1>5 DEF Chain!DListItem_push_back
<1>7. Len(c) \in Nat /\ Len(c) >= 1 /\ a \in Chain!Node /\ a \in Of(c) /\ Chain!Node \subseteq Chain!Addr
  BY <1>2, Ends
<1>8. new \in Chain!Node /\ new \in Of(e) /\ e[Len(e)] \in Of(e) /\ s.next[e[Len(e)]] = 0
  BY <1>1, Ends
<1>9. /\ u0 \in Memory /\ Rest(s, u0) /\ Edges(s, u0) /\ u0.next = s.next /\ u0.prev = s.prev
      /\ u0.mine = IF a \in s.mine THEN s.mine \cup Of(e) ELSE s.mine \ Of(e)
  <2>1. IF a \in s.mine THEN Joined(s, u0, e) ELSE Left(s, u0, e)
    BY <1>3, <1>8, Adopts
  <2> QED BY <2>1 DEF Joined, Left, Rest
<1>10. u1 \in Memory /\ Same(u0, u1) /\ u1.prev = u0.prev /\ u1.next = [u0.next EXCEPT ![a] = new]
  BY <1>4, <1>7, <1>8, <1>9, NextSet
<1>11. t \in Memory /\ Same(u1, t) /\ t.next = u1.next /\ t.prev = [u1.prev EXCEPT ![new] = a]
  BY <1>6, <1>7, <1>8, <1>10, PrevSet
<1>12. Rest(s, t) /\ Edges(s, t) /\ t.mine = IF a \in s.mine THEN s.mine \cup Of(e) ELSE s.mine \ Of(e)
  BY <1>9, <1>10, <1>11 DEF Same, Rest, Edges
<1>13. s.next \in [Chain!Addr -> Chain!Addr] /\ s.prev \in [Chain!Addr -> Chain!Addr]
  BY DEF Memory
<1>14. t.next = [b \in Chain!Addr |-> IF b = a THEN new ELSE s.next[b]]
  BY <1>7, <1>9, <1>10, <1>11, <1>13
<1>15. t.prev = [b \in Chain!Addr |-> IF b = new THEN a ELSE s.prev[b]]
  BY <1>7, <1>8, <1>9, <1>10, <1>11, <1>13
<1>16. Len(c) > 0 /\ ~(Len(c) < Len(c)) /\ a # e[Len(e)]
  BY <1>7, <1>8
<1>17. SplicedInto(s, t, c, Len(c), e)
  BY <1>1, <1>2, <1>8, <1>14, <1>15, <1>16 DEF SplicedInto
<1> QED BY <1>2, <1>12, <1>17 DEF EntersAt

(* The chain e goes in front of the first item of c.                       *)
LEMMA PushesForward ==
  ASSUME NEW s \in Memory, NEW c, Linked(s, c), NEW e, Linked(s, e), Of(c) \cap Of(e) = {}, AsOne(s, e),
         NEW x \in Of(e), NEW y \in Of(c), NEW t, t = Chain!DListItem_push_forward(s, y, x)
  PROVE  EntersAt(s, t, c, 0, e, y)
<1>1. PICK new : new = e[1]
  OBVIOUS
<1>2. PICK last : last = e[Len(e)]
  OBVIOUS
<1>3. PICK a : a = c[1]
  OBVIOUS
<1>4. PICK u0 : u0 = Chain!Adopt(s, y, new)
  OBVIOUS
<1>5. PICK u1 : u1 = Chain!SetPrev(u0, a, last)
  OBVIOUS
<1>6. /\ Chain!DListItem_get_first_item(s, x) = new /\ Chain!DListItem_get_last_item(s, x) = last
      /\ Chain!DListItem_get_first_item(s, y) = a
  BY <1>1, <1>2, <1>3, Lookups DEF Of
<1>7. t = Chain!SetNext(u1, last, a)
  BY <1>4, <1>5, <1>6 DEF Chain!DListItem_push_forward
<1>8. Len(c) \in Nat /\ Len(c) >= 1 /\ a \in Chain!Node /\ a \in Of(c) /\ Chain!Node \subseteq Chain!Addr
  BY <1>3, Ends
<1>9. /\ new \in Chain!Node /\ new \in Of(e) /\ last \in Of(e) /\ last \in Chain!Node
      /\ s.prev[new] = 0
  BY <1>1, <1>2, Ends
<1>10. /\ u0 \in Memory /\ Rest(s, u0) /\ Edges(s, u0) /\ u0.next = s.next /\ u0.prev = s.prev
       /\ u0.mine = IF y \in s.mine THEN s.mine \cup Of(e) ELSE s.mine \ Of(e)
  <2>1. IF y \in s.mine THEN Joined(s, u0, e) ELSE Left(s, u0, e)
    BY <1>4, <1>9, Adopts
  <2> QED BY <2>1 DEF Joined, Left, Rest
<1>11. u1 \in Memory /\ Same(u0, u1) /\ u1.next = u0.next /\ u1.prev = [u0.prev EXCEPT ![a] = last]
  BY <1>5, <1>8, <1>9, <1>10, PrevSet
<1>12. t \in Memory /\ Same(u1, t) /\ t.prev = u1.prev /\ t.next = [u1.next EXCEPT ![last] = a]
  BY <1>7, <1>8, <1>9, <1>11, NextSet
<1>13. Rest(s, t) /\ Edges(s, t) /\ t.mine = IF y \in s.mine THEN s.mine \cup Of(e) ELSE s.mine \ Of(e)
  BY <1>10, <1>11, <1>12 DEF Same, Rest, Edges
<1>14. s.next \in [Chain!Addr -> Chain!Addr] /\ s.prev \in [Chain!Addr -> Chain!Addr]
  BY DEF Memory
<1>15. t.next = [b \in Chain!Addr |-> IF b = last THEN a ELSE s.next[b]]
  BY <1>8, <1>9, <1>10, <1>11, <1>12, <1>14
<1>16. t.prev = [b \in Chain!Addr |-> IF b = a THEN last ELSE s.prev[b]]
  BY <1>8, <1>10, <1>11, <1>12, <1>14
<1>17. 0 < Len(c) /\ ~(0 > 0) /\ a # new /\ 0 + 1 = 1
  BY <1>8, <1>9
<1>18. SplicedInto(s, t, c, 0, e)
  BY <1>1, <1>2, <1>3, <1>9, <1>15, <1>16, <1>17 DEF SplicedInto
<1> QED BY <1>13, <1>18 DEF EntersAt

-----------------------------------------------------------------------------
(* The ends of a block.                                                    *)
LEMMA BlockEnds ==
  ASSUME NEW s, NEW e, Block(s, e)
  PROVE  /\ e \in Seq(Chain!Node) /\ Len(e) \in Nat /\ Len(e) >= 1 /\ 1 \in 1..Len(e) /\ Len(e) \in 1..Len(e)
         /\ e[1] \in Of(e) /\ e[Len(e)] \in Of(e) /\ Of(e) \subseteq Chain!Node /\ e[1] \in Chain!Node /\ e[Len(e)] \in Chain!Node
<1>1. e \in Seq(Chain!Node) /\ Len(e) >= 1
  BY DEF Block
<1>2. Len(e) \in Nat /\ \A l \in 1..Len(e) : e[l] \in Chain!Node
  BY <1>1, ItemsAre
<1>3. 1 \in 1..Len(e) /\ Len(e) \in 1..Len(e)
  BY <1>1, <1>2
<1>4. e[1] \in Of(e) /\ e[Len(e)] \in Of(e)
  BY <1>3 DEF Of
<1> QED BY <1>1, <1>2, <1>3, <1>4 DEF Of

(* The block e goes in front of item k + 1 of c.                           *)
LEMMA PutsBefore ==
  ASSUME NEW s \in Memory, NEW c, Linked(s, c), NEW e, Block(s, e), Of(c) \cap Of(e) = {},
         NEW k \in 0..(Len(c) - 1), NEW t, t = Chain!PutBefore(s, e[1], e[Len(e)], c[k + 1])
  PROVE  t \in Memory /\ Same(s, t) /\ SplicedInto(s, t, c, k, e)
<1>1. PICK last : last = e[Len(e)]
  OBVIOUS
<1>2. PICK new : new = e[1]
  OBVIOUS
<1>3. PICK a : a = c[k + 1]
  OBVIOUS
<1>4. PICK pv : pv = s.prev[a]
  OBVIOUS
<1>5. PICK u1 : u1 = Chain!SetPrev(s, new, pv)
  OBVIOUS
<1>6. PICK u2 : u2 = Chain!SetNext(u1, last, a)
  OBVIOUS
<1>7. PICK u3 : u3 = Chain!SetPrev(u2, a, last)
  OBVIOUS
<1>8. t = Chain!IfNext(u3, pv, new)
  BY <1>1, <1>2, <1>3, <1>4, <1>5, <1>6, <1>7 DEF Chain!PutBefore
<1>9. /\ Len(c) \in Nat /\ k + 1 \in 1..Len(c) /\ a \in Chain!Node /\ a \in Of(c) /\ Chain!Node \subseteq Chain!Addr
      /\ pv \in Chain!Addr /\ pv \notin Of(e) /\ k < Len(c)
      /\ IF k > 0 THEN pv = c[k] /\ pv # 0 ELSE pv = 0
  <2>1. Len(c) \in Nat
    BY Ends
  <2>2. k + 1 \in 1..Len(c) /\ k < Len(c)
    BY <2>1
  <2>3. a \in Chain!Node /\ a \in Of(c) /\ Chain!Node \subseteq Chain!Addr /\ pv \in Chain!Addr
    BY <1>3, <1>4, <2>2, Ends
  <2>4. CASE k > 0
    <3>1. k + 1 > 1 /\ k + 1 - 1 = k /\ k \in 1..Len(c)
      BY <2>1, <2>2, <2>4
    <3>2. pv = c[k + 1 - 1]
      BY <1>3, <1>4, <2>2, <3>1, Ends
    <3>3. c[k] \in Of(c) /\ c[k] # 0
      BY <3>1, Ends
    <3> QED BY <2>1, <2>2, <2>3, <2>4, <3>1, <3>2, <3>3
  <2>5. CASE ~(k > 0)
    <3>1. k + 1 = 1
      BY <2>5
    <3>2. pv = 0
      BY <1>3, <1>4, <2>2, <3>1, Ends
    <3>3. 0 \notin Of(e)
      BY BlockEnds DEF Chain!Node
    <3> QED BY <2>1, <2>2, <2>3, <2>5, <3>2, <3>3
  <2> QED BY <2>4, <2>5
<1>10. new \in Chain!Node /\ last \in Chain!Node /\ new \in Of(e) /\ last \in Of(e)
  BY <1>1, <1>2, BlockEnds
<1>11. u1 \in Memory /\ Same(s, u1) /\ u1.next = s.next /\ u1.prev = [s.prev EXCEPT ![new] = pv]
  BY <1>5, <1>9, <1>10, PrevSet
<1>12. u2 \in Memory /\ Same(u1, u2) /\ u2.prev = u1.prev /\ u2.next = [u1.next EXCEPT ![last] = a]
  BY <1>6, <1>9, <1>10, <1>11, NextSet
<1>13. u3 \in Memory /\ Same(u2, u3) /\ u3.next = u2.next /\ u3.prev = [u2.prev EXCEPT ![a] = last]
  BY <1>7, <1>9, <1>10, <1>12, PrevSet
<1>14. /\ t \in Memory /\ Same(u3, t) /\ t.prev = u3.prev
       /\ t.next = IF pv = 0 THEN u3.next ELSE [u3.next EXCEPT ![pv] = new]
  BY <1>8, <1>9, <1>10, <1>13, NextIf
<1>15. Same(s, t)
  BY <1>11, <1>12, <1>13, <1>14, SameOn
<1>16. pv # last /\ a # new
  BY <1>9, <1>10
<1>17. s.next \in [Chain!Addr -> Chain!Addr] /\ s.prev \in [Chain!Addr -> Chain!Addr]
  BY DEF Memory
<1>18. t.next = [b \in Chain!Addr |-> IF b = last THEN a ELSE IF pv # 0 /\ b = pv THEN new ELSE s.next[b]]
  BY <1>9, <1>10, <1>11, <1>12, <1>13, <1>14, <1>16, <1>17
<1>19. t.prev = [b \in Chain!Addr |-> IF b = new THEN pv ELSE IF b = a THEN last ELSE s.prev[b]]
  BY <1>9, <1>10, <1>11, <1>12, <1>13, <1>14, <1>16, <1>17
<1>20. SplicedInto(s, t, c, k, e)
  BY <1>1, <1>2, <1>3, <1>9, <1>18, <1>19 DEF SplicedInto
<1> QED BY <1>14, <1>15, <1>20

(* A sequence of one item.                                                 *)
LEMMA Single ==
  ASSUME NEW a \in Chain!Node
  PROVE  <<a>> \in Seq(Chain!Node) /\ Len(<<a>>) = 1 /\ <<a>>[1] = a /\ Of(<<a>>) = {a} /\ Distinct(<<a>>)
<1>1. <<a>> \in Seq(Chain!Node) /\ Len(<<a>>) = 1 /\ <<a>>[1] = a
  OBVIOUS
<1>2. 1..1 = {1}
  OBVIOUS
<1> QED BY <1>1, <1>2 DEF Of, Distinct

(* One item goes behind item k of c.                                       *)
LEMMA PutsAfter ==
  ASSUME NEW s \in Memory, NEW c, Linked(s, c), NEW a \in Chain!Node, a \notin Of(c),
         NEW k \in 1..Len(c), NEW t, t = Chain!PutAfter(s, a, c[k])
  PROVE  t \in Memory /\ Same(s, t) /\ SplicedInto(s, t, c, k, <<a>>)
<1>1. PICK to : to = c[k]
  OBVIOUS
<1>2. PICK nx : nx = s.next[to]
  OBVIOUS
<1>3. PICK u1 : u1 = Chain!SetPrev(s, a, to)
  OBVIOUS
<1>4. PICK u2 : u2 = Chain!SetNext(u1, a, nx)
  OBVIOUS
<1>5. PICK u3 : u3 = Chain!SetNext(u2, to, a)
  OBVIOUS
<1>6. t = Chain!IfPrev(u3, nx, a)
  BY <1>1, <1>2, <1>3, <1>4, <1>5 DEF Chain!PutAfter
<1>7. /\ Len(c) \in Nat /\ to \in Chain!Node /\ to \in Of(c) /\ Chain!Node \subseteq Chain!Addr /\ nx \in Chain!Addr /\ nx # a /\ k > 0
      /\ IF k < Len(c) THEN nx = c[k + 1] /\ nx # 0 ELSE nx = 0
  <2>1. Len(c) \in Nat /\ to \in Chain!Node /\ to \in Of(c) /\ Chain!Node \subseteq Chain!Addr /\ nx \in Chain!Addr
    BY <1>1, <1>2, Ends
  <2>2. CASE k < Len(c)
    <3>1. nx = c[k + 1] /\ k + 1 \in 1..Len(c)
      BY <1>1, <1>2, <2>2, Ends
    <3>2. c[k + 1] \in Of(c) /\ c[k + 1] # 0
      BY <3>1, Ends
    <3> QED BY <2>1, <2>2, <3>1, <3>2
  <2>3. CASE ~(k < Len(c))
    <3>1. nx = 0 /\ a # 0
      BY <1>1, <1>2, <2>1, <2>3, Ends DEF Chain!Node
    <3> QED BY <2>1, <2>3, <3>1
  <2> QED BY <2>2, <2>3
<1>8. u1 \in Memory /\ Same(s, u1) /\ u1.next = s.next /\ u1.prev = [s.prev EXCEPT ![a] = to]
  BY <1>3, <1>7, PrevSet
<1>9. u2 \in Memory /\ Same(u1, u2) /\ u2.prev = u1.prev /\ u2.next = [u1.next EXCEPT ![a] = nx]
  BY <1>4, <1>7, <1>8, NextSet
<1>10. u3 \in Memory /\ Same(u2, u3) /\ u3.prev = u2.prev /\ u3.next = [u2.next EXCEPT ![to] = a]
  BY <1>5, <1>7, <1>9, NextSet
<1>11. /\ t \in Memory /\ Same(u3, t) /\ t.next = u3.next
       /\ t.prev = IF nx = 0 THEN u3.prev ELSE [u3.prev EXCEPT ![nx] = a]
  BY <1>6, <1>7, <1>10, PrevIf
<1>12. Same(s, t)
  BY <1>8, <1>9, <1>10, <1>11, SameOn
<1>13. s.next \in [Chain!Addr -> Chain!Addr] /\ s.prev \in [Chain!Addr -> Chain!Addr] /\ a # to
  BY <1>7 DEF Memory
<1>14. t.next = [b \in Chain!Addr |-> IF b = a THEN nx ELSE IF b = to THEN a ELSE s.next[b]]
  BY <1>7, <1>8, <1>9, <1>10, <1>11, <1>13
<1>15. t.prev = [b \in Chain!Addr |-> IF b = a THEN to ELSE IF nx # 0 /\ b = nx THEN a ELSE s.prev[b]]
  BY <1>7, <1>8, <1>9, <1>10, <1>11, <1>13
<1>16. Len(<<a>>) = 1 /\ <<a>>[1] = a
  BY Single
<1>17. SplicedInto(s, t, c, k, <<a>>)
  BY <1>1, <1>7, <1>14, <1>15, <1>16 DEF SplicedInto
<1> QED BY <1>11, <1>12, <1>17

(* The neighbours of the n items behind the first k of c let go of them.   *)
CutOut(s, t, c, k, n) ==
  /\ t.next = [a \in Chain!Addr |-> IF k > 0 /\ a = c[k] THEN s.next[c[k + n]] ELSE s.next[a]]
  /\ t.prev = [a \in Chain!Addr |-> IF k + n < Len(c) /\ a = c[k + n + 1] THEN s.prev[c[k + 1]] ELSE s.prev[a]]

(* Unlinked does this.                                                     *)
LEMMA Unlinks ==
  ASSUME NEW s \in Memory, NEW c, Linked(s, c), NEW k, NEW n, Fits(c, k, n),
         NEW t, t = Chain!Unlinked(s, c[k + 1], c[k + n])
  PROVE  t \in Memory /\ Same(s, t) /\ CutOut(s, t, c, k, n)
<1> USE DEF Fits
<1>1. PICK pv : pv = s.prev[c[k + 1]]
  OBVIOUS
<1>2. PICK nx : nx = s.next[c[k + n]]
  OBVIOUS
<1>3. PICK u : u = Chain!IfNext(s, pv, nx)
  OBVIOUS
<1>4. t = Chain!IfPrev(u, nx, pv)
  BY <1>1, <1>2, <1>3 DEF Chain!Unlinked
<1>5. Len(c) \in Nat /\ Chain!Node \subseteq Chain!Addr
  BY Ends
<1>6. k + 1 \in 1..Len(c) /\ k + n \in 1..Len(c)
  BY <1>5
<1>7. pv \in Chain!Addr /\ nx \in Chain!Addr
  BY <1>1, <1>2, <1>6, Ends
<1>8. IF k > 0 THEN pv = c[k] /\ pv # 0 ELSE pv = 0
  <2>1. CASE k > 0
    <3>1. k + 1 > 1 /\ k + 1 - 1 = k /\ k \in 1..Len(c)
      BY <1>5, <1>6, <2>1
    <3>2. pv = c[k + 1 - 1]
      BY <1>1, <1>6, <3>1, Ends
    <3>3. c[k] # 0
      BY <3>1, Ends
    <3> QED BY <2>1, <3>1, <3>2, <3>3
  <2>2. CASE ~(k > 0)
    <3>1. k + 1 = 1
      BY <2>2
    <3> QED BY <1>1, <1>6, <2>2, <3>1, Ends
  <2> QED BY <2>1, <2>2
<1>9. IF k + n < Len(c) THEN nx = c[k + n + 1] /\ nx # 0 ELSE nx = 0
  <2>1. CASE k + n < Len(c)
    <3>1. nx = c[k + n + 1] /\ k + n + 1 \in 1..Len(c)
      BY <1>2, <1>6, <2>1, Ends
    <3>2. c[k + n + 1] # 0
      BY <3>1, Ends
    <3> QED BY <2>1, <3>1, <3>2
  <2>2. CASE ~(k + n < Len(c))
    <3>1. k + n = Len(c)
      BY <1>5, <2>2
    <3> QED BY <1>2, <1>6, <2>2, <3>1, Ends
  <2> QED BY <2>1, <2>2
<1>10. /\ u \in Memory /\ Same(s, u) /\ u.prev = s.prev
       /\ u.next = IF pv = 0 THEN s.next ELSE [s.next EXCEPT ![pv] = nx]
  BY <1>3, <1>7, NextIf
<1>11. /\ t \in Memory /\ Same(u, t) /\ t.next = u.next
       /\ t.prev = IF nx = 0 THEN u.prev ELSE [u.prev EXCEPT ![nx] = pv]
  BY <1>4, <1>7, <1>10, PrevIf
<1>12. s.next \in [Chain!Addr -> Chain!Addr] /\ s.prev \in [Chain!Addr -> Chain!Addr]
  BY DEF Memory
<1>13. t.next = [b \in Chain!Addr |-> IF pv # 0 /\ b = pv THEN nx ELSE s.next[b]]
  BY <1>7, <1>10, <1>11, <1>12
<1>14. t.prev = [b \in Chain!Addr |-> IF nx # 0 /\ b = nx THEN pv ELSE s.prev[b]]
  BY <1>7, <1>10, <1>11, <1>12
<1>15. CutOut(s, t, c, k, n)
  BY <1>1, <1>2, <1>8, <1>9, <1>13, <1>14 DEF CutOut
<1> QED BY <1>10, <1>11, <1>15, SameOn

-----------------------------------------------------------------------------
(* The n items behind the first k of c.                                    *)
Part(c, k, n) == SubSeq(c, k + 1, k + n)

(* They are a sequence of their own.                                       *)
LEMMA PartItems ==
  ASSUME NEW c \in Seq(Chain!Node), Distinct(c), NEW k, NEW n, Fits(c, k, n),
         NEW e, e = Part(c, k, n)
  PROVE  /\ e \in Seq(Chain!Node) /\ Len(e) = n /\ Distinct(e) /\ Of(e) = Between(c, k + 1, k + n)
         /\ \A l \in 1..n : e[l] = c[k + l]
<1> USE DEF Fits, Part
<1>1. Len(c) \in Nat
  BY ItemsAre
<1>2. k + 1 \in Int /\ k + n \in Int /\ 1 <= k + 1 /\ k + n <= Len(c) /\ k + 1 <= k + n + 1 /\ (k + n) - (k + 1) + 1 = n
  BY <1>1
<1>3. e \in Seq(Chain!Node) /\ Len(e) = n /\ \A l \in 1..n : e[l] = c[k + 1 + l - 1]
  BY <1>2, PartIs
<1>4. \A l \in 1..n : e[l] = c[k + l] /\ k + l \in 1..Len(c)
  <2>1. \A l \in 1..n : k + 1 + l - 1 = k + l /\ k + l \in 1..Len(c)
    BY <1>1
  <2> QED BY <1>3, <2>1
<1>5. Distinct(e)
  <2>1. ASSUME NEW p \in 1..n, NEW q \in 1..n, e[p] = e[q] PROVE p = q
    <3>1. k + p \in 1..Len(c) /\ k + q \in 1..Len(c) /\ c[k + p] = c[k + q]
      BY <1>4, <2>1
    <3>2. k + p = k + q
      BY <3>1 DEF Distinct
    <3> QED BY <3>2
  <2> QED BY <1>3, <2>1 DEF Distinct
<1>6. Of(e) = Between(c, k + 1, k + n)
  <2>1. ASSUME NEW l \in 1..n PROVE e[l] \in Between(c, k + 1, k + n)
    <3>1. k + l \in (k + 1)..(k + n)
      OBVIOUS
    <3> QED BY <1>4, <3>1 DEF Between
  <2>2. ASSUME NEW l \in (k + 1)..(k + n) PROVE \E p \in 1..n : c[l] = e[p]
    <3>1. l - k \in 1..n /\ k + (l - k) = l
      OBVIOUS
    <3> QED BY <1>4, <3>1
  <2> QED BY <1>3, <2>1, <2>2 DEF Of, Between
<1> QED BY <1>3, <1>4, <1>5, <1>6

(* What becomes of a chain whose items let go of a block of it.            *)
LEMMA CutChain ==
  ASSUME NEW s \in Memory, NEW c, Linked(s, c), NEW k, NEW n, Fits(c, k, n),
         NEW t, CutOut(s, t, c, k, n), NEW d, d = Chain!S!Without(c, k, n), NEW e, e = Part(c, k, n)
  PROVE  /\ Block(t, e) /\ e[1] = c[k + 1] /\ e[Len(e)] = c[k + n] /\ Len(e) = n
         /\ d \in Seq(Chain!Node) /\ Distinct(d) /\ Len(d) = Len(c) - n
         /\ Of(d) \cup Of(e) = Of(c) /\ Of(d) \cap Of(e) = {}
         /\ n < Len(c) => Linked(t, d)
         /\ \A a \in Chain!Addr : a \notin Of(c) => t.next[a] = s.next[a] /\ t.prev[a] = s.prev[a]
<1>1. /\ c \in Seq(Chain!Node) /\ Distinct(c) /\ Len(c) \in Nat /\ Of(c) \subseteq Chain!Node /\ Chain!Node \subseteq Chain!Addr
      /\ k \in Nat /\ n \in Nat /\ n >= 1 /\ k + n <= Len(c)
  BY Ends DEF Fits
<1>2. /\ e \in Seq(Chain!Node) /\ Len(e) = n /\ Distinct(e) /\ Of(e) = Between(c, k + 1, k + n)
      /\ \A l \in 1..n : e[l] = c[k + l]
  BY <1>1, PartItems
<1>3. CutAt(d, c, k, n)
  BY <1>1, WithoutIs
<1>4. Distinct(d) /\ Of(d) = Of(c) \ Between(c, k + 1, k + n)
  BY <1>1, <1>3, CutItems
<1>5. d \in Seq(Chain!Node) /\ Len(d) = Len(c) - n
  BY <1>3 DEF CutAt
<1>6. Between(c, k + 1, k + n) \subseteq Of(c)
  <2>1. \A l \in (k + 1)..(k + n) : l \in 1..Len(c)
    BY <1>1
  <2> QED BY <2>1 DEF Between, Of
<1>7. /\ k > 0 => k \in 1..Len(c) /\ c[k] \in Of(c)
      /\ k + n < Len(c) => k + n + 1 \in 1..Len(c) /\ c[k + n + 1] \in Of(c)
  <2>1. (k > 0 => k \in 1..Len(c)) /\ (k + n < Len(c) => k + n + 1 \in 1..Len(c))
    BY <1>1
  <2> QED BY <2>1 DEF Of
<1>8. \A a \in Chain!Addr : a \notin Of(c) => t.next[a] = s.next[a] /\ t.prev[a] = s.prev[a]
  BY <1>7 DEF CutOut
<1>9. ASSUME NEW l \in 1..n
      PROVE  /\ l < n => t.next[e[l]] = e[l + 1]
             /\ l > 1 => t.prev[e[l]] = e[l - 1]
  <2>1. k + l \in 1..Len(c) /\ e[l] = c[k + l]
    BY <1>1, <1>2
  <2>2. c[k + l] \in Chain!Addr
    BY <2>1, Ends
  <2>3. k > 0 => c[k + l] # c[k]
    <3>1. k > 0 => k + l # k
      BY <1>1
    <3> QED BY <1>1, <1>7, <2>1, <3>1 DEF Distinct
  <2>4. k + n < Len(c) => c[k + l] # c[k + n + 1]
    <3>1. k + l # k + n + 1
      BY <1>1
    <3> QED BY <1>1, <1>7, <2>1, <3>1 DEF Distinct
  <2>5. t.next[e[l]] = s.next[c[k + l]] /\ t.prev[e[l]] = s.prev[c[k + l]]
    BY <2>1, <2>2, <2>3, <2>4 DEF CutOut
  <2>6. ASSUME l < n PROVE t.next[e[l]] = e[l + 1]
    <3>1. k + l < Len(c) /\ l + 1 \in 1..n /\ k + (l + 1) = k + l + 1
      BY <1>1, <2>6
    <3>2. s.next[c[k + l]] = c[k + l + 1]
      BY <2>1, <3>1, Ends
    <3> QED BY <1>2, <2>5, <3>1, <3>2
  <2>7. ASSUME l > 1 PROVE t.prev[e[l]] = e[l - 1]
    <3>1. k + l > 1 /\ l - 1 \in 1..n /\ k + (l - 1) = k + l - 1
      BY <1>1, <2>7
    <3>2. s.prev[c[k + l]] = c[k + l - 1]
      <4>1. PICK j : j = k + l
        OBVIOUS
      <4>2. s.prev[c[j]] = c[j - 1]
        BY <2>1, <3>1, <4>1, Ends
      <4> QED BY <1>1, <4>1, <4>2
    <3> QED BY <1>2, <2>5, <3>1, <3>2
  <2> QED BY <2>6, <2>7
<1>10. Block(t, e)
  BY <1>1, <1>2, <1>9 DEF Block
<1>11. e[1] = c[k + 1] /\ e[Len(e)] = c[k + n]
  <2>1. 1 \in 1..n /\ n \in 1..n
    BY <1>1
  <2> QED BY <1>2, <2>1
<1>12. ASSUME n < Len(c) PROVE Linked(t, d)
  <2>1. Of(d) \subseteq Chain!Addr
    BY <1>1, <1>4
  <2>2. Bridged(s, t, c, k, n, d)
    BY <2>1 DEF CutOut, Bridged
  <2> QED BY <1>3, <1>12, <2>2, CutLinks
<1> QED BY <1>2, <1>4, <1>5, <1>6, <1>8, <1>10, <1>11, <1>12

(* One chain gives way to others of its items.                             *)
LEMMA Replaced ==
  ASSUME NEW s \in Memory, NEW t \in Memory, NEW C, InChains(s, C), NEW c \in C, NEW New,
         \A d \in New : Linked(t, d) /\ Of(d) \subseteq Of(c) /\ Of(d) \subseteq t.live,
         \A d, e \in New : Of(d) \cap Of(e) # {} => d = e,
         \A a \in Of(c) : a \in t.live => \E d \in New : a \in Of(d),
         \A a \in Chain!Node : a \notin Of(c) => (a \in t.live <=> a \in s.live),
         \A a \in Chain!Addr : a \notin Of(c) => t.next[a] = s.next[a] /\ t.prev[a] = s.prev[a],
         \A a \in Of(c) : a \notin t.live => t.next[a] = 0 /\ t.prev[a] = 0
  PROVE  InChains(t, (C \ {c}) \cup New)
<1> DEFINE Old == {c}
<1>1. Of(c) \subseteq s.live /\ s.live \subseteq Chain!Node /\ Chain!Node \subseteq Chain!Addr
  <2>1. Linked(s, c)
    BY DEF InChains
  <2>2. Of(c) \subseteq Chain!Node /\ Chain!Node \subseteq Chain!Addr
    BY <2>1, Ends
  <2> QED BY <2>2 DEF InChains, Memory
<1>2. \A x \in New, y \in C \ Old : Of(x) \cap Of(y) = {}
  BY DEF InChains
<1>3. \A a \in Chain!Node : (\A x \in Old : a \notin Of(x)) /\ (\A x \in New : a \notin Of(x)) =>
           t.next[a] = s.next[a] /\ t.prev[a] = s.prev[a] /\ (a \in t.live <=> a \in s.live)
  BY <1>1
<1>4. \A a \in t.live : (\E x \in Old : a \in Of(x)) => \E x \in New : a \in Of(x)
  OBVIOUS
<1>5. \A a \in Chain!Addr : a \notin t.live => t.next[a] = 0 /\ t.prev[a] = 0
  <2>1. ASSUME NEW a \in Chain!Addr, a \notin t.live, a \notin Of(c) PROVE t.next[a] = 0 /\ t.prev[a] = 0
    <3>1. a \notin s.live
      BY <1>1, <2>1
    <3> QED BY <2>1, <3>1 DEF InChains
  <2> QED BY <2>1
<1>6. Old \subseteq C /\ \A x \in New : Linked(t, x) /\ Of(x) \subseteq t.live
  OBVIOUS
<1> HIDE DEF Old
<1>7. InChains(t, (C \ Old) \cup New)
  BY <1>2, <1>3, <1>4, <1>5, <1>6, Relinked
<1> QED BY <1>7 DEF Old

(* The chain c has become d, of the same items.                            *)
Rearranged(s, u, C, c, d) ==
  /\ u \in Memory /\ Same(s, u) /\ InChains(u, (C \ {c}) \cup {d}) /\ Linked(u, d)
  /\ Of(d) = Of(c) /\ Len(d) = Len(c)

(* A block of a chain goes to another place in it.                         *)
LEMMA MovedChain ==
  ASSUME NEW s \in Memory, NEW C, InChains(s, C), NEW c \in C,
         NEW k, NEW n, Fits(c, k, n), n < Len(c),
         NEW t, t = Chain!Unlinked(s, c[k + 1], c[k + n]), NEW to \in 0..(Len(c) - n),
         NEW u, u \in Memory, Same(t, u), NEW d, d = Chain!S!Without(c, k, n), NEW e, e = Part(c, k, n),
         SplicedInto(t, u, d, to, e), NEW f, f = Chain!S!Moved(c, k, n, to)
  PROVE  Rearranged(s, u, C, c, f)
<1>1. d = Chain!S!Without(c, k, n)
  OBVIOUS
<1>2. e = Part(c, k, n)
  OBVIOUS
<1>3. f = Chain!S!Spliced(d, to, e)
  BY DEF Chain!S!Moved, Part
<1>5. Linked(s, c) /\ Len(c) \in Nat
  BY Ends DEF InChains
<1>6. t \in Memory /\ Same(s, t) /\ CutOut(s, t, c, k, n)
  BY <1>5, Unlinks
<1>7. /\ Block(t, e) /\ Len(e) = n /\ d \in Seq(Chain!Node) /\ Distinct(d) /\ Len(d) = Len(c) - n
      /\ Of(d) \cup Of(e) = Of(c) /\ Of(d) \cap Of(e) = {} /\ Linked(t, d)
      /\ \A a \in Chain!Addr : a \notin Of(c) => t.next[a] = s.next[a] /\ t.prev[a] = s.prev[a]
  BY <1>1, <1>2, <1>5, <1>6, CutChain
<1>8. to \in 0..Len(d) /\ e \in Seq(Chain!Node) /\ Distinct(e)
  BY <1>7 DEF Block
<1>9. SplicedAt(f, d, to, e)
  BY <1>3, <1>7, <1>8, SplicedIs
<1>10. Of(f) = Of(c) /\ Len(f) = Len(c)
  <2>1. Of(f) = Of(d) \cup Of(e)
    BY <1>7, <1>8, <1>9, SplicedItems
  <2>2. Len(f) = Len(d) + Len(e)
    BY <1>9 DEF SplicedAt
  <2> QED BY <1>5, <1>7, <2>1, <2>2
<1>11. SplicedInto(t, u, d, to, e)
  BY <1>1, <1>2
<1>12. Of(c) \subseteq Chain!Node /\ Chain!Node \subseteq Chain!Addr
  BY <1>5, Ends
<1>13. Linked(u, f)
  <2>1. Woven(t, u, d, to, e)
    BY <1>7, <1>11, <1>12 DEF SplicedInto, Woven
  <2> QED BY <1>7, <1>8, <1>9, <2>1, SpliceLinks
<1>14. \A a \in Chain!Addr : a \notin Of(c) => u.next[a] = s.next[a] /\ u.prev[a] = s.prev[a]
  <2>1. e[1] \in Of(c) /\ e[Len(e)] \in Of(c)
    BY <1>7, BlockEnds
  <2>2. (to > 0 => d[to] \in Of(d)) /\ (to < Len(d) => d[to + 1] \in Of(d))
    <3>1. Len(d) \in Nat
      BY <1>7, ItemsAre
    <3>2. (to > 0 => to \in 1..Len(d)) /\ (to < Len(d) => to + 1 \in 1..Len(d))
      BY <1>8, <3>1
    <3> QED BY <3>2 DEF Of
  <2>3. \A a \in Chain!Addr : a \notin Of(c) => u.next[a] = t.next[a] /\ u.prev[a] = t.prev[a]
    BY <1>7, <1>11, <2>1, <2>2 DEF SplicedInto
  <2> QED BY <1>7, <2>3
<1>15. Same(s, u)
  BY <1>6, SameOn
<1>16. InChains(u, (C \ {c}) \cup {f})
  <2> DEFINE New == {f}
  <2>1. Of(c) \subseteq s.live /\ u.live = s.live
    BY <1>12, <1>15 DEF InChains, Same, Rest
  <2>2. \A x \in New : Linked(u, x) /\ Of(x) \subseteq Of(c) /\ Of(x) \subseteq u.live
    BY <1>10, <1>13, <2>1
  <2>3. \A x, y \in New : Of(x) \cap Of(y) # {} => x = y
    OBVIOUS
  <2>4. \A a \in Of(c) : a \in u.live => \E x \in New : a \in Of(x)
    BY <1>10
  <2>5. \A a \in Of(c) : a \notin u.live => u.next[a] = 0 /\ u.prev[a] = 0
    BY <2>1
  <2> HIDE DEF New
  <2>6. InChains(u, (C \ {c}) \cup New)
    BY <1>14, <2>1, <2>2, <2>3, <2>4, <2>5, Replaced
  <2> QED BY <2>6 DEF New
<1> QED BY <1>10, <1>13, <1>15, <1>16 DEF Rearranged

-----------------------------------------------------------------------------
(* A chain stays linked while the links of its items stay.                 *)
LEMMA StaysLinked ==
  ASSUME NEW s, NEW t, NEW d, Linked(s, d), \A a \in Of(d) : t.next[a] = s.next[a] /\ t.prev[a] = s.prev[a]
  PROVE  Linked(t, d)
<1>1. \A l \in 1..Len(d) : d[l] \in Of(d)
  BY DEF Of
<1> QED BY <1>1 DEF Linked, Onward, Homeward

(* What is left of c without n items behind its first k, if anything is.   *)
Leftover(c, k, n) == IF n < Len(c) THEN {Chain!S!Without(c, k, n)} ELSE {}

(* A block leaves its chain and is a chain of its own.                     *)
PullBlock(s, a, last) == Chain!SetNext(Chain!SetPrev(Chain!Unlinked(s, a, last), a, 0), last, 0)

BlockOut(s, u, C, c, k, n) ==
  /\ u \in Memory /\ Same(s, u) /\ Linked(u, Part(c, k, n))
  /\ InChains(u, (C \ {c}) \cup ({Part(c, k, n)} \cup Leftover(c, k, n)))
  /\ Of(Part(c, k, n)) \subseteq Of(c) /\ Of(Chain!S!Without(c, k, n)) = Of(c) \ Of(Part(c, k, n))
  /\ n < Len(c) => Linked(u, Chain!S!Without(c, k, n))

(* The block is out.                                                       *)
LEMMA PullsBlock ==
  ASSUME NEW s \in Memory, NEW C, InChains(s, C), NEW c \in C, NEW k, NEW n, Fits(c, k, n),
         NEW u, u = PullBlock(s, c[k + 1], c[k + n])
  PROVE  BlockOut(s, u, C, c, k, n)
<1>1. PICK d : d = Chain!S!Without(c, k, n)
  OBVIOUS
<1>2. PICK e : e = Part(c, k, n)
  OBVIOUS
<1>3. PICK t : t = Chain!Unlinked(s, c[k + 1], c[k + n])
  OBVIOUS
<1>4. PICK t1 : t1 = Chain!SetPrev(t, e[1], 0)
  OBVIOUS
<1>5. Linked(s, c)
  BY DEF InChains
<1>6. t \in Memory /\ Same(s, t) /\ CutOut(s, t, c, k, n)
  BY <1>3, <1>5, Unlinks
<1>7. /\ Block(t, e) /\ e[1] = c[k + 1] /\ e[Len(e)] = c[k + n] /\ Len(e) = n
      /\ d \in Seq(Chain!Node) /\ Distinct(d) /\ Len(d) = Len(c) - n
      /\ Of(d) \cup Of(e) = Of(c) /\ Of(d) \cap Of(e) = {} /\ (n < Len(c) => Linked(t, d))
      /\ \A a \in Chain!Addr : a \notin Of(c) => t.next[a] = s.next[a] /\ t.prev[a] = s.prev[a]
  BY <1>1, <1>2, <1>5, <1>6, CutChain
<1>8. u = Chain!SetNext(t1, e[Len(e)], 0)
  BY <1>3, <1>4, <1>7 DEF PullBlock
<1>9. /\ e \in Seq(Chain!Node) /\ Len(e) \in Nat /\ Len(e) >= 1 /\ e[1] \in Of(e) /\ e[Len(e)] \in Of(e)
      /\ e[1] \in Chain!Node /\ e[Len(e)] \in Chain!Node /\ Of(e) \subseteq Chain!Node
  BY <1>7, BlockEnds
<1>10. Chain!Node \subseteq Chain!Addr /\ 0 \in Chain!Addr /\ Of(c) \subseteq Chain!Node
  BY <1>5, Ends
<1>11. t1 \in Memory /\ Same(t, t1) /\ t1.next = t.next /\ t1.prev = [t.prev EXCEPT ![e[1]] = 0]
  BY <1>4, <1>6, <1>9, <1>10, PrevSet
<1>12. u \in Memory /\ Same(t1, u) /\ u.prev = t1.prev /\ u.next = [t1.next EXCEPT ![e[Len(e)]] = 0]
  BY <1>8, <1>9, <1>10, <1>11, NextSet
<1>13. Same(s, u)
  BY <1>6, <1>11, <1>12, SameOn
<1>14. t.next \in [Chain!Addr -> Chain!Addr] /\ t.prev \in [Chain!Addr -> Chain!Addr]
  BY <1>6 DEF Memory
<1>15. /\ \A a \in Chain!Addr : u.next[a] = IF a = e[Len(e)] THEN 0 ELSE t.next[a]
       /\ \A a \in Chain!Addr : u.prev[a] = IF a = e[1] THEN 0 ELSE t.prev[a]
  BY <1>9, <1>10, <1>11, <1>12, <1>14
<1>16. Linked(u, e)
  <2>1. ASSUME NEW l \in 1..Len(e)
        PROVE  /\ u.next[e[l]] = IF l = Len(e) THEN 0 ELSE e[l + 1]
               /\ u.prev[e[l]] = IF l = 1 THEN 0 ELSE e[l - 1]
    <3>1. e[l] \in Chain!Addr
      BY <1>9, ItemsAre
    <3>2. 1 \in 1..Len(e) /\ Len(e) \in 1..Len(e)
      BY <1>9
    <3>3. (e[l] = e[Len(e)] <=> l = Len(e)) /\ (e[l] = e[1] <=> l = 1)
      BY <1>7, <3>2 DEF Block, Distinct
    <3>4. (l < Len(e) => t.next[e[l]] = e[l + 1]) /\ (l > 1 => t.prev[e[l]] = e[l - 1])
      BY <1>7 DEF Block
    <3>5. (l = Len(e) \/ l < Len(e)) /\ (l = 1 \/ l > 1)
      BY <1>9
    <3> QED BY <1>15, <3>1, <3>3, <3>4, <3>5
  <2>2. Distinct(e)
    BY <1>7 DEF Block
  <2> QED BY <1>9, <2>1, <2>2 DEF Linked, Onward, Homeward
<1>17. ASSUME n < Len(c) PROVE Linked(u, d)
  <2>1. \A a \in Of(d) : u.next[a] = t.next[a] /\ u.prev[a] = t.prev[a]
    BY <1>7, <1>9, <1>10, <1>15
  <2> QED BY <1>7, <1>17, <2>1, StaysLinked
<1>18. \A a \in Chain!Addr : a \notin Of(c) => u.next[a] = s.next[a] /\ u.prev[a] = s.prev[a]
  BY <1>7, <1>9, <1>15
<1>19. n >= Len(c) => Of(d) = {}
  <2>1. Len(c) \in Nat /\ n \in Nat
    BY <1>5, Ends DEF Fits
  <2>2. n >= Len(c) => Len(d) <= 0
    BY <1>7, <2>1
  <2> QED BY <2>2, <1>7, <2>1 DEF Of
<1>20. InChains(u, (C \ {c}) \cup ({e} \cup Leftover(c, k, n)))
  <2> DEFINE New == {e} \cup Leftover(c, k, n)
  <2>1. Of(c) \subseteq s.live /\ u.live = s.live
    BY <1>10, <1>13 DEF InChains, Same, Rest
  <2>2. \A x \in New : x = e \/ (x = d /\ n < Len(c))
    BY <1>1 DEF Leftover
  <2>3. e \in New /\ (n < Len(c) => d \in New)
    BY <1>1 DEF Leftover
  <2> HIDE DEF New
  <2>4. \A x \in New : Linked(u, x) /\ Of(x) \subseteq Of(c) /\ Of(x) \subseteq u.live
    BY <1>7, <1>16, <1>17, <2>1, <2>2
  <2>5. \A x, y \in New : Of(x) \cap Of(y) # {} => x = y
    BY <1>7, <2>2
  <2>6. n < Len(c) \/ n >= Len(c)
    BY <1>5, Ends DEF Fits
  <2>7. \A a \in Of(c) : a \in u.live => \E x \in New : a \in Of(x)
    BY <1>7, <1>19, <2>3, <2>6
  <2>8. \A a \in Of(c) : a \notin u.live => u.next[a] = 0 /\ u.prev[a] = 0
    BY <2>1
  <2>9. InChains(u, (C \ {c}) \cup New)
    BY <1>12, <1>18, <2>1, <2>4, <2>5, <2>7, <2>8, Replaced
  <2> QED BY <2>9 DEF New
<1> QED BY <1>1, <1>2, <1>7, <1>12, <1>13, <1>16, <1>17, <1>20 DEF BlockOut

(* The references to values, of which v is the one that a caller holds.    *)
Sound(s, v) ==
  /\ ~s.fault /\ v \in Chain!Addr
  /\ \A x \in Chain!Node : s.refs[x] = (IF x \in s.has THEN 1 ELSE 0) + (IF x = v THEN 1 ELSE 0)

(* An item of the chain c is freed.                                        *)
Freed(s, t, a) ==
  /\ t \in Memory /\ Edges(s, t) /\ t.pending = s.pending
  /\ t.mine = s.mine \ {a} /\ t.live = s.live \ {a} /\ t.removed = s.removed \ {a}
  /\ \A v : Sound(s, v) => Sound(t, v)

(* delListItem: the value loses the reference of its item.                 *)
LEMMA Frees ==
  ASSUME NEW s \in Memory, NEW a \in s.live, NEW t, t = Chain!delListItem(s, a)
  PROVE  /\ Freed(s, t, a)
         /\ t.next = [s.next EXCEPT ![a] = 0] /\ t.prev = [s.prev EXCEPT ![a] = 0]
<1>1. a \in Chain!Node /\ Chain!Node \subseteq Chain!Addr
  BY ChainAssumption DEF Memory, Chain!Node, Chain!Addr
<1>2. PICK u : u = IF a \in s.has THEN Chain!delListItemVal(s, a) ELSE s
  OBVIOUS
<1>3. t = [u EXCEPT !.next[a] = 0, !.prev[a] = 0, !.mine = @ \ {a}, !.removed = @ \ {a},
                    !.has = @ \ {a}, !.live = @ \ {a}, !.fault = @ \/ a \notin s.live]
  BY <1>2 DEF Chain!delListItem
<1>4. /\ u \in Memory /\ Edges(s, u) /\ u.pending = s.pending /\ u.mine = s.mine /\ u.live = s.live
      /\ u.removed = s.removed /\ u.next = s.next /\ u.prev = s.prev /\ u.has = s.has
      /\ \A v : Sound(s, v) =>
           ~u.fault /\ u.refs = IF a \in s.has THEN [s.refs EXCEPT ![a] = @ - 1] ELSE s.refs
  <2>1. CASE a \notin s.has
    BY <1>2, <2>1 DEF Edges, Sound
  <2>2. CASE a \in s.has
    <3>1. u = IF s.refs[a] > 0 THEN [s EXCEPT !.refs[a] = @ - 1] ELSE [s EXCEPT !.fault = TRUE]
      BY <1>2, <2>2 DEF Chain!delListItemVal
    <3>2. ASSUME NEW v, Sound(s, v) PROVE s.refs[a] > 0
      BY <1>1, <2>2, <3>2 DEF Sound
    <3>3. CASE s.refs[a] > 0
      BY <1>1, <2>2, <3>1, <3>3 DEF Edges, Sound, Memory
    <3>4. CASE ~(s.refs[a] > 0)
      BY <3>1, <3>2, <3>4 DEF Edges, Memory
    <3> QED BY <3>3, <3>4
  <2> QED BY <2>1, <2>2
<1>5. t.refs = u.refs /\ t.has = u.has \ {a} /\ t.fault = u.fault
  BY <1>3, <1>4 DEF Memory
<1>6. /\ t.begin = u.begin /\ t.end = u.end /\ t.count = u.count /\ t.pending = u.pending
      /\ t.mine = u.mine \ {a} /\ t.live = u.live \ {a} /\ t.removed = u.removed \ {a}
      /\ t.next = [u.next EXCEPT ![a] = 0] /\ t.prev = [u.prev EXCEPT ![a] = 0]
  BY <1>3, <1>4 DEF Memory
<1>7. t \in Memory
  <2>1. 0 \in Chain!Addr
    BY ChainAssumption DEF Chain!Addr
  <2>2. /\ t = [next |-> t.next, prev |-> t.prev, begin |-> t.begin, end |-> t.end, count |-> t.count,
                pending |-> t.pending, mine |-> t.mine, live |-> t.live, removed |-> t.removed,
                has |-> t.has, refs |-> t.refs, fault |-> t.fault]
    BY <1>3, <1>4 DEF Memory
  <2>3. t.next \in [Chain!Addr -> Chain!Addr] /\ t.prev \in [Chain!Addr -> Chain!Addr]
    BY <1>1, <1>4, <1>6, <2>1 DEF Memory
  <2> QED BY <1>4, <1>5, <1>6, <2>2, <2>3 DEF Memory
<1>8. ASSUME NEW v, Sound(s, v) PROVE Sound(t, v)
  <2>1. ~t.fault /\ t.refs = IF a \in s.has THEN [s.refs EXCEPT ![a] = @ - 1] ELSE s.refs
    BY <1>4, <1>5, <1>8
  <2>2. ASSUME NEW x \in Chain!Node
        PROVE  t.refs[x] = (IF x \in t.has THEN 1 ELSE 0) + (IF x = v THEN 1 ELSE 0)
    <3>1. s.refs[x] = (IF x \in s.has THEN 1 ELSE 0) + (IF x = v THEN 1 ELSE 0)
      BY <1>8 DEF Sound
    <3>2. s.refs \in [Chain!Node -> Int] /\ t.has = s.has \ {a}
      BY <1>4, <1>5 DEF Memory
    <3>3. CASE x = a /\ a \in s.has
      <4>1. t.refs[x] = s.refs[x] - 1 /\ x \notin t.has
        BY <1>1, <2>1, <3>2, <3>3
      <4> QED BY <3>1, <3>3, <4>1
    <3>4. CASE ~(x = a /\ a \in s.has)
      <4>1. t.refs[x] = s.refs[x] /\ (x \in t.has <=> x \in s.has)
        BY <1>1, <2>1, <3>2, <3>4
      <4> QED BY <3>1, <4>1
    <3> QED BY <3>3, <3>4
  <2> QED BY <1>8, <2>1, <2>2 DEF Sound
<1> QED BY <1>4, <1>6, <1>7, <1>8 DEF Freed, Edges

-----------------------------------------------------------------------------
(* The item behind the first k of c has left it and is freed.              *)
Deleted(s, t, C, c, k, a) ==
  /\ Freed(s, t, a) /\ InChains(t, (C \ {c}) \cup Leftover(c, k, 1))
  /\ 1 < Len(c) => Linked(t, Chain!S!Without(c, k, 1))
  /\ Chain!S!Without(c, k, 1) \in Seq(Chain!Node) /\ Of(Chain!S!Without(c, k, 1)) = Of(c) \ {a}

(* delDListItem.                                                           *)
LEMMA Deletes ==
  ASSUME NEW s \in Memory, NEW C, InChains(s, C), NEW c \in C, NEW k \in 0..(Len(c) - 1),
         NEW a, a = c[k + 1], NEW t, t = Chain!delDListItem(s, a)
  PROVE  Deleted(s, t, C, c, k, a)
<1>1. PICK d : d = Chain!S!Without(c, k, 1)
  OBVIOUS
<1>2. PICK e : e = Part(c, k, 1)
  OBVIOUS
<1>3. PICK u : u = Chain!Unlinked(s, a, a)
  OBVIOUS
<1>4. Linked(s, c) /\ Len(c) \in Nat /\ Of(c) \subseteq Chain!Node /\ Chain!Node \subseteq Chain!Addr /\ 0 \in Chain!Addr
  BY Ends DEF InChains
<1>5. Fits(c, k, 1) /\ k + 1 \in 1..Len(c)
  BY <1>4 DEF Fits
<1>6. u \in Memory /\ Same(s, u) /\ CutOut(s, u, c, k, 1)
  BY <1>3, <1>4, <1>5, Unlinks
<1>7. /\ Block(u, e) /\ e[1] = c[k + 1] /\ Len(e) = 1
      /\ d \in Seq(Chain!Node) /\ Distinct(d) /\ Len(d) = Len(c) - 1
      /\ Of(d) \cup Of(e) = Of(c) /\ Of(d) \cap Of(e) = {} /\ (1 < Len(c) => Linked(u, d))
      /\ \A b \in Chain!Addr : b \notin Of(c) => u.next[b] = s.next[b] /\ u.prev[b] = s.prev[b]
  <2>1. PICK n : n = 1
    OBVIOUS
  <2>2. /\ Block(u, e) /\ e[1] = c[k + 1] /\ e[Len(e)] = c[k + n] /\ Len(e) = n
        /\ d \in Seq(Chain!Node) /\ Distinct(d) /\ Len(d) = Len(c) - n
        /\ Of(d) \cup Of(e) = Of(c) /\ Of(d) \cap Of(e) = {} /\ (n < Len(c) => Linked(u, d))
        /\ \A b \in Chain!Addr : b \notin Of(c) => u.next[b] = s.next[b] /\ u.prev[b] = s.prev[b]
    <3>1. Fits(c, k, n) /\ CutOut(s, u, c, k, n) /\ d = Chain!S!Without(c, k, n) /\ e = Part(c, k, n)
      BY <1>1, <1>2, <1>5, <1>6, <2>1
    <3> QED BY <1>4, <3>1, CutChain
  <2> QED BY <2>1, <2>2
<1>8. Of(e) = {a}
  <2>1. 1..1 = {1}
    OBVIOUS
  <2> QED BY <1>7, <2>1 DEF Of
<1>9. a \in Of(c) /\ a \in s.live /\ u.live = s.live
  <2>1. a \in Of(c)
    BY <1>5 DEF Of
  <2> QED BY <1>4, <1>6, <2>1 DEF InChains, Same, Rest
<1>10. t = Chain!delListItem(u, a)
  BY <1>3 DEF Chain!delDListItem
<1>11. Freed(u, t, a) /\ t.next = [u.next EXCEPT ![a] = 0] /\ t.prev = [u.prev EXCEPT ![a] = 0]
  BY <1>6, <1>9, <1>10, Frees
<1>12. Freed(s, t, a)
  BY <1>6, <1>11 DEF Freed, Same, Rest, Edges, Sound
<1>13. \A b \in Chain!Addr : b # a => t.next[b] = u.next[b] /\ t.prev[b] = u.prev[b]
  BY <1>6, <1>11 DEF Memory
<1>14. t.next[a] = 0 /\ t.prev[a] = 0
  BY <1>4, <1>6, <1>9, <1>11 DEF Memory
<1>15. Of(d) = Of(c) \ {a}
  BY <1>7, <1>8
<1>16. ASSUME 1 < Len(c) PROVE Linked(t, d)
  <2>1. \A b \in Of(d) : t.next[b] = u.next[b] /\ t.prev[b] = u.prev[b]
    BY <1>4, <1>13, <1>15
  <2> QED BY <1>7, <1>16, <2>1, StaysLinked
<1>17. InChains(t, (C \ {c}) \cup Leftover(c, k, 1))
  <2> DEFINE New == Leftover(c, k, 1)
  <2>1. t \in Memory /\ t.live = s.live \ {a} /\ Of(c) \subseteq s.live
    BY <1>4, <1>12 DEF Freed, InChains
  <2>2. \A x \in New : x = d /\ 1 < Len(c)
    BY <1>1 DEF Leftover
  <2>3. 1 < Len(c) => d \in New
    BY <1>1 DEF Leftover
  <2> HIDE DEF New
  <2>4. \A x \in New : Linked(t, x) /\ Of(x) \subseteq Of(c) /\ Of(x) \subseteq t.live
    BY <1>15, <1>16, <2>1, <2>2
  <2>5. \A x, y \in New : Of(x) \cap Of(y) # {} => x = y
    BY <2>2
  <2>6. ASSUME ~(1 < Len(c)) PROVE Of(d) = {}
    <3>1. Len(d) <= 0
      BY <1>4, <1>7, <2>6
    <3>2. Len(d) \in Nat
      BY <1>7, ItemsAre
    <3> QED BY <3>1, <3>2 DEF Of
  <2>7. \A b \in Of(c) : b \in t.live => \E x \in New : b \in Of(x)
    BY <1>15, <2>1, <2>3, <2>6
  <2>8. \A b \in Of(c) : b \notin t.live => t.next[b] = 0 /\ t.prev[b] = 0
    BY <1>14, <2>1
  <2>9. \A b \in Chain!Addr : b \notin Of(c) => t.next[b] = s.next[b] /\ t.prev[b] = s.prev[b]
    BY <1>7, <1>9, <1>13
  <2>10. \A b \in Chain!Node : b \notin Of(c) => (b \in t.live <=> b \in s.live)
    BY <1>9, <2>1
  <2>11. InChains(t, (C \ {c}) \cup New)
    BY <2>1, <2>4, <2>5, <2>7, <2>8, <2>9, <2>10, Replaced
  <2> QED BY <2>11 DEF New
<1> QED BY <1>1, <1>7, <1>12, <1>15, <1>16, <1>17 DEF Deleted

(* An item comes to life.                                                  *)
Born(s, t, a) ==
  /\ t \in Memory /\ Edges(s, t) /\ t.pending = s.pending
  /\ t.mine = s.mine /\ t.removed = s.removed /\ t.live = s.live \cup {a}
  /\ \A v : Sound(s, v) => Sound(t, v)

(* newDListItem without a predecessor: a chain of one.                     *)
LEMMA NewChain ==
  ASSUME NEW s \in Memory, NEW C, InChains(s, C), NEW a \in Chain!Node, a \notin s.live, s.refs[a] = 0,
         NEW t, t = Chain!newDListItem(s, a, 0)
  PROVE  Born(s, t, a) /\ InChains(t, C \cup {<<a>>}) /\ t.next = s.next /\ t.prev = s.prev
<1>1. t = [s EXCEPT !.live = @ \cup {a}, !.has = @ \cup {a}, !.refs[a] = 1]
  BY DEF Chain!newDListItem
<1>2. /\ t \in Memory /\ Edges(s, t) /\ t.pending = s.pending /\ t.mine = s.mine /\ t.removed = s.removed
      /\ t.live = s.live \cup {a} /\ t.next = s.next /\ t.prev = s.prev /\ t.fault = s.fault
      /\ t.has = s.has \cup {a} /\ t.refs = [s.refs EXCEPT ![a] = 1]
  <2>1. /\ t.begin = s.begin /\ t.end = s.end /\ t.count = s.count
        /\ t.pending = s.pending /\ t.mine = s.mine /\ t.removed = s.removed
        /\ t.live = s.live \cup {a} /\ t.next = s.next /\ t.prev = s.prev /\ t.fault = s.fault
        /\ t.has = s.has \cup {a} /\ t.refs = [s.refs EXCEPT ![a] = 1]
    BY <1>1 DEF Memory
  <2>2. t = [next |-> t.next, prev |-> t.prev, begin |-> t.begin, end |-> t.end, count |-> t.count,
             pending |-> t.pending, mine |-> t.mine, live |-> t.live, removed |-> t.removed,
             has |-> t.has, refs |-> t.refs, fault |-> t.fault]
    BY <1>1 DEF Memory
  <2>3. t.refs \in [Chain!Node -> Int]
    BY <2>1 DEF Memory
  <2>4. t \in Memory
    BY <2>1, <2>2, <2>3 DEF Memory
  <2> QED BY <2>1, <2>4 DEF Edges
<1>3. ASSUME NEW v, Sound(s, v) PROVE Sound(t, v)
  <2>1. a \notin s.has /\ a # v
    BY <1>3 DEF Sound
  <2>2. s.refs \in [Chain!Node -> Int]
    BY DEF Memory
  <2>3. ASSUME NEW x \in Chain!Node
        PROVE  t.refs[x] = (IF x \in t.has THEN 1 ELSE 0) + (IF x = v THEN 1 ELSE 0)
    <3>1. s.refs[x] = (IF x \in s.has THEN 1 ELSE 0) + (IF x = v THEN 1 ELSE 0)
      BY <1>3 DEF Sound
    <3>2. CASE x = a
      BY <1>2, <2>1, <2>2, <3>2
    <3>3. CASE x # a
      <4>1. t.refs[x] = s.refs[x] /\ (x \in t.has <=> x \in s.has)
        BY <1>2, <2>2, <3>3
      <4> QED BY <3>1, <4>1
    <3> QED BY <3>2, <3>3
  <2> QED BY <1>2, <1>3, <2>3 DEF Sound
<1>4. a \in Chain!Addr /\ s.next[a] = 0 /\ s.prev[a] = 0
  BY ChainAssumption DEF InChains, Chain!Node, Chain!Addr
<1>5. <<a>> \in Seq(Chain!Node) /\ Len(<<a>>) = 1 /\ <<a>>[1] = a /\ Of(<<a>>) = {a} /\ Distinct(<<a>>)
  BY Single
<1>6. PICK e : e = <<a>>
  OBVIOUS
<1>7. Linked(t, e)
  <2>1. ASSUME NEW l \in 1..Len(e)
        PROVE  /\ t.next[e[l]] = IF l = Len(e) THEN 0 ELSE e[l + 1]
               /\ t.prev[e[l]] = IF l = 1 THEN 0 ELSE e[l - 1]
    <3>1. l = 1 /\ Len(e) = 1
      BY <1>5, <1>6
    <3> QED BY <1>2, <1>4, <1>5, <1>6, <3>1
  <2> QED BY <1>5, <1>6, <2>1 DEF Linked, Onward, Homeward
<1>8. \A x \in C : a \notin Of(x)
  BY DEF InChains
<1>9. InChains(t, C \cup {e})
  <2> DEFINE Old == {}
             New == {e}
  <2>1. Old \subseteq C /\ \A x \in New : Linked(t, x) /\ Of(x) \subseteq t.live
    BY <1>2, <1>5, <1>6, <1>7
  <2>2. \A x, y \in New : Of(x) \cap Of(y) # {} => x = y
    OBVIOUS
  <2>3. \A x \in New, y \in C \ Old : Of(x) \cap Of(y) = {}
    BY <1>5, <1>6, <1>8
  <2>4. \A b \in Chain!Node : (\A x \in Old : b \notin Of(x)) /\ (\A x \in New : b \notin Of(x)) =>
           t.next[b] = s.next[b] /\ t.prev[b] = s.prev[b] /\ (b \in t.live <=> b \in s.live)
    BY <1>2, <1>5, <1>6
  <2>5. \A b \in t.live : (\E x \in Old : b \in Of(x)) => \E x \in New : b \in Of(x)
    OBVIOUS
  <2>6. \A b \in Chain!Addr : b \notin t.live => t.next[b] = 0 /\ t.prev[b] = 0
    BY <1>2 DEF InChains
  <2> HIDE DEF Old, New
  <2>7. InChains(t, (C \ Old) \cup New)
    BY <1>2, <2>1, <2>2, <2>3, <2>4, <2>5, <2>6, Relinked
  <2> QED BY <2>7 DEF Old, New
<1> QED BY <1>2, <1>3, <1>6, <1>9 DEF Born

(* An item comes to life behind item k of a chain.                         *)
LEMMA NewBehind ==
  ASSUME NEW s \in Memory, NEW C, InChains(s, C), NEW a \in Chain!Node, a \notin s.live, s.refs[a] = 0,
         NEW c \in C, NEW k \in 1..Len(c), NEW t, t = Chain!newDListItem(s, a, c[k])
  PROVE  /\ Born(s, t, a)
         /\ InChains(t, (C \ {c}) \cup {Chain!S!Spliced(c, k, <<a>>)})
<1>1. PICK to : to = c[k]
  OBVIOUS
<1>2. PICK nx : nx = s.next[to]
  OBVIOUS
<1>3. PICK u : u = Chain!newDListItem(s, a, 0)
  OBVIOUS
<1>4. PICK u1 : u1 = Chain!SetPrev(u, a, to)
  OBVIOUS
<1>5. PICK u2 : u2 = Chain!SetNext(u1, a, nx)
  OBVIOUS
<1>6. PICK u3 : u3 = Chain!IfPrev(u2, nx, a)
  OBVIOUS
<1>7. Born(s, u, a) /\ InChains(u, C \cup {<<a>>}) /\ u.next = s.next /\ u.prev = s.prev /\ u \in Memory
  <2>1. Born(s, u, a) /\ InChains(u, C \cup {<<a>>}) /\ u.next = s.next /\ u.prev = s.prev
    BY <1>3, NewChain
  <2> QED BY <2>1 DEF Born
<1>8. Linked(s, c) /\ Linked(u, c) /\ a \notin Of(c)
  BY <1>7 DEF InChains
<1>9. /\ Len(c) \in Nat /\ to \in Chain!Node /\ to \in Of(c) /\ Chain!Node \subseteq Chain!Addr /\ nx \in Chain!Addr /\ nx # a /\ k > 0
      /\ IF k < Len(c) THEN nx = c[k + 1] /\ nx # 0 ELSE nx = 0
  <2>1. Len(c) \in Nat /\ to \in Chain!Node /\ to \in Of(c) /\ Chain!Node \subseteq Chain!Addr /\ nx \in Chain!Addr
    BY <1>1, <1>2, <1>8, Ends
  <2>2. CASE k < Len(c)
    <3>1. nx = c[k + 1] /\ k + 1 \in 1..Len(c)
      BY <1>1, <1>2, <1>8, <2>2, Ends
    <3>2. c[k + 1] \in Of(c) /\ c[k + 1] # 0
      BY <1>8, <3>1, Ends
    <3> QED BY <1>8, <2>1, <2>2, <3>1, <3>2
  <2>3. CASE ~(k < Len(c))
    <3>1. nx = 0 /\ a # 0
      BY <1>1, <1>2, <1>8, <2>1, <2>3, Ends DEF Chain!Node
    <3> QED BY <2>1, <2>3, <3>1
  <2> QED BY <2>2, <2>3
<1>10. t = Chain!SetNext(u3, to, a)
  <2>1. c[k] # 0
    BY <1>8, Ends
  <2> QED BY <1>1, <1>2, <1>3, <1>4, <1>5, <1>6, <2>1 DEF Chain!newDListItem
<1>11. u1 \in Memory /\ Same(u, u1) /\ u1.next = u.next /\ u1.prev = [u.prev EXCEPT ![a] = to]
  BY <1>4, <1>7, <1>9, PrevSet
<1>12. u2 \in Memory /\ Same(u1, u2) /\ u2.prev = u1.prev /\ u2.next = [u1.next EXCEPT ![a] = nx]
  BY <1>5, <1>9, <1>11, NextSet
<1>13. /\ u3 \in Memory /\ Same(u2, u3) /\ u3.next = u2.next
       /\ u3.prev = IF nx = 0 THEN u2.prev ELSE [u2.prev EXCEPT ![nx] = a]
  BY <1>6, <1>9, <1>12, PrevIf
<1>14. t \in Memory /\ Same(u3, t) /\ t.prev = u3.prev /\ t.next = [u3.next EXCEPT ![to] = a]
  BY <1>9, <1>10, <1>13, NextSet
<1>15. Same(u, t)
  BY <1>11, <1>12, <1>13, <1>14, SameOn
<1>16. u.next \in [Chain!Addr -> Chain!Addr] /\ u.prev \in [Chain!Addr -> Chain!Addr] /\ a # to
  BY <1>7, <1>8, <1>9 DEF Memory
<1>17. t.next = [b \in Chain!Addr |-> IF b = a THEN nx ELSE IF b = to THEN a ELSE u.next[b]]
  BY <1>9, <1>11, <1>12, <1>13, <1>14, <1>16
<1>18. t.prev = [b \in Chain!Addr |-> IF b = a THEN to ELSE IF nx # 0 /\ b = nx THEN a ELSE u.prev[b]]
  BY <1>9, <1>11, <1>12, <1>13, <1>14, <1>16
<1>19. PICK e : e = <<a>>
  OBVIOUS
<1>20. e \in Seq(Chain!Node) /\ Len(e) = 1 /\ e[1] = a /\ Of(e) = {a}
  BY <1>19, Single
<1>21. SplicedInto(u, t, c, k, e)
  BY <1>1, <1>9, <1>17, <1>18, <1>20 DEF SplicedInto
<1>22. PICK D : D = C \cup {e}
  OBVIOUS
<1>23. e \notin C
  BY <1>20 DEF InChains
<1>24. InChains(u, D) /\ c \in D /\ e \in D /\ c # e /\ k \in 0..Len(c) /\ Rest(u, t)
  BY <1>7, <1>9, <1>15, <1>19, <1>22, <1>23 DEF Same
<1>25. InChains(t, (D \ {c, e}) \cup {Chain!S!Spliced(c, k, e)})
  BY <1>21, <1>24, JoinedChains
<1>26. D \ {c, e} = C \ {c}
  BY <1>22, <1>23
<1>27. Born(s, t, a)
  BY <1>7, <1>14, <1>15 DEF Born, Same, Rest, Edges, Sound
<1> QED BY <1>19, <1>25, <1>26, <1>27

-----------------------------------------------------------------------------
(* The list is the chain c of the chains C, or empty.                      *)
Listed(s, C, c) ==
  /\ s \in Memory /\ InChains(s, C)
  /\ IF c = <<>> THEN s.begin = 0 /\ s.end = 0 /\ s.count = 0 /\ s.mine = {}
     ELSE c \in C /\ s.begin = c[1] /\ s.end = c[Len(c)] /\ s.count = Len(c) /\ s.mine = Of(c)

Stands(s, c) == \E C : Listed(s, C, c)

(* Whatever value a caller holds, the references stay right.               *)
Safe(s, t) == \A v : Sound(s, v) => Sound(t, v)

(* Links, parents and edges are nothing to the references.                 *)
LEMMA RestIsSafe ==
  ASSUME NEW s, NEW t, Rest(s, t) PROVE Safe(s, t)
BY DEF Rest, Safe, Sound

(* What is known of a list that is not empty.                              *)
LEMMA ListIs ==
  ASSUME NEW s, NEW C, NEW c, Listed(s, C, c), c # <<>>
  PROVE  /\ s \in Memory /\ InChains(s, C) /\ c \in C /\ Linked(s, c) /\ Len(c) \in Nat /\ Len(c) >= 1
         /\ s.begin = c[1] /\ s.end = c[Len(c)] /\ s.count = Len(c) /\ s.mine = Of(c)
         /\ s.begin \in s.mine /\ s.end \in s.mine /\ s.begin # 0 /\ s.end # 0 /\ Of(c) \subseteq s.live
         /\ s.begin \in Of(c) /\ s.end \in Of(c)
<1>1. /\ s \in Memory /\ InChains(s, C) /\ c \in C
      /\ s.begin = c[1] /\ s.end = c[Len(c)] /\ s.count = Len(c) /\ s.mine = Of(c)
  BY DEF Listed
<1>2. Linked(s, c)
  BY <1>1 DEF InChains
<1>3. Len(c) \in Nat /\ Len(c) >= 1 /\ c[1] \in Of(c) /\ c[Len(c)] \in Of(c) /\ Of(c) \subseteq Chain!Node
  BY <1>1, <1>2, Ends
<1>4. c[1] # 0 /\ c[Len(c)] # 0
  BY <1>3 DEF Chain!Node
<1>5. Of(c) \subseteq s.live
  BY <1>1, <1>3 DEF InChains
<1> QED BY <1>1, <1>2, <1>3, <1>4, <1>5

(* The chain of an item that is not in the list.                           *)
LEMMA LooseIs ==
  ASSUME NEW s, NEW C, NEW c, Listed(s, C, c), NEW x \in s.live \ s.mine
  PROVE  \E e \in C : /\ x \in Of(e) /\ e # c /\ Of(e) \cap s.mine = {} /\ AsOne(s, e)
                      /\ Linked(s, e) /\ Chain!ChainOf(s, x) = e
<1>1. s \in Memory /\ InChains(s, C)
  BY DEF Listed
<1>2. x \in Chain!Node
  BY <1>1 DEF Memory
<1>3. PICK e \in C : x \in Of(e)
  BY <1>1, <1>2 DEF InChains
<1>4. Linked(s, e)
  BY <1>1 DEF InChains
<1>5. Chain!ChainOf(s, x) = e
  BY <1>3, <1>4, ChainIs DEF Of
<1>6. e # <<>>
  BY <1>3 DEF Of
<1>7. e # c /\ Of(e) \cap s.mine = {}
  <2>1. CASE c = <<>>
    BY <1>6, <2>1 DEF Listed
  <2>2. CASE c # <<>>
    <3>1. c \in C /\ s.mine = Of(c)
      BY <2>2 DEF Listed
    <3> QED BY <1>1, <1>3, <3>1 DEF InChains
  <2> QED BY <2>1, <2>2
<1> QED BY <1>3, <1>4, <1>5, <1>7 DEF AsOne

(* The books are written to fit the chain d.                               *)
LEMMA Booked ==
  ASSUME NEW t, NEW u \in Memory, u.next = t.next, u.prev = t.prev, u.live = t.live,
         NEW D, InChains(t, D), NEW d \in D,
         u.begin = d[1], u.end = d[Len(d)], u.count = Len(d), u.mine = Of(d)
  PROVE  Listed(u, D, d)
<1>1. InChains(u, D)
  <2>1. ASSUME NEW x \in D PROVE Linked(u, x)
    BY DEF InChains, Linked
  <2> QED BY <2>1 DEF InChains
<1>2. d # <<>>
  <2>1. Len(d) >= 1
    BY DEF InChains, Linked
  <2> QED BY <2>1
<1> QED BY <1>1, <1>2 DEF Listed

(* The books are written to fit an empty list.                             *)
LEMMA BookedEmpty ==
  ASSUME NEW t, NEW u \in Memory, u.next = t.next, u.prev = t.prev, u.live = t.live,
         NEW D, InChains(t, D), u.begin = 0, u.end = 0, u.count = 0, u.mine = {}
  PROVE  Listed(u, D, <<>>)
<1>1. InChains(u, D)
  <2>1. ASSUME NEW x \in D PROVE Linked(u, x)
    BY DEF InChains, Linked
  <2> QED BY <2>1 DEF InChains
<1> QED BY <1>1 DEF Listed

(* Two sequences of items with the same items are the same.                *)
LEMMA SameItems ==
  ASSUME NEW c \in Seq(Chain!Node), NEW d \in Seq(Chain!Node), Len(c) = Len(d), \A l \in 1..Len(c) : c[l] = d[l]
  PROVE  c = d
BY SeqEqual

(* What enters an empty sequence is the sequence.                          *)
LEMMA SpliceNothing ==
  ASSUME NEW e \in Seq(Chain!Node)
  PROVE  Chain!S!Spliced(<<>>, 0, e) = e
<1>1. PICK c : c = <<>>
  OBVIOUS
<1>2. c \in Seq(Chain!Node) /\ Len(c) = 0
  BY <1>1
<1>3. 0 \in 0..Len(c)
  BY <1>2
<1>4. PICK d : d = Chain!S!Spliced(c, 0, e)
  OBVIOUS
<1>5. SplicedAt(d, c, 0, e)
  BY <1>2, <1>3, <1>4, SplicedIs
<1>6. d \in Seq(Chain!Node) /\ Len(d) = Len(e) /\ \A l \in 1..Len(e) : d[0 + l] = e[l]
  BY <1>2, <1>5, ItemsAre DEF SplicedAt
<1>7. \A l \in 1..Len(d) : d[l] = e[l]
  BY <1>6
<1> QED BY <1>1, <1>4, <1>6, <1>7, SameItems

(* The ends of a chain that another was spliced into.                      *)
LEMMA SplicedEnds ==
  ASSUME NEW c \in Seq(Chain!Node), NEW e \in Seq(Chain!Node), Len(c) >= 1, Len(e) >= 1, NEW k \in 0..Len(c),
         NEW d, d = Chain!S!Spliced(c, k, e)
  PROVE  /\ d \in Seq(Chain!Node) /\ Len(d) = Len(c) + Len(e)
         /\ d[1] = IF k = 0 THEN e[1] ELSE c[1]
         /\ d[Len(d)] = IF k = Len(c) THEN e[Len(e)] ELSE c[Len(c)]
<1>1. Len(c) \in Nat /\ Len(e) \in Nat
  BY ItemsAre
<1>2. SplicedAt(d, c, k, e)
  BY SplicedIs
<1>3. d \in Seq(Chain!Node) /\ Len(d) = Len(c) + Len(e)
  BY <1>2 DEF SplicedAt
<1>4. d[1] = IF k = 0 THEN e[1] ELSE c[1]
  <2>1. CASE k = 0
    <3>1. 1 \in 1..Len(e) /\ k + 1 = 1
      BY <1>1, <2>1
    <3>2. d[k + 1] = e[1]
      BY <1>2, <3>1 DEF SplicedAt
    <3> QED BY <2>1, <3>1, <3>2
  <2>2. CASE k # 0
    <3>1. 1 \in 1..k
      BY <1>1, <2>2
    <3> QED BY <1>2, <2>2, <3>1 DEF SplicedAt
  <2> QED BY <2>1, <2>2
<1>5. d[Len(d)] = IF k = Len(c) THEN e[Len(e)] ELSE c[Len(c)]
  <2>1. CASE k = Len(c)
    <3>1. Len(e) \in 1..Len(e) /\ k + Len(e) = Len(d)
      BY <1>1, <1>3, <2>1
    <3>2. d[k + Len(e)] = e[Len(e)]
      BY <1>2, <3>1 DEF SplicedAt
    <3> QED BY <2>1, <3>1, <3>2
  <2>2. CASE k # Len(c)
    <3>1. Len(c) \in (k + 1)..Len(c) /\ Len(c) + Len(e) = Len(d)
      BY <1>1, <1>3, <2>2
    <3>2. d[Len(c) + Len(e)] = c[Len(c)]
      BY <1>2, <3>1 DEF SplicedAt
    <3> QED BY <2>2, <3>1, <3>2
  <2> QED BY <2>1, <2>2
<1> QED BY <1>3, <1>4, <1>5

(* What d is, after e was spliced into c.                                  *)
OneChain(t, C, c, k, e, d) ==
  /\ InChains(t, (C \ {c, e}) \cup {d}) /\ Linked(t, d) /\ Of(d) = Of(c) \cup Of(e)
  /\ Len(d) = Len(c) + Len(e) /\ Len(e) \in Nat /\ Len(e) >= 1 /\ Len(c) \in Nat
  /\ d[1] = (IF k = 0 THEN e[1] ELSE c[1]) /\ d[Len(d)] = (IF k = Len(c) THEN e[Len(e)] ELSE c[Len(c)])

(* A chain has been linked into the list: what the books are to say.       *)
LEMMA Entered ==
  ASSUME NEW s, NEW C, NEW c, Listed(s, C, c), c # <<>>, NEW e \in C, e # c, NEW k \in 0..Len(c),
         NEW t, Rest(s, t), SplicedInto(s, t, c, k, e), NEW d, d = Chain!S!Spliced(c, k, e)
  PROVE  OneChain(t, C, c, k, e, d)
<1>1. InChains(s, C) /\ c \in C /\ s \in Memory
  BY ListIs
<1>2. Linked(s, c) /\ Linked(s, e)
  BY <1>1 DEF InChains
<1>3. /\ c \in Seq(Chain!Node) /\ Len(c) >= 1 /\ Len(c) \in Nat
      /\ e \in Seq(Chain!Node) /\ Len(e) >= 1 /\ Len(e) \in Nat
  BY <1>1, <1>2, Ends
<1>4. InChains(t, (C \ {c, e}) \cup {d}) /\ Linked(t, d) /\ Of(d) = Of(c) \cup Of(e)
  BY <1>1, JoinedChains
<1>5. /\ Len(d) = Len(c) + Len(e) /\ d[1] = (IF k = 0 THEN e[1] ELSE c[1])
      /\ d[Len(d)] = (IF k = Len(c) THEN e[Len(e)] ELSE c[Len(c)])
  BY <1>3, SplicedEnds
<1> QED BY <1>3, <1>4, <1>5 DEF OneChain

(* Belongs, with the first item at home already.                           *)
LEMMA AtHome ==
  ASSUME NEW s, s.begin \in s.mine PROVE Chain!Belongs(s) = s
BY DEF Chain!Belongs, Chain!DListItem_set_list_parent

-----------------------------------------------------------------------------
(* What the functions find from any item of a chain.                       *)
LEMMA FromAny ==
  ASSUME NEW s, NEW c, Linked(s, c), NEW x \in Of(c)
  PROVE  /\ Chain!DListItem_get_first_item(s, x) = c[1] /\ Chain!DListItem_get_last_item(s, x) = c[Len(c)]
         /\ Chain!DListItem_count(s, x) = Len(c)
BY Lookups DEF Of

(* Writing the books.                                                      *)
Write(s, b, e, n) == [s EXCEPT !.begin = b, !.end = e, !.count = n]

Written(s, t, b, e, n) ==
  /\ t \in Memory /\ Rest(s, t) /\ t.next = s.next /\ t.prev = s.prev /\ t.mine = s.mine
  /\ t.begin = b /\ t.end = e /\ t.count = n

(* What is written is there, and the rest stays.                           *)
LEMMA Writes ==
  ASSUME NEW s \in Memory, NEW b \in Chain!Addr, NEW e \in Chain!Addr, NEW n \in Int
  PROVE  Written(s, Write(s, b, e, n), b, e, n)
BY DEF Memory, Rest, Write, Written

(* The forms in which the code writes them.                                *)
LEMMA WriteForms ==
  ASSUME NEW s \in Memory, NEW b, NEW e, NEW n
  PROVE  /\ [s EXCEPT !.count = n] = Write(s, s.begin, s.end, n)
         /\ [s EXCEPT !.end = e] = Write(s, s.begin, e, s.count)
         /\ [s EXCEPT !.begin = b] = Write(s, b, s.end, s.count)
         /\ [s EXCEPT !.begin = b, !.end = e] = Write(s, b, e, s.count)
<1>1. [s EXCEPT !.count = n] = Write(s, s.begin, s.end, n)
  BY DEF Write, Memory
<1>2. [s EXCEPT !.end = e] = Write(s, s.begin, e, s.count)
  BY DEF Write, Memory
<1>3. [s EXCEPT !.begin = b] = Write(s, b, s.end, s.count)
  BY DEF Write, Memory
<1>4. [s EXCEPT !.begin = b, !.end = e] = Write(s, b, e, s.count)
  BY DEF Write, Memory
<1> QED BY <1>1, <1>2, <1>3, <1>4

(* The last write counts.                                                  *)
LEMMA WriteTwice ==
  ASSUME NEW s \in Memory, NEW b1, NEW e1, NEW n1, NEW b, NEW e, NEW n
  PROVE  Write(Write(s, b1, e1, n1), b, e, n) = Write(s, b, e, n)
BY DEF Write, Memory

(* A chain that enters an empty list.                                      *)
LEMMA Founded ==
  ASSUME NEW s, NEW C, Listed(s, C, <<>>), NEW e \in C, NEW n \in Int, n = Len(e) \/ n = 0,
         NEW u, u = Write(s, e[1], e[Len(e)], n),
         NEW t, t = Write(Chain!Belongs(u), e[1], e[Len(e)], Len(e))
  PROVE  /\ Stands(t, Chain!S!Spliced(<<>>, 0, e)) /\ Safe(s, t) /\ (n = Len(e) => t = Chain!Belongs(u))
         /\ Chain!Belongs(u) \in Memory /\ Chain!Belongs(u).count = n
         /\ Chain!Belongs(u).begin = e[1] /\ Chain!Belongs(u).end = e[Len(e)]
<1>1. s \in Memory /\ InChains(s, C) /\ s.mine = {}
  BY DEF Listed
<1>2. Linked(s, e)
  BY <1>1 DEF InChains
<1>3. /\ e \in Seq(Chain!Node) /\ Len(e) \in Nat /\ e[1] \in Of(e) /\ e[Len(e)] \in Of(e)
      /\ Of(e) \subseteq Chain!Node /\ Chain!Node \subseteq Chain!Addr
  BY <1>1, <1>2, Ends
<1>4. /\ u \in Memory /\ Rest(s, u) /\ u.next = s.next /\ u.prev = s.prev /\ u.mine = s.mine
      /\ u.begin = e[1] /\ u.end = e[Len(e)] /\ u.count = n
  <2>1. e[1] \in Chain!Addr /\ e[Len(e)] \in Chain!Addr
    BY <1>3
  <2> QED BY <1>1, <2>1, Writes DEF Written
<1>5. Linked(u, e) /\ AsOne(u, e)
  BY <1>1, <1>2, <1>4 DEF Linked, AsOne
<1>6. PICK w : w = Chain!Belongs(u)
  OBVIOUS
<1>7. Joined(u, w, e)
  BY <1>3, <1>4, <1>5, <1>6, Parents DEF Chain!Belongs
<1>8. /\ w \in Memory /\ w.next = s.next /\ w.prev = s.prev /\ w.mine = Of(e) /\ w.live = s.live
      /\ w.begin = e[1] /\ w.end = e[Len(e)] /\ w.count = n /\ Rest(s, w)
  BY <1>1, <1>4, <1>7 DEF Joined, Rest, Edges
<1>9. t = Write(w, w.begin, w.end, Len(e))
  BY <1>6, <1>8
<1>10. /\ t \in Memory /\ t.next = w.next /\ t.prev = w.prev /\ t.mine = w.mine /\ Rest(w, t)
       /\ t.begin = w.begin /\ t.end = w.end /\ t.count = Len(e)
  <2>1. w.begin \in Chain!Addr /\ w.end \in Chain!Addr /\ Len(e) \in Int
    BY <1>3, <1>8
  <2>2. Written(w, t, w.begin, w.end, Len(e))
    BY <1>8, <1>9, <2>1, Writes
  <2> QED BY <2>2 DEF Written
<1>11. Listed(t, C, e)
  <2>1. t.next = s.next /\ t.prev = s.prev /\ t.live = s.live /\ t.mine = Of(e)
    BY <1>8, <1>10 DEF Rest
  <2> QED BY <1>1, <1>8, <1>10, <2>1, Booked
<1>12. Chain!S!Spliced(<<>>, 0, e) = e
  BY <1>3, SpliceNothing
<1>13. Rest(s, t)
  BY <1>8, <1>10 DEF Rest
<1>14. n = Len(e) => t = w
  <2>1. w = Write(w, w.begin, w.end, w.count)
    BY <1>8 DEF Memory, Write
  <2> QED BY <1>8, <1>9, <2>1
<1> QED BY <1>6, <1>8, <1>11, <1>12, <1>13, <1>14, RestIsSafe DEF Stands

(* A chain that has been linked into the list, with the books to fit.      *)
LEMMA ListGrows ==
  ASSUME NEW s, NEW C, NEW c, Listed(s, C, c), c # <<>>, NEW e \in C, e # c, NEW k \in 0..Len(c),
         NEW a \in s.mine, NEW u, EntersAt(s, u, c, k, e, a), NEW d, d = Chain!S!Spliced(c, k, e),
         NEW w, w = Write(u, d[1], d[Len(d)], Len(d))
  PROVE  Stands(w, d) /\ Safe(s, w) /\ w.begin \in w.mine
<1>1. c \in C /\ s.mine = Of(c) /\ s \in Memory
  BY ListIs
<1>2. Rest(s, u) /\ SplicedInto(s, u, c, k, e) /\ u.mine = s.mine \cup Of(e) /\ u \in Memory
  BY DEF EntersAt, Rest
<1>3. OneChain(u, C, c, k, e, d)
  BY <1>2, Entered
<1>4. InChains(u, (C \ {c, e}) \cup {d}) /\ Linked(u, d) /\ Of(d) = Of(c) \cup Of(e)
  BY <1>3 DEF OneChain
<1>5. Len(d) \in Nat /\ d[1] \in Of(d) /\ d[Len(d)] \in Of(d) /\ Of(d) \subseteq Chain!Node /\ Chain!Node \subseteq Chain!Addr
  BY <1>2, <1>4, Ends
<1>6. Written(u, w, d[1], d[Len(d)], Len(d))
  <2>1. d[1] \in Chain!Addr /\ d[Len(d)] \in Chain!Addr /\ Len(d) \in Int
    BY <1>5
  <2> QED BY <1>2, <2>1, Writes
<1>7. /\ w \in Memory /\ w.next = u.next /\ w.prev = u.prev /\ w.mine = Of(d) /\ w.live = u.live
      /\ w.begin = d[1] /\ w.end = d[Len(d)] /\ w.count = Len(d) /\ Rest(s, w)
  BY <1>1, <1>2, <1>4, <1>6 DEF Written, Rest
<1>8. PICK D : D = (C \ {c, e}) \cup {d}
  OBVIOUS
<1>9. Listed(w, D, d)
  BY <1>4, <1>7, <1>8, Booked
<1> QED BY <1>5, <1>7, <1>9, RestIsSafe DEF Stands

(* DList_push_back.                                                        *)
LEMMA PushBackIs ==
  ASSUME NEW s, NEW C, NEW c, Listed(s, C, c), NEW e \in C, e # c, Of(e) \cap s.mine = {}, NEW x \in Of(e),
         NEW t, t = Chain!DList_push_back(s, x)
  PROVE  Stands(t, Chain!S!Spliced(c, Len(c), e)) /\ Safe(s, t)
<1>1. s \in Memory /\ InChains(s, C) /\ Linked(s, e) /\ AsOne(s, e)
  BY DEF Listed, InChains, AsOne
<1>2. Chain!DListItem_count(s, x) = Len(e) /\ Chain!DListItem_get_first_item(s, x) = e[1]
  BY <1>1, FromAny
<1>3. Len(e) \in Nat /\ Len(e) >= 1 /\ e[1] \in Of(e) /\ Of(e) \subseteq Chain!Node
  BY <1>1, Ends
<1>4. CASE c = <<>>
  <2>1. s.begin = 0 /\ s.end = 0 /\ s.count = 0 /\ Listed(s, C, <<>>) /\ Len(c) = 0
    BY <1>4 DEF Listed
  <2>2. Chain!DListItem_get_last_item(s, e[1]) = e[Len(e)]
    BY <1>1, <1>3, FromAny
  <2>3. PICK u : u = Write(s, e[1], e[Len(e)], Len(e))
    OBVIOUS
  <2>4. u = [s EXCEPT !.count = s.count + Len(e), !.begin = e[1], !.end = e[Len(e)]]
    <3>1. s.count + Len(e) = Len(e)
      BY <1>3, <2>1
    <3> QED BY <1>1, <2>3, <3>1 DEF Memory, Write
  <2>5. t = Chain!Belongs(u)
    BY <1>2, <2>1, <2>2, <2>4 DEF Chain!DList_push_back
  <2>6. PICK w : w = Write(Chain!Belongs(u), e[1], e[Len(e)], Len(e))
    OBVIOUS
  <2>7. Len(e) \in Int
    BY <1>3
  <2>8. Stands(w, Chain!S!Spliced(<<>>, 0, e)) /\ Safe(s, w) /\ w = Chain!Belongs(u)
    BY <2>1, <2>3, <2>6, <2>7, Founded
  <2> QED BY <1>4, <2>1, <2>5, <2>8
<1>5. CASE c # <<>>
  <2>1. /\ c \in C /\ Linked(s, c) /\ s.begin = c[1] /\ s.end = c[Len(c)] /\ s.count = Len(c) /\ s.mine = Of(c)
        /\ s.end \in Of(c) /\ s.end # 0 /\ s.begin # 0 /\ Len(c) \in Nat /\ Len(c) >= 1
    BY <1>5, ListIs
  <2>2. Of(c) \cap Of(e) = {}
    BY <2>1
  <2>3. PICK u : u = Chain!DListItem_push_back(s, s.end, x)
    OBVIOUS
  <2>4. EntersAt(s, u, c, Len(c), e, s.end)
    BY <1>1, <2>1, <2>2, <2>3, PushesBack
  <2>5. PICK d : d = Chain!S!Spliced(c, Len(c), e)
    OBVIOUS
  <2>6. Len(c) \in 0..Len(c) /\ Len(c) # 0
    BY <2>1
  <2>7. OneChain(u, C, c, Len(c), e, d)
    BY <1>5, <2>4, <2>5, <2>6, Entered DEF EntersAt
  <2>8. /\ Linked(u, d) /\ Of(d) = Of(c) \cup Of(e) /\ Len(d) = Len(c) + Len(e)
        /\ d[1] = c[1] /\ d[Len(d)] = e[Len(e)]
    BY <2>6, <2>7 DEF OneChain
  <2>9. Chain!DListItem_get_last_item(u, e[1]) = d[Len(d)]
    BY <1>3, <2>8, FromAny
  <2>10. PICK w : w = Write(u, d[1], d[Len(d)], Len(d))
    OBVIOUS
  <2>11. u \in Memory /\ u.begin = c[1] /\ u.end = c[Len(c)] /\ u.count = Len(c)
    BY <2>1, <2>4 DEF EntersAt, Rest, Edges
  <2>12. w = [u EXCEPT !.count = @ + Len(e), !.begin = IF @ = 0 THEN e[1] ELSE @, !.end = d[Len(d)]]
    BY <2>1, <2>8, <2>10, <2>11 DEF Memory, Write
  <2>13. t = Chain!Belongs(w)
    BY <1>2, <2>1, <2>3, <2>9, <2>12 DEF Chain!DList_push_back
  <2>14. Stands(w, d) /\ Safe(s, w) /\ w.begin \in w.mine
    BY <1>5, <2>1, <2>4, <2>5, <2>6, <2>10, ListGrows
  <2>15. t = w
    BY <2>13, <2>14, AtHome
  <2> QED BY <2>5, <2>14, <2>15
<1> QED BY <1>4, <1>5

(* DList_push_forward.                                                     *)
LEMMA PushForwardIs ==
  ASSUME NEW s, NEW C, NEW c, Listed(s, C, c), NEW e \in C, e # c, Of(e) \cap s.mine = {}, NEW x \in Of(e),
         NEW t, t = Chain!DList_push_forward(s, x)
  PROVE  Stands(t, Chain!S!Spliced(c, 0, e)) /\ Safe(s, t)
<1>1. s \in Memory /\ InChains(s, C) /\ Linked(s, e) /\ AsOne(s, e)
  BY DEF Listed, InChains, AsOne
<1>2. Chain!DListItem_count(s, x) = Len(e) /\ Chain!DListItem_get_first_item(s, x) = e[1]
  BY <1>1, FromAny
<1>3. Len(e) \in Nat /\ Len(e) >= 1 /\ e[1] \in Of(e) /\ Of(e) \subseteq Chain!Node
  BY <1>1, Ends
<1>4. CASE c = <<>>
  <2>1. s.begin = 0 /\ s.end = 0 /\ s.count = 0 /\ Listed(s, C, <<>>)
    BY <1>4 DEF Listed
  <2>2. Chain!DListItem_get_last_item(s, e[1]) = e[Len(e)]
    BY <1>1, <1>3, FromAny
  <2>3. PICK u : u = Write(s, e[1], e[Len(e)], Len(e))
    OBVIOUS
  <2>4. u = [s EXCEPT !.count = s.count + Len(e), !.begin = e[1], !.end = e[Len(e)]]
    <3>1. s.count + Len(e) = Len(e)
      BY <1>3, <2>1
    <3> QED BY <1>1, <2>3, <3>1 DEF Memory, Write
  <2>5. t = Chain!Belongs(u)
    BY <1>2, <2>1, <2>2, <2>4 DEF Chain!DList_push_forward
  <2>6. PICK w : w = Write(Chain!Belongs(u), e[1], e[Len(e)], Len(e))
    OBVIOUS
  <2>7. Len(e) \in Int
    BY <1>3
  <2>8. Stands(w, Chain!S!Spliced(<<>>, 0, e)) /\ Safe(s, w) /\ w = Chain!Belongs(u)
    BY <2>1, <2>3, <2>6, <2>7, Founded
  <2> QED BY <1>4, <2>1, <2>5, <2>8
<1>5. CASE c # <<>>
  <2>1. /\ c \in C /\ Linked(s, c) /\ s.begin = c[1] /\ s.end = c[Len(c)] /\ s.count = Len(c) /\ s.mine = Of(c)
        /\ s.begin \in Of(c) /\ s.end # 0 /\ s.begin # 0 /\ Len(c) \in Nat /\ Len(c) >= 1
    BY <1>5, ListIs
  <2>2. Of(c) \cap Of(e) = {}
    BY <2>1
  <2>3. PICK u : u = Chain!DListItem_push_forward(s, s.begin, x)
    OBVIOUS
  <2>4. EntersAt(s, u, c, 0, e, s.begin)
    BY <1>1, <2>1, <2>2, <2>3, PushesForward
  <2>5. PICK d : d = Chain!S!Spliced(c, 0, e)
    OBVIOUS
  <2>6. 0 \in 0..Len(c) /\ Len(c) # 0
    BY <2>1
  <2>7. OneChain(u, C, c, 0, e, d)
    BY <1>5, <2>4, <2>5, <2>6, Entered DEF EntersAt
  <2>8. /\ Linked(u, d) /\ Of(d) = Of(c) \cup Of(e) /\ Len(d) = Len(c) + Len(e)
        /\ d[1] = e[1] /\ d[Len(d)] = c[Len(c)]
    BY <2>6, <2>7 DEF OneChain
  <2>9. Chain!DListItem_get_last_item(u, e[1]) = d[Len(d)]
    BY <1>3, <2>8, FromAny
  <2>10. PICK w : w = Write(u, d[1], d[Len(d)], Len(d))
    OBVIOUS
  <2>11. u \in Memory /\ u.begin = c[1] /\ u.end = c[Len(c)] /\ u.count = Len(c)
    BY <2>1, <2>4 DEF EntersAt, Rest, Edges
  <2>12. w = [u EXCEPT !.count = @ + Len(e), !.begin = e[1],
                       !.end = IF @ = 0 THEN Chain!DListItem_get_last_item(u, e[1]) ELSE @]
    BY <2>1, <2>8, <2>10, <2>11 DEF Memory, Write
  <2>13. t = Chain!Belongs(w)
    BY <1>2, <2>1, <2>3, <2>9, <2>12 DEF Chain!DList_push_forward
  <2>14. Stands(w, d) /\ Safe(s, w) /\ w.begin \in w.mine
    BY <1>5, <2>1, <2>4, <2>5, <2>6, <2>10, ListGrows
  <2>15. t = w
    BY <2>13, <2>14, AtHome
  <2> QED BY <2>5, <2>14, <2>15
<1> QED BY <1>4, <1>5

-----------------------------------------------------------------------------
(* The item at an index, whichever end it is looked up from.               *)
LEMMA NearestIs ==
  ASSUME NEW s, NEW C, NEW c, Listed(s, C, c), c # <<>>, NEW index \in 0..(Len(c) - 1)
  PROVE  Chain!Nearest(s, index) = c[index + 1] /\ Chain!DList_get(s, index) = c[index + 1] /\ index + 1 \in 1..Len(c)
<1>1. /\ Linked(s, c) /\ Len(c) \in Nat /\ Len(c) >= 1 /\ s.begin = c[1] /\ s.end = c[Len(c)] /\ s.count = Len(c)
  BY ListIs
<1>2. 1 \in 1..Len(c) /\ Len(c) \in 1..Len(c) /\ index \in Nat /\ index + 1 \in 1..Len(c)
  BY <1>1
<1>3. Chain!Nearest(s, index) = c[index + 1]
  <2>1. CASE index < s.count \div 2
    <3>1. CASE index > 0
      <4>1. 1 + index <= Len(c) /\ 1 + index = index + 1
        BY <1>1, <1>2
      <4>2. Chain!Walk(s.next, c[1], index) = c[1 + index]
        BY <1>1, <1>2, <4>1, Walks
      <4> QED BY <1>1, <2>1, <3>1, <4>1, <4>2 DEF Chain!Nearest, Chain!DListItem_get_by_relative_index
    <3>2. CASE ~(index > 0)
      <4>1. index = 0 /\ -index = 0 /\ 1 - 0 >= 1 /\ 1 - 0 = 1 /\ index + 1 = 1
        BY <1>2, <3>2
      <4>2. Chain!Walk(s.prev, c[1], 0) = c[1 - 0]
        BY <1>1, <1>2, <4>1, Walks
      <4> QED BY <1>1, <2>1, <3>2, <4>1, <4>2 DEF Chain!Nearest, Chain!DListItem_get_by_relative_index
    <3> QED BY <3>1, <3>2
  <2>2. CASE ~(index < s.count \div 2)
    <3>1. PICK r : r = index - (s.count - 1)
      OBVIOUS
    <3>2. ~(r > 0) /\ -r \in Nat /\ Len(c) - (-r) = index + 1 /\ Len(c) - (-r) >= 1
      BY <1>1, <1>2, <3>1
    <3>3. PICK q : q = -r
      OBVIOUS
    <3>4. Chain!Walk(s.prev, c[Len(c)], q) = c[Len(c) - q]
      BY <1>1, <1>2, <3>2, <3>3, Walks
    <3> QED BY <1>1, <2>2, <3>1, <3>2, <3>3, <3>4 DEF Chain!Nearest, Chain!DListItem_get_by_relative_index
  <2> QED BY <2>1, <2>2
<1>4. Chain!DList_get(s, index) = c[index + 1]
  <2>1. CASE index = 0
    <3>1. index + 1 = 1
      BY <2>1
    <3> QED BY <1>1, <2>1, <3>1 DEF Chain!DList_get
  <2>2. CASE index # 0
    BY <1>3, <2>2 DEF Chain!DList_get
  <2> QED BY <2>1, <2>2
<1> QED BY <1>2, <1>3, <1>4

Least(a, b) == IF a < b THEN a ELSE b

(* DList_insert.                                                           *)
LEMMA InsertIs ==
  ASSUME NEW s, NEW C, NEW c, Listed(s, C, c), NEW e \in C, e # c, Of(e) \cap s.mine = {}, NEW x \in Of(e),
         NEW index \in Nat, c # <<>> => index > 0, NEW t, t = Chain!DList_insert(s, index, x)
  PROVE  Stands(t, Chain!S!Spliced(c, Least(index, Len(c)), e)) /\ Safe(s, t)
<1>1. s \in Memory /\ InChains(s, C) /\ Linked(s, e) /\ AsOne(s, e)
  BY DEF Listed, InChains, AsOne
<1>2. /\ Chain!DListItem_count(s, x) = Len(e) /\ Chain!DListItem_get_first_item(s, x) = e[1]
      /\ Chain!DListItem_get_last_item(s, x) = e[Len(e)]
  BY <1>1, FromAny
<1>3. Len(e) \in Nat /\ Len(e) >= 1 /\ e[1] \in Of(e) /\ Of(e) \subseteq Chain!Node
  BY <1>1, Ends
<1>4. CASE c = <<>>
  <2>1. s.begin = 0 /\ s.end = 0 /\ s.count = 0 /\ Listed(s, C, <<>>) /\ Len(c) = 0 /\ Least(index, Len(c)) = 0
    BY <1>4 DEF Listed, Least
  <2>2. PICK u : u = Write(s, e[1], e[Len(e)], 0)
    OBVIOUS
  <2>3. u = [s EXCEPT !.begin = e[1], !.end = e[Len(e)]]
    BY <1>1, <2>1, <2>2 DEF Memory, Write
  <2>4. t = [Chain!Belongs(u) EXCEPT !.count = @ + Len(e)]
    BY <1>2, <2>1, <2>3 DEF Chain!DList_insert
  <2>5. PICK w : w = Write(Chain!Belongs(u), e[1], e[Len(e)], Len(e))
    OBVIOUS
  <2>6. PICK v : v = Chain!Belongs(u)
    OBVIOUS
  <2>7. /\ Stands(w, Chain!S!Spliced(<<>>, 0, e)) /\ Safe(s, w)
        /\ v \in Memory /\ v.count = 0 /\ v.begin = e[1] /\ v.end = e[Len(e)]
    <3>1. PICK n : n = 0
      OBVIOUS
    <3>2. n \in Int /\ u = Write(s, e[1], e[Len(e)], n)
      BY <2>2, <3>1
    <3> QED BY <2>1, <2>5, <2>6, <3>1, <3>2, Founded
  <2>9. t = w
    <3>1. t = [v EXCEPT !.count = v.count + Len(e)]
      BY <2>4, <2>6
    <3>2. v.count + Len(e) = Len(e)
      BY <1>3, <2>7
    <3>3. t = Write(v, v.begin, v.end, Len(e))
      BY <2>7, <3>1, <3>2, WriteForms
    <3> QED BY <2>5, <2>6, <2>7, <3>3
  <2> QED BY <1>4, <2>1, <2>7, <2>9
<1>5. CASE c # <<>>
  <2>1. /\ c \in C /\ Linked(s, c) /\ s.begin = c[1] /\ s.end = c[Len(c)] /\ s.count = Len(c) /\ s.mine = Of(c)
        /\ s.end \in Of(c) /\ s.end # 0 /\ s.begin # 0 /\ Len(c) \in Nat /\ Len(c) >= 1 /\ s.begin \in Of(c)
    BY <1>5, ListIs
  <2>2. Of(c) \cap Of(e) = {} /\ index > 0
    BY <1>5, <2>1
  <2>3. PICK k : k = Least(index, Len(c))
    OBVIOUS
  <2>4. k \in 1..Len(c) /\ k \in 0..Len(c) /\ k # 0
    BY <2>1, <2>2, <2>3 DEF Least
  <2>5. PICK d : d = Chain!S!Spliced(c, k, e)
    OBVIOUS
  <2>6. CASE index >= s.count
    <3>1. PICK u : u = Chain!DListItem_insert_after(s, s.end, x)
      OBVIOUS
    <3>2. k = Len(c) /\ s.end = c[k] /\ s.end \in s.mine
      BY <2>1, <2>3, <2>6 DEF Least
    <3>3. EntersAt(s, u, c, k, e, s.end)
      BY <1>1, <2>1, <2>2, <2>4, <3>1, <3>2, InsertsAfter
    <3>4. OneChain(u, C, c, k, e, d)
      BY <1>5, <2>4, <2>5, <3>3, Entered DEF EntersAt
    <3>5. Linked(u, d) /\ Of(d) = Of(c) \cup Of(e) /\ Len(d) = Len(c) + Len(e) /\ d[1] = c[1]
      BY <2>4, <3>4 DEF OneChain
    <3>6. u \in Memory /\ u.begin = c[1] /\ u.end = s.end /\ u.count = Len(c) /\ u.mine = s.mine \cup Of(e)
      BY <2>1, <3>2, <3>3 DEF EntersAt, Rest, Edges
    <3>7. Chain!DListItem_get_last_item(u, u.end) = d[Len(d)]
      BY <2>1, <3>5, <3>6, FromAny
    <3>8. PICK v : v = [u EXCEPT !.end = d[Len(d)]]
      OBVIOUS
    <3>9. v.begin = u.begin /\ v.mine = u.mine
      BY <3>6, <3>8 DEF Memory
    <3>10. Chain!Belongs(v) = v
      BY <2>1, <3>6, <3>9, AtHome
    <3>11. t = [v EXCEPT !.count = @ + Len(e)]
      BY <1>2, <2>1, <2>6, <3>1, <3>7, <3>8, <3>10 DEF Chain!DList_insert
    <3>12. PICK w : w = Write(u, d[1], d[Len(d)], Len(d))
      OBVIOUS
    <3>13. t = w
      <4>1. v = Write(u, u.begin, d[Len(d)], u.count)
        BY <3>6, <3>8, WriteForms
      <4>2. v \in Memory /\ v.begin = d[1] /\ v.end = d[Len(d)] /\ v.count + Len(e) = Len(d)
        <5>1. d[Len(d)] \in Chain!Addr /\ u.begin \in Chain!Addr /\ u.count \in Int
          BY <3>5, <3>6, Ends DEF Memory
        <5>2. Written(u, v, u.begin, d[Len(d)], u.count)
          BY <3>6, <4>1, <5>1, Writes
        <5> QED BY <3>5, <3>6, <5>2 DEF Written
      <4>3. t = [v EXCEPT !.count = v.count + Len(e)]
        BY <3>11
      <4>4. t = Write(v, d[1], d[Len(d)], Len(d))
        BY <4>2, <4>3, WriteForms
      <4> QED BY <3>6, <3>12, <4>1, <4>4, WriteTwice
    <3>14. Stands(w, d) /\ Safe(s, w) /\ w.begin \in w.mine
      BY <1>5, <2>1, <2>4, <2>5, <3>2, <3>3, <3>12, ListGrows
    <3> QED BY <2>3, <2>5, <3>13, <3>14
  <2>7. CASE ~(index >= s.count)
    <3>1. index \in 0..(Len(c) - 1) /\ k = index /\ k \in 1..(Len(c) - 1) /\ k # Len(c)
      BY <2>1, <2>2, <2>3, <2>7 DEF Least
    <3>2. Chain!Nearest(s, index) = c[k + 1] /\ k + 1 \in 1..Len(c)
      BY <1>5, <3>1, NearestIs
    <3>3. PICK u : u = Chain!DListItem_insert_before(s, c[k + 1], x)
      OBVIOUS
    <3>4. c[k + 1] \in s.mine
      BY <2>1, <3>2 DEF Of
    <3>5. EntersAt(s, u, c, k, e, c[k + 1])
      BY <1>1, <2>1, <2>2, <3>1, <3>3, InsertsBefore
    <3>6. OneChain(u, C, c, k, e, d)
      BY <1>5, <2>4, <2>5, <3>5, Entered DEF EntersAt
    <3>7. Len(d) = Len(c) + Len(e) /\ d[1] = c[1] /\ d[Len(d)] = c[Len(c)]
      BY <2>4, <3>1, <3>6 DEF OneChain
    <3>8. /\ u \in Memory /\ u.begin = c[1] /\ u.end = c[Len(c)] /\ u.count = Len(c)
          /\ u.mine = s.mine \cup Of(e)
      BY <2>1, <3>4, <3>5 DEF EntersAt, Rest, Edges
    <3>9. Chain!Belongs(u) = u
      BY <2>1, <3>8, AtHome
    <3>10. t = [u EXCEPT !.count = @ + Len(e)]
      BY <1>2, <2>1, <2>7, <3>2, <3>3, <3>9 DEF Chain!DList_insert
    <3>11. PICK w : w = Write(u, d[1], d[Len(d)], Len(d))
      OBVIOUS
    <3>12. t = w
      <4>1. t = [u EXCEPT !.count = u.count + Len(e)]
        BY <3>10
      <4>2. t = Write(u, u.begin, u.end, u.count + Len(e))
        BY <3>8, <4>1, WriteForms
      <4> QED BY <3>7, <3>8, <3>11, <4>2
    <3>13. PICK a : a = c[k + 1]
      OBVIOUS
    <3>14. Stands(w, d) /\ Safe(s, w) /\ w.begin \in w.mine
      BY <1>5, <2>1, <2>4, <2>5, <3>4, <3>5, <3>11, <3>13, ListGrows
    <3> QED BY <2>3, <2>5, <3>12, <3>14
  <2> QED BY <2>6, <2>7
<1> QED BY <1>4, <1>5

(* DList_insert_before, with one item and behind the first.                *)
LEMMA InsertBeforeIs ==
  ASSUME NEW s, NEW C, NEW c, Listed(s, C, c), c # <<>>, NEW e \in C, e # c, Of(e) \cap s.mine = {}, NEW x \in Of(e),
         Len(e) = 1, NEW k \in 1..(Len(c) - 1), NEW t, t = Chain!DList_insert_before(s, c[k + 1], x)
  PROVE  Stands(t, Chain!S!Spliced(c, k, e)) /\ Safe(s, t)
<1>1. s \in Memory /\ InChains(s, C) /\ Linked(s, e) /\ AsOne(s, e)
  BY DEF Listed, InChains, AsOne
<1>2. /\ c \in C /\ Linked(s, c) /\ s.begin = c[1] /\ s.end = c[Len(c)] /\ s.count = Len(c) /\ s.mine = Of(c)
      /\ s.end # 0 /\ s.begin # 0 /\ Len(c) \in Nat /\ Len(c) >= 1
  BY ListIs
<1>3. Of(c) \cap Of(e) = {}
  BY <1>2
<1>4. k \in 0..Len(c) /\ k # 0 /\ k # Len(c) /\ k + 1 \in 1..Len(c)
  BY <1>2
<1>5. PICK d : d = Chain!S!Spliced(c, k, e)
  OBVIOUS
<1>6. PICK u : u = Chain!DListItem_insert_before(s, c[k + 1], x)
  OBVIOUS
<1>7. c[k + 1] \in s.mine
  BY <1>2, <1>4 DEF Of
<1>8. EntersAt(s, u, c, k, e, c[k + 1])
  BY <1>1, <1>2, <1>3, <1>6, InsertsBefore
<1>9. OneChain(u, C, c, k, e, d)
  BY <1>4, <1>5, <1>8, Entered DEF EntersAt
<1>10. Linked(u, d) /\ Len(d) = Len(c) + 1 /\ d[1] = c[1] /\ d[Len(d)] = c[Len(c)]
  BY <1>4, <1>9 DEF OneChain
<1>11. u \in Memory /\ u.begin = c[1] /\ u.end = c[Len(c)] /\ u.count = Len(c)
  BY <1>2, <1>8 DEF EntersAt, Rest, Edges
<1>12. u.prev[u.begin] = 0
  BY <1>10, <1>11, Ends
<1>13. t = [u EXCEPT !.begin = u.begin, !.end = u.end, !.count = @ + 1]
  BY <1>2, <1>6, <1>11, <1>12 DEF Chain!DList_insert_before, Memory
<1>14. PICK w : w = Write(u, d[1], d[Len(d)], Len(d))
  OBVIOUS
<1>15. t = w
  BY <1>10, <1>11, <1>13, <1>14 DEF Memory, Write
<1>16. PICK a : a = c[k + 1]
  OBVIOUS
<1>17. Stands(w, d) /\ Safe(s, w) /\ w.begin \in w.mine
  BY <1>4, <1>5, <1>7, <1>8, <1>14, <1>16, ListGrows
<1> QED BY <1>5, <1>15, <1>17

(* The list is as it was, whatever became of the other chains.             *)
LEMMA SetAside ==
  ASSUME NEW s, NEW C, NEW c, Listed(s, C, c), NEW t \in Memory, Edges(s, t), t.mine = s.mine,
         NEW D, InChains(t, D), c # <<>> => c \in D
  PROVE  Stands(t, c)
<1>1. Listed(t, D, c)
  BY DEF Listed, Edges
<1> QED BY <1>1 DEF Stands

(* Two chains are joined, neither of which is the list.                    *)
LEMMA LooseJoins ==
  ASSUME NEW s, NEW C, NEW c, Listed(s, C, c), NEW g \in C, g # c, NEW e \in C, e # c, e # g,
         Of(e) \cap s.mine = {}, NEW a, a \notin s.mine, NEW k \in 0..Len(g), NEW t, EntersAt(s, t, g, k, e, a)
  PROVE  Stands(t, c) /\ Safe(s, t)
<1>1. Rest(s, t) /\ Edges(s, t) /\ SplicedInto(s, t, g, k, e) /\ t \in Memory /\ t.mine = s.mine
  BY DEF EntersAt, Rest
<1>2. PICK D : D = (C \ {g, e}) \cup {Chain!S!Spliced(g, k, e)}
  OBVIOUS
<1>3. InChains(t, D)
  BY <1>1, <1>2, JoinedChains DEF Listed
<1>4. c # <<>> => c \in D
  BY <1>2 DEF Listed
<1> QED BY <1>1, <1>3, <1>4, SetAside, RestIsSafe

-----------------------------------------------------------------------------
(* A block goes in front of an item of what is left.                       *)
LEMMA BlockBefore ==
  ASSUME NEW s \in Memory, NEW C, InChains(s, C), NEW c \in C, NEW k, NEW n, Fits(c, k, n), n < Len(c),
         NEW to \in 0..(Len(c) - n - 1), NEW z, z = Chain!S!Without(c, k, n)[to + 1],
         NEW u, u = Chain!PutBefore(Chain!Unlinked(s, c[k + 1], c[k + n]), c[k + 1], c[k + n], z)
  PROVE  Rearranged(s, u, C, c, Chain!S!Moved(c, k, n, to))
<1>1. PICK t : t = Chain!Unlinked(s, c[k + 1], c[k + n])
  OBVIOUS
<1>2. PICK d : d = Chain!S!Without(c, k, n)
  OBVIOUS
<1>3. PICK e : e = Part(c, k, n)
  OBVIOUS
<1>4. Linked(s, c) /\ Len(c) \in Nat /\ n \in Nat
  BY Ends DEF InChains, Fits
<1>5. t \in Memory /\ Same(s, t) /\ CutOut(s, t, c, k, n)
  BY <1>1, <1>4, Unlinks
<1>6. /\ Block(t, e) /\ e[1] = c[k + 1] /\ e[Len(e)] = c[k + n] /\ Len(e) = n
      /\ d \in Seq(Chain!Node) /\ Distinct(d) /\ Len(d) = Len(c) - n
      /\ Of(d) \cup Of(e) = Of(c) /\ Of(d) \cap Of(e) = {}
      /\ n < Len(c) => Linked(t, d)
      /\ \A a \in Chain!Addr : a \notin Of(c) => t.next[a] = s.next[a] /\ t.prev[a] = s.prev[a]
  BY <1>2, <1>3, <1>4, <1>5, CutChain
<1>7. to \in 0..(Len(d) - 1) /\ u = Chain!PutBefore(t, e[1], e[Len(e)], d[to + 1]) /\ Linked(t, d)
  BY <1>1, <1>2, <1>4, <1>6
<1>8. u \in Memory /\ Same(t, u) /\ SplicedInto(t, u, d, to, e)
  BY <1>5, <1>6, <1>7, PutsBefore
<1>9. to \in 0..(Len(c) - n)
  BY <1>4
<1>10. PICK f : f = Chain!S!Moved(c, k, n, to)
  OBVIOUS
<1>11. Rearranged(s, u, C, c, f)
  BY <1>1, <1>2, <1>3, <1>8, <1>9, <1>10, MovedChain
<1> QED BY <1>10, <1>11

Alone(n) == n = 1

(* One item goes behind an item of what is left.                           *)
LEMMA OneAfter ==
  ASSUME NEW s \in Memory, NEW C, InChains(s, C), NEW c \in C, NEW k, NEW n, Alone(n), Fits(c, k, n), n < Len(c),
         NEW to \in 1..(Len(c) - n), NEW z, z = Chain!S!Without(c, k, n)[to],
         NEW u, u = Chain!PutAfter(Chain!Unlinked(s, c[k + 1], c[k + n]), c[k + 1], z)
  PROVE  Rearranged(s, u, C, c, Chain!S!Moved(c, k, n, to))
<1>1. PICK t : t = Chain!Unlinked(s, c[k + 1], c[k + n])
  OBVIOUS
<1>2. PICK d : d = Chain!S!Without(c, k, n)
  OBVIOUS
<1>3. PICK e : e = Part(c, k, n)
  OBVIOUS
<1>4. Linked(s, c) /\ Len(c) \in Nat /\ n \in Nat
  BY Ends DEF InChains, Fits
<1>5. t \in Memory /\ Same(s, t) /\ CutOut(s, t, c, k, n)
  BY <1>1, <1>4, Unlinks
<1>6. /\ Block(t, e) /\ e[1] = c[k + 1] /\ e[Len(e)] = c[k + n] /\ Len(e) = n
      /\ d \in Seq(Chain!Node) /\ Distinct(d) /\ Len(d) = Len(c) - n
      /\ Of(d) \cup Of(e) = Of(c) /\ Of(d) \cap Of(e) = {}
      /\ n < Len(c) => Linked(t, d)
      /\ \A a \in Chain!Addr : a \notin Of(c) => t.next[a] = s.next[a] /\ t.prev[a] = s.prev[a]
  BY <1>2, <1>3, <1>4, <1>5, CutChain
<1>7. PICK a : a = e[1]
  OBVIOUS
<1>8. a \in Chain!Node /\ a \in Of(e) /\ e \in Seq(Chain!Node)
  BY <1>6, <1>7, BlockEnds
<1>9. e = <<a>>
  <2>1. <<a>> \in Seq(Chain!Node) /\ Len(<<a>>) = 1 /\ <<a>>[1] = a
    BY <1>8, Single
  <2>2. \A l \in 1..Len(e) : e[l] = <<a>>[l]
    BY <1>6, <1>7, <2>1 DEF Alone
  <2>3. Len(e) = Len(<<a>>)
    BY <1>6, <2>1 DEF Alone
  <2> QED BY <1>8, <2>1, <2>2, <2>3, SameItems
<1>10. to \in 1..Len(d) /\ u = Chain!PutAfter(t, a, d[to]) /\ Linked(t, d) /\ a \notin Of(d)
  BY <1>1, <1>2, <1>4, <1>6, <1>7, <1>8
<1>11. u \in Memory /\ Same(t, u) /\ SplicedInto(t, u, d, to, <<a>>)
  BY <1>5, <1>8, <1>10, PutsAfter
<1>12. to \in 0..(Len(c) - n) /\ SplicedInto(t, u, d, to, e)
  BY <1>4, <1>9, <1>11
<1>13. PICK f : f = Chain!S!Moved(c, k, n, to)
  OBVIOUS
<1>14. Rearranged(s, u, C, c, f)
  BY <1>1, <1>2, <1>3, <1>11, <1>12, <1>13, MovedChain
<1> QED BY <1>13, <1>14

(* A block that stays where it is.                                         *)
LEMMA MovedBack ==
  ASSUME NEW c \in Seq(Chain!Node), Distinct(c), NEW k, NEW n, Fits(c, k, n)
  PROVE  Chain!S!Moved(c, k, n, k) = c
<1>1. PICK d : d = Chain!S!Without(c, k, n)
  OBVIOUS
<1>2. PICK e : e = Part(c, k, n)
  OBVIOUS
<1>3. PICK f : f = Chain!S!Spliced(d, k, e)
  OBVIOUS
<1>4. f = Chain!S!Moved(c, k, n, k)
  BY <1>1, <1>2, <1>3 DEF Chain!S!Moved, Part
<1>5. Len(c) \in Nat /\ k \in Nat /\ n \in Nat /\ n >= 1 /\ k + n <= Len(c)
  BY ItemsAre DEF Fits
<1>6. CutAt(d, c, k, n)
  BY <1>1, <1>5, WithoutIs
<1>7. e \in Seq(Chain!Node) /\ Len(e) = n /\ \A l \in 1..n : e[l] = c[k + l]
  BY <1>2, PartItems
<1>8. /\ d \in Seq(Chain!Node) /\ Len(d) = Len(c) - n /\ k \in 0..Len(d)
      /\ \A l \in 1..k : d[l] = c[l]
      /\ \A l \in (k + n + 1)..Len(c) : d[l - n] = c[l]
  BY <1>5, <1>6 DEF CutAt
<1>9. SplicedAt(f, d, k, e)
  BY <1>3, <1>7, <1>8, SplicedIs
<1>10. /\ f \in Seq(Chain!Node) /\ Len(f) = Len(c)
       /\ \A l \in 1..k : f[l] = d[l]
       /\ \A l \in 1..n : f[k + l] = e[l]
       /\ \A l \in (k + 1)..Len(d) : f[l + n] = d[l]
  BY <1>5, <1>7, <1>8, <1>9 DEF SplicedAt
<1>11. ASSUME NEW l \in 1..Len(f) PROVE f[l] = c[l]
  <2>1. CASE l <= k
    <3>1. l \in 1..k
      BY <1>5, <1>10, <2>1
    <3> QED BY <1>8, <1>10, <3>1
  <2>2. CASE l > k /\ l <= k + n
    <3>1. l - k \in 1..n /\ k + (l - k) = l
      BY <1>5, <1>10, <2>2
    <3>2. f[k + (l - k)] = e[l - k] /\ e[l - k] = c[k + (l - k)]
      BY <1>7, <1>10, <3>1
    <3> QED BY <3>1, <3>2
  <2>3. CASE l > k + n
    <3>1. l - n \in (k + 1)..Len(d) /\ (l - n) + n = l /\ l \in (k + n + 1)..Len(c)
      BY <1>5, <1>8, <1>10, <2>3
    <3>2. f[(l - n) + n] = d[l - n] /\ d[l - n] = c[l]
      BY <1>8, <1>10, <3>1
    <3> QED BY <3>1, <3>2
  <2> QED BY <1>5, <1>10, <2>1, <2>2, <2>3
<1> QED BY <1>4, <1>10, <1>11, SameItems

(* Where the items of what is left come from, and its ends.                *)
LEMMA WithoutPlaces ==
  ASSUME NEW c \in Seq(Chain!Node), NEW k, NEW n, Fits(c, k, n), NEW d, d = Chain!S!Without(c, k, n)
  PROVE  /\ d \in Seq(Chain!Node) /\ Len(d) = Len(c) - n
         /\ \A l \in 1..k : d[l] = c[l]
         /\ \A l \in (k + n + 1)..Len(c) : d[l - n] = c[l]
         /\ n < Len(c) => /\ d[1] = IF k = 0 THEN c[n + 1] ELSE c[1]
                          /\ d[Len(d)] = IF k + n = Len(c) THEN c[k] ELSE c[Len(c)]
<1>1. Len(c) \in Nat /\ k \in Nat /\ n \in Nat /\ n >= 1 /\ k + n <= Len(c)
  BY ItemsAre DEF Fits
<1>2. CutAt(d, c, k, n)
  BY <1>1, WithoutIs
<1>3. /\ d \in Seq(Chain!Node) /\ Len(d) = Len(c) - n
      /\ \A l \in 1..k : d[l] = c[l]
      /\ \A l \in (k + n + 1)..Len(c) : d[l - n] = c[l]
  BY <1>2 DEF CutAt
<1>4. ASSUME n < Len(c) PROVE d[1] = IF k = 0 THEN c[n + 1] ELSE c[1]
  <2>1. CASE k = 0
    <3>1. n + 1 \in (k + n + 1)..Len(c) /\ (n + 1) - n = 1
      BY <1>1, <1>4, <2>1
    <3>2. d[(n + 1) - n] = c[n + 1]
      BY <1>3, <3>1
    <3> QED BY <2>1, <3>1, <3>2
  <2>2. CASE k # 0
    <3>1. 1 \in 1..k
      BY <1>1, <2>2
    <3> QED BY <1>3, <2>2, <3>1
  <2> QED BY <2>1, <2>2
<1>5. ASSUME n < Len(c) PROVE d[Len(d)] = IF k + n = Len(c) THEN c[k] ELSE c[Len(c)]
  <2>1. CASE k + n = Len(c)
    <3>1. k \in 1..k /\ Len(d) = k
      BY <1>1, <1>3, <1>5, <2>1
    <3> QED BY <1>3, <2>1, <3>1
  <2>2. CASE k + n # Len(c)
    <3>1. Len(c) \in (k + n + 1)..Len(c)
      BY <1>1, <2>2
    <3>2. d[Len(c) - n] = c[Len(c)]
      BY <1>3, <3>1
    <3> QED BY <1>3, <2>2, <3>2
  <2> QED BY <2>1, <2>2
<1> QED BY <1>3, <1>4, <1>5

(* The edges of a chain into which another has gone.                       *)
EndsAre(d, c, k, e) ==
  /\ d[1] = (IF k = 0 THEN e[1] ELSE c[1])
  /\ d[Len(d)] = (IF k = Len(c) THEN e[Len(e)] ELSE c[Len(c)])

(* The edges as the splice leaves them.                                    *)
LEMMA SplicedEndsAre ==
  ASSUME NEW c \in Seq(Chain!Node), NEW e \in Seq(Chain!Node), Len(c) >= 1, Len(e) >= 1, NEW k \in 0..Len(c),
         NEW d, d = Chain!S!Spliced(c, k, e)
  PROVE  EndsAre(d, c, k, e)
BY SplicedEnds DEF EndsAre

(* The ends of a chain in which a block has moved.                         *)
LEMMA MovedEnds ==
  ASSUME NEW c \in Seq(Chain!Node), Distinct(c), NEW k, NEW n, Fits(c, k, n), n < Len(c), NEW to \in 0..(Len(c) - n),
         NEW f, f = Chain!S!Moved(c, k, n, to)
  PROVE  /\ f[1] = IF to = 0 THEN c[k + 1] ELSE IF k = 0 THEN c[n + 1] ELSE c[1]
         /\ f[Len(f)] = IF to = Len(c) - n THEN c[k + n] ELSE IF k + n = Len(c) THEN c[k] ELSE c[Len(c)]
<1>1. PICK d : d = Chain!S!Without(c, k, n)
  OBVIOUS
<1>2. PICK e : e = Part(c, k, n)
  OBVIOUS
<1>3. f = Chain!S!Spliced(d, to, e)
  BY <1>1, <1>2 DEF Chain!S!Moved, Part
<1>4. Len(c) \in Nat /\ k \in Nat /\ n \in Nat /\ n >= 1 /\ k + n <= Len(c)
  BY ItemsAre DEF Fits
<1>5. /\ d \in Seq(Chain!Node) /\ Len(d) = Len(c) - n
      /\ d[1] = (IF k = 0 THEN c[n + 1] ELSE c[1])
      /\ d[Len(d)] = (IF k + n = Len(c) THEN c[k] ELSE c[Len(c)])
  <2>1. /\ d \in Seq(Chain!Node) /\ Len(d) = Len(c) - n
        /\ n < Len(c) => /\ d[1] = IF k = 0 THEN c[n + 1] ELSE c[1]
                         /\ d[Len(d)] = IF k + n = Len(c) THEN c[k] ELSE c[Len(c)]
    BY <1>1, WithoutPlaces
  <2> QED BY <2>1
<1>6. e \in Seq(Chain!Node) /\ Len(e) = n /\ e[1] = c[k + 1] /\ e[Len(e)] = c[k + n]
  <2>1. e \in Seq(Chain!Node) /\ Len(e) = n /\ \A l \in 1..n : e[l] = c[k + l]
    BY <1>2, PartItems
  <2>2. 1 \in 1..n /\ n \in 1..n
    BY <1>4
  <2> QED BY <2>1, <2>2
<1>7. Len(d) >= 1 /\ Len(e) >= 1 /\ to \in 0..Len(d)
  BY <1>4, <1>5, <1>6
<1>8. EndsAre(f, d, to, e)
  BY <1>3, <1>5, <1>6, <1>7, SplicedEndsAre
<1>9. f[1] = (IF to = 0 THEN e[1] ELSE d[1]) /\ f[Len(f)] = (IF to = Len(d) THEN e[Len(e)] ELSE d[Len(d)])
  BY <1>8 DEF EndsAre
<1> QED BY <1>5, <1>6, <1>9

-----------------------------------------------------------------------------
(* Walking on stops at the edge.                                           *)
LEMMA WalksTo ==
  ASSUME NEW s \in Memory, NEW c, Linked(s, c), NEW j \in 1..Len(c), NEW k \in Nat
  PROVE  Chain!Walk(s.next, c[j], k) = c[Least(j + k, Len(c))] /\ Least(j + k, Len(c)) \in 1..Len(c)
<1>1. Len(c) \in Nat
  BY Ends
<1>2. /\ j + k <= Len(c) => Chain!Walk(s.next, c[j], k) = c[j + k]
      /\ j + k >= Len(c) => Chain!Walk(s.next, c[j], k) = c[Len(c)]
  BY Walks
<1> QED BY <1>1, <1>2 DEF Least

(* The item at p, and its index.                                           *)
FoundAt(s, c, low, p) == low = c[p] /\ p \in 1..Len(c) /\ Chain!DListItem_index(s, low) = p - 1

(* DListItem_get from any item of a chain, and what it found.              *)
LEMMA GetIs ==
  ASSUME NEW s \in Memory, NEW c, Linked(s, c), NEW a \in Of(c), NEW k \in Nat,
         NEW p, p = Least(k + 1, Len(c)), NEW low, low = Chain!DListItem_get(s, a, k)
  PROVE  FoundAt(s, c, low, p)
<1>1. Len(c) \in Nat /\ 1 \in 1..Len(c)
  BY Ends
<1>2. Chain!DListItem_get_first_item(s, a) = c[1]
  BY FromAny
<1>3. PICK o : o = 1
  OBVIOUS
<1>4. Chain!Walk(s.next, c[o], k) = c[Least(o + k, Len(c))] /\ Least(o + k, Len(c)) \in 1..Len(c)
  BY <1>1, <1>3, WalksTo
<1>5. o + k = k + 1
  BY <1>3
<1>6. low = c[p] /\ p \in 1..Len(c)
  BY <1>2, <1>3, <1>4, <1>5 DEF Chain!DListItem_get
<1>7. Chain!DListItem_index(s, c[p]) = p - 1
  BY <1>6, Lookups
<1> QED BY <1>6, <1>7 DEF FoundAt

(* Nothing has moved.                                                      *)
LEMMA NothingMoved ==
  ASSUME NEW s \in Memory, NEW C, InChains(s, C), NEW c \in C
  PROVE  Rearranged(s, s, C, c, c)
<1>1. (C \ {c}) \cup {c} = C
  OBVIOUS
<1> QED BY <1>1 DEF Rearranged, InChains, Same, Rest, Edges

(* Where an item of c stands once a block of n has left from k.            *)
LEMMA WithoutAt ==
  ASSUME NEW c \in Seq(Chain!Node), NEW k, NEW n, Fits(c, k, n), NEW j \in 1..Len(c),
         NEW l, l = (IF j <= k THEN j ELSE j - n), j <= k \/ j > k + n
  PROVE  Chain!S!Without(c, k, n)[l] = c[j] /\ l \in 1..(Len(c) - n)
<1>1. PICK d : d = Chain!S!Without(c, k, n)
  OBVIOUS
<1>2. Len(c) \in Nat /\ k \in Nat /\ n \in Nat /\ n >= 1 /\ k + n <= Len(c)
  BY ItemsAre DEF Fits
<1>3. /\ \A x \in 1..k : d[x] = c[x]
      /\ \A x \in (k + n + 1)..Len(c) : d[x - n] = c[x]
  BY <1>1, WithoutPlaces
<1>4. CASE j <= k
  <2>1. j \in 1..k
    BY <1>2, <1>4
  <2> QED BY <1>1, <1>2, <1>3, <1>4, <2>1
<1>5. CASE j > k + n
  <2>1. j \in (k + n + 1)..Len(c)
    BY <1>2, <1>5
  <2>2. d[j - n] = c[j]
    BY <1>3, <2>1
  <2> QED BY <1>1, <1>2, <1>5, <2>2
<1> QED BY <1>4, <1>5

(* Moved from an index to an index, or left alone.                         *)
MovedTo(c, from, to) == IF from < Len(c) THEN Chain!S!Moved(c, from, 1, Least(to, Len(c) - 1)) ELSE c

(* DListItem_move: the item at 'from' goes to 'to' of what remains.        *)
LEMMA ItemMoveIs ==
  ASSUME NEW s \in Memory, NEW C, InChains(s, C), NEW c \in C, Len(c) >= 2, NEW a \in Of(c),
         NEW from \in Nat, NEW to \in Nat, from # to, NEW t, t = Chain!DListItem_move(s, a, from, to)
  PROVE  Rearranged(s, t, C, c, MovedTo(c, from, to))
<1>1. /\ Linked(s, c) /\ Len(c) \in Nat /\ a \in Chain!Node /\ a # 0 /\ c \in Seq(Chain!Node) /\ Distinct(c)
      /\ \A j \in 1..Len(c) : c[j] \in Of(c)
  <2>1. Linked(s, c)
    BY DEF InChains
  <2>2. \A x \in Of(c) : x \in Chain!Node /\ x # 0
    BY <2>1, Ends DEF Of
  <2> QED BY <2>1, <2>2, Ends
<1>2. PICK mn : mn = (IF from < to THEN from ELSE to)
  OBVIOUS
<1>3. PICK low : low = Chain!DListItem_get(s, a, mn)
  OBVIOUS
<1>4. PICK diff : diff = (IF from < to THEN to - from ELSE from - to)
  OBVIOUS
<1>5. PICK far : far = Chain!Walk(s.next, low, diff)
  OBVIOUS
<1>6. t = IF a = 0 \/ from = to \/ ~(Chain!DListItem_index(s, low) = mn) \/ low = far THEN s
          ELSE IF from < to THEN Chain!PutAfter(Chain!Unlinked(s, low, low), low, far)
          ELSE IF Chain!DListItem_index(s, far) = from
               THEN Chain!PutBefore(Chain!Unlinked(s, far, far), far, far, low) ELSE s
  BY <1>2, <1>3, <1>4, <1>5 DEF Chain!DListItem_move
<1>7. mn \in Nat /\ diff \in Nat
  BY <1>2, <1>4
<1>8. PICK p : p = Least(mn + 1, Len(c))
  OBVIOUS
<1>9. low = c[p] /\ p \in 1..Len(c) /\ Chain!DListItem_index(s, low) = p - 1
  <2>1. FoundAt(s, c, low, p)
    BY <1>1, <1>3, <1>7, <1>8, GetIs
  <2> QED BY <2>1 DEF FoundAt
<1>10. PICK q : q = Least(p + diff, Len(c))
  OBVIOUS
<1>11. far = c[q] /\ q \in 1..Len(c)
  BY <1>1, <1>5, <1>7, <1>9, <1>10, WalksTo
<1>12. Chain!DListItem_index(s, far) = q - 1
  BY <1>1, <1>11, Lookups
<1>13. low = far <=> p = q
  BY <1>1, <1>9, <1>11 DEF Distinct
<1>14. Rearranged(s, s, C, c, c)
  BY NothingMoved
<1>15. PICK o : o = 1
  OBVIOUS
<1>16. CASE mn >= Len(c)
  <2>1. p = Len(c)
    BY <1>1, <1>7, <1>8, <1>16 DEF Least
  <2>2. t = s
    BY <1>1, <1>6, <1>7, <1>9, <1>16, <2>1
  <2>3. MovedTo(c, from, to) = c
    BY <1>1, <1>2, <1>16 DEF MovedTo
  <2> QED BY <1>14, <2>2, <2>3
<1>17. CASE mn < Len(c) /\ from < to
  <2>1. p = from + 1 /\ mn = from /\ q = Least(to + 1, Len(c)) /\ diff = to - from
    BY <1>1, <1>2, <1>4, <1>7, <1>8, <1>10, <1>17 DEF Least
  <2>2. Fits(c, from, o) /\ Least(to, Len(c) - 1) = q - 1 /\ q >= p
    BY <1>1, <1>15, <1>17, <2>1 DEF Fits, Least
  <2>3. MovedTo(c, from, to) = Chain!S!Moved(c, from, o, q - 1)
    BY <1>1, <1>15, <1>17, <2>1, <2>2 DEF MovedTo
  <2>4. CASE q = p
    <3>1. t = s
      BY <1>6, <1>13, <2>4
    <3>2. q - 1 = from
      BY <1>11, <2>1, <2>4
    <3>3. Chain!S!Moved(c, from, o, from) = c
      BY <1>1, <2>2, MovedBack
    <3> QED BY <1>14, <2>3, <3>1, <3>2, <3>3
  <2>5. CASE q # p
    <3>1. t = Chain!PutAfter(Chain!Unlinked(s, low, low), low, far)
      BY <1>1, <1>6, <1>9, <1>13, <1>17, <2>1, <2>5
    <3>2. q > from + o
      BY <1>11, <1>15, <2>1, <2>2, <2>5
    <3>3. PICK r : r = q - 1
      OBVIOUS
    <3>4. Chain!S!Without(c, from, o)[r] = c[q] /\ r \in 1..(Len(c) - o)
      <4>1. r = (IF q <= from THEN q ELSE q - o)
        BY <1>11, <1>15, <3>2, <3>3
      <4> QED BY <1>1, <1>11, <2>2, <3>2, <4>1, WithoutAt
    <3>5. low = c[from + 1] /\ low = c[from + o]
      BY <1>9, <1>15, <2>1
    <3>6. o < Len(c) /\ Alone(o)
      BY <1>15 DEF Alone
    <3>7. Rearranged(s, t, C, c, Chain!S!Moved(c, from, o, r))
      BY <1>11, <2>2, <3>1, <3>4, <3>5, <3>6, OneAfter
    <3> QED BY <2>3, <3>3, <3>7
  <2> QED BY <2>4, <2>5
<1>18. CASE mn < Len(c) /\ from > to
  <2>1. p = to + 1 /\ mn = to /\ diff = from - to /\ q = Least(from + 1, Len(c))
    <3>1. mn = to /\ diff = from - to
      BY <1>2, <1>4, <1>18
    <3>2. p = to + 1
      BY <1>1, <1>8, <1>18, <3>1 DEF Least
    <3>3. p + diff = from + 1
      BY <3>1, <3>2
    <3> QED BY <1>10, <3>1, <3>2, <3>3
  <2>2. CASE from >= Len(c)
    <3>1. q = Len(c)
      BY <1>1, <2>1, <2>2 DEF Least
    <3>2. t = s
      BY <1>1, <1>6, <1>12, <1>18, <2>2, <3>1
    <3> QED BY <1>14, <2>2, <3>2 DEF MovedTo
  <2>3. CASE from < Len(c)
    <3>1. q = from + 1 /\ q # p /\ to <= from - 1 /\ to + 1 \in 1..Len(c) /\ to + 1 <= from
      BY <1>1, <1>18, <2>1, <2>3 DEF Least
    <3>2. t = Chain!PutBefore(Chain!Unlinked(s, far, far), far, far, low)
      BY <1>1, <1>6, <1>9, <1>12, <1>13, <1>18, <2>1, <3>1
    <3>3. Fits(c, from, o) /\ o < Len(c) /\ to \in 0..(Len(c) - o - 1)
      BY <1>1, <1>15, <1>18, <2>3 DEF Fits
    <3>4. PICK r : r = to + 1
      OBVIOUS
    <3>5. Chain!S!Without(c, from, o)[r] = c[r]
      <4>1. r \in 1..Len(c) /\ r <= from
        BY <3>1, <3>4
      <4> QED BY <1>1, <3>3, <4>1, WithoutAt
    <3>6. far = c[from + 1] /\ far = c[from + o] /\ low = Chain!S!Without(c, from, o)[to + 1]
      BY <1>9, <1>11, <1>15, <2>1, <3>1, <3>4, <3>5
    <3>7. Rearranged(s, t, C, c, Chain!S!Moved(c, from, o, to))
      BY <3>2, <3>3, <3>6, BlockBefore
    <3>8. MovedTo(c, from, to) = Chain!S!Moved(c, from, o, to)
      BY <1>1, <1>15, <1>18, <2>3 DEF MovedTo, Least
    <3> QED BY <3>7, <3>8
  <2> QED BY <1>1, <2>2, <2>3
<1> QED BY <1>1, <1>7, <1>16, <1>17, <1>18

-----------------------------------------------------------------------------
(* A list whose chain is rearranged, once begin and end follow.            *)
LEMMA Settled ==
  ASSUME NEW s, NEW C, NEW c, Listed(s, C, c), c # <<>>, NEW x \in Memory, Rest(s, x), x.mine = s.mine,
         NEW u, NEW d, Rearranged(x, u, C, c, d), NEW t, t = Write(u, d[1], d[Len(d)], Len(c))
  PROVE  Stands(t, d) /\ Safe(s, t)
<1>1. /\ s \in Memory /\ InChains(s, C) /\ c \in C /\ Len(c) \in Nat /\ s.mine = Of(c)
  BY ListIs
<1>2. /\ u \in Memory /\ Same(x, u) /\ InChains(u, (C \ {c}) \cup {d}) /\ Linked(u, d)
      /\ Of(d) = Of(c) /\ Len(d) = Len(c)
  BY DEF Rearranged
<1>3. d[1] \in Chain!Addr /\ d[Len(d)] \in Chain!Addr
  BY <1>2, Ends
<1>4. PICK b : b = d[1]
  OBVIOUS
<1>5. PICK e : e = d[Len(d)]
  OBVIOUS
<1>6. PICK n : n = Len(c)
  OBVIOUS
<1>7. Written(u, t, b, e, n)
  BY <1>1, <1>2, <1>3, <1>4, <1>5, <1>6, Writes
<1>8. /\ t \in Memory /\ Rest(u, t) /\ t.next = u.next /\ t.prev = u.prev /\ t.mine = u.mine
      /\ t.begin = d[1] /\ t.end = d[Len(d)] /\ t.count = Len(d)
  BY <1>2, <1>4, <1>5, <1>6, <1>7 DEF Written
<1>9. t.live = u.live /\ t.mine = Of(d)
  BY <1>1, <1>2, <1>8 DEF Rest, Same
<1>10. PICK D : D = (C \ {c}) \cup {d}
  OBVIOUS
<1>11. d \in D /\ InChains(u, D)
  BY <1>2, <1>10
<1>12. Listed(t, D, d)
  BY <1>8, <1>9, <1>11, Booked
<1>13. Rest(s, t)
  BY <1>2, <1>8 DEF Same, Rest
<1> QED BY <1>12, <1>13, RestIsSafe DEF Stands

(* The steps of DList_move: begin and end give way, and follow again.      *)
BeginGivesWay(s, from) ==
  IF from # 0 THEN s ELSE IF s.begin = 0 THEN [s EXCEPT !.fault = TRUE] ELSE [s EXCEPT !.begin = s.next[@]]
EndGivesWay(s, x, from) == IF from = s.count - 1 THEN [x EXCEPT !.end = s.prev[@]] ELSE x
BothFollow(u, to, n) ==
  IF to = 0 THEN [u EXCEPT !.begin = Chain!DListItem_get_first_item(u, @)]
  ELSE IF to >= n THEN [u EXCEPT !.end = Chain!DListItem_get_last_item(u, @)]
  ELSE u

(* DList_move in these steps.                                              *)
LEMMA MoveSteps ==
  ASSUME NEW s, NEW from, NEW to, ~(from = to \/ s.count = 1),
         NEW x1, x1 = BeginGivesWay(s, from), NEW x, x = EndGivesWay(s, x1, from)
  PROVE  Chain!DList_move(s, from, to) = BothFollow(Chain!DListItem_move(x, x.begin, from, to), to, s.count)
<1>1. Chain!DList_move(s, from, to) =
        LET y == EndGivesWay(s, BeginGivesWay(s, from), from)
        IN BothFollow(Chain!DListItem_move(y, y.begin, from, to), to, s.count)
  BY DEF Chain!DList_move, BothFollow, BeginGivesWay, EndGivesWay
<1> QED BY <1>1

(* Arithmetic.                                                             *)
LEMMA MoreThanOne == ASSUME NEW n \in Nat, n >= 1, n # 1 PROVE n >= 2
OBVIOUS

(* DList_move, but for the move onto the last place that SafeMove excludes.*)
LEMMA MoveIs ==
  ASSUME NEW s, NEW C, NEW c, Listed(s, C, c), c # <<>>, NEW from \in Nat, NEW to \in Nat,
         ~(from < to /\ to = Len(c) - 1), NEW t, t = Chain!DList_move(s, from, to)
  PROVE  Stands(t, MovedTo(c, from, to)) /\ Safe(s, t)
<1>1. /\ s \in Memory /\ InChains(s, C) /\ c \in C /\ Linked(s, c) /\ Len(c) \in Nat /\ Len(c) >= 1
      /\ s.begin = c[1] /\ s.end = c[Len(c)] /\ s.count = Len(c) /\ s.mine = Of(c) /\ s.begin # 0
  BY ListIs
<1>2. /\ c \in Seq(Chain!Node) /\ Distinct(c) /\ 0 \in Chain!Addr
      /\ \A j \in 1..Len(c) : c[j] \in Of(c) /\ c[j] \in Chain!Addr
      /\ \A j \in 1..Len(c) : j < Len(c) => s.next[c[j]] = c[j + 1]
      /\ \A j \in 1..Len(c) : j > 1 => s.prev[c[j]] = c[j - 1]
  BY <1>1, Ends
<1>3. PICK o : o = 1
  OBVIOUS
<1>4. ASSUME t = s, MovedTo(c, from, to) = c PROVE Stands(t, MovedTo(c, from, to)) /\ Safe(s, t)
  BY <1>4 DEF Stands, Safe
<1>5. CASE from = to \/ Len(c) = 1
  <2>1. t = s
    BY <1>1, <1>5 DEF Chain!DList_move
  <2>2. CASE from < Len(c)
    <3>1. Least(to, Len(c) - 1) = from /\ Fits(c, from, o)
      BY <1>1, <1>3, <1>5, <2>2 DEF Least, Fits
    <3>2. Chain!S!Moved(c, from, o, from) = c
      BY <1>2, <3>1, MovedBack
    <3> QED BY <1>3, <1>4, <2>1, <2>2, <3>1, <3>2 DEF MovedTo
  <2>3. CASE ~(from < Len(c))
    BY <1>4, <2>1, <2>3 DEF MovedTo
  <2> QED BY <2>2, <2>3
<1>6. CASE from # to /\ Len(c) # 1
  <2>1. Len(c) >= 2
    <3>1. Len(c) \in Nat /\ Len(c) >= 1 /\ Len(c) # 1
      BY <1>1, <1>6
    <3> QED BY <3>1, MoreThanOne
  <2>2. PICK b : b = IF from = 0 THEN c[2] ELSE c[1]
    OBVIOUS
  <2>3. PICK e : e = IF from = Len(c) - 1 THEN c[Len(c) - 1] ELSE c[Len(c)]
    OBVIOUS
  <2>4. PICK n : n = Len(c)
    OBVIOUS
  <2>5. PICK x : x = Write(s, b, e, n)
    OBVIOUS
  <2>6. b \in Of(c) /\ e \in Of(c) /\ b \in Chain!Addr /\ e \in Chain!Addr
    <3>1. 1 \in 1..Len(c) /\ 2 \in 1..Len(c) /\ Len(c) \in 1..Len(c) /\ Len(c) - 1 \in 1..Len(c)
      BY <1>1, <2>1
    <3> QED BY <1>2, <2>2, <2>3, <3>1
  <2>7. PICK u : u = Chain!DListItem_move(x, b, from, to)
    OBVIOUS
  <2>8. Written(s, x, b, e, n)
    BY <1>1, <2>4, <2>5, <2>6, Writes
  <2>9. /\ x \in Memory /\ Rest(s, x) /\ x.next = s.next /\ x.prev = s.prev /\ x.mine = s.mine
        /\ x.begin = b /\ x.end = e /\ x.count = Len(c) /\ x.live = s.live
    BY <2>4, <2>8 DEF Written, Rest
  <2>10. InChains(x, C)
    <3>1. ASSUME NEW g \in C PROVE Linked(x, g)
      BY <1>1, <2>9, <3>1 DEF InChains, Linked
    <3> QED BY <1>1, <2>9, <3>1 DEF InChains
  <2>11. PICK d : d = MovedTo(c, from, to)
    OBVIOUS
  <2>12. Rearranged(x, u, C, c, d)
    BY <1>1, <1>6, <2>1, <2>6, <2>7, <2>9, <2>10, <2>11, ItemMoveIs
  <2>13. /\ u \in Memory /\ Linked(u, d) /\ Of(d) = Of(c) /\ Len(d) = Len(c)
         /\ u.begin = b /\ u.end = e /\ u.count = Len(c)
    BY <2>9, <2>12 DEF Rearranged, Same, Edges
  <2>14. /\ Chain!DListItem_get_first_item(u, b) = d[1] /\ Chain!DListItem_get_last_item(u, e) = d[Len(d)]
    <3>1. b \in Of(d) /\ e \in Of(d)
      BY <2>6, <2>13
    <3> QED BY <2>13, <3>1, FromAny
  <2>15. (to # 0 => d[1] = b) /\ (to < Len(c) => d[Len(d)] = e)
    <3>1. CASE from < Len(c)
      <4>1. PICK r : r = Least(to, Len(c) - 1)
        OBVIOUS
      <4>2. d = Chain!S!Moved(c, from, o, r) /\ Fits(c, from, o) /\ o < Len(c) /\ r \in 0..(Len(c) - o)
        BY <1>1, <1>3, <2>1, <2>11, <3>1, <4>1 DEF MovedTo, Fits, Least
      <4>3. /\ d[1] = (IF r = 0 THEN c[from + 1] ELSE IF from = 0 THEN c[o + 1] ELSE c[1])
            /\ d[Len(d)] = (IF r = Len(c) - o THEN c[from + o] ELSE IF from + o = Len(c) THEN c[from] ELSE c[Len(c)])
        BY <1>2, <4>2, MovedEnds
      <4>4. to # 0 => r # 0
        BY <1>1, <2>1, <4>1 DEF Least
      <4>5. ASSUME to < Len(c) PROVE r # Len(c) - o
        BY <1>1, <1>3, <1>6, <3>1, <4>1, <4>5 DEF Least
      <4>6. from = 0 => c[o + 1] = b
        BY <1>3, <2>2
      <4>7. from + o = Len(c) => c[from] = e
        <5>1. ASSUME from + o = Len(c) PROVE from = Len(c) - 1
          BY <1>1, <1>3, <5>1
        <5> QED BY <2>3, <5>1
      <4>8. from + o # Len(c) => c[Len(c)] = e
        <5>1. ASSUME from + o # Len(c) PROVE from # Len(c) - 1
          BY <1>1, <1>3, <5>1
        <5> QED BY <2>3, <5>1
      <4>9. to # 0 => d[1] = b
        BY <2>2, <4>3, <4>4, <4>6
      <4>10. to < Len(c) => d[Len(d)] = e
        BY <4>3, <4>5, <4>7, <4>8
      <4> QED BY <4>9, <4>10
    <3>2. CASE ~(from < Len(c))
      <4>1. from # 0 /\ from # Len(c) - 1
        BY <1>1, <3>2
      <4> QED BY <2>2, <2>3, <2>11, <3>2, <4>1 DEF MovedTo
    <3> QED BY <3>1, <3>2
  <2>16. t = IF to = 0 THEN [u EXCEPT !.begin = d[1]]
             ELSE IF to >= Len(c) THEN [u EXCEPT !.end = d[Len(d)]] ELSE u
    <3>1. PICK x1 : x1 = Write(s, b, s.end, s.count)
      OBVIOUS
    <3>2. x1 = BeginGivesWay(s, from)
      <4>1. CASE from # 0
        <5>1. Write(s, s.begin, s.end, s.count) = s
          BY <1>1 DEF Write, Memory
        <5> QED BY <1>1, <2>2, <3>1, <4>1, <5>1 DEF BeginGivesWay
      <4>2. CASE from = 0
        <5>1. s.next[s.begin] = b
          <6>1. 1 \in 1..Len(c) /\ 1 < Len(c) /\ 1 + 1 = 2
            BY <1>1, <2>1
          <6>2. s.next[c[1]] = c[1 + 1]
            BY <1>2, <6>1
          <6> QED BY <1>1, <2>2, <4>2, <6>1, <6>2
        <5>2. [s EXCEPT !.begin = b] = Write(s, b, s.end, s.count)
          BY <1>1, WriteForms
        <5>3. [s EXCEPT !.begin = s.next[@]] = [s EXCEPT !.begin = b]
          BY <5>1
        <5> QED BY <1>1, <3>1, <4>2, <5>2, <5>3 DEF BeginGivesWay
      <4> QED BY <4>1, <4>2
    <3>3. x1 \in Memory /\ x1.begin = b /\ x1.end = s.end /\ x1.count = s.count
      <4>1. PICK y : y = s.end
        OBVIOUS
      <4>2. PICK n0 : n0 = s.count
        OBVIOUS
      <4>3. y \in Chain!Addr /\ n0 \in Int
        BY <1>1, <4>1, <4>2 DEF Memory
      <4>4. Written(s, x1, b, y, n0)
        BY <1>1, <2>6, <3>1, <4>1, <4>2, <4>3, Writes
      <4> QED BY <4>1, <4>2, <4>4 DEF Written
    <3>4. x = EndGivesWay(s, x1, from)
      <4>1. x = Write(x1, b, e, n)
        BY <1>1, <2>5, <3>1, WriteTwice
      <4>2. CASE from = Len(c) - 1
        <5>1. s.prev[x1.end] = e
          <6>1. Len(c) \in 1..Len(c) /\ Len(c) > 1
            BY <1>1, <2>1
          <6>2. s.prev[c[Len(c)]] = c[Len(c) - 1]
            BY <1>2, <6>1
          <6> QED BY <1>1, <2>3, <3>3, <4>2, <6>2
        <5>2. [x1 EXCEPT !.end = e] = Write(x1, x1.begin, e, x1.count)
          BY <3>3, WriteForms
        <5>3. [x1 EXCEPT !.end = s.prev[@]] = [x1 EXCEPT !.end = e]
          BY <5>1
        <5> QED BY <1>1, <2>4, <3>3, <4>1, <4>2, <5>2, <5>3 DEF EndGivesWay
      <4>3. CASE from # Len(c) - 1
        <5>1. e = x1.end /\ n = x1.count
          BY <1>1, <2>3, <2>4, <3>3, <4>3
        <5>2. Write(x1, x1.begin, x1.end, x1.count) = x1
          BY <3>3 DEF Write, Memory
        <5> QED BY <1>1, <3>3, <4>1, <4>3, <5>1, <5>2 DEF EndGivesWay
      <4> QED BY <4>2, <4>3
    <3>5. ~(from = to \/ s.count = 1)
      BY <1>1, <1>6
    <3>6. t = IF to = 0 THEN [u EXCEPT !.begin = Chain!DListItem_get_first_item(u, @)]
              ELSE IF to >= s.count THEN [u EXCEPT !.end = Chain!DListItem_get_last_item(u, @)] ELSE u
      <4>1. Chain!DList_move(s, from, to) = BothFollow(Chain!DListItem_move(x, x.begin, from, to), to, s.count)
        BY <3>2, <3>4, <3>5, MoveSteps
      <4> QED BY <2>7, <2>9, <4>1 DEF BothFollow
    <3> QED BY <1>1, <2>13, <2>14, <3>6
  <2>17. t = Write(u, d[1], d[Len(d)], Len(c))
    <3>1. [u EXCEPT !.begin = d[1]] = Write(u, d[1], u.end, u.count)
      BY <2>13, WriteForms
    <3>2. [u EXCEPT !.end = d[Len(d)]] = Write(u, u.begin, d[Len(d)], u.count)
      BY <2>13, WriteForms
    <3>3. Write(u, u.begin, u.end, u.count) = u
      BY <2>13 DEF Write, Memory
    <3>4. CASE to = 0
      <4>1. d[Len(d)] = u.end
        BY <1>1, <2>13, <2>15, <3>4
      <4> QED BY <2>13, <2>16, <3>1, <3>4, <4>1
    <3>5. CASE to # 0 /\ to >= Len(c)
      <4>1. d[1] = u.begin
        BY <2>13, <2>15, <3>5
      <4> QED BY <2>13, <2>16, <3>2, <3>5, <4>1
    <3>6. CASE to # 0 /\ ~(to >= Len(c))
      <4>1. d[1] = u.begin /\ d[Len(d)] = u.end
        BY <1>1, <2>13, <2>15, <3>6
      <4> QED BY <2>13, <2>16, <3>3, <3>6, <4>1
    <3> QED BY <3>4, <3>5, <3>6
  <2>18. Stands(t, d) /\ Safe(s, t)
    BY <2>9, <2>12, <2>17, Settled
  <2> QED BY <2>11, <2>18
<1> QED BY <1>5, <1>6

-----------------------------------------------------------------------------
(* c with a block at another place, or c itself.                           *)
Shifted(c, d) ==
  d = c \/ \E k, n, to : Fits(c, k, n) /\ to \in 0..(Len(c) - n) /\ d = Chain!S!Moved(c, k, n, to)

(* Arithmetic.                                                             *)
LEMMA MinusNothing == ASSUME NEW k \in Nat, ~(k > 0) PROVE -k = 0
OBVIOUS

(* A step of n - 1 through DListItem_get_by_relative_index.                *)
LEMMA RelativeOn ==
  ASSUME NEW s \in Memory, NEW c, Linked(s, c), NEW j \in 1..Len(c), NEW n \in Nat, n >= 1,
         NEW q, q = Least(j + n - 1, Len(c))
  PROVE  Chain!DListItem_get_by_relative_index(s, c[j], n - 1) = c[q] /\ q \in 1..Len(c)
<1>1. PICK k : k = n - 1
  OBVIOUS
<1>2. k \in Nat /\ j + k = j + n - 1 /\ Len(c) \in Nat
  BY <1>1, Ends
<1>3. Chain!Walk(s.next, c[j], k) = c[Least(j + k, Len(c))] /\ Least(j + k, Len(c)) \in 1..Len(c)
  BY <1>2, WalksTo
<1>4. CASE k > 0
  BY <1>1, <1>2, <1>3, <1>4 DEF Chain!DListItem_get_by_relative_index
<1>5. CASE k = 0
  <2>1. PICK z : z = 0
    OBVIOUS
  <2>2. z \in Nat /\ j - z >= 1 /\ j - z = j
    BY <1>2, <2>1
  <2>3. Chain!Walk(s.prev, c[j], z) = c[j - z]
    BY <2>2, Walks
  <2>4. q = j
    BY <1>1, <1>2, <1>5 DEF Least
  <2>5. Chain!DListItem_get_by_relative_index(s, c[j], k) = Chain!Walk(s.prev, c[j], z)
    <3>1. ~(k > 0)
      BY <1>5
    <3>2. -k = 0
      BY <1>2, <3>1, MinusNothing
    <3> QED BY <2>1, <3>1, <3>2 DEF Chain!DListItem_get_by_relative_index
  <2> QED BY <1>1, <2>2, <2>3, <2>4, <2>5
<1> QED BY <1>2, <1>4, <1>5

(* DListItem_move_count forward: a block that fits moves, one place short. *)
LEMMA BlockForward ==
  ASSUME NEW s \in Memory, NEW C, InChains(s, C), NEW c \in C, NEW from \in Nat, NEW to \in Nat, from < to,
         NEW n \in Nat, n >= 1, from + n < Len(c), NEW q, q = Least(n + to, Len(c)),
         NEW t, t = Chain!PutBefore(Chain!Unlinked(s, c[from + 1], c[from + n]), c[from + 1], c[from + n], c[q])
  PROVE  \E d : Rearranged(s, t, C, c, d) /\ Shifted(c, d)
<1>1. Linked(s, c) /\ Len(c) \in Nat /\ c \in Seq(Chain!Node)
  BY Ends DEF InChains
<1>2. q \in 1..Len(c) /\ q > from + n
  BY <1>1 DEF Least
<1>3. Fits(c, from, n) /\ n < Len(c)
  BY <1>1 DEF Fits
<1>4. PICK r : r = q - n
  OBVIOUS
<1>5. Chain!S!Without(c, from, n)[r] = c[q] /\ r \in 1..(Len(c) - n)
  <2>1. r = (IF q <= from THEN q ELSE q - n)
    BY <1>2, <1>4
  <2> QED BY <1>1, <1>2, <1>3, <2>1, WithoutAt
<1>6. PICK l : l = r - 1
  OBVIOUS
<1>7. l \in 0..(Len(c) - n - 1) /\ l + 1 = r /\ l \in 0..(Len(c) - n)
  BY <1>1, <1>5, <1>6
<1>8. Rearranged(s, t, C, c, Chain!S!Moved(c, from, n, l))
  <2>1. c[q] = Chain!S!Without(c, from, n)[l + 1]
    BY <1>5, <1>7
  <2> QED BY <1>3, <1>7, <2>1, BlockBefore
<1>9. Shifted(c, Chain!S!Moved(c, from, n, l))
  BY <1>3, <1>7 DEF Shifted
<1> QED BY <1>8, <1>9

(* DListItem_move_count backward: what there is of the block moves.        *)
LEMMA BlockBackward ==
  ASSUME NEW s \in Memory, NEW C, InChains(s, C), NEW c \in C, NEW from \in Nat, NEW to \in Nat, to < from,
         from < Len(c), NEW n \in Nat, n >= 1, NEW q, q = Least(n, Len(c) - from),
         NEW t, t = Chain!PutBefore(Chain!Unlinked(s, c[from + 1], c[from + q]), c[from + 1], c[from + q], c[to + 1])
  PROVE  Rearranged(s, t, C, c, Chain!S!Moved(c, from, q, to)) /\ Shifted(c, Chain!S!Moved(c, from, q, to))
<1>1. Linked(s, c) /\ Len(c) \in Nat /\ c \in Seq(Chain!Node)
  BY Ends DEF InChains
<1>2. Fits(c, from, q) /\ q < Len(c) /\ to \in 0..(Len(c) - q - 1) /\ to \in 0..(Len(c) - q)
  BY <1>1 DEF Fits, Least
<1>3. PICK r : r = to + 1
  OBVIOUS
<1>4. Chain!S!Without(c, from, q)[r] = c[r]
  <2>1. r \in 1..Len(c) /\ r <= from
    BY <1>1, <1>3
  <2> QED BY <1>1, <1>2, <2>1, WithoutAt
<1>5. Rearranged(s, t, C, c, Chain!S!Moved(c, from, q, to))
  <2>1. c[to + 1] = Chain!S!Without(c, from, q)[to + 1]
    BY <1>3, <1>4
  <2> QED BY <1>2, <2>1, BlockBefore
<1> QED BY <1>2, <1>5 DEF Shifted

(* The block that moves backward, by indices.                              *)
MovedBlock(c, from, to, n) == Chain!S!Moved(c, from, Least(n, Len(c) - from), to)

(* DListItem_move_count.                                                   *)
LEMMA ItemMoveCountIs ==
  ASSUME NEW s \in Memory, NEW C, InChains(s, C), NEW c \in C, NEW a \in Of(c),
         NEW from \in Nat, NEW to \in Nat, from # to, NEW n \in Nat, n >= 1,
         NEW t, t = Chain!DListItem_move_count(s, a, from, to, n)
  PROVE  \E d : /\ Rearranged(s, t, C, c, d) /\ Shifted(c, d)
                /\ to < from /\ from < Len(c) => d = MovedBlock(c, from, to, n)
<1>1. /\ Linked(s, c) /\ Len(c) \in Nat /\ a # 0 /\ c \in Seq(Chain!Node) /\ Distinct(c)
      /\ \A j \in 1..Len(c) : c[j] # 0
  <2>1. Linked(s, c)
    BY DEF InChains
  <2>2. \A x \in Of(c) : x # 0
    BY <2>1, Ends DEF Of
  <2> QED BY <2>1, <2>2, Ends
<1>2. PICK mn : mn = (IF from < to THEN from ELSE to)
  OBVIOUS
<1>3. PICK low : low = Chain!DListItem_get(s, a, mn)
  OBVIOUS
<1>4. PICK back : back = Chain!PutBefore(Chain!Unlinked(s, Chain!Walk(s.next, low, from - to),
           Chain!DListItem_get_by_relative_index(s, Chain!Walk(s.next, low, from - to), n - 1)),
           Chain!Walk(s.next, low, from - to),
           Chain!DListItem_get_by_relative_index(s, Chain!Walk(s.next, low, from - to), n - 1), low)
  OBVIOUS
<1>5. PICK forth : forth = Chain!PutBefore(Chain!Unlinked(s, low, Chain!Walk(s.next, low, n - 1)), low, Chain!Walk(s.next, low, n - 1),
                             Chain!Walk(s.next, Chain!Walk(s.next, low, n - 1), to - from))
  OBVIOUS
<1>6. t = IF a = 0 \/ ~(Chain!DListItem_index(s, low) = mn) THEN s
          ELSE IF from < to
          THEN IF /\ Chain!DListItem_index(s, Chain!Walk(s.next, low, n - 1)) = from + n - 1
                  /\ s.next[Chain!Walk(s.next, low, n - 1)] # 0 THEN forth ELSE s
          ELSE IF Chain!DListItem_index(s, Chain!Walk(s.next, low, from - to)) = from THEN back ELSE s
  BY <1>2, <1>3, <1>4, <1>5 DEF Chain!DListItem_move_count
<1>7. mn \in Nat
  BY <1>2
<1>8. PICK p : p = Least(mn + 1, Len(c))
  OBVIOUS
<1>9. low = c[p] /\ p \in 1..Len(c) /\ Chain!DListItem_index(s, low) = p - 1
  <2>1. FoundAt(s, c, low, p)
    BY <1>1, <1>3, <1>7, <1>8, GetIs
  <2> QED BY <2>1 DEF FoundAt
<1>10. Rearranged(s, s, C, c, c) /\ Shifted(c, c)
  BY NothingMoved DEF Shifted
<1>11. CASE mn >= Len(c)
  <2>1. p = Len(c)
    BY <1>1, <1>7, <1>8, <1>11 DEF Least
  <2>2. t = s
    BY <1>1, <1>6, <1>7, <1>9, <1>11, <2>1
  <2>3. ~(to < from /\ from < Len(c))
    BY <1>1, <1>2, <1>11
  <2> QED BY <1>10, <2>2, <2>3
<1>12. CASE mn < Len(c) /\ from < to
  <2>1. p = from + 1 /\ mn = from
    BY <1>1, <1>2, <1>7, <1>8, <1>12 DEF Least
  <2>2. PICK k : k = n - 1
    OBVIOUS
  <2>3. PICK le : le = Chain!Walk(s.next, low, k)
    OBVIOUS
  <2>4. PICK q : q = Least(p + k, Len(c))
    OBVIOUS
  <2>5. k \in Nat /\ p + k = from + n
    BY <2>1, <2>2
  <2>6. le = c[q] /\ q \in 1..Len(c)
    BY <1>1, <1>9, <2>3, <2>4, <2>5, WalksTo
  <2>7. Chain!DListItem_index(s, le) = q - 1
    BY <1>1, <2>6, Lookups
  <2>8. s.next[le] # 0 <=> q < Len(c)
    <3>1. /\ q < Len(c) => s.next[c[q]] = c[q + 1] /\ q + 1 \in 1..Len(c)
          /\ q = Len(c) => s.next[c[q]] = 0
      BY <1>1, <2>6, Ends
    <3> QED BY <1>1, <2>6, <3>1
  <2>9. CASE from + n < Len(c)
    <3>1. q = from + n
      BY <2>4, <2>5, <2>9 DEF Least
    <3>2. Chain!DListItem_index(s, le) = from + n - 1 /\ s.next[le] # 0
      BY <2>7, <2>8, <2>9, <3>1
    <3>3. t = forth
      BY <1>1, <1>6, <1>9, <1>12, <2>1, <2>2, <2>3, <3>2
    <3>4. PICK j : j = to - from
      OBVIOUS
    <3>5. PICK r : r = Least(q + j, Len(c))
      OBVIOUS
    <3>6. j \in Nat /\ q + j = n + to
      BY <1>12, <3>1, <3>4
    <3>7. Chain!Walk(s.next, le, j) = c[r]
      BY <1>1, <2>6, <3>5, <3>6, WalksTo
    <3>8. t = Chain!PutBefore(Chain!Unlinked(s, c[from + 1], c[from + n]), c[from + 1], c[from + n], c[r])
      BY <1>5, <1>9, <2>1, <2>2, <2>3, <2>6, <3>1, <3>3, <3>4, <3>7
    <3>9. r = Least(n + to, Len(c))
      BY <3>5, <3>6
    <3>10. \E d : Rearranged(s, t, C, c, d) /\ Shifted(c, d)
      BY <1>12, <2>9, <3>8, <3>9, BlockForward
    <3> QED BY <1>12, <3>10
  <2>10. CASE ~(from + n < Len(c))
    <3>1. q = Len(c)
      BY <1>1, <2>4, <2>5, <2>10 DEF Least
    <3>2. t = s
      BY <1>1, <1>6, <1>12, <2>2, <2>3, <2>8, <3>1
    <3> QED BY <1>10, <1>12, <3>2
  <2> QED BY <2>9, <2>10
<1>13. CASE mn < Len(c) /\ to < from
  <2>1. mn = to /\ p = to + 1
    BY <1>1, <1>2, <1>8, <1>13 DEF Least
  <2>2. PICK k : k = from - to
    OBVIOUS
  <2>3. PICK far : far = Chain!Walk(s.next, low, k)
    OBVIOUS
  <2>4. PICK q : q = Least(p + k, Len(c))
    OBVIOUS
  <2>5. k \in Nat /\ p + k = from + 1
    BY <1>13, <2>1, <2>2
  <2>6. far = c[q] /\ q \in 1..Len(c)
    BY <1>1, <1>9, <2>3, <2>4, <2>5, WalksTo
  <2>7. Chain!DListItem_index(s, far) = q - 1
    BY <1>1, <2>6, Lookups
  <2>8. CASE from < Len(c)
    <3>1. q = from + 1
      BY <1>1, <2>4, <2>5, <2>8 DEF Least
    <3>2. t = back
      BY <1>1, <1>6, <1>9, <1>13, <2>1, <2>2, <2>3, <2>7, <3>1
    <3>3. PICK r : r = Least(n, Len(c) - from)
      OBVIOUS
    <3>4. from + r = Least(q + n - 1, Len(c))
      BY <1>1, <2>8, <3>1, <3>3 DEF Least
    <3>5. PICK j : j = Least(q + n - 1, Len(c))
      OBVIOUS
    <3>6. Chain!DListItem_get_by_relative_index(s, c[q], n - 1) = c[j]
      BY <1>1, <2>6, <3>5, RelativeOn
    <3>7. t = Chain!PutBefore(Chain!Unlinked(s, c[from + 1], c[from + r]), c[from + 1], c[from + r], c[to + 1])
      BY <1>4, <1>9, <2>1, <2>2, <2>3, <2>6, <3>1, <3>2, <3>4, <3>5, <3>6
    <3>8. Rearranged(s, t, C, c, Chain!S!Moved(c, from, r, to)) /\ Shifted(c, Chain!S!Moved(c, from, r, to))
      BY <1>13, <2>8, <3>3, <3>7, BlockBackward
    <3> QED BY <3>3, <3>8 DEF MovedBlock
  <2>9. CASE ~(from < Len(c))
    <3>1. q = Len(c)
      BY <1>1, <2>4, <2>5, <2>9 DEF Least
    <3>2. t = s
      BY <1>1, <1>6, <1>13, <2>2, <2>3, <2>7, <2>9, <3>1
    <3> QED BY <1>10, <2>9, <3>2
  <2> QED BY <2>8, <2>9
<1> QED BY <1>1, <1>7, <1>11, <1>12, <1>13

(* DList_move_count.                                                       *)
LEMMA MoveCountIs ==
  ASSUME NEW s, NEW C, NEW c, Listed(s, C, c), c # <<>>, NEW from \in Nat, NEW to \in Nat, from # to,
         NEW n \in Nat, n >= 1, NEW t, t = Chain!DList_move_count(s, from, to, n)
  PROVE  \E d : /\ Stands(t, d) /\ Safe(s, t) /\ Shifted(c, d)
                /\ to < from /\ from < Len(c) => d = MovedBlock(c, from, to, n)
<1>1. /\ s \in Memory /\ InChains(s, C) /\ c \in C /\ Len(c) \in Nat /\ s.count = Len(c)
      /\ s.begin \in Of(c) /\ s.end \in Of(c)
  BY ListIs
<1>2. PICK u : u = Chain!DListItem_move_count(s, s.begin, from, to, n)
  OBVIOUS
<1>3. PICK d : /\ Rearranged(s, u, C, c, d) /\ Shifted(c, d)
               /\ to < from /\ from < Len(c) => d = MovedBlock(c, from, to, n)
  BY <1>1, <1>2, ItemMoveCountIs
<1>4. /\ u \in Memory /\ Linked(u, d) /\ Of(d) = Of(c)
      /\ u.begin = s.begin /\ u.end = s.end /\ u.count = Len(c)
  BY <1>1, <1>3 DEF Rearranged, Same, Edges
<1>5. Chain!DListItem_get_first_item(u, u.begin) = d[1] /\ Chain!DListItem_get_last_item(u, u.end) = d[Len(d)]
  <2>1. u.begin \in Of(d) /\ u.end \in Of(d)
    BY <1>1, <1>4
  <2> QED BY <1>4, <2>1, FromAny
<1>6. t = Write(u, d[1], d[Len(d)], Len(c))
  <2>1. t = [u EXCEPT !.begin = d[1], !.end = d[Len(d)]]
    BY <1>2, <1>5 DEF Chain!DList_move_count
  <2>2. PICK b : b = d[1]
    OBVIOUS
  <2>3. PICK e : e = d[Len(d)]
    OBVIOUS
  <2>4. [u EXCEPT !.begin = b, !.end = e] = Write(u, b, e, u.count)
    BY <1>4, WriteForms
  <2> QED BY <1>4, <2>1, <2>2, <2>3, <2>4
<1>7. Rest(s, s) /\ s.mine = s.mine
  BY <1>1 DEF Rest
<1>8. Stands(t, d) /\ Safe(s, t)
  BY <1>1, <1>3, <1>6, <1>7, Settled
<1> QED BY <1>3, <1>8

-----------------------------------------------------------------------------
(* begin and end of a list of these items.                                 *)
Front(d) == IF Len(d) = 0 THEN 0 ELSE d[1]
Back(d) == IF Len(d) = 0 THEN 0 ELSE d[Len(d)]

(* A sequence without items.                                               *)
LEMMA NoItems ==
  ASSUME NEW d \in Seq(Chain!Node)
  PROVE  /\ d = <<>> <=> Len(d) = 0
         /\ Len(d) = 0 => Of(d) = {}
         /\ Len(d) \in Nat
<1>1. Len(d) \in Nat
  BY ItemsAre
<1>2. <<>> \in Seq(Chain!Node) /\ Len(<<>>) = 0
  BY EmptySeq
<1>3. ASSUME Len(d) = 0 PROVE d = <<>>
  <2>1. \A l \in 1..Len(d) : d[l] = <<>>[l]
    BY <1>3
  <2> QED BY <1>2, <1>3, <2>1, SameItems
<1>4. ASSUME Len(d) = 0 PROVE Of(d) = {}
  <2>1. 1..Len(d) = {}
    BY <1>4
  <2> QED BY <2>1 DEF Of
<1> QED BY <1>1, <1>2, <1>3, <1>4

(* The books of a list, empty or not.                                      *)
LEMMA BookedAny ==
  ASSUME NEW t \in Memory, NEW D, InChains(t, D), NEW d \in Seq(Chain!Node), Len(d) # 0 => d \in D,
         t.begin = Front(d), t.end = Back(d), t.count = Len(d), t.mine = Of(d)
  PROVE  Listed(t, D, d)
<1>1. /\ d = <<>> <=> Len(d) = 0
      /\ Len(d) = 0 => Of(d) = {}
  BY NoItems
<1>2. CASE Len(d) = 0
  BY <1>1, <1>2 DEF Listed, Front, Back
<1>3. CASE Len(d) # 0
  BY <1>1, <1>3 DEF Listed, Front, Back
<1> QED BY <1>2, <1>3

(* Chains depend on the links and on what is allocated.                    *)
LEMMA ChainsKept ==
  ASSUME NEW s, NEW x, NEW C, InChains(s, C), x.next = s.next, x.prev = s.prev, x.live = s.live
  PROVE  InChains(x, C)
<1>1. ASSUME NEW g \in C PROVE Linked(x, g)
  BY <1>1 DEF InChains, Linked
<1> QED BY <1>1 DEF InChains

(* The edges of what is left when a block leaves.                          *)
LeftEdges(d, c, k, n) ==
  /\ Front(d) = IF n = Len(c) THEN 0 ELSE IF k = 0 THEN c[n + 1] ELSE c[1]
  /\ Back(d) = IF n = Len(c) THEN 0 ELSE IF k + n = Len(c) THEN c[k] ELSE c[Len(c)]

(* The edges of S!Without.                                                 *)
LEMMA LeavingEdges ==
  ASSUME NEW c \in Seq(Chain!Node), NEW k, NEW n, Fits(c, k, n), NEW d, d = Chain!S!Without(c, k, n)
  PROVE  LeftEdges(d, c, k, n) /\ d \in Seq(Chain!Node) /\ Len(d) = Len(c) - n /\ (Len(d) = 0 <=> n = Len(c))
<1>1. Len(c) \in Nat /\ k \in Nat /\ n \in Nat /\ n >= 1 /\ k + n <= Len(c)
  BY ItemsAre DEF Fits
<1>2. /\ d \in Seq(Chain!Node) /\ Len(d) = Len(c) - n
      /\ n < Len(c) => /\ d[1] = IF k = 0 THEN c[n + 1] ELSE c[1]
                       /\ d[Len(d)] = IF k + n = Len(c) THEN c[k] ELSE c[Len(c)]
  BY WithoutPlaces
<1>3. Len(d) = 0 <=> n = Len(c)
  BY <1>1, <1>2
<1>4. n # Len(c) => n < Len(c)
  BY <1>1
<1>5. CASE n = Len(c)
  <2>1. Front(d) = 0 /\ Back(d) = 0
    BY <1>3, <1>5 DEF Front, Back
  <2> QED BY <1>2, <1>3, <1>5, <2>1 DEF LeftEdges
<1>6. CASE n # Len(c)
  <2>1. Front(d) = d[1] /\ Back(d) = d[Len(d)]
    BY <1>3, <1>6 DEF Front, Back
  <2> QED BY <1>2, <1>3, <1>4, <1>6, <2>1 DEF LeftEdges
<1> QED BY <1>5, <1>6

(* begin and end once the block has been stepped aside for.                *)
LEMMA StepsAside ==
  ASSUME NEW s, NEW C, NEW c, Listed(s, C, c), c # <<>>, NEW k, NEW n, Fits(c, k, n), k = 0 \/ Alone(n),
         NEW d, d = Chain!S!Without(c, k, n)
  PROVE  Chain!StepAside(s, c[k + 1], c[k + n]) = Write(s, Front(d), Back(d), Len(c))
<1>1. /\ s \in Memory /\ Linked(s, c) /\ Len(c) \in Nat /\ s.begin = c[1] /\ s.end = c[Len(c)]
      /\ s.count = Len(c) /\ s.begin # 0
  BY ListIs
<1>2. /\ c \in Seq(Chain!Node) /\ Distinct(c)
      /\ \A j \in 1..Len(c) : c[j] # 0
      /\ \A j \in 1..Len(c) : j < Len(c) => s.next[c[j]] = c[j + 1]
      /\ \A j \in 1..Len(c) : j = Len(c) => s.next[c[j]] = 0
      /\ \A j \in 1..Len(c) : j > 1 => s.prev[c[j]] = c[j - 1]
      /\ \A j \in 1..Len(c) : j = 1 => s.prev[c[j]] = 0
  BY <1>1, Ends
<1>3. k \in Nat /\ n \in Nat /\ n >= 1 /\ k + n <= Len(c) /\ k + 1 \in 1..Len(c) /\ k + n \in 1..Len(c)
  BY <1>1 DEF Fits
<1>4. LeftEdges(d, c, k, n)
  BY <1>2, LeavingEdges
<1>5. PICK a : a = c[k + 1]
  OBVIOUS
<1>6. PICK last : last = c[k + n]
  OBVIOUS
<1>7. (a = s.begin <=> k = 0) /\ (a = s.end <=> k + 1 = Len(c))
  <2>1. 1 \in 1..Len(c) /\ Len(c) \in 1..Len(c)
    BY <1>1, <1>3
  <2>2. (c[k + 1] = c[1] => k + 1 = 1) /\ (c[k + 1] = c[Len(c)] => k + 1 = Len(c))
    BY <1>2, <1>3, <2>1 DEF Distinct
  <2> QED BY <1>1, <1>3, <1>5, <2>2
<1>8. PICK b : b = IF a = s.begin THEN Chain!Adjacent(s, a, last) ELSE s.begin
  OBVIOUS
<1>9. PICK e : e = IF a # s.begin /\ a = s.end THEN Chain!Adjacent(s, a, last) ELSE s.end
  OBVIOUS
<1>10. Chain!StepAside(s, a, last) = [s EXCEPT !.begin = b, !.end = IF b = 0 THEN 0 ELSE e]
  BY <1>8, <1>9 DEF Chain!StepAside
<1>11. b = Front(d) /\ (IF b = 0 THEN 0 ELSE e) = Back(d)
  <2>1. CASE k = 0
    <3>1. s.prev[a] = 0
      BY <1>2, <1>3, <1>5, <2>1
    <3>2. b = s.next[last] /\ e = c[Len(c)]
      BY <1>1, <1>7, <1>8, <1>9, <2>1, <3>1 DEF Chain!Adjacent
    <3>3. CASE n = Len(c)
      <4>1. s.next[last] = 0
        BY <1>2, <1>3, <1>6, <2>1, <3>3
      <4> QED BY <1>4, <3>2, <3>3, <4>1 DEF LeftEdges
    <3>4. CASE n # Len(c)
      <4>1. n \in 1..Len(c) /\ n < Len(c) /\ n + 1 \in 1..Len(c) /\ k + n = n /\ k + n # Len(c)
        BY <1>1, <1>3, <2>1, <3>4
      <4>2. s.next[last] = c[n + 1] /\ c[n + 1] # 0
        BY <1>2, <1>6, <4>1
      <4> QED BY <1>4, <2>1, <3>2, <3>4, <4>1, <4>2 DEF LeftEdges
    <3> QED BY <3>3, <3>4
  <2>2. CASE k # 0
    <3>1. n = 1 /\ n # Len(c) /\ k + 1 > 1 /\ k = (k + 1) - 1 /\ k \in 1..Len(c)
      BY <1>3, <2>2 DEF Alone
    <3>2. b = c[1] /\ b # 0
      BY <1>1, <1>7, <1>8, <2>2
    <3>3. CASE k + 1 = Len(c)
      <4>1. s.prev[c[k + 1]] = c[(k + 1) - 1]
        BY <1>2, <1>3, <3>1
      <4>2. s.prev[a] = c[k] /\ c[k] # 0
        BY <1>2, <1>5, <3>1, <4>1
      <4>3. e = c[k]
        BY <1>7, <1>9, <2>2, <3>3, <4>2 DEF Chain!Adjacent
      <4> QED BY <1>4, <2>2, <3>1, <3>2, <3>3, <4>3 DEF LeftEdges
    <3>4. CASE k + 1 # Len(c)
      <4>1. e = c[Len(c)] /\ k + n # Len(c)
        BY <1>1, <1>7, <1>9, <3>1, <3>4
      <4> QED BY <1>4, <2>2, <3>1, <3>2, <4>1 DEF LeftEdges
    <3> QED BY <3>3, <3>4
  <2> QED BY <2>1, <2>2
<1>12. [s EXCEPT !.begin = b, !.end = Back(d)] = Write(s, b, Back(d), s.count)
  BY <1>1, WriteForms
<1>13. Chain!StepAside(s, a, last) = Write(s, Front(d), Back(d), Len(c))
  BY <1>1, <1>10, <1>11, <1>12
<1> QED BY <1>5, <1>6, <1>13

-----------------------------------------------------------------------------
(* The edges of a sequence are addresses.                                  *)
LEMMA EdgesAreAddresses ==
  ASSUME NEW d \in Seq(Chain!Node)
  PROVE  Front(d) \in Chain!Addr /\ Back(d) \in Chain!Addr
<1>1. Len(d) \in Nat /\ \A l \in 1..Len(d) : d[l] \in Chain!Addr
  BY ItemsAre
<1>2. 0 \in Chain!Addr
  BY ChainAssumption DEF Chain!Addr
<1>3. Len(d) # 0 => 1 \in 1..Len(d) /\ Len(d) \in 1..Len(d)
  BY <1>1
<1> QED BY <1>1, <1>2, <1>3 DEF Front, Back

(* The list s with begin and end on the edges of d.                        *)
Edged(s, x, C, d, n) ==
  /\ x \in Memory /\ Rest(s, x) /\ InChains(x, C) /\ x.mine = s.mine
  /\ x.begin = Front(d) /\ x.end = Back(d) /\ x.count = n

(* Writing them.                                                           *)
LEMMA EdgesWritten ==
  ASSUME NEW s \in Memory, NEW C, InChains(s, C), NEW d \in Seq(Chain!Node), NEW n \in Int,
         NEW x, x = Write(s, Front(d), Back(d), n)
  PROVE  Edged(s, x, C, d, n)
<1>1. PICK b : b = Front(d)
  OBVIOUS
<1>2. PICK e : e = Back(d)
  OBVIOUS
<1>3. b \in Chain!Addr /\ e \in Chain!Addr
  BY <1>1, <1>2, EdgesAreAddresses
<1>4. Written(s, x, b, e, n)
  BY <1>1, <1>2, <1>3, Writes
<1>5. x.next = s.next /\ x.prev = s.prev /\ x.live = s.live
  BY <1>4 DEF Written, Rest
<1>6. InChains(x, C)
  BY <1>5, ChainsKept
<1> QED BY <1>1, <1>2, <1>4, <1>6 DEF Edged, Written

(* Freed and stepped aside for: the item at k has left the list.           *)
Removes(s, t, c, k) ==
  /\ Stands(t, Chain!S!Without(c, k, 1)) /\ Safe(s, t) /\ t \in Memory
  /\ t.removed = s.removed \ {c[k + 1]} /\ t.pending = s.pending

(* DList_remove_item.                                                      *)
LEMMA RemoveItemIs ==
  ASSUME NEW s, NEW C, NEW c, Listed(s, C, c), c # <<>>, NEW k \in 0..(Len(c) - 1),
         NEW t, t = Chain!DList_remove_item(s, c[k + 1])
  PROVE  Removes(s, t, c, k)
<1>1. /\ s \in Memory /\ InChains(s, C) /\ c \in C /\ Linked(s, c) /\ Len(c) \in Nat /\ s.mine = Of(c)
      /\ s.count = Len(c)
  BY ListIs
<1>2. PICK o : o = 1
  OBVIOUS
<1>3. Fits(c, k, o) /\ Alone(o) /\ c \in Seq(Chain!Node) /\ Len(c) \in Int
  BY <1>1, <1>2 DEF Fits, Alone, Linked
<1>4. PICK d : d = Chain!S!Without(c, k, o)
  OBVIOUS
<1>5. d \in Seq(Chain!Node) /\ Len(d) = Len(c) - o /\ (Len(d) = 0 <=> o = Len(c))
  BY <1>3, <1>4, LeavingEdges
<1>6. PICK a : a = c[k + 1]
  OBVIOUS
<1>7. PICK x : x = Chain!StepAside(s, a, a)
  OBVIOUS
<1>8. Edged(s, x, C, d, Len(c))
  <2>1. Chain!StepAside(s, c[k + 1], c[k + o]) = Write(s, Front(d), Back(d), Len(c))
    BY <1>3, <1>4, StepsAside
  <2>2. x = Write(s, Front(d), Back(d), Len(c))
    BY <1>2, <1>6, <1>7, <2>1
  <2> QED BY <1>1, <1>3, <1>5, <2>2, EdgesWritten
<1>9. /\ x \in Memory /\ Rest(s, x) /\ InChains(x, C) /\ x.mine = s.mine
      /\ x.begin = Front(d) /\ x.end = Back(d) /\ x.count = Len(c)
  BY <1>8 DEF Edged
<1>10. PICK u : u = Chain!delDListItem(x, a)
  OBVIOUS
<1>11. /\ Freed(x, u, a) /\ InChains(u, (C \ {c}) \cup Leftover(c, k, 1))
       /\ Of(Chain!S!Without(c, k, 1)) = Of(c) \ {a}
  <2>1. Deleted(x, u, C, c, k, a)
    BY <1>1, <1>6, <1>9, <1>10, Deletes
  <2> QED BY <2>1 DEF Deleted
<1>12. /\ u \in Memory /\ u.begin = Front(d) /\ u.end = Back(d) /\ u.count = Len(c)
       /\ u.mine = Of(d) /\ u.removed = s.removed \ {a} /\ u.pending = s.pending
       /\ \A v : Sound(s, v) => Sound(u, v)
  <2>1. u \in Memory /\ Edges(x, u) /\ u.mine = x.mine \ {a} /\ u.removed = x.removed \ {a}
        /\ u.pending = x.pending /\ \A v : Sound(x, v) => Sound(u, v)
    BY <1>11 DEF Freed
  <2>2. Safe(s, x)
    BY <1>9, RestIsSafe
  <2>3. Of(d) = Of(c) \ {a}
    BY <1>2, <1>4, <1>11
  <2> QED BY <1>1, <1>9, <2>1, <2>2, <2>3 DEF Edges, Rest, Safe
<1>13. t = Write(u, Front(d), Back(d), Len(d))
  <2>1. t = [u EXCEPT !.count = u.count - 1]
    BY <1>6, <1>7, <1>10 DEF Chain!DList_remove_item
  <2>2. u.count - 1 = Len(d)
    BY <1>1, <1>2, <1>5, <1>12
  <2>3. [u EXCEPT !.count = Len(d)] = Write(u, u.begin, u.end, Len(d))
    BY <1>12, WriteForms
  <2> QED BY <1>12, <2>1, <2>2, <2>3
<1>14. PICK D : D = (C \ {c}) \cup Leftover(c, k, 1)
  OBVIOUS
<1>15. InChains(u, D) /\ Len(d) \in Int
  BY <1>11, <1>14, <1>5, ItemsAre
<1>16. Edged(u, t, D, d, Len(d))
  BY <1>5, <1>12, <1>13, <1>15, EdgesWritten
<1>17. /\ t \in Memory /\ Rest(u, t) /\ InChains(t, D) /\ t.mine = u.mine
       /\ t.begin = Front(d) /\ t.end = Back(d) /\ t.count = Len(d)
  BY <1>16 DEF Edged
<1>18. Len(d) # 0 => d \in D
  <2>1. Len(d) # 0 => 1 < Len(c)
    BY <1>1, <1>2, <1>5
  <2> QED BY <1>2, <1>4, <1>14, <2>1 DEF Leftover
<1>19. Listed(t, D, d)
  BY <1>5, <1>12, <1>17, <1>18, BookedAny
<1>20. Safe(s, t)
  <2>1. Safe(u, t)
    BY <1>17, RestIsSafe
  <2> QED BY <1>12, <2>1 DEF Safe
<1>21. t.removed = s.removed \ {c[k + 1]} /\ t.pending = s.pending
  BY <1>6, <1>12, <1>17 DEF Rest
<1> QED BY <1>2, <1>4, <1>17, <1>19, <1>20, <1>21 DEF Removes, Stands

(* DList_remove.                                                           *)
LEMMA RemoveIs ==
  ASSUME NEW s, NEW C, NEW c, Listed(s, C, c), c # <<>>, NEW index \in 0..(Len(c) - 1),
         NEW t, t = Chain!DList_remove(s, index)
  PROVE  Removes(s, t, c, index)
<1>1. Chain!DList_get(s, index) = c[index + 1]
  BY NearestIs
<1>2. t = Chain!DList_remove_item(s, c[index + 1])
  BY <1>1 DEF Chain!DList_remove
<1> QED BY <1>2, RemoveItemIs

-----------------------------------------------------------------------------
(* A block of q items behind the first k of c has become a loose chain.    *)
Pulled(s, t, C, c, k, q) ==
  /\ Rest(s, t) /\ Edges(s, t) /\ t.mine = s.mine \ Of(Part(c, k, q)) /\ Linked(t, Part(c, k, q))
  /\ InChains(t, (C \ {c}) \cup ({Part(c, k, q)} \cup Leftover(c, k, q)))
  /\ Of(Chain!S!Without(c, k, q)) = Of(c) \ Of(Part(c, k, q))

(* DListItem_pull_out_count in a list's chain.                             *)
LEMMA ItemPulls ==
  ASSUME NEW s \in Memory, NEW C, InChains(s, C), NEW c \in C, s.mine = Of(c), NEW k \in Nat, k < Len(c),
         NEW n \in Nat, n >= 1, NEW q, q = Least(n, Len(c) - k),
         NEW a, a = c[k + 1], NEW t, t = Chain!DListItem_pull_out_count(s, a, n)
  PROVE  Pulled(s, t, C, c, k, q)
<1>1. /\ Linked(s, c) /\ Len(c) \in Nat /\ c \in Seq(Chain!Node) /\ Distinct(c)
      /\ \A j \in 1..Len(c) : c[j] # 0
  BY Ends DEF InChains
<1>2. PICK j : j = k + 1
  OBVIOUS
<1>3. j \in 1..Len(c) /\ a = c[j] /\ a # 0
  BY <1>1, <1>2
<1>4. k + q = Least(j + n - 1, Len(c)) /\ Fits(c, k, q)
  BY <1>1, <1>2 DEF Least, Fits
<1>5. PICK l : l = Least(j + n - 1, Len(c))
  OBVIOUS
<1>6. Chain!DListItem_get_by_relative_index(s, c[j], n - 1) = c[l]
  BY <1>1, <1>3, <1>5, RelativeOn
<1>7. PICK last : last = c[k + q]
  OBVIOUS
<1>8. Chain!DListItem_get_by_relative_index(s, a, n - 1) = last
  BY <1>3, <1>4, <1>5, <1>6, <1>7
<1>9. PICK u : u = PullBlock(s, a, last)
  OBVIOUS
<1>10. t = Chain!DListItem_set_list_parent(u, a, FALSE)
  <2>1. ~(a = 0 \/ n = 0)
    BY <1>3
  <2>2. t = Chain!DListItem_set_list_parent(PullBlock(s, a, Chain!DListItem_get_by_relative_index(s, a, n - 1)), a, FALSE)
    BY <2>1, Zenon DEF Chain!DListItem_pull_out_count, PullBlock
  <2> QED BY <1>8, <1>9, <2>2, Zenon
<1>11. PICK e : e = Part(c, k, q)
  OBVIOUS
<1>12. /\ u \in Memory /\ Same(s, u) /\ Linked(u, e)
       /\ InChains(u, (C \ {c}) \cup ({e} \cup Leftover(c, k, q)))
       /\ Of(e) \subseteq Of(c) /\ Of(Chain!S!Without(c, k, q)) = Of(c) \ Of(e)
  <2>1. u = PullBlock(s, c[k + 1], c[k + q])
    BY <1>7, <1>9
  <2>2. BlockOut(s, u, C, c, k, q)
    BY <1>4, <2>1, PullsBlock
  <2> QED BY <1>11, <2>2 DEF BlockOut
<1>13. a \in Of(e)
  <2>1. Len(e) = q /\ \A x \in 1..q : e[x] = c[k + x]
    BY <1>1, <1>4, <1>11, PartItems
  <2>2. 1 \in 1..q
    BY <1>4 DEF Fits
  <2> QED BY <2>1, <2>2 DEF Of
<1>14. u.mine = s.mine /\ Rest(s, u) /\ Edges(s, u)
  BY <1>12 DEF Same
<1>15. AsOne(u, e)
  BY <1>12, <1>14 DEF AsOne
<1>16. Left(u, t, e)
  BY <1>10, <1>12, <1>13, <1>15, Parents
<1>17. /\ Rest(u, t) /\ Edges(u, t) /\ t.next = u.next /\ t.prev = u.prev /\ t.mine = u.mine \ Of(e)
       /\ t.live = u.live
  BY <1>16 DEF Left, Rest
<1>18. Rest(s, t) /\ Edges(s, t)
  BY <1>14, <1>17 DEF Rest, Edges
<1>19. InChains(t, (C \ {c}) \cup ({e} \cup Leftover(c, k, q)))
  BY <1>12, <1>17, ChainsKept
<1>20. Linked(t, e)
  BY <1>12, <1>17 DEF Linked
<1> QED BY <1>11, <1>12, <1>14, <1>17, <1>18, <1>19, <1>20 DEF Pulled

(* What DList_pull_out_count leaves: the list without the block, and the   *)
(* block as a chain of its own.                                            *)
PulledOut(s, t, c, k, q) ==
  \E D : /\ Listed(t, D, Chain!S!Without(c, k, q)) /\ Part(c, k, q) \in D
         /\ Of(Part(c, k, q)) \cap t.mine = {} /\ Rest(s, t)

(* The books, once begin and end have stepped aside and the block is out.  *)
LEMMA PulledBooks ==
  ASSUME NEW s, NEW C, NEW c, Listed(s, C, c), c # <<>>, NEW k \in Nat, k < Len(c),
         NEW n \in Nat, n >= 1, NEW q, q = Least(n, Len(c) - k), NEW a, a = c[k + 1],
         NEW x, x = Write(s, Front(Chain!S!Without(c, k, q)), Back(Chain!S!Without(c, k, q)), Len(c)),
         NEW u, u = Chain!DListItem_pull_out_count(x, a, n), NEW t, t = [u EXCEPT !.count = Len(c) - q]
  PROVE  PulledOut(s, t, c, k, q) /\ Chain!DListItem_count(u, a) = q /\ u.count = Len(c) /\ u \in Memory
<1>1. s \in Memory /\ InChains(s, C) /\ c \in C /\ Linked(s, c) /\ Len(c) \in Nat /\ s.mine = Of(c)
  BY ListIs
<1>2. c \in Seq(Chain!Node) /\ Distinct(c) /\ Fits(c, k, q) /\ Len(c) \in Int /\ q \in Nat
  BY <1>1 DEF Fits, Linked, Least
<1>3. PICK d : d = Chain!S!Without(c, k, q)
  OBVIOUS
<1>4. PICK e : e = Part(c, k, q)
  OBVIOUS
<1>5. d \in Seq(Chain!Node) /\ Len(d) = Len(c) - q /\ (Len(d) = 0 <=> q = Len(c))
  BY <1>2, <1>3, LeavingEdges
<1>6. Edged(s, x, C, d, Len(c))
  BY <1>1, <1>2, <1>3, <1>5, EdgesWritten
<1>7. /\ x \in Memory /\ Rest(s, x) /\ InChains(x, C) /\ x.mine = s.mine
      /\ x.begin = Front(d) /\ x.end = Back(d) /\ x.count = Len(c)
  BY <1>6 DEF Edged
<1>8. x.mine = Of(c)
  BY <1>1, <1>7
<1>9. Pulled(x, u, C, c, k, q)
  BY <1>1, <1>7, <1>8, ItemPulls
<1>10. PICK D : D = (C \ {c}) \cup ({e} \cup Leftover(c, k, q))
  OBVIOUS
<1>11. /\ Rest(x, u) /\ Edges(x, u) /\ u.mine = x.mine \ Of(e) /\ Linked(u, e)
       /\ InChains(u, D) /\ Of(d) = Of(c) \ Of(e)
  BY <1>3, <1>4, <1>9, <1>10 DEF Pulled
<1>12. u \in Memory /\ u.begin = Front(d) /\ u.end = Back(d) /\ u.count = Len(c)
  BY <1>7, <1>11 DEF Rest, Edges
<1>13. Chain!DListItem_count(u, a) = q
  <2>1. Len(e) = q /\ \A l \in 1..q : e[l] = c[k + l]
    BY <1>2, <1>4, PartItems
  <2>2. 1 \in 1..q
    BY <1>2 DEF Fits
  <2>3. a \in Of(e)
    BY <2>1, <2>2 DEF Of
  <2>4. Chain!DListItem_count(u, a) = Len(e)
    BY <1>11, <2>3, FromAny
  <2> QED BY <2>1, <2>4
<1>14. t = Write(u, Front(d), Back(d), Len(d))
  <2>1. PICK r : r = Len(d)
    OBVIOUS
  <2>2. PICK y : y = u
    OBVIOUS
  <2>3. y \in Memory
    BY <1>12, <2>2
  <2>4. [y EXCEPT !.count = r] = Write(y, y.begin, y.end, r)
    BY <2>3, WriteForms
  <2> QED BY <1>5, <1>12, <2>1, <2>2, <2>4
<1>15. Len(d) \in Int
  BY <1>5, ItemsAre
<1>16. Edged(u, t, D, d, Len(d))
  BY <1>5, <1>11, <1>12, <1>14, <1>15, EdgesWritten
<1>17. /\ t \in Memory /\ Rest(u, t) /\ InChains(t, D) /\ t.mine = u.mine
       /\ t.begin = Front(d) /\ t.end = Back(d) /\ t.count = Len(d)
  BY <1>16 DEF Edged
<1>18. Len(d) # 0 => d \in D
  <2>1. Len(d) # 0 => q < Len(c)
    BY <1>1, <1>2, <1>5 DEF Fits
  <2> QED BY <1>3, <1>10, <2>1 DEF Leftover
<1>19. t.mine = Of(d)
  BY <1>8, <1>11, <1>17
<1>20. Listed(t, D, d)
  BY <1>5, <1>17, <1>18, <1>19, BookedAny
<1>21. Rest(s, t)
  BY <1>7, <1>11, <1>17 DEF Rest
<1>22. e \in D /\ Of(e) \cap t.mine = {}
  BY <1>10, <1>11, <1>17
<1> QED BY <1>3, <1>4, <1>12, <1>13, <1>20, <1>21, <1>22 DEF PulledOut

(* DList_pull_out.                                                         *)
LEMMA PullOutIs ==
  ASSUME NEW s, NEW C, NEW c, Listed(s, C, c), c # <<>>, NEW index \in 0..(Len(c) - 1),
         NEW t, t = Chain!DList_pull_out(s, index)
  PROVE  PulledOut(s, t, c, index, 1)
<1>1. s \in Memory /\ Len(c) \in Nat /\ s.count = Len(c) /\ Linked(s, c)
  BY ListIs
<1>2. PICK o : o = 1
  OBVIOUS
<1>3. PICK a : a = c[index + 1]
  OBVIOUS
<1>4. Chain!DList_get(s, index) = a
  BY <1>3, NearestIs
<1>5. o \in Nat /\ o >= 1 /\ o = Least(o, Len(c) - index) /\ Fits(c, index, o) /\ Alone(o)
      /\ index \in Nat /\ index < Len(c)
  BY <1>1, <1>2 DEF Fits, Least, Alone
<1>6. PICK d : d = Chain!S!Without(c, index, o)
  OBVIOUS
<1>7. PICK x : x = Write(s, Front(d), Back(d), Len(c))
  OBVIOUS
<1>8. Chain!StepAside(s, a, a) = x
  <2>1. Chain!StepAside(s, c[index + 1], c[index + o]) = Write(s, Front(d), Back(d), Len(c))
    BY <1>5, <1>6, StepsAside
  <2> QED BY <1>2, <1>3, <1>7, <2>1
<1>9. PICK u : u = Chain!DListItem_pull_out_count(x, a, o)
  OBVIOUS
<1>10. t = [u EXCEPT !.count = u.count - 1]
  BY <1>2, <1>4, <1>8, <1>9 DEF Chain!DList_pull_out, Chain!DListItem_pull_out
<1>11. PICK w : w = [u EXCEPT !.count = Len(c) - o]
  OBVIOUS
<1>12. PulledOut(s, w, c, index, o) /\ u.count = Len(c)
  BY <1>3, <1>5, <1>6, <1>7, <1>9, <1>11, PulledBooks
<1> QED BY <1>2, <1>10, <1>11, <1>12

(* DList_pull_out_count with a block that SafePull admits.                 *)
LEMMA PullOutCountIs ==
  ASSUME NEW s, NEW C, NEW c, Listed(s, C, c), c # <<>>, NEW index \in 0..(Len(c) - 1), NEW n \in Nat,
         index = 0 \/ index + n <= Len(c), NEW t, t = Chain!DList_pull_out_count(s, index, n)
  PROVE  IF n = 0 THEN t = s ELSE PulledOut(s, t, c, index, Least(n, Len(c) - index))
<1>1. /\ s \in Memory /\ Len(c) \in Nat /\ s.count = Len(c) /\ Linked(s, c)
      /\ s.begin = c[1] /\ s.end = c[Len(c)]
  BY ListIs
<1>2. /\ c \in Seq(Chain!Node)
      /\ \A j \in 1..Len(c) : c[j] # 0
      /\ \A j \in 1..Len(c) : j > 1 => s.prev[c[j]] = c[j - 1]
  BY <1>1, Ends
<1>3. PICK a : a = c[index + 1]
  OBVIOUS
<1>4. a = (IF index = s.count - 1 /\ index # 0 THEN s.end ELSE Chain!DList_get(s, index)) /\ a # 0
  <2>1. Chain!DList_get(s, index) = a /\ index + 1 \in 1..Len(c)
    BY <1>3, NearestIs
  <2>2. index = s.count - 1 => s.end = a
    BY <1>1, <1>3
  <2> QED BY <1>2, <1>3, <2>1, <2>2
<1>5. PICK last : last = Chain!DListItem_get_by_relative_index(s, a, n - 1)
  OBVIOUS
<1>6. PICK x : x = (CASE a = 0 -> s
                      [] a # 0 /\ (index = 0 \/ index = s.count - 1) ->
                           IF n = 0 THEN s ELSE Chain!StepAside(s, a, last)
                      [] OTHER -> IF index + n = s.count THEN [s EXCEPT !.end = s.prev[a]] ELSE s)
  OBVIOUS
<1>7. PICK u : u = Chain!DListItem_pull_out_count(x, a, n)
  OBVIOUS
<1>8. t = [u EXCEPT !.count = @ - (IF n = 0 THEN 0 ELSE Chain!DListItem_count(u, a))]
  BY <1>4, <1>5, <1>6, <1>7 DEF Chain!DList_pull_out_count
<1>9. x = IF index = 0 \/ index = s.count - 1 THEN IF n = 0 THEN s ELSE Chain!StepAside(s, a, last)
          ELSE IF index + n = s.count THEN [s EXCEPT !.end = s.prev[a]] ELSE s
  BY <1>4, <1>6
<1>10. index \in Nat /\ index < Len(c)
  BY <1>1
<1>11. CASE n = 0
  <2>1. ~(index + n = s.count)
    BY <1>1, <1>10, <1>11
  <2>2. x = s
    BY <1>9, <1>11, <2>1
  <2>3. u = s
    BY <1>7, <1>11, <2>2 DEF Chain!DListItem_pull_out_count
  <2>4. s.count - 0 = s.count
    BY <1>1
  <2>5. [s EXCEPT !.count = s.count] = Write(s, s.begin, s.end, s.count)
    BY <1>1, WriteForms
  <2>6. Write(s, s.begin, s.end, s.count) = s
    BY <1>1 DEF Write, Memory
  <2>7. t = s
    BY <1>8, <1>11, <2>3, <2>4, <2>5, <2>6
  <2> QED BY <1>11, <2>7
<1>12. CASE n # 0
  <2>1. n >= 1
    BY <1>12
  <2>2. PICK q : q = Least(n, Len(c) - index)
    OBVIOUS
  <2>3. Fits(c, index, q) /\ q \in Nat
    BY <1>1, <1>10, <2>1, <2>2 DEF Fits, Least
  <2>4. PICK d : d = Chain!S!Without(c, index, q)
    OBVIOUS
  <2>5. last = c[index + q]
    <3>1. PICK j : j = index + 1
      OBVIOUS
    <3>2. PICK l : l = Least(j + n - 1, Len(c))
      OBVIOUS
    <3>3. j \in 1..Len(c) /\ index + q = l
      BY <1>1, <1>10, <2>1, <2>2, <3>1, <3>2 DEF Least
    <3>4. Chain!DListItem_get_by_relative_index(s, c[j], n - 1) = c[l]
      BY <1>1, <2>1, <3>2, <3>3, RelativeOn
    <3> QED BY <1>3, <1>5, <3>1, <3>3, <3>4
  <2>6. x = Write(s, Front(d), Back(d), Len(c))
    <3>1. CASE index = 0 \/ index = s.count - 1
      <4>1. index = 0 \/ Alone(q)
        BY <1>1, <1>10, <2>1, <2>2, <3>1 DEF Alone, Least
      <4>2. Chain!StepAside(s, c[index + 1], c[index + q]) = Write(s, Front(d), Back(d), Len(c))
        BY <2>3, <2>4, <4>1, StepsAside
      <4> QED BY <1>3, <1>9, <1>12, <2>5, <3>1, <4>2
    <3>2. CASE ~(index = 0 \/ index = s.count - 1)
      <4>1. q = n /\ n # Len(c) /\ index # 0
        BY <1>1, <1>10, <2>2, <3>2 DEF Least
      <4>2. LeftEdges(d, c, index, q)
        BY <1>2, <2>3, <2>4, LeavingEdges
      <4>3. Front(d) = s.begin /\ Back(d) = (IF index + n = Len(c) THEN c[index] ELSE s.end)
        BY <1>1, <4>1, <4>2 DEF LeftEdges
      <4>4. s.prev[a] = c[index]
        <5>1. index + 1 \in 1..Len(c) /\ index + 1 > 1 /\ (index + 1) - 1 = index
          BY <1>1, <1>10, <4>1
        <5>2. s.prev[c[index + 1]] = c[(index + 1) - 1]
          BY <1>2, <5>1
        <5> QED BY <1>3, <5>1, <5>2
      <4>5. [s EXCEPT !.end = c[index]] = Write(s, s.begin, c[index], s.count)
        BY <1>1, WriteForms
      <4>6. Write(s, s.begin, s.end, s.count) = s
        BY <1>1 DEF Write, Memory
      <4> QED BY <1>1, <1>9, <3>2, <4>3, <4>4, <4>5, <4>6
    <3> QED BY <3>1, <3>2
  <2>7. PICK w : w = [u EXCEPT !.count = Len(c) - q]
    OBVIOUS
  <2>8. PulledOut(s, w, c, index, q) /\ Chain!DListItem_count(u, a) = q /\ u.count = Len(c)
    BY <1>3, <1>7, <1>10, <2>1, <2>2, <2>4, <2>6, <2>7, PulledBooks
  <2>9. t = w
    BY <1>8, <1>12, <2>7, <2>8
  <2> QED BY <1>12, <2>2, <2>8, <2>9
<1> QED BY <1>11, <1>12

-----------------------------------------------------------------------------
(* c behind its first k items, and these.                                  *)
Beyond(c, k) == SubSeq(c, k + 1, Len(c))
Upto(c, k) == {c[l] : l \in 1..k}

BeyondAt(e, c, k) ==
  /\ e \in Seq(Chain!Node) /\ Len(e) = Len(c) - k
  /\ \A l \in (k + 1)..Len(c) : e[l - k] = c[l]

(* Its items.                                                              *)
LEMMA BeyondIs ==
  ASSUME NEW c \in Seq(Chain!Node), NEW k \in Nat, k <= Len(c), NEW e, e = Beyond(c, k)
  PROVE  BeyondAt(e, c, k)
<1>1. Len(c) \in Nat
  BY ItemsAre
<1>2. PICK p : p = k + 1
  OBVIOUS
<1>3. p \in Int /\ 1 <= p /\ p <= Len(c) + 1
  BY <1>1, <1>2
<1>4. /\ SubSeq(c, p, Len(c)) \in Seq(Chain!Node) /\ Len(SubSeq(c, p, Len(c))) = Len(c) - p + 1
      /\ \A l \in p..Len(c) : SubSeq(c, p, Len(c))[l - p + 1] = c[l]
  BY <1>3, RestIs
<1>5. e = SubSeq(c, p, Len(c))
  BY <1>2 DEF Beyond
<1>6. Len(c) - p + 1 = Len(c) - k
  BY <1>1, <1>2
<1>7. ASSUME NEW l \in (k + 1)..Len(c) PROVE e[l - k] = c[l]
  <2>1. l - p + 1 = l - k /\ l \in p..Len(c)
    BY <1>1, <1>2
  <2> QED BY <1>4, <1>5, <2>1
<1> QED BY <1>4, <1>5, <1>6, <1>7 DEF BeyondAt

(* One item fewer.                                                         *)
LEMMA BeyondOne ==
  ASSUME NEW c \in Seq(Chain!Node), NEW k \in Nat, k < Len(c), NEW e, e = Beyond(c, k), NEW z, z = 0
  PROVE  /\ Chain!S!Without(e, z, 1) = Beyond(c, k + 1) /\ e[z + 1] = c[k + 1] /\ z \in 0..(Len(e) - 1)
         /\ e \in Seq(Chain!Node) /\ Len(e) = Len(c) - k
         /\ (1 < Len(e) <=> k + 1 < Len(c))
<1>1. Len(c) \in Nat
  BY ItemsAre
<1>2. /\ e \in Seq(Chain!Node) /\ Len(e) = Len(c) - k
      /\ \A l \in (k + 1)..Len(c) : e[l - k] = c[l]
  <2>1. k <= Len(c)
    BY <1>1
  <2>2. BeyondAt(e, c, k)
    BY <2>1, BeyondIs
  <2> QED BY <2>2 DEF BeyondAt
<1>3. PICK j : j = k + 1
  OBVIOUS
<1>4. PICK f : f = Beyond(c, j)
  OBVIOUS
<1>5. /\ f \in Seq(Chain!Node) /\ Len(f) = Len(c) - j
      /\ \A l \in (j + 1)..Len(c) : f[l - j] = c[l]
  <2>1. j <= Len(c) /\ j \in Nat
    BY <1>1, <1>3
  <2>2. BeyondAt(f, c, j)
    BY <1>4, <2>1, BeyondIs
  <2> QED BY <2>2 DEF BeyondAt
<1>6. PICK o : o = 1
  OBVIOUS
<1>7. PICK d : d = Chain!S!Without(e, z, o)
  OBVIOUS
<1>8. Fits(e, z, o)
  BY <1>1, <1>2, <1>6 DEF Fits
<1>9. /\ d \in Seq(Chain!Node) /\ Len(d) = Len(e) - o
      /\ \A l \in (z + o + 1)..Len(e) : d[l - o] = e[l]
  <2>1. z \in Nat /\ o \in Nat /\ z + o <= Len(e)
    BY <1>8 DEF Fits
  <2>2. CutAt(d, e, z, o)
    BY <1>2, <1>7, <2>1, WithoutIs
  <2> QED BY <2>2 DEF CutAt
<1>10. Len(d) = Len(f)
  BY <1>1, <1>2, <1>3, <1>5, <1>6, <1>9
<1>11. ASSUME NEW l \in 1..Len(d) PROVE d[l] = f[l]
  <2>1. l + o \in (z + o + 1)..Len(e) /\ (l + o) - o = l
    BY <1>1, <1>2, <1>6, <1>9
  <2>2. d[(l + o) - o] = e[l + o]
    BY <1>9, <2>1
  <2>3. l + j \in (j + 1)..Len(c) /\ l + j \in (k + 1)..Len(c) /\ (l + j) - j = l /\ (l + j) - k = l + o
    BY <1>1, <1>3, <1>5, <1>6, <1>10
  <2>4. f[(l + j) - j] = c[l + j] /\ e[(l + j) - k] = c[l + j]
    BY <1>2, <1>5, <2>3
  <2> QED BY <2>1, <2>2, <2>3, <2>4
<1>12. d = f
  BY <1>5, <1>9, <1>10, <1>11, SameItems
<1>13. e[z + 1] = c[k + 1]
  <2>1. k + 1 \in (k + 1)..Len(c) /\ (k + 1) - k = z + 1
    BY <1>1
  <2>2. e[(k + 1) - k] = c[k + 1]
    BY <1>2, <2>1
  <2> QED BY <2>1, <2>2
<1>14. z \in 0..(Len(e) - 1) /\ (1 < Len(e) <=> k + 1 < Len(c))
  BY <1>1, <1>2
<1> QED BY <1>2, <1>3, <1>4, <1>6, <1>7, <1>12, <1>13, <1>14

(* The first k items of c are gone, one by one.                            *)
AllFreed(s, u, C, c, k) ==
  /\ u \in Memory /\ Edges(s, u) /\ u.pending = s.pending /\ Safe(s, u)
  /\ u.mine = s.mine \ Upto(c, k) /\ u.live = s.live \ Upto(c, k) /\ u.removed = s.removed \ Upto(c, k)
  /\ InChains(u, (C \ {c}) \cup (IF k < Len(c) THEN {Beyond(c, k)} ELSE {}))

(* One step of delDListItem_all.                                           *)
LEMMA FreesNext ==
  ASSUME NEW s \in Memory, NEW C, InChains(s, C), NEW c \in C, NEW k \in Nat, k < Len(c),
         NEW u, AllFreed(s, u, C, c, k), NEW j, j = k + 1, NEW w, w = Chain!delDListItem(u, c[j])
  PROVE  AllFreed(s, w, C, c, j)
<1>1. Linked(s, c) /\ Len(c) \in Nat /\ c \in Seq(Chain!Node)
  BY Ends DEF InChains
<1>2. PICK e : e = Beyond(c, k)
  OBVIOUS
<1>3. PICK D : D = (C \ {c}) \cup {e}
  OBVIOUS
<1>4. /\ u \in Memory /\ Edges(s, u) /\ u.pending = s.pending /\ Safe(s, u)
      /\ u.mine = s.mine \ Upto(c, k) /\ u.live = s.live \ Upto(c, k) /\ u.removed = s.removed \ Upto(c, k)
      /\ InChains(u, D)
  BY <1>2, <1>3 DEF AllFreed
<1>5. PICK z : z = 0
  OBVIOUS
<1>6. /\ Chain!S!Without(e, z, 1) = Beyond(c, k + 1) /\ e[z + 1] = c[k + 1] /\ z \in 0..(Len(e) - 1)
      /\ e \in Seq(Chain!Node) /\ Len(e) = Len(c) - k /\ (1 < Len(e) <=> k + 1 < Len(c))
  BY <1>1, <1>2, <1>5, BeyondOne
<1>7. PICK a : a = c[j]
  OBVIOUS
<1>8. Deleted(u, w, D, e, z, a)
  <2>1. e \in D /\ a = e[z + 1] /\ w = Chain!delDListItem(u, a)
    BY <1>3, <1>6, <1>7
  <2> QED BY <1>4, <1>6, <2>1, Deletes
<1>9. Freed(u, w, a) /\ InChains(w, (D \ {e}) \cup Leftover(e, z, 1))
  BY <1>8 DEF Deleted
<1>10. Leftover(e, z, 1) = IF j < Len(c) THEN {Beyond(c, j)} ELSE {}
  BY <1>6 DEF Leftover
<1>11. D \ {e} = C \ {c}
  <2>1. e \notin C \ {c}
    <3>1. ASSUME e \in C, e # c PROVE FALSE
      <4>1. Of(c) \cap Of(e) = {}
        BY <3>1 DEF InChains
      <4>2. j \in 1..Len(c) /\ z + 1 \in 1..Len(e)
        BY <1>1, <1>5, <1>6
      <4>3. c[j] \in Of(c) /\ e[z + 1] \in Of(e)
        BY <4>2 DEF Of
      <4> QED BY <1>6, <4>1, <4>3
    <3> QED BY <3>1
  <2> QED BY <1>3, <2>1
<1>12. Upto(c, j) = Upto(c, k) \cup {a}
  <2>1. 1..j = (1..k) \cup {j}
    OBVIOUS
  <2> QED BY <1>7, <2>1 DEF Upto
<1>13. /\ w \in Memory /\ Edges(u, w) /\ w.pending = u.pending
       /\ w.mine = u.mine \ {a} /\ w.live = u.live \ {a} /\ w.removed = u.removed \ {a}
       /\ \A v : Sound(u, v) => Sound(w, v)
  BY <1>9 DEF Freed
<1>14. Edges(s, w) /\ w.pending = s.pending
  BY <1>4, <1>13 DEF Edges
<1>15. Safe(s, w)
  BY <1>4, <1>13 DEF Safe
<1>16. /\ w.mine = s.mine \ Upto(c, j) /\ w.live = s.live \ Upto(c, j) /\ w.removed = s.removed \ Upto(c, j)
  BY <1>4, <1>12, <1>13
<1>17. InChains(w, (C \ {c}) \cup (IF j < Len(c) THEN {Beyond(c, j)} ELSE {}))
  BY <1>9, <1>10, <1>11
<1> QED BY <1>13, <1>14, <1>15, <1>16, <1>17 DEF AllFreed

(* The run over a chain that delDListItem_all makes exists.                *)
DelRun(s, c, n, g) == g = [k \in 0..n |-> IF k = 0 THEN s ELSE Chain!delDListItem(g[k - 1], c[k])]

(* It exists, for every length.                                            *)
LEMMA DelRuns ==
  ASSUME NEW s, NEW c, NEW n \in Nat
  PROVE  \E g : DelRun(s, c, n, g)
<1> DEFINE T == {j \in Nat : ~ \E g : DelRun(s, c, j, g)}
<1>1. ASSUME T # {} PROVE FALSE
  <2>1. T \subseteq Nat
    OBVIOUS
  <2> HIDE DEF T
  <2>2. PICK j \in T : \A l \in T : j <= l
    BY <1>1, <2>1, LeastOf
  <2>3. j \in Nat /\ ~ \E g : DelRun(s, c, j, g)
    BY <2>2 DEF T
  <2>4. CASE j = 0
    <3>1. DelRun(s, c, j, [k \in 0..j |-> s])
      BY <2>4 DEF DelRun
    <3> QED BY <2>3, <3>1
  <2>5. CASE j # 0
    <3>1. j - 1 \in Nat /\ j - 1 \notin T
      BY <2>2, <2>3, <2>5
    <3>2. PICK g : DelRun(s, c, j - 1, g)
      BY <3>1 DEF T
    <3>3. PICK f : f = [k \in 0..j |-> IF k = j THEN Chain!delDListItem(g[j - 1], c[j]) ELSE g[k]]
      OBVIOUS
    <3>4. ASSUME NEW k \in 0..j PROVE f[k] = IF k = 0 THEN s ELSE Chain!delDListItem(f[k - 1], c[k])
      <4>1. CASE k = j
        <5>1. j - 1 \in 0..j /\ j - 1 # j
          BY <2>3, <2>5
        <5>2. f[j - 1] = g[j - 1]
          BY <3>3, <5>1
        <5>3. f[j] = Chain!delDListItem(g[j - 1], c[j])
          BY <2>3, <3>3
        <5> QED BY <2>5, <4>1, <5>2, <5>3
      <4>2. CASE k # j
        <5>1. k \in 0..(j - 1) /\ f[k] = g[k]
          BY <2>3, <3>3, <4>2
        <5>2. g[k] = IF k = 0 THEN s ELSE Chain!delDListItem(g[k - 1], c[k])
          BY <3>2, <5>1 DEF DelRun
        <5>3. k # 0 => f[k - 1] = g[k - 1]
          <6>1. k # 0 => k - 1 \in 0..j /\ k - 1 # j
            BY <2>3, <5>1
          <6> QED BY <3>3, <6>1
        <5> QED BY <5>1, <5>2, <5>3
      <4> QED BY <4>1, <4>2
    <3>5. f = [k \in 0..j |-> f[k]]
      BY <3>3
    <3>6. DelRun(s, c, j, f)
      BY <3>4, <3>5 DEF DelRun
    <3> QED BY <2>3, <3>6
  <2> QED BY <2>4, <2>5
<1> QED BY <1>1

(* delDListItem_all frees the chain, the whole of it and nothing else.     *)
LEMMA DeletesAll ==
  ASSUME NEW s \in Memory, NEW C, InChains(s, C), NEW c \in C, NEW x \in Of(c),
         NEW t, t = Chain!delDListItem_all(s, x)
  PROVE  AllFreed(s, t, C, c, Len(c))
<1>1. Linked(s, c) /\ Len(c) \in Nat /\ c \in Seq(Chain!Node) /\ Len(c) >= 1
  BY Ends DEF InChains
<1>2. Chain!ChainOf(s, x) = c
  BY <1>1, ChainIs DEF Of
<1>3. PICK n : n = Len(c)
  OBVIOUS
<1>4. PICK g : g = CHOOSE f : DelRun(s, c, n, f)
  OBVIOUS
<1>5. DelRun(s, c, n, g)
  <2>1. \E f : DelRun(s, c, n, f)
    BY <1>1, <1>3, DelRuns
  <2> QED BY <1>4, <2>1
<1>6. t = g[n]
  <2>1. Chain!delDListItem_all(s, x) = (CHOOSE f : DelRun(s, Chain!ChainOf(s, x), Len(Chain!ChainOf(s, x)), f))[Len(Chain!ChainOf(s, x))]
    BY DEF Chain!delDListItem_all, DelRun
  <2> QED BY <1>2, <1>3, <1>4, <2>1
<1>7. AllFreed(s, s, C, c, 0)
  <2>1. Upto(c, 0) = {}
    BY DEF Upto
  <2>2. Beyond(c, 0) = c
    <3>1. PICK z : z = 0
      OBVIOUS
    <3>2. PICK e : e = Beyond(c, z)
      OBVIOUS
    <3>3. /\ e \in Seq(Chain!Node) /\ Len(e) = Len(c) - z
          /\ \A l \in (z + 1)..Len(c) : e[l - z] = c[l]
      <4>1. z \in Nat /\ z <= Len(c)
        BY <1>1, <3>1
      <4>2. BeyondAt(e, c, z)
        BY <1>1, <3>2, <4>1, BeyondIs
      <4> QED BY <4>2 DEF BeyondAt
    <3>4. Len(e) = Len(c) /\ \A l \in 1..Len(e) : e[l] = c[l]
      <4>1. ASSUME NEW l \in 1..Len(c) PROVE e[l] = c[l]
        <5>1. l \in (z + 1)..Len(c) /\ l - z = l
          BY <1>1, <3>1
        <5>2. e[l - z] = c[l]
          BY <3>3, <5>1
        <5> QED BY <5>1, <5>2
      <4>2. Len(e) = Len(c)
        BY <1>1, <3>1, <3>3
      <4> QED BY <4>1, <4>2
    <3>5. e = c
      BY <1>1, <3>3, <3>4, SameItems
    <3> QED BY <3>1, <3>2, <3>5
  <2>3. (C \ {c}) \cup {c} = C /\ 0 < Len(c)
    BY <1>1
  <2> QED BY <2>1, <2>2, <2>3 DEF AllFreed, Edges, Safe
<1> DEFINE T == {j \in 0..n : ~ AllFreed(s, g[j], C, c, j)}
<1>8. ASSUME T # {} PROVE FALSE
  <2>1. T \subseteq Nat
    OBVIOUS
  <2> HIDE DEF T
  <2>2. PICK j \in T : \A l \in T : j <= l
    BY <1>8, <2>1, LeastOf
  <2>3. j \in 0..n /\ ~ AllFreed(s, g[j], C, c, j)
    BY <2>2 DEF T
  <2>4. j # 0
    BY <1>5, <1>7, <2>3 DEF DelRun
  <2>5. PICK k : k = j - 1
    OBVIOUS
  <2>6. k \in Nat /\ k < Len(c) /\ j = k + 1 /\ k \in 0..n /\ k < j
    BY <1>3, <2>3, <2>4, <2>5
  <2>7. AllFreed(s, g[k], C, c, k)
    BY <2>2, <2>6 DEF T
  <2>8. g[j] = Chain!delDListItem(g[k], c[j])
    BY <1>5, <2>3, <2>4, <2>5 DEF DelRun
  <2>9. AllFreed(s, g[j], C, c, j)
    BY <2>6, <2>7, <2>8, FreesNext
  <2> QED BY <2>3, <2>9
<1>9. n \in 0..n
  BY <1>1, <1>3
<1> QED BY <1>3, <1>6, <1>8, <1>9

-----------------------------------------------------------------------------
(* A loose chain is freed, and the list is as it was.                      *)
LEMMA LooseChainDies ==
  ASSUME NEW s, NEW C, NEW c, Listed(s, C, c), NEW e \in C, e # c, Of(e) \cap s.mine = {}, NEW x \in Of(e),
         NEW t, t = Chain!delDListItem_all(s, x)
  PROVE  Stands(t, c) /\ Safe(s, t)
<1>1. s \in Memory /\ InChains(s, C)
  BY DEF Listed
<1>2. AllFreed(s, t, C, e, Len(e))
  BY <1>1, DeletesAll
<1>3. Linked(s, e) /\ Len(e) \in Nat
  BY <1>1, Ends DEF InChains
<1>4. Upto(e, Len(e)) = Of(e) /\ ~(Len(e) < Len(e))
  BY <1>3 DEF Upto, Of
<1>5. /\ t \in Memory /\ Edges(s, t) /\ Safe(s, t) /\ t.mine = s.mine \ Of(e)
      /\ InChains(t, (C \ {e}) \cup {})
  BY <1>2, <1>4 DEF AllFreed
<1>6. PICK D : D = (C \ {e}) \cup {}
  OBVIOUS
<1>7. InChains(t, D) /\ (c # <<>> => c \in D) /\ t.mine = s.mine
  BY <1>5, <1>6 DEF Listed
<1>8. Stands(t, c)
  BY <1>5, <1>7, SetAside
<1> QED BY <1>5, <1>8

(* An item of a loose chain is freed.                                      *)
LEMMA LooseItemDies ==
  ASSUME NEW s, NEW C, NEW c, Listed(s, C, c), NEW e \in C, e # c, Of(e) \cap s.mine = {}, NEW x \in Of(e),
         NEW t, t = Chain!delDListItem(s, x)
  PROVE  Stands(t, c) /\ Safe(s, t)
<1>1. s \in Memory /\ InChains(s, C)
  BY DEF Listed
<1>2. Linked(s, e) /\ Len(e) \in Nat
  BY <1>1, Ends DEF InChains
<1>3. PICK j \in 1..Len(e) : x = e[j]
  BY DEF Of
<1>4. PICK k : k = j - 1
  OBVIOUS
<1>5. k \in 0..(Len(e) - 1) /\ k + 1 = j
  BY <1>2, <1>4
<1>6. Deleted(s, t, C, e, k, x)
  BY <1>1, <1>3, <1>5, Deletes
<1>7. PICK D : D = (C \ {e}) \cup Leftover(e, k, 1)
  OBVIOUS
<1>8. /\ t \in Memory /\ Edges(s, t) /\ t.mine = s.mine \ {x} /\ InChains(t, D)
      /\ \A v : Sound(s, v) => Sound(t, v)
  BY <1>6, <1>7 DEF Deleted, Freed
<1>9. t.mine = s.mine /\ (c # <<>> => c \in D)
  BY <1>7, <1>8 DEF Listed
<1>10. Stands(t, c)
  BY <1>8, <1>9, SetAside
<1> QED BY <1>8, <1>10 DEF Safe

(* DList_remove_count with a block that SafePull admits.                   *)
LEMMA RemoveCountIs ==
  ASSUME NEW s, NEW C, NEW c, Listed(s, C, c), c # <<>>, NEW index \in 0..(Len(c) - 1), NEW n \in Nat,
         index = 0 \/ index + n <= Len(c), NEW t, t = Chain!DList_remove_count(s, index, n)
  PROVE  IF n = 0 THEN t = s
         ELSE Stands(t, Chain!S!Without(c, index, Least(n, Len(c) - index))) /\ Safe(s, t)
<1>1. s \in Memory /\ Len(c) \in Nat /\ Linked(s, c)
  BY ListIs
<1>2. PICK a : a = c[index + 1]
  OBVIOUS
<1>3. Chain!DList_get(s, index) = a
  BY <1>2, NearestIs
<1>4. PICK u : u = Chain!DList_pull_out_count(s, index, n)
  OBVIOUS
<1>5. IF n = 0 THEN u = s ELSE PulledOut(s, u, c, index, Least(n, Len(c) - index))
  BY <1>4, PullOutCountIs
<1>6. t = IF n = 0 THEN u ELSE Chain!delDListItem_all(u, a)
  BY <1>3, <1>4 DEF Chain!DList_remove_count
<1>7. CASE n = 0
  BY <1>5, <1>6, <1>7
<1>8. CASE n # 0
  <2>1. PICK q : q = Least(n, Len(c) - index)
    OBVIOUS
  <2>2. PICK d : d = Chain!S!Without(c, index, q)
    OBVIOUS
  <2>3. PICK e : e = Part(c, index, q)
    OBVIOUS
  <2>4. PICK D : Listed(u, D, d) /\ e \in D /\ Of(e) \cap u.mine = {} /\ Rest(s, u)
    BY <1>5, <1>8, <2>1, <2>2, <2>3 DEF PulledOut
  <2>5. c \in Seq(Chain!Node) /\ Distinct(c) /\ Fits(c, index, q)
    BY <1>1, <1>8, <2>1 DEF Linked, Fits, Least
  <2>6. a \in Of(e)
    <3>1. Len(e) = q /\ \A l \in 1..q : e[l] = c[index + l]
      BY <2>3, <2>5, PartItems
    <3>2. 1 \in 1..q
      BY <2>5 DEF Fits
    <3> QED BY <1>2, <3>1, <3>2 DEF Of
  <2>7. e # d
    <3>1. d # <<>> => u.mine = Of(d)
      BY <2>4, ListIs
    <3>2. ASSUME d = <<>> PROVE Of(d) = {}
      <4>1. Len(d) = 0
        BY <3>2, EmptySeq
      <4>2. 1..Len(d) = {}
        BY <4>1
      <4> QED BY <4>2 DEF Of
    <3> QED BY <2>4, <2>6, <3>1, <3>2
  <2>8. t = Chain!delDListItem_all(u, a)
    BY <1>6, <1>8
  <2>9. Stands(t, d) /\ Safe(u, t)
    BY <2>4, <2>6, <2>7, <2>8, LooseChainDies
  <2>10. Safe(s, u)
    BY <2>4, RestIsSafe
  <2>11. Safe(s, t)
    BY <2>9, <2>10 DEF Safe
  <2> QED BY <1>8, <2>1, <2>2, <2>9, <2>11
<1> QED BY <1>7, <1>8

(* delDList: the items go, and the list created next is empty.             *)
LEMMA RenewIs ==
  ASSUME NEW s, NEW C, NEW c, Listed(s, C, c), c # <<>>, NEW t, t = Chain!delDList(s)
  PROVE  Stands(t, <<>>) /\ Safe(s, t)
<1>1. s \in Memory /\ InChains(s, C) /\ c \in C /\ Len(c) \in Nat /\ s.begin \in Of(c) /\ s.mine = Of(c)
  BY ListIs
<1>2. PICK u : u = Chain!delDListItem_all(s, s.begin)
  OBVIOUS
<1>3. AllFreed(s, u, C, c, Len(c))
  BY <1>1, <1>2, DeletesAll
<1>4. Upto(c, Len(c)) = Of(c) /\ ~(Len(c) < Len(c))
  BY <1>1 DEF Upto, Of
<1>5. PICK D : D = (C \ {c}) \cup {}
  OBVIOUS
<1>6. u \in Memory /\ Safe(s, u) /\ u.mine = {} /\ InChains(u, D)
  BY <1>1, <1>3, <1>4, <1>5 DEF AllFreed
<1>7. PICK z : z = 0
  OBVIOUS
<1>8. t = Write(u, z, z, z)
  BY <1>2, <1>7 DEF Chain!delDList, Write
<1>9. z \in Chain!Addr /\ z \in Int
  BY <1>7, ChainAssumption DEF Chain!Addr
<1>10. Written(u, t, z, z, z)
  BY <1>6, <1>8, <1>9, Writes
<1>11. /\ t \in Memory /\ Rest(u, t) /\ t.next = u.next /\ t.prev = u.prev /\ t.mine = {}
       /\ t.begin = 0 /\ t.end = 0 /\ t.count = 0 /\ t.live = u.live
  BY <1>6, <1>7, <1>10 DEF Written, Rest
<1>12. Listed(t, D, <<>>)
  BY <1>6, <1>11, BookedEmpty
<1>13. Safe(u, t)
  BY <1>11, RestIsSafe
<1> QED BY <1>6, <1>12, <1>13 DEF Safe, Stands

-----------------------------------------------------------------------------
(* A prefix p and the items of c behind its first k, together.             *)
Together(f, p, c, k) ==
  /\ f \in Seq(Chain!Node) /\ Len(f) = Len(p) + (Len(c) - k)
  /\ \A l \in 1..Len(p) : f[l] = p[l]
  /\ \A l \in (k + 1)..Len(c) : f[Len(p) + (l - k)] = c[l]

(* Their concatenation.                                                    *)
LEMMA PrefixAndRest ==
  ASSUME NEW c \in Seq(Chain!Node), NEW p \in Seq(Chain!Node), NEW k \in Nat, k <= Len(c), NEW f, f = p \o Beyond(c, k)
  PROVE  Together(f, p, c, k)
<1>1. Len(c) \in Nat /\ Len(p) \in Nat
  BY ItemsAre
<1>2. PICK e : e = Beyond(c, k)
  OBVIOUS
<1>3. BeyondAt(e, c, k)
  BY <1>2, BeyondIs
<1>4. e \in Seq(Chain!Node) /\ Len(e) = Len(c) - k
  BY <1>3 DEF BeyondAt
<1>5. /\ p \o e \in Seq(Chain!Node) /\ Len(p \o e) = Len(p) + Len(e)
      /\ \A l \in 1..Len(p) : (p \o e)[l] = p[l]
      /\ \A l \in 1..Len(e) : (p \o e)[Len(p) + l] = e[l]
  BY <1>4, JoinIs
<1>6. ASSUME NEW l \in (k + 1)..Len(c) PROVE f[Len(p) + (l - k)] = c[l]
  <2>1. l - k \in 1..Len(e)
    BY <1>1, <1>4
  <2>2. e[l - k] = c[l]
    BY <1>3 DEF BeyondAt
  <2>3. (p \o e)[Len(p) + (l - k)] = e[l - k]
    BY <1>5, <2>1
  <2> QED BY <1>2, <2>2, <2>3
<1> QED BY <1>2, <1>4, <1>5, <1>6 DEF Together

(* Two sequences of the same prefix and the same rest are the same.        *)
LEMMA TogetherIsOne ==
  ASSUME NEW c \in Seq(Chain!Node), NEW p \in Seq(Chain!Node), NEW k \in Nat, k <= Len(c),
         NEW f, Together(f, p, c, k), NEW d, Together(d, p, c, k)
  PROVE  f = d
<1>1. Len(c) \in Nat /\ Len(p) \in Nat
  BY ItemsAre
<1>2. f \in Seq(Chain!Node) /\ d \in Seq(Chain!Node) /\ Len(f) = Len(d) /\ Len(f) = Len(p) + (Len(c) - k)
  BY DEF Together
<1>3. ASSUME NEW l \in 1..Len(f) PROVE f[l] = d[l]
  <2>1. CASE l <= Len(p)
    <3>1. l \in 1..Len(p)
      BY <1>1, <1>2, <2>1
    <3> QED BY <3>1 DEF Together
  <2>2. CASE l > Len(p)
    <3>1. PICK x : x = l - Len(p) + k
      OBVIOUS
    <3>2. x \in (k + 1)..Len(c) /\ Len(p) + (x - k) = l
      BY <1>1, <1>2, <2>2, <3>1
    <3>3. f[Len(p) + (x - k)] = c[x] /\ d[Len(p) + (x - k)] = c[x]
      BY <3>2 DEF Together
    <3> QED BY <3>2, <3>3
  <2> QED BY <1>1, <1>2, <2>1, <2>2
<1> QED BY <1>2, <1>3, SameItems

(* k items are behind us in c, and the j-th is next.                       *)
NextIs(c, k, j) == c \in Seq(Chain!Node) /\ k \in Nat /\ k < Len(c) /\ j = k + 1

JoinsPrefix(c, p, k, j, r) == r \in Seq(Chain!Node) /\ r \o Beyond(c, j) = p \o Beyond(c, k)

LeavesFirst(c, p, f, n, o, j) ==
  /\ Chain!S!Without(f, n, o) = p \o Beyond(c, j) /\ f[n + 1] = c[j]
  /\ n \in 0..(Len(f) - 1) /\ f \in Seq(Chain!Node)

(* The next item joins the prefix: nothing has changed.                    *)
LEMMA KeepsNext ==
  ASSUME NEW c, NEW k, NEW j, NextIs(c, k, j), NEW p, p \in Seq(Chain!Node), NEW r, r = Append(p, c[j])
  PROVE  JoinsPrefix(c, p, k, j, r)
<1>0. c \in Seq(Chain!Node) /\ k \in Nat /\ k < Len(c) /\ j = k + 1
  BY DEF NextIs
<1>1. Len(c) \in Nat /\ Len(p) \in Nat /\ j \in 1..Len(c)
  BY <1>0, ItemsAre
<1>2. c[j] \in Chain!Node
  BY <1>0, <1>1, ItemsAre
<1>3. r \in Seq(Chain!Node) /\ Len(r) = Len(p) + 1 /\ r[Len(p) + 1] = c[j] /\ \A l \in 1..Len(p) : r[l] = p[l]
  BY <1>0, <1>1, <1>2
<1>4. PICK f : f = p \o Beyond(c, k)
  OBVIOUS
<1>5. PICK d : d = r \o Beyond(c, j)
  OBVIOUS
<1>6. Together(f, p, c, k)
  <2>1. k <= Len(c)
    BY <1>0, <1>1
  <2> QED BY <1>0, <1>4, <2>1, PrefixAndRest
<1>7. Together(d, r, c, j)
  <2>1. j \in Nat /\ j <= Len(c)
    BY <1>0, <1>1
  <2> QED BY <1>0, <1>3, <1>5, <2>1, PrefixAndRest
<1>8. Together(d, p, c, k)
  <2>1. d \in Seq(Chain!Node) /\ Len(d) = Len(p) + (Len(c) - k)
    BY <1>0, <1>1, <1>3, <1>7 DEF Together
  <2>2. ASSUME NEW l \in 1..Len(p) PROVE d[l] = p[l]
    <3>1. l \in 1..Len(r)
      BY <1>0, <1>1, <1>3
    <3> QED BY <1>3, <1>7, <3>1 DEF Together
  <2>3. ASSUME NEW l \in (k + 1)..Len(c) PROVE d[Len(p) + (l - k)] = c[l]
    <3>1. CASE l = j
      <4>1. Len(p) + (l - k) = Len(p) + 1 /\ Len(p) + 1 \in 1..Len(r)
        BY <1>0, <1>1, <1>3, <3>1
      <4> QED BY <1>3, <1>7, <3>1, <4>1 DEF Together
    <3>2. CASE l # j
      <4>1. l \in (j + 1)..Len(c) /\ Len(p) + (l - k) = Len(r) + (l - j)
        BY <1>0, <1>1, <1>3, <3>2
      <4>2. d[Len(r) + (l - j)] = c[l]
        BY <1>7, <4>1 DEF Together
      <4> QED BY <4>1, <4>2
    <3> QED BY <3>1, <3>2
  <2> QED BY <2>1, <2>2, <2>3 DEF Together
<1>9. f = d
  <2>1. k <= Len(c)
    BY <1>0, <1>1
  <2> QED BY <1>0, <1>6, <1>8, <2>1, TogetherIsOne
<1> QED BY <1>3, <1>4, <1>5, <1>9 DEF JoinsPrefix

(* The next item is taken out.                                             *)
LEMMA DropsNext ==
  ASSUME NEW c, NEW k, NEW j, NextIs(c, k, j), NEW p, p \in Seq(Chain!Node),
         NEW f, f = p \o Beyond(c, k), NEW n, n = Len(p), NEW o, o = 1
  PROVE  LeavesFirst(c, p, f, n, o, j)
<1>0. c \in Seq(Chain!Node) /\ k \in Nat /\ k < Len(c) /\ j = k + 1
  BY DEF NextIs
<1>1. Len(c) \in Nat /\ Len(p) \in Nat /\ j \in 1..Len(c)
  BY <1>0, ItemsAre
<1>2. Together(f, p, c, k)
  <2>1. k <= Len(c)
    BY <1>0, <1>1
  <2> QED BY <1>0, <2>1, PrefixAndRest
<1>3. f \in Seq(Chain!Node) /\ n \in 0..(Len(f) - 1) /\ Fits(f, n, o)
  BY <1>0, <1>1, <1>2 DEF Together, Fits
<1>4. f[n + 1] = c[j]
  <2>1. j \in (k + 1)..Len(c) /\ Len(p) + (j - k) = n + 1
    BY <1>0, <1>1
  <2> QED BY <1>2, <2>1 DEF Together
<1>5. PICK d : d = Chain!S!Without(f, n, o)
  OBVIOUS
<1>6. CutAt(d, f, n, o)
  <2>1. n \in Nat /\ o \in Nat /\ n + o <= Len(f)
    BY <1>3 DEF Fits
  <2> QED BY <1>3, <1>5, <2>1, WithoutIs
<1>7. Together(d, p, c, j)
  <2>1. d \in Seq(Chain!Node) /\ Len(d) = Len(p) + (Len(c) - j)
    BY <1>0, <1>1, <1>2, <1>6 DEF CutAt, Together
  <2>2. ASSUME NEW l \in 1..Len(p) PROVE d[l] = p[l]
    BY <1>2, <1>6 DEF CutAt, Together
  <2>3. ASSUME NEW l \in (j + 1)..Len(c) PROVE d[Len(p) + (l - j)] = c[l]
    <3>1. PICK x : x = Len(p) + (l - k)
      OBVIOUS
    <3>2. l \in (k + 1)..Len(c) /\ x \in (n + o + 1)..Len(f) /\ x - o = Len(p) + (l - j)
      BY <1>0, <1>1, <1>2, <3>1 DEF Together
    <3>3. d[x - o] = f[x]
      BY <1>6, <3>2 DEF CutAt
    <3>4. f[x] = c[l]
      BY <1>2, <3>1, <3>2 DEF Together
    <3> QED BY <3>2, <3>3, <3>4
  <2> QED BY <2>1, <2>2, <2>3 DEF Together
<1>8. PICK y : y = p \o Beyond(c, j)
  OBVIOUS
<1>9. j \in Nat /\ j <= Len(c)
  BY <1>0, <1>1
<1>10. Together(y, p, c, j)
  BY <1>0, <1>8, <1>9, PrefixAndRest
<1>11. d = y
  BY <1>0, <1>7, <1>9, <1>10, TogetherIsOne
<1> QED BY <1>3, <1>4, <1>5, <1>8, <1>11 DEF LeavesFirst

-----------------------------------------------------------------------------
(* The first k items of c have been swept over: those not in M are p.      *)
Swept(s, u, c, M, p, k) ==
  /\ p \in Seq(Chain!Node) /\ Stands(u, p \o Beyond(c, k)) /\ Safe(s, u)
  /\ \A l \in (k + 1)..Len(c) : c[l] \in u.removed <=> c[l] \in M

(* What is kept once the j-th item of c has been seen.                     *)
KeepStep(c, M, p, j) == IF c[j] \in M THEN p ELSE Append(p, c[j])

(* One step of the sweep.                                                  *)
LEMMA SweepsNext ==
  ASSUME NEW c, NEW k, NEW j, NextIs(c, k, j), Distinct(c), NEW M, c[Len(c)] \notin M, NEW s, NEW u, NEW p, Swept(s, u, c, M, p, k), NEW w, w = Chain!SweepStep(u, c[j]),
         NEW r, r = KeepStep(c, M, p, j)
  PROVE  Swept(s, w, c, M, r, j)
<1>0. c \in Seq(Chain!Node) /\ k \in Nat /\ k < Len(c) /\ j = k + 1
  BY DEF NextIs
<1>1. Len(c) \in Nat /\ j \in 1..Len(c) /\ j \in (k + 1)..Len(c)
  BY <1>0, ItemsAre
<1>2. PICK f : f = p \o Beyond(c, k)
  OBVIOUS
<1>3. p \in Seq(Chain!Node) /\ Safe(s, u) /\ \A l \in (k + 1)..Len(c) : c[l] \in u.removed <=> c[l] \in M
  BY DEF Swept
<1>4. PICK C : Listed(u, C, f)
  BY <1>2 DEF Swept, Stands
<1>5. c[j] \in u.removed <=> c[j] \in M
  BY <1>1, <1>3
<1>6. PICK n : n = Len(p)
  OBVIOUS
<1>7. PICK o : o = 1
  OBVIOUS
<1>8. Chain!S!Without(f, n, o) = p \o Beyond(c, j) /\ f[n + 1] = c[j] /\ n \in 0..(Len(f) - 1) /\ f \in Seq(Chain!Node)
  <2>1. LeavesFirst(c, p, f, n, o, j)
    BY <1>2, <1>3, <1>6, <1>7, DropsNext
  <2> QED BY <2>1 DEF LeavesFirst
<1>9. \A l \in (j + 1)..Len(c) : l \in (k + 1)..Len(c) /\ l \in 1..Len(c) /\ c[l] # c[j]
  BY <1>0, <1>1 DEF Distinct
<1>10. CASE c[j] \notin M
  <2>1. w = u
    BY <1>5, <1>10 DEF Chain!SweepStep
  <2>2. r \in Seq(Chain!Node) /\ r \o Beyond(c, j) = f
    <3>1. r = Append(p, c[j])
      BY <1>10 DEF KeepStep
    <3>2. JoinsPrefix(c, p, k, j, r)
      BY <1>3, <3>1, KeepsNext
    <3> QED BY <1>2, <3>2 DEF JoinsPrefix
  <2>3. Stands(w, r \o Beyond(c, j))
    BY <1>4, <2>1, <2>2 DEF Stands
  <2> QED BY <1>3, <1>9, <2>1, <2>2, <2>3 DEF Swept
<1>11. CASE c[j] \in M
  <2>1. f # <<>>
    <3>1. Len(f) # 0 /\ Len(f) \in Nat
      BY <1>8, ItemsAre
    <3> QED BY <1>8, <3>1, NoItems
  <2>2. u \in Memory /\ Linked(u, f)
    BY <1>4, <2>1, ListIs
  <2>3. j # Len(c)
    BY <1>0, <1>11
  <2>4. n + 1 \in 1..Len(f) /\ n + 1 < Len(f)
    <3>1. k <= Len(c)
      BY <1>0, <1>1
    <3>2. Together(f, p, c, k)
      BY <1>0, <1>2, <1>3, <3>1, PrefixAndRest
    <3>3. Len(f) = n + (Len(c) - k) /\ n \in Nat
      BY <1>3, <1>6, <3>2, ItemsAre DEF Together
    <3> QED BY <1>0, <1>1, <2>3, <3>3
  <2>5. u.next[c[j]] # 0
    <3>1. PICK x : x = n + 1
      OBVIOUS
    <3>2. u.next[f[x]] = f[x + 1] /\ x + 1 \in 1..Len(f)
      BY <2>2, <2>4, <3>1, Ends
    <3>3. f[x + 1] # 0
      BY <2>2, <3>2, Ends
    <3> QED BY <1>8, <3>1, <3>2, <3>3
  <2>6. w = Chain!DList_remove_item(u, f[n + 1])
    BY <1>5, <1>8, <1>11, <2>5 DEF Chain!SweepStep
  <2>7. Removes(u, w, f, n)
    BY <1>4, <1>8, <2>1, <2>6, RemoveItemIs
  <2>8. Stands(w, p \o Beyond(c, j)) /\ Safe(u, w) /\ w.removed = u.removed \ {c[j]}
    BY <1>7, <1>8, <2>7 DEF Removes
  <2>9. r = p
    BY <1>11 DEF KeepStep
  <2>10. Safe(s, w)
    BY <1>3, <2>8 DEF Safe
  <2>11. \A l \in (j + 1)..Len(c) : c[l] \in w.removed <=> c[l] \in M
    BY <1>3, <1>9, <2>8
  <2> QED BY <1>3, <2>8, <2>9, <2>10, <2>11 DEF Swept
<1> QED BY <1>10, <1>11

(* The runs of DList_remove_marked_items and of the sequence's sweep.      *)
SweepRun(s, c, n, g) == g = [k \in 0..n |-> IF k = 0 THEN s ELSE Chain!SweepStep(g[k - 1], c[k])]
KeptRun(c, M, n, g) ==
  g = [k \in 0..n |-> IF k = 0 THEN <<>> ELSE IF c[k] \in M THEN g[k - 1] ELSE Append(g[k - 1], c[k])]

(* They exist.                                                             *)
LEMMA SweepRuns ==
  ASSUME NEW s, NEW c, NEW n \in Nat
  PROVE  \E g : SweepRun(s, c, n, g)
<1> DEFINE T == {j \in Nat : ~ \E g : SweepRun(s, c, j, g)}
<1>1. ASSUME T # {} PROVE FALSE
  <2>1. T \subseteq Nat
    OBVIOUS
  <2> HIDE DEF T
  <2>2. PICK j \in T : \A l \in T : j <= l
    BY <1>1, <2>1, LeastOf
  <2>3. j \in Nat /\ ~ \E g : SweepRun(s, c, j, g)
    BY <2>2 DEF T
  <2>4. CASE j = 0
    <3>1. SweepRun(s, c, j, [k \in 0..j |-> s])
      BY <2>4 DEF SweepRun
    <3> QED BY <2>3, <3>1
  <2>5. CASE j # 0
    <3>1. j - 1 \in Nat /\ j - 1 \notin T
      BY <2>2, <2>3, <2>5
    <3>2. PICK g : SweepRun(s, c, j - 1, g)
      BY <3>1 DEF T
    <3>3. PICK f : f = [k \in 0..j |-> IF k = j THEN Chain!SweepStep(g[j - 1], c[j]) ELSE g[k]]
      OBVIOUS
    <3>4. ASSUME NEW k \in 0..j PROVE f[k] = IF k = 0 THEN s ELSE Chain!SweepStep(f[k - 1], c[k])
      <4>1. CASE k = j
        <5>1. j - 1 \in 0..j /\ j - 1 # j
          BY <2>3, <2>5
        <5>2. f[j - 1] = g[j - 1]
          BY <3>3, <5>1
        <5>3. f[j] = Chain!SweepStep(g[j - 1], c[j])
          BY <2>3, <3>3
        <5> QED BY <2>5, <4>1, <5>2, <5>3
      <4>2. CASE k # j
        <5>1. k \in 0..(j - 1) /\ f[k] = g[k]
          BY <2>3, <3>3, <4>2
        <5>2. g[k] = IF k = 0 THEN s ELSE Chain!SweepStep(g[k - 1], c[k])
          BY <3>2, <5>1 DEF SweepRun
        <5>3. k # 0 => f[k - 1] = g[k - 1]
          <6>1. k # 0 => k - 1 \in 0..j /\ k - 1 # j
            BY <2>3, <5>1
          <6> QED BY <3>3, <6>1
        <5> QED BY <5>1, <5>2, <5>3
      <4> QED BY <4>1, <4>2
    <3>5. f = [k \in 0..j |-> f[k]]
      BY <3>3
    <3>6. SweepRun(s, c, j, f)
      BY <3>4, <3>5 DEF SweepRun
    <3> QED BY <2>3, <3>6
  <2> QED BY <2>4, <2>5
<1> QED BY <1>1

(* The other one.                                                          *)
LEMMA KeptRuns ==
  ASSUME NEW c, NEW M, NEW n \in Nat
  PROVE  \E g : KeptRun(c, M, n, g)
<1> DEFINE T == {j \in Nat : ~ \E g : KeptRun(c, M, j, g)}
<1>1. ASSUME T # {} PROVE FALSE
  <2>1. T \subseteq Nat
    OBVIOUS
  <2> HIDE DEF T
  <2>2. PICK j \in T : \A l \in T : j <= l
    BY <1>1, <2>1, LeastOf
  <2>3. j \in Nat /\ ~ \E g : KeptRun(c, M, j, g)
    BY <2>2 DEF T
  <2>4. CASE j = 0
    <3>1. KeptRun(c, M, j, [k \in 0..j |-> <<>>])
      BY <2>4 DEF KeptRun
    <3> QED BY <2>3, <3>1
  <2>5. CASE j # 0
    <3>1. j - 1 \in Nat /\ j - 1 \notin T
      BY <2>2, <2>3, <2>5
    <3>2. PICK g : KeptRun(c, M, j - 1, g)
      BY <3>1 DEF T
    <3>3. PICK last : last = IF c[j] \in M THEN g[j - 1] ELSE Append(g[j - 1], c[j])
      OBVIOUS
    <3>4. PICK f : f = [k \in 0..j |-> IF k = j THEN last ELSE g[k]]
      OBVIOUS
    <3>5. ASSUME NEW k \in 0..j
          PROVE  f[k] = IF k = 0 THEN <<>> ELSE IF c[k] \in M THEN f[k - 1] ELSE Append(f[k - 1], c[k])
      <4>1. CASE k = j
        <5>1. j - 1 \in 0..j /\ j - 1 # j
          BY <2>3, <2>5
        <5>2. f[j - 1] = g[j - 1]
          BY <3>4, <5>1
        <5>3. f[j] = last
          BY <2>3, <3>4
        <5> QED BY <2>5, <3>3, <4>1, <5>2, <5>3
      <4>2. CASE k # j
        <5>1. k \in 0..(j - 1) /\ f[k] = g[k]
          BY <2>3, <3>4, <4>2
        <5>2. g[k] = IF k = 0 THEN <<>> ELSE IF c[k] \in M THEN g[k - 1] ELSE Append(g[k - 1], c[k])
          BY <3>2, <5>1 DEF KeptRun
        <5>3. k # 0 => f[k - 1] = g[k - 1]
          <6>1. k # 0 => k - 1 \in 0..j /\ k - 1 # j
            BY <2>3, <5>1
          <6> QED BY <3>4, <6>1
        <5> QED BY <5>1, <5>2, <5>3
      <4> QED BY <4>1, <4>2
    <3>6. f = [k \in 0..j |-> f[k]]
      BY <3>4
    <3>7. KeptRun(c, M, j, f)
      BY <3>5, <3>6 DEF KeptRun
    <3> QED BY <2>3, <3>7
  <2> QED BY <2>4, <2>5
<1> QED BY <1>1

(* The items of c that are not in M.                                       *)
KeptOf(c, M) == (CHOOSE g : KeptRun(c, M, Len(c), g))[Len(c)]

(* The whole of c behind none of its items, and none behind all.           *)
LEMMA BeyondEdges ==
  ASSUME NEW c \in Seq(Chain!Node), NEW p \in Seq(Chain!Node)
  PROVE  p \o Beyond(c, Len(c)) = p /\ <<>> \o Beyond(c, 0) = c
<1>1. Len(c) \in Nat /\ Len(p) \in Nat /\ <<>> \in Seq(Chain!Node) /\ Len(<<>>) = 0
  BY ItemsAre, EmptySeq
<1>2. p \o Beyond(c, Len(c)) = p
  <2>1. PICK n : n = Len(c)
    OBVIOUS
  <2>2. PICK f : f = p \o Beyond(c, n)
    OBVIOUS
  <2>3. n \in Nat /\ n <= Len(c)
    BY <1>1, <2>1
  <2>4. Together(f, p, c, n)
    BY <2>2, <2>3, PrefixAndRest
  <2>5. f \in Seq(Chain!Node) /\ Len(f) = Len(p) /\ \A l \in 1..Len(p) : f[l] = p[l]
    BY <1>1, <2>1, <2>4 DEF Together
  <2>6. f = p
    BY <2>5, SameItems
  <2> QED BY <2>1, <2>2, <2>6
<1>3. <<>> \o Beyond(c, 0) = c
  <2>1. PICK z : z = 0
    OBVIOUS
  <2>2. PICK q : q = <<>>
    OBVIOUS
  <2>3. PICK f : f = q \o Beyond(c, z)
    OBVIOUS
  <2>4. z \in Nat /\ z <= Len(c) /\ q \in Seq(Chain!Node) /\ Len(q) = 0
    BY <1>1, <2>1, <2>2
  <2>5. Together(f, q, c, z)
    BY <2>3, <2>4, PrefixAndRest
  <2>6. f \in Seq(Chain!Node) /\ Len(f) = Len(c)
    BY <1>1, <2>1, <2>4, <2>5 DEF Together
  <2>7. ASSUME NEW l \in 1..Len(f) PROVE f[l] = c[l]
    <3>1. l \in (z + 1)..Len(c) /\ Len(q) + (l - z) = l
      BY <1>1, <2>1, <2>4, <2>6
    <3> QED BY <2>5, <3>1 DEF Together
  <2>8. f = c
    BY <2>6, <2>7, SameItems
  <2> QED BY <2>1, <2>2, <2>3, <2>8
<1> QED BY <1>2, <1>3

(* The list as the sweep sees it.                                          *)
LEMMA ChainOfList ==
  ASSUME NEW s, NEW C, NEW c, Listed(s, C, c)
  PROVE  Chain!Chain(s, s.begin) = c /\ c \in Seq(Chain!Node) /\ Distinct(c) /\ Len(c) \in Nat
<1>1. CASE c # <<>>
  BY <1>1, ListIs, ChainIs, Ends
<1>2. CASE c = <<>>
  <2>1. s.begin = 0
    BY <1>2 DEF Listed
  <2>2. Chain!Chain(s, s.begin) = <<>>
    <3>1. Chain!Chain(s, s.begin) = [k \in 1..0 |-> Chain!Walk(s.next, s.begin, k - 1)]
      BY <2>1 DEF Chain!Chain
    <3>2. 1..0 = {}
      OBVIOUS
    <3> QED BY <3>1, <3>2
  <2>3. <<>> \in Seq(Chain!Node) /\ Len(<<>>) = 0
    BY EmptySeq
  <2>4. Distinct(c) /\ Len(c) \in Nat
    BY <1>2, <2>3 DEF Distinct
  <2> QED BY <1>2, <2>2, <2>3, <2>4
<1> QED BY <1>1, <1>2

(* DList_remove_marked_items, the last item not being marked.              *)
LEMMA SweepIs ==
  ASSUME NEW s, NEW C, NEW c, Listed(s, C, c), s.end \notin s.removed,
         NEW t, t = Chain!DList_remove_marked_items(s), s.pending
  PROVE  Stands(t, KeptOf(c, s.removed)) /\ Safe(s, t)
<1>1. Chain!Chain(s, s.begin) = c /\ c \in Seq(Chain!Node) /\ Distinct(c) /\ Len(c) \in Nat
  BY ChainOfList
<1>2. PICK n : n = Len(c)
  OBVIOUS
<1>3. PICK M : M = s.removed
  OBVIOUS
<1>4. PICK g : g = CHOOSE f : SweepRun(s, c, n, f)
  OBVIOUS
<1>5. PICK x : x = CHOOSE f : KeptRun(c, M, n, f)
  OBVIOUS
<1>6. SweepRun(s, c, n, g)
  <2>1. \E f : SweepRun(s, c, n, f)
    BY <1>1, <1>2, SweepRuns
  <2> QED BY <1>4, <2>1
<1>7. KeptRun(c, M, n, x)
  <2>1. \E f : KeptRun(c, M, n, f)
    BY <1>1, <1>2, KeptRuns
  <2> QED BY <1>5, <2>1
<1>8. t = g[n]
  <2>1. Chain!DList_remove_marked_items(s) =
          (CHOOSE f : SweepRun(s, Chain!Chain(s, s.begin), Len(Chain!Chain(s, s.begin)), f))[Len(Chain!Chain(s, s.begin))]
    BY DEF Chain!DList_remove_marked_items, SweepRun
  <2> QED BY <1>1, <1>2, <1>4, <2>1
<1>9. KeptOf(c, M) = x[n]
  BY <1>2, <1>5 DEF KeptOf
<1>10. Swept(s, g[0], c, M, x[0], 0)
  <2>1. g[0] = s /\ x[0] = <<>>
    BY <1>1, <1>2, <1>6, <1>7 DEF SweepRun, KeptRun
  <2>2. <<>> \o Beyond(c, 0) = c /\ <<>> \in Seq(Chain!Node)
    BY <1>1, BeyondEdges, EmptySeq
  <2> QED BY <1>3, <2>1, <2>2 DEF Swept, Stands, Safe
<1>11. Len(c) # 0 => c[Len(c)] \notin M
  <2>1. ASSUME Len(c) # 0 PROVE s.end = c[Len(c)]
    <3>1. c # <<>>
      BY <1>1, <2>1, NoItems
    <3> QED BY <3>1, ListIs
  <2> QED BY <1>3, <2>1
<1> DEFINE T == {j \in 0..n : ~ Swept(s, g[j], c, M, x[j], j)}
<1>12. ASSUME T # {} PROVE FALSE
  <2>1. T \subseteq Nat
    OBVIOUS
  <2> HIDE DEF T
  <2>2. PICK j \in T : \A l \in T : j <= l
    BY <1>12, <2>1, LeastOf
  <2>3. j \in 0..n /\ ~ Swept(s, g[j], c, M, x[j], j)
    BY <2>2 DEF T
  <2>4. j # 0
    BY <1>10, <2>3
  <2>5. PICK k : k = j - 1
    OBVIOUS
  <2>6. k \in Nat /\ k < Len(c) /\ j = k + 1 /\ k \in 0..n /\ k < j /\ Len(c) # 0
    BY <1>1, <1>2, <2>3, <2>4, <2>5
  <2>7. Swept(s, g[k], c, M, x[k], k)
    BY <2>2, <2>6 DEF T
  <2>8. g[j] = Chain!SweepStep(g[k], c[j])
    BY <1>6, <2>3, <2>4, <2>5 DEF SweepRun
  <2>9. x[j] = IF c[j] \in M THEN x[k] ELSE Append(x[k], c[j])
    BY <1>7, <2>3, <2>4, <2>5 DEF KeptRun
  <2>10. Swept(s, g[j], c, M, x[j], j)
    <3>1. c[Len(c)] \notin M
      BY <1>11, <2>6
    <3>2. NextIs(c, k, j)
      BY <1>1, <2>6 DEF NextIs
    <3>3. PICK u : u = g[k]
      OBVIOUS
    <3>4. PICK w : w = Chain!SweepStep(u, c[j])
      OBVIOUS
    <3>5. PICK p : p = x[k]
      OBVIOUS
    <3>6. PICK r : r = KeepStep(c, M, p, j)
      OBVIOUS
    <3>7. Swept(s, u, c, M, p, k)
      BY <2>7, <3>3, <3>5
    <3>8. Swept(s, w, c, M, r, j)
      BY <1>1, <3>1, <3>2, <3>4, <3>6, <3>7, SweepsNext
    <3>9. w = g[j] /\ r = x[j]
      BY <2>8, <2>9, <3>3, <3>4, <3>5, <3>6 DEF KeepStep
    <3> QED BY <3>8, <3>9
  <2> QED BY <2>3, <2>10
<1>13. Swept(s, g[n], c, M, x[n], n)
  <2>1. n \in 0..n
    BY <1>1, <1>2
  <2> QED BY <1>12, <2>1
<1>14. Stands(t, x[n]) /\ Safe(s, t)
  <2>1. x[n] \in Seq(Chain!Node) /\ Stands(t, x[n] \o Beyond(c, n)) /\ Safe(s, t)
    BY <1>8, <1>13 DEF Swept
  <2>2. x[n] \o Beyond(c, n) = x[n]
    BY <1>1, <1>2, <2>1, BeyondEdges
  <2> QED BY <2>1, <2>2
<1> QED BY <1>3, <1>9, <1>14

-----------------------------------------------------------------------------
(* What may become of the sequence of items: a chain comes in, a block     *)
(* leaves or moves, the items in M leave, or nothing happens.              *)
Enters(c, d) ==
  \E k \in 0..Len(c) : \E e \in Seq(Chain!Node) :
    Len(e) >= 1 /\ Distinct(e) /\ Of(c) \cap Of(e) = {} /\ d = Chain!S!Spliced(c, k, e)
Exits(c, d) == \E k, n : Fits(c, k, n) /\ d = Chain!S!Without(c, k, n)
Evolves(M, c, d) == Enters(c, d) \/ Exits(c, d) \/ Shifted(c, d) \/ d = KeptOf(c, M)

(* A call: the list stands, references are right, and the sequence evolves.*)
Goes(s, t, c) == \E d : Stands(t, d) /\ Safe(s, t) /\ Evolves(s.removed, c, d)

(* A call that leaves the sequence alone.                                  *)
LEMMA GoesNowhere ==
  ASSUME NEW s, NEW t, NEW c, Stands(t, c), Safe(s, t) PROVE Goes(s, t, c)
BY DEF Goes, Evolves, Shifted

(* A chain that is not in the list enters it.                              *)
LEMMA GoesIn ==
  ASSUME NEW s, NEW C, NEW c, Listed(s, C, c), NEW e \in C, Of(e) \cap s.mine = {}, NEW k \in 0..Len(c),
         NEW d, d = Chain!S!Spliced(c, k, e), NEW t, Stands(t, d), Safe(s, t)
  PROVE  Goes(s, t, c)
<1>1. s \in Memory /\ InChains(s, C)
  BY DEF Listed
<1>2. Linked(s, e)
  BY <1>1 DEF InChains
<1>3. e \in Seq(Chain!Node) /\ Len(e) >= 1 /\ Distinct(e)
  BY <1>2 DEF Linked
<1>4. Of(c) \cap Of(e) = {}
  <2>1. CASE c # <<>>
    <3>1. s.mine = Of(c)
      BY <2>1, ListIs
    <3> QED BY <3>1
  <2>2. CASE c = <<>>
    <3>1. Of(c) = {}
      BY <2>2 DEF Of
    <3> QED BY <3>1
  <2> QED BY <2>1, <2>2
<1>5. Enters(c, d)
  BY <1>3, <1>4 DEF Enters
<1> QED BY <1>5 DEF Goes, Evolves

(* What a call on a chain outside of the list needs to know.               *)
Outside(s, C, c, x, e) ==
  /\ e \in C /\ x \in Of(e) /\ e # c /\ Of(e) \cap s.mine = {} /\ AsOne(s, e)
  /\ Linked(s, e) /\ Chain!ChainOf(s, x) = e

(* Every item that belongs to no list has such a chain.                    *)
LEMMA OutsideIs ==
  ASSUME NEW s, NEW C, NEW c, Listed(s, C, c), NEW x \in Chain!Loose(s)
  PROVE  \E e : Outside(s, C, c, x, e)
<1>1. x \in s.live \ s.mine
  BY DEF Chain!Loose
<1> QED BY <1>1, LooseIs DEF Outside

(* newDListItem.                                                           *)
LEMMA NewItemGoes ==
  ASSUME NEW s, NEW C, NEW c, Listed(s, C, c), NEW a \in Chain!Node, a \notin s.live, s.refs[a] = 0,
         NEW old, old = 0 \/ old \in Chain!Loose(s), NEW t, t = Chain!newDListItem(s, a, old)
  PROVE  Goes(s, t, c)
<1>1. s \in Memory /\ InChains(s, C) /\ (c # <<>> => c \in C)
  BY DEF Listed
<1>2. CASE old = 0
  <2>1. Born(s, t, a) /\ InChains(t, C \cup {<<a>>})
    BY <1>1, <1>2, NewChain
  <2>2. t \in Memory /\ Edges(s, t) /\ t.mine = s.mine /\ Safe(s, t)
    BY <2>1 DEF Born, Safe
  <2>3. c # <<>> => c \in C \cup {<<a>>}
    BY <1>1
  <2>4. Stands(t, c)
    BY <2>1, <2>2, <2>3, SetAside
  <2> QED BY <2>2, <2>4, GoesNowhere
<1>3. CASE old \in Chain!Loose(s)
  <2>1. PICK e : Outside(s, C, c, old, e)
    BY <1>3, OutsideIs
  <2>2. e \in C /\ e # c /\ old \in Of(e)
    BY <2>1 DEF Outside
  <2>3. PICK k \in 1..Len(e) : old = e[k]
    BY <2>2 DEF Of
  <2>4. PICK D : D = (C \ {e}) \cup {Chain!S!Spliced(e, k, <<a>>)}
    OBVIOUS
  <2>5. t = Chain!newDListItem(s, a, e[k])
    BY <2>3
  <2>6. Born(s, t, a) /\ InChains(t, D)
    BY <1>1, <2>2, <2>4, <2>5, NewBehind
  <2>7. t \in Memory /\ Edges(s, t) /\ t.mine = s.mine /\ Safe(s, t)
    BY <2>6 DEF Born, Safe
  <2>8. c # <<>> => c \in D
    BY <1>1, <2>2, <2>4
  <2>9. Stands(t, c)
    BY <2>6, <2>7, <2>8, SetAside
  <2> QED BY <2>7, <2>9, GoesNowhere
<1> QED BY <1>2, <1>3

(* delDListItem and delDListItem_all, outside of the list.                 *)
LEMMA DeleteLooseGoes ==
  ASSUME NEW s, NEW C, NEW c, Listed(s, C, c), NEW a \in Chain!Loose(s),
         NEW t, t = Chain!delDListItem(s, a) \/ t = Chain!delDListItem_all(s, a)
  PROVE  Goes(s, t, c)
<1>1. PICK e : Outside(s, C, c, a, e)
  BY OutsideIs
<1>2. e \in C /\ e # c /\ a \in Of(e) /\ Of(e) \cap s.mine = {}
  BY <1>1 DEF Outside
<1>3. CASE t = Chain!delDListItem(s, a)
  BY <1>2, <1>3, LooseItemDies, GoesNowhere
<1>4. CASE t = Chain!delDListItem_all(s, a)
  BY <1>2, <1>4, LooseChainDies, GoesNowhere
<1> QED BY <1>3, <1>4

(* DListItem_insert_after and DListItem_insert_before, outside of the list.*)
LEMMA JoinLooseGoes ==
  ASSUME NEW s, NEW C, NEW c, Listed(s, C, c), NEW a \in Chain!Loose(s), NEW x \in Chain!Loose(s),
         x \notin Chain!ToSet(Chain!ChainOf(s, a)),
         NEW t, t = Chain!DListItem_insert_after(s, a, x) \/ (s.prev[a] # 0 /\ t = Chain!DListItem_insert_before(s, a, x))
  PROVE  Goes(s, t, c)
<1>1. s \in Memory /\ InChains(s, C)
  BY DEF Listed
<1>2. PICK g : Outside(s, C, c, a, g)
  BY OutsideIs
<1>3. PICK e : Outside(s, C, c, x, e)
  BY OutsideIs
<1>4. g \in C /\ g # c /\ a \in Of(g) /\ Linked(s, g) /\ Chain!ChainOf(s, a) = g
  BY <1>2 DEF Outside
<1>5. e \in C /\ e # c /\ x \in Of(e) /\ Linked(s, e) /\ Of(e) \cap s.mine = {} /\ AsOne(s, e)
  BY <1>3 DEF Outside
<1>6. g \in Seq(Chain!Node) /\ Len(g) \in Nat
  BY <1>1, <1>4, Ends
<1>7. x \notin Of(g)
  <2>1. Chain!ToSet(g) = Of(g)
    BY <1>6, ItemsAre DEF Chain!ToSet, Of
  <2> QED BY <1>4, <2>1
<1>8. e # g
  BY <1>5, <1>7
<1>9. Of(g) \cap Of(e) = {}
  BY <1>1, <1>4, <1>5, <1>8 DEF InChains
<1>10. a \notin s.mine
  BY DEF Chain!Loose
<1>11. PICK j \in 1..Len(g) : a = g[j]
  BY <1>4 DEF Of
<1>12. CASE t = Chain!DListItem_insert_after(s, a, x)
  <2>1. EntersAt(s, t, g, j, e, a)
    BY <1>1, <1>4, <1>5, <1>9, <1>11, <1>12, InsertsAfter
  <2>2. j \in 0..Len(g)
    BY <1>6
  <2>3. Stands(t, c) /\ Safe(s, t)
    BY <1>4, <1>5, <1>8, <1>10, <2>1, <2>2, LooseJoins
  <2> QED BY <2>3, GoesNowhere
<1>13. CASE s.prev[a] # 0 /\ t = Chain!DListItem_insert_before(s, a, x)
  <2>1. j # 1
    BY <1>1, <1>4, <1>11, <1>13, Ends
  <2>2. PICK k : k = j - 1
    OBVIOUS
  <2>3. k \in 1..(Len(g) - 1) /\ k + 1 = j /\ k \in 0..Len(g)
    BY <1>6, <2>1, <2>2
  <2>4. t = Chain!DListItem_insert_before(s, g[k + 1], x)
    BY <1>11, <1>13, <2>3
  <2>5. EntersAt(s, t, g, k, e, g[k + 1])
    BY <1>1, <1>4, <1>5, <1>9, <2>3, <2>4, InsertsBefore
  <2>6. EntersAt(s, t, g, k, e, a)
    BY <1>11, <2>3, <2>5
  <2>7. Stands(t, c) /\ Safe(s, t)
    BY <1>4, <1>5, <1>8, <1>10, <2>3, <2>6, LooseJoins
  <2> QED BY <2>7, GoesNowhere
<1> QED BY <1>12, <1>13

(* DList_push_back and DList_push_forward.                                 *)
LEMMA PushGoes ==
  ASSUME NEW s, NEW C, NEW c, Listed(s, C, c), NEW x \in Chain!Loose(s),
         NEW t, t = Chain!DList_push_back(s, x) \/ t = Chain!DList_push_forward(s, x)
  PROVE  Goes(s, t, c)
<1>1. PICK e : Outside(s, C, c, x, e)
  BY OutsideIs
<1>2. e \in C /\ e # c /\ x \in Of(e) /\ Of(e) \cap s.mine = {}
  BY <1>1 DEF Outside
<1>3. c \in Seq(Chain!Node) /\ Len(c) \in Nat
  BY ChainOfList
<1>4. CASE t = Chain!DList_push_back(s, x)
  <2>1. PICK k : k = Len(c)
    OBVIOUS
  <2>2. PICK d : d = Chain!S!Spliced(c, k, e)
    OBVIOUS
  <2>3. Stands(t, Chain!S!Spliced(c, Len(c), e)) /\ Safe(s, t)
    BY <1>2, <1>4, PushBackIs
  <2>4. k \in 0..Len(c)
    BY <1>3, <2>1
  <2>5. Stands(t, d)
    BY <2>1, <2>2, <2>3
  <2> QED BY <1>2, <2>2, <2>3, <2>4, <2>5, GoesIn
<1>5. CASE t = Chain!DList_push_forward(s, x)
  <2>1. PICK k : k = 0
    OBVIOUS
  <2>2. PICK d : d = Chain!S!Spliced(c, k, e)
    OBVIOUS
  <2>3. Stands(t, Chain!S!Spliced(c, 0, e)) /\ Safe(s, t)
    BY <1>2, <1>5, PushForwardIs
  <2>4. k \in 0..Len(c)
    BY <1>3, <2>1
  <2>5. Stands(t, d)
    BY <2>1, <2>2, <2>3
  <2> QED BY <1>2, <2>2, <2>3, <2>4, <2>5, GoesIn
<1> QED BY <1>4, <1>5

(* DList_insert.                                                           *)
LEMMA InsertGoes ==
  ASSUME NEW s, NEW C, NEW c, Listed(s, C, c), NEW x \in Chain!Loose(s), NEW index \in Nat, Chain!Empty(s) \/ index > 0,
         NEW t, t = Chain!DList_insert(s, index, x)
  PROVE  Goes(s, t, c)
<1>1. PICK e : Outside(s, C, c, x, e)
  BY OutsideIs
<1>2. e \in C /\ e # c /\ x \in Of(e) /\ Of(e) \cap s.mine = {}
  BY <1>1 DEF Outside
<1>3. c \in Seq(Chain!Node) /\ Len(c) \in Nat
  BY ChainOfList
<1>4. c # <<>> => index > 0
  <2>1. ASSUME c # <<>> PROVE s.begin # 0
    BY <2>1, ListIs
  <2> QED BY <2>1 DEF Chain!Empty
<1>5. PICK k : k = Least(index, Len(c))
  OBVIOUS
<1>6. k \in 0..Len(c)
  BY <1>3, <1>5 DEF Least
<1>7. PICK d : d = Chain!S!Spliced(c, k, e)
  OBVIOUS
<1>8. Stands(t, Chain!S!Spliced(c, Least(index, Len(c)), e)) /\ Safe(s, t)
  BY <1>2, <1>4, InsertIs
<1>9. Stands(t, d)
  BY <1>5, <1>7, <1>8
<1> QED BY <1>2, <1>6, <1>7, <1>8, <1>9, GoesIn

(* DList_insert_before, behind the first item and with one.                *)
LEMMA InsertBeforeGoes ==
  ASSUME NEW s, NEW C, NEW c, Listed(s, C, c), NEW cur \in s.mine, NEW x \in Chain!Loose(s), cur # s.begin,
         Chain!DListItem_count(s, x) = 1, NEW t, t = Chain!DList_insert_before(s, cur, x)
  PROVE  Goes(s, t, c)
<1>1. PICK e : Outside(s, C, c, x, e)
  BY OutsideIs
<1>2. e \in C /\ e # c /\ x \in Of(e) /\ Of(e) \cap s.mine = {} /\ Linked(s, e)
  BY <1>1 DEF Outside
<1>3. c # <<>>
  BY DEF Listed
<1>4. s.mine = Of(c) /\ s.begin = c[1] /\ Len(c) \in Nat
  BY <1>3, ListIs
<1>5. PICK j \in 1..Len(c) : cur = c[j]
  BY <1>4 DEF Of
<1>6. j # 1
  BY <1>4, <1>5
<1>7. PICK k : k = j - 1
  OBVIOUS
<1>8. k \in 1..(Len(c) - 1) /\ k + 1 = j /\ k \in 0..Len(c)
  BY <1>4, <1>6, <1>7
<1>9. Len(e) = 1
  BY <1>2, FromAny
<1>10. t = Chain!DList_insert_before(s, c[k + 1], x)
  BY <1>5, <1>8
<1>11. PICK d : d = Chain!S!Spliced(c, k, e)
  OBVIOUS
<1>12. Stands(t, d) /\ Safe(s, t)
  BY <1>2, <1>3, <1>8, <1>9, <1>10, <1>11, InsertBeforeIs
<1> QED BY <1>2, <1>8, <1>11, <1>12, GoesIn

(* A block that leaves.                                                    *)
LEMMA GoesOut ==
  ASSUME NEW s, NEW c, NEW k, NEW n, Fits(c, k, n), NEW t, Stands(t, Chain!S!Without(c, k, n)), Safe(s, t)
  PROVE  Goes(s, t, c)
BY DEF Goes, Evolves, Exits

(* One place of a list.                                                    *)
LEMMA OneFits ==
  ASSUME NEW c \in Seq(Chain!Node), NEW k \in 0..(Len(c) - 1) PROVE Fits(c, k, 1)
BY ItemsAre DEF Fits

(* A list with an item in it.                                              *)
LEMMA SomeItem ==
  ASSUME NEW s, NEW C, NEW c, Listed(s, C, c), NEW k \in 0..(s.count - 1)
  PROVE  c # <<>> /\ s.count = Len(c) /\ k \in 0..(Len(c) - 1) /\ c \in Seq(Chain!Node) /\ Len(c) \in Nat
<1>1. c # <<>>
  <2>1. ASSUME c = <<>> PROVE s.count = 0
    BY <2>1 DEF Listed
  <2> QED BY <2>1
<1>2. s.count = Len(c)
  BY <1>1, ListIs
<1> QED BY <1>1, <1>2, ChainOfList

(* DList_remove.                                                           *)
LEMMA RemoveGoes ==
  ASSUME NEW s, NEW C, NEW c, Listed(s, C, c), NEW index \in 0..(s.count - 1),
         NEW t, t = Chain!DList_remove(s, index)
  PROVE  Goes(s, t, c)
<1>1. c # <<>> /\ index \in 0..(Len(c) - 1) /\ c \in Seq(Chain!Node)
  BY SomeItem
<1>2. Removes(s, t, c, index)
  BY <1>1, RemoveIs
<1>3. Stands(t, Chain!S!Without(c, index, 1)) /\ Safe(s, t)
  BY <1>2 DEF Removes
<1>4. Fits(c, index, 1)
  BY <1>1, OneFits
<1> QED BY <1>3, <1>4, GoesOut

(* DList_remove_item.                                                      *)
LEMMA RemoveItemGoes ==
  ASSUME NEW s, NEW C, NEW c, Listed(s, C, c), NEW a \in s.mine, NEW t, t = Chain!DList_remove_item(s, a)
  PROVE  Goes(s, t, c)
<1>1. c # <<>>
  BY DEF Listed
<1>2. s.mine = Of(c) /\ Len(c) \in Nat
  BY <1>1, ListIs
<1>3. PICK j \in 1..Len(c) : a = c[j]
  BY <1>2 DEF Of
<1>4. PICK k : k = j - 1
  OBVIOUS
<1>5. k \in 0..(Len(c) - 1) /\ k + 1 = j
  BY <1>2, <1>4
<1>6. t = Chain!DList_remove_item(s, c[k + 1])
  BY <1>3, <1>5
<1>7. Removes(s, t, c, k)
  BY <1>1, <1>5, <1>6, RemoveItemIs
<1>8. Stands(t, Chain!S!Without(c, k, 1)) /\ Safe(s, t)
  BY <1>7 DEF Removes
<1>9. c \in Seq(Chain!Node)
  BY ChainOfList
<1>10. Fits(c, k, 1)
  BY <1>5, <1>9, OneFits
<1> QED BY <1>8, <1>10, GoesOut

(* The block that is there of the one asked for.                           *)
LEMMA LeastFits ==
  ASSUME NEW c \in Seq(Chain!Node), NEW k \in 0..(Len(c) - 1), NEW n \in Nat, n # 0, NEW q, q = Least(n, Len(c) - k)
  PROVE  Fits(c, k, q)
BY ItemsAre DEF Fits, Least

(* DList_remove_count.                                                     *)
LEMMA RemoveCountGoes ==
  ASSUME NEW s, NEW C, NEW c, Listed(s, C, c), NEW index \in 0..(s.count - 1), NEW n \in Nat,
         index = 0 \/ index + n <= s.count, NEW t, t = Chain!DList_remove_count(s, index, n)
  PROVE  Goes(s, t, c)
<1>1. c # <<>> /\ index \in 0..(Len(c) - 1) /\ c \in Seq(Chain!Node) /\ s.count = Len(c)
  BY SomeItem
<1>2. index = 0 \/ index + n <= Len(c)
  BY <1>1
<1>3. IF n = 0 THEN t = s
      ELSE Stands(t, Chain!S!Without(c, index, Least(n, Len(c) - index))) /\ Safe(s, t)
  BY <1>1, <1>2, RemoveCountIs
<1>4. CASE n = 0
  <2>1. Stands(t, c) /\ Safe(s, t)
    BY <1>3, <1>4 DEF Stands, Safe
  <2> QED BY <2>1, GoesNowhere
<1>5. CASE n # 0
  <2>1. PICK q : q = Least(n, Len(c) - index)
    OBVIOUS
  <2>2. Fits(c, index, q)
    BY <1>1, <1>5, <2>1, LeastFits
  <2>3. Stands(t, Chain!S!Without(c, index, q)) /\ Safe(s, t)
    BY <1>3, <1>5, <2>1
  <2> QED BY <2>2, <2>3, GoesOut
<1> QED BY <1>4, <1>5

(* DList_pull_out.                                                         *)
LEMMA PullOutGoes ==
  ASSUME NEW s, NEW C, NEW c, Listed(s, C, c), NEW index \in 0..(s.count - 1),
         NEW t, t = Chain!DList_pull_out(s, index)
  PROVE  Goes(s, t, c)
<1>1. c # <<>> /\ index \in 0..(Len(c) - 1) /\ c \in Seq(Chain!Node)
  BY SomeItem
<1>2. PulledOut(s, t, c, index, 1)
  BY <1>1, PullOutIs
<1>3. Stands(t, Chain!S!Without(c, index, 1)) /\ Safe(s, t)
  BY <1>2, RestIsSafe DEF PulledOut, Stands
<1>4. Fits(c, index, 1)
  BY <1>1, OneFits
<1> QED BY <1>3, <1>4, GoesOut

(* DList_pull_out_count.                                                   *)
LEMMA PullOutCountGoes ==
  ASSUME NEW s, NEW C, NEW c, Listed(s, C, c), NEW index \in 0..(s.count - 1), NEW n \in Nat,
         index = 0 \/ index + n <= s.count, NEW t, t = Chain!DList_pull_out_count(s, index, n)
  PROVE  Goes(s, t, c)
<1>1. c # <<>> /\ index \in 0..(Len(c) - 1) /\ c \in Seq(Chain!Node) /\ s.count = Len(c)
  BY SomeItem
<1>2. index = 0 \/ index + n <= Len(c)
  BY <1>1
<1>3. IF n = 0 THEN t = s ELSE PulledOut(s, t, c, index, Least(n, Len(c) - index))
  BY <1>1, <1>2, PullOutCountIs
<1>4. CASE n = 0
  <2>1. Stands(t, c) /\ Safe(s, t)
    BY <1>3, <1>4 DEF Stands, Safe
  <2> QED BY <2>1, GoesNowhere
<1>5. CASE n # 0
  <2>1. PICK q : q = Least(n, Len(c) - index)
    OBVIOUS
  <2>2. Fits(c, index, q)
    BY <1>1, <1>5, <2>1, LeastFits
  <2>3. PulledOut(s, t, c, index, q)
    BY <1>3, <1>5, <2>1
  <2>4. Stands(t, Chain!S!Without(c, index, q)) /\ Safe(s, t)
    BY <2>3, RestIsSafe DEF PulledOut, Stands
  <2> QED BY <2>2, <2>4, GoesOut
<1> QED BY <1>4, <1>5

(* delDList.                                                               *)
LEMMA RenewGoes ==
  ASSUME NEW s, NEW C, NEW c, Listed(s, C, c), ~Chain!Empty(s), NEW t, t = Chain!delDList(s)
  PROVE  Goes(s, t, c)
<1>1. c # <<>>
  BY DEF Chain!Empty, Listed
<1>2. Stands(t, <<>>) /\ Safe(s, t)
  BY <1>1, RenewIs
<1>3. c \in Seq(Chain!Node) /\ Len(c) \in Nat /\ Len(c) # 0
  BY <1>1, ChainOfList, NoItems
<1>4. PICK n : n = Len(c)
  OBVIOUS
<1>5. PICK z : z = 0
  OBVIOUS
<1>6. Fits(c, z, n)
  BY <1>3, <1>4, <1>5 DEF Fits
<1>7. PICK d : d = Chain!S!Without(c, z, n)
  OBVIOUS
<1>8. d \in Seq(Chain!Node) /\ Len(d) = Len(c) - n
  BY <1>3, <1>6, <1>7, LeavingEdges
<1>9. Len(d) = 0
  BY <1>3, <1>4, <1>8
<1>10. d = <<>>
  BY <1>8, <1>9, NoItems
<1>11. Stands(t, Chain!S!Without(c, z, n))
  BY <1>2, <1>7, <1>10
<1> QED BY <1>2, <1>6, <1>11, GoesOut

(* Arithmetic.                                                             *)
LEMMA LastPlace ==
  ASSUME NEW from \in Nat, NEW n \in Nat, from < n, NEW to \in Nat
  PROVE  Least(to, n - 1) \in 0..(n - 1)
BY DEF Least

(* DList_move.                                                             *)
LEMMA MoveGoes ==
  ASSUME NEW s, NEW C, NEW c, Listed(s, C, c), ~Chain!Empty(s), NEW from \in Nat, NEW to \in Nat,
         ~(from < to /\ to = s.count - 1), NEW t, t = Chain!DList_move(s, from, to)
  PROVE  Goes(s, t, c)
<1>1. c # <<>>
  BY DEF Chain!Empty, Listed
<1>2. s.count = Len(c) /\ Len(c) \in Nat /\ c \in Seq(Chain!Node)
  BY <1>1, ListIs, ChainOfList
<1>3. ~(from < to /\ to = Len(c) - 1)
  BY <1>2
<1>4. Stands(t, MovedTo(c, from, to)) /\ Safe(s, t)
  BY <1>1, <1>3, MoveIs
<1>5. Shifted(c, MovedTo(c, from, to))
  <2>1. CASE from < Len(c)
    <3>1. PICK p : p = Least(to, Len(c) - 1)
      OBVIOUS
    <3>2. p \in 0..(Len(c) - 1)
      BY <1>2, <2>1, <3>1, LastPlace
    <3>3. Fits(c, from, 1)
      BY <1>2, <2>1 DEF Fits
    <3>4. MovedTo(c, from, to) = Chain!S!Moved(c, from, 1, p)
      BY <2>1, <3>1 DEF MovedTo
    <3> QED BY <3>2, <3>3, <3>4 DEF Shifted
  <2>2. CASE ~(from < Len(c))
    BY <2>2 DEF MovedTo, Shifted
  <2> QED BY <2>1, <2>2
<1> QED BY <1>4, <1>5 DEF Goes, Evolves

(* DList_move_count.                                                       *)
LEMMA MoveCountGoes ==
  ASSUME NEW s, NEW C, NEW c, Listed(s, C, c), NEW from \in 0..s.count, NEW to \in 0..s.count, from # to,
         NEW n \in Nat, n > 0, NEW t, t = Chain!DList_move_count(s, from, to, n)
  PROVE  Goes(s, t, c)
<1>1. c # <<>>
  <2>1. ASSUME c = <<>> PROVE s.count = 0
    BY <2>1 DEF Listed
  <2> QED BY <2>1
<1>2. s.count = Len(c) /\ Len(c) \in Nat
  BY <1>1, ListIs
<1>3. from \in Nat /\ to \in Nat /\ n >= 1
  BY <1>2
<1>4. PICK d : Stands(t, d) /\ Safe(s, t) /\ Shifted(c, d)
  BY <1>1, <1>3, MoveCountIs
<1> QED BY <1>4 DEF Goes, Evolves

(* Marking items.                                                          *)
LEMMA MarkGoes ==
  ASSUME NEW s, NEW C, NEW c, Listed(s, C, c), NEW Z, Z \subseteq Chain!Node, NEW t, t = Chain!Marked(s, Z)
  PROVE  Goes(s, t, c)
<1>1. s \in Memory /\ InChains(s, C) /\ (c # <<>> => c \in C)
  BY DEF Listed
<1>2. s.removed \cup Z \in SUBSET Chain!Node
  BY <1>1 DEF Memory
<1>3. PICK R : R = s.removed \cup Z
  OBVIOUS
<1>4. t = [s EXCEPT !.removed = R, !.pending = TRUE]
  BY <1>3 DEF Chain!Marked
<1>5. /\ t \in Memory /\ Edges(s, t) /\ t.mine = s.mine
      /\ t.next = s.next /\ t.prev = s.prev /\ t.live = s.live
      /\ t.fault = s.fault /\ t.refs = s.refs /\ t.has = s.has
  BY <1>1, <1>2, <1>3, <1>4 DEF Memory, Edges
<1>6. InChains(t, C)
  BY <1>1, <1>5, ChainsKept
<1>7. Stands(t, c)
  BY <1>1, <1>5, <1>6, SetAside
<1>8. Safe(s, t)
  BY <1>5 DEF Safe, Sound
<1> QED BY <1>7, <1>8, GoesNowhere

(* DList_remove_count_lsafe.                                               *)
LEMMA MarkCountGoes ==
  ASSUME NEW s, NEW C, NEW c, Listed(s, C, c), NEW index \in 0..(s.count - 1), NEW n \in Nat,
         NEW t, t = Chain!DList_remove_count_lsafe(s, index, n)
  PROVE  Goes(s, t, c)
<1>1. c # <<>> /\ index \in 0..(Len(c) - 1) /\ c \in Seq(Chain!Node) /\ Len(c) \in Nat
  BY SomeItem
<1>2. s \in Memory /\ Linked(s, c)
  BY <1>1, ListIs
<1>3. Chain!DList_get(s, index) = c[index + 1] /\ index + 1 \in 1..Len(c)
  BY <1>1, NearestIs
<1>4. PICK a : a = Chain!DList_get(s, index)
  OBVIOUS
<1>5. PICK j : j = index + 1
  OBVIOUS
<1>6. a = c[j] /\ j \in 1..Len(c)
  BY <1>3, <1>4, <1>5
<1>7. ASSUME NEW k \in 0..(n - 1) PROVE Chain!Walk(s.next, a, k) \in Chain!Node
  <2>1. k \in Nat
    OBVIOUS
  <2>2. PICK p : p = Least(j + k, Len(c))
    OBVIOUS
  <2>3. Chain!Walk(s.next, c[j], k) = c[p] /\ p \in 1..Len(c)
    BY <1>2, <1>6, <2>1, <2>2, WalksTo
  <2> QED BY <1>1, <1>6, <2>3, ItemsAre
<1>8. PICK Z : Z = {Chain!Walk(s.next, a, k) : k \in 0..(n - 1)}
  OBVIOUS
<1>9. Z \subseteq Chain!Node
  BY <1>7, <1>8
<1>10. t = Chain!Marked(s, Z)
  BY <1>4, <1>8 DEF Chain!DList_remove_count_lsafe
<1> QED BY <1>9, <1>10, MarkGoes

(* DList_remove_marked_items.                                              *)
LEMMA SweepGoes ==
  ASSUME NEW s, NEW C, NEW c, Listed(s, C, c), s.pending => s.end \notin s.removed,
         NEW t, t = Chain!DList_remove_marked_items(s)
  PROVE  Goes(s, t, c)
<1>1. s \in Memory
  BY DEF Listed
<1>2. CASE s.pending
  <2>1. PICK d : d = KeptOf(c, s.removed)
    OBVIOUS
  <2>2. Stands(t, d) /\ Safe(s, t)
    BY <1>2, <2>1, SweepIs
  <2> QED BY <2>1, <2>2 DEF Goes, Evolves
<1>3. CASE ~s.pending
  <2>1. t = s
    BY <1>3 DEF Chain!DList_remove_marked_items
  <2>2. Stands(t, c) /\ Safe(s, t)
    BY <2>1 DEF Stands, Safe
  <2> QED BY <2>2, GoesNowhere
<1> QED BY <1>2, <1>3

-----------------------------------------------------------------------------
(* The list and its loose chains stand, and every value is referred to as  *)
(* often as it is held.                                                    *)
ChainInv == (\E c : Stands(m, c)) /\ Sound(m, taken)

(* The sequence goes on to d, and the references to values stay right.     *)
Proceeds(M, c) == \E d : Stands(m', d) /\ Sound(m', taken') /\ Evolves(M, c, d)

(* A call of the list goes on as its operation does.                       *)
LEMMA CallProceeds ==
  ASSUME NEW c, Sound(m, taken), Goes(m, m', c), taken' = taken
  PROVE  Proceeds(m.removed, c)
<1>1. PICK d : Stands(m', d) /\ Safe(m, m') /\ Evolves(m.removed, c, d)
  BY DEF Goes
<1>2. Sound(m', taken)
  BY <1>1 DEF Safe
<1> QED BY <1>1, <1>2 DEF Proceeds

(* The calls on chains outside of the list, and those that bring one in.   *)
LEMMA LooseCalls ==
  ASSUME Careful, NEW C, NEW c, Listed(m, C, c),
         Chain!NewItem \/ Chain!DeleteLoose \/ Chain!JoinLoose \/ Chain!Push \/ Chain!Insert \/ Chain!InsertBeside
  PROVE  Goes(m, m', c) /\ taken' = taken
<1>1. CASE Chain!NewItem
  <2>1. PICK a \in Chain!Node \ m.live, old \in {0} \cup Chain!Loose(m) :
          m.refs[a] = 0 /\ Chain!Call(Chain!newDListItem(m, a, old))
    BY <1>1 DEF Chain!NewItem
  <2>2. m' = Chain!newDListItem(m, a, old) /\ taken' = taken
    BY <2>1 DEF Chain!Call
  <2> QED BY <2>1, <2>2, NewItemGoes
<1>2. CASE Chain!DeleteLoose
  <2>1. PICK a \in Chain!Loose(m) : Chain!Call(Chain!delDListItem(m, a)) \/ Chain!Call(Chain!delDListItem_all(m, a))
    BY <1>2 DEF Chain!DeleteLoose
  <2>2. (m' = Chain!delDListItem(m, a) \/ m' = Chain!delDListItem_all(m, a)) /\ taken' = taken
    BY <2>1 DEF Chain!Call
  <2> QED BY <2>2, DeleteLooseGoes
<1>3. CASE Chain!JoinLoose
  <2>1. PICK a \in Chain!Loose(m), x \in Chain!Loose(m) :
          /\ x \notin Chain!ToSet(Chain!ChainOf(m, a))
          /\ \/ Chain!Call(Chain!DListItem_insert_after(m, a, x))
             \/ m.prev[a] # 0 /\ Chain!Call(Chain!DListItem_insert_before(m, a, x))
    BY <1>3 DEF Chain!JoinLoose
  <2>2. /\ \/ m' = Chain!DListItem_insert_after(m, a, x)
           \/ m.prev[a] # 0 /\ m' = Chain!DListItem_insert_before(m, a, x)
        /\ taken' = taken
    BY <2>1 DEF Chain!Call
  <2> QED BY <2>1, <2>2, JoinLooseGoes
<1>4. CASE Chain!Push
  <2>1. PICK x \in Chain!Loose(m) : Chain!Call(Chain!DList_push_back(m, x)) \/ Chain!Call(Chain!DList_push_forward(m, x))
    BY <1>4 DEF Chain!Push
  <2>2. (m' = Chain!DList_push_back(m, x) \/ m' = Chain!DList_push_forward(m, x)) /\ taken' = taken
    BY <2>1 DEF Chain!Call
  <2> QED BY <2>2, PushGoes
<1>5. CASE Chain!Insert
  <2>1. PICK x \in Chain!Loose(m), index \in 0..(m.count + 1) :
          Chain!SafeInsert(index) /\ Chain!Call(Chain!DList_insert(m, index, x))
    BY <1>5 DEF Chain!Insert
  <2>2. m' = Chain!DList_insert(m, index, x) /\ taken' = taken /\ (Chain!Empty(m) \/ index > 0)
    BY <2>1 DEF Chain!Call, Chain!SafeInsert
  <2>3. index \in Nat
    OBVIOUS
  <2> QED BY <2>2, <2>3, InsertGoes
<1>6. CASE Chain!InsertBeside
  <2>1. PICK cur \in m.mine, x \in Chain!Loose(m) :
          \/ Chain!SafeBefore(cur, x) /\ Chain!Call(Chain!DList_insert_before(m, cur, x))
          \/ Chain!Call(Chain!DList_insert_after(m, cur, x))
    BY <1>6 DEF Chain!InsertBeside
  <2>2. CASE Chain!SafeBefore(cur, x) /\ Chain!Call(Chain!DList_insert_before(m, cur, x))
    <3>1. m' = Chain!DList_insert_before(m, cur, x) /\ taken' = taken /\ cur # m.begin /\ Chain!DListItem_count(m, x) = 1
      BY <2>2 DEF Chain!Call, Chain!SafeBefore
    <3> QED BY <3>1, InsertBeforeGoes
  <2>3. CASE Chain!Call(Chain!DList_insert_after(m, cur, x))
    <3>1. m' = m /\ taken' = taken
      BY <2>3 DEF Chain!Call, Chain!DList_insert_after
    <3>2. Stands(m', c) /\ Safe(m, m')
      BY <3>1 DEF Stands, Safe
    <3> QED BY <3>1, <3>2, GoesNowhere
  <2> QED BY <2>1, <2>2, <2>3
<1> QED BY <1>1, <1>2, <1>3, <1>4, <1>5, <1>6

(* The calls that move items and take them out.                            *)
LEMMA ListCalls ==
  ASSUME Careful, NEW C, NEW c, Listed(m, C, c),
         \/ Chain!Move \/ Chain!MoveCount \/ Chain!RemoveOne \/ Chain!RemoveCount \/ Chain!PullOut
         \/ Chain!Mark \/ Chain!Sweep \/ Chain!Renew
  PROVE  Goes(m, m', c) /\ taken' = taken
<1>0. m.count \in Int /\ m.mine \subseteq Chain!Node
  BY DEF Listed, Memory
<1>1. CASE Chain!Move
  <2>1. PICK from \in 0..(m.count + 1), to \in 0..(m.count + 1) :
          Chain!SafeMove(from, to) /\ Chain!Call(Chain!DList_move(m, from, to))
    BY <1>1 DEF Chain!Move
  <2>2. /\ m' = Chain!DList_move(m, from, to) /\ taken' = taken
        /\ ~Chain!Empty(m) /\ ~(from < to /\ to = m.count - 1)
    BY <2>1 DEF Chain!Call, Chain!SafeMove
  <2>3. from \in Nat /\ to \in Nat
    OBVIOUS
  <2> QED BY <2>2, <2>3, MoveGoes
<1>2. CASE Chain!MoveCount
  <2>1. PICK from \in 0..m.count, to \in 0..m.count, n \in 0..m.count :
          Chain!SafeMoveCount(from, to, n) /\ Chain!Call(Chain!DList_move_count(m, from, to, n))
    BY <1>2 DEF Chain!MoveCount
  <2>2. m' = Chain!DList_move_count(m, from, to, n) /\ taken' = taken /\ n > 0 /\ from # to
    BY <2>1 DEF Chain!Call, Chain!SafeMoveCount
  <2>3. n \in Nat
    OBVIOUS
  <2> QED BY <2>2, <2>3, MoveCountGoes
<1>3. CASE Chain!RemoveOne
  <2>1. CASE \E index \in 0..(m.count - 1) : Chain!Call(Chain!DList_remove(m, index))
    BY <2>1, RemoveGoes DEF Chain!Call
  <2>2. CASE \E a \in m.mine : Chain!Call(Chain!DList_remove_item(m, a))
    BY <2>2, RemoveItemGoes DEF Chain!Call
  <2> QED BY <1>3, <2>1, <2>2 DEF Chain!RemoveOne
<1>4. CASE Chain!RemoveCount
  <2>1. PICK index \in 0..(m.count - 1), n \in 0..m.count :
          Chain!SafePull(index, n) /\ Chain!Call(Chain!DList_remove_count(m, index, n))
    BY <1>4 DEF Chain!RemoveCount
  <2>2. m' = Chain!DList_remove_count(m, index, n) /\ taken' = taken /\ (index = 0 \/ index + n <= m.count)
    BY <2>1 DEF Chain!Call, Chain!SafePull
  <2>3. n \in Nat
    OBVIOUS
  <2> QED BY <2>2, <2>3, RemoveCountGoes
<1>5. CASE Chain!PullOut
  <2>1. PICK index \in 0..(m.count - 1) :
          \/ Chain!Call(Chain!DList_pull_out(m, index))
          \/ \E n \in 0..(m.count + 1 - index) :
               Chain!SafePull(index, n) /\ Chain!Call(Chain!DList_pull_out_count(m, index, n))
    BY <1>5 DEF Chain!PullOut
  <2>2. CASE Chain!Call(Chain!DList_pull_out(m, index))
    BY <2>2, PullOutGoes DEF Chain!Call
  <2>3. CASE \E n \in 0..(m.count + 1 - index) :
               Chain!SafePull(index, n) /\ Chain!Call(Chain!DList_pull_out_count(m, index, n))
    <3>1. PICK n \in 0..(m.count + 1 - index) :
            Chain!SafePull(index, n) /\ Chain!Call(Chain!DList_pull_out_count(m, index, n))
      BY <2>3
    <3>2. m' = Chain!DList_pull_out_count(m, index, n) /\ taken' = taken /\ (index = 0 \/ index + n <= m.count)
      BY <3>1 DEF Chain!Call, Chain!SafePull
    <3>3. n \in Nat
      OBVIOUS
    <3> QED BY <3>2, <3>3, PullOutCountGoes
  <2> QED BY <2>1, <2>2, <2>3
<1>6. CASE Chain!Mark
  <2>1. CASE \E index \in 0..(m.count - 1), n \in 1..m.count : Chain!Call(Chain!DList_remove_count_lsafe(m, index, n))
    <3>1. PICK index \in 0..(m.count - 1), n \in 1..m.count : Chain!Call(Chain!DList_remove_count_lsafe(m, index, n))
      BY <2>1
    <3>2. m' = Chain!DList_remove_count_lsafe(m, index, n) /\ taken' = taken
      BY <3>1 DEF Chain!Call
    <3>3. n \in Nat
      OBVIOUS
    <3> QED BY <3>2, <3>3, MarkCountGoes
  <2>2. CASE \E a \in m.mine : Chain!Call(Chain!Marked(m, {a}))
    <3>1. PICK a \in m.mine : Chain!Call(Chain!Marked(m, {a}))
      BY <2>2
    <3>2. m' = Chain!Marked(m, {a}) /\ taken' = taken /\ {a} \subseteq Chain!Node
      BY <1>0, <3>1 DEF Chain!Call
    <3> QED BY <3>2, MarkGoes
  <2> QED BY <1>6, <2>1, <2>2 DEF Chain!Mark
<1>7. CASE Chain!Sweep
  <2>1. m' = Chain!DList_remove_marked_items(m) /\ taken' = taken /\ (m.pending => m.end \notin m.removed)
    BY <1>7 DEF Chain!Sweep, Chain!Call, Chain!SafeSweep
  <2> QED BY <2>1, SweepGoes
<1>8. CASE Chain!Renew
  BY <1>8, RenewGoes DEF Chain!Renew, Chain!Call
<1> QED BY <1>1, <1>2, <1>3, <1>4, <1>5, <1>6, <1>7, <1>8

(* A value is taken by a caller: a reference more, or the item's own.      *)
LEMMA TakeProceeds ==
  ASSUME NEW C, NEW c, Listed(m, C, c), Sound(m, taken), Chain!TakeValue
  PROVE  Proceeds(m.removed, c)
<1>1. m \in Memory /\ InChains(m, C) /\ (c # <<>> => c \in C)
  BY DEF Listed
<1>2. taken = 0 /\ ~m.fault /\ taken \in Chain!Addr
  BY DEF Chain!TakeValue, Sound
<1>3. PICK a \in m.has : /\ taken' = a
                         /\ \/ m' = [m EXCEPT !.refs[a] = @ + 1]
                            \/ m' = [m EXCEPT !.has = @ \ {a}, !.removed = @ \cup {a}]
  BY DEF Chain!TakeValue
<1>4. a \in Chain!Node /\ a \in Chain!Addr /\ a # 0 /\ 0 \notin Chain!Node
  BY <1>1, ChainAssumption DEF Memory, Chain!Node, Chain!Addr
<1>5. \A x \in Chain!Node : m.refs[x] = (IF x \in m.has THEN 1 ELSE 0) + (IF x = taken THEN 1 ELSE 0)
  BY DEF Sound
<1>6. \A x \in Chain!Node : m.refs[x] = IF x \in m.has THEN 1 ELSE 0
  <2>1. ASSUME NEW x \in Chain!Node PROVE m.refs[x] = IF x \in m.has THEN 1 ELSE 0
    <3>1. x # taken
      BY <1>2, <1>4
    <3>2. m.refs[x] = (IF x \in m.has THEN 1 ELSE 0) + (IF x = taken THEN 1 ELSE 0)
      BY <1>5
    <3>3. m.refs[x] = (IF x \in m.has THEN 1 ELSE 0) + 0
      BY <3>1, <3>2
    <3>4. CASE x \in m.has
      BY <3>3, <3>4
    <3>5. CASE x \notin m.has
      BY <3>3, <3>5
    <3> QED BY <3>4, <3>5
  <2> QED BY <2>1
<1>7. /\ m' \in Memory /\ Edges(m, m') /\ m'.mine = m.mine /\ m'.fault = m.fault
      /\ m'.next = m.next /\ m'.prev = m.prev /\ m'.live = m.live
      /\ \/ m'.refs = [m.refs EXCEPT ![a] = @ + 1] /\ m'.has = m.has
         \/ m'.refs = m.refs /\ m'.has = m.has \ {a}
  <2>1. CASE m' = [m EXCEPT !.refs[a] = @ + 1]
    <3>1. PICK R : R = [m.refs EXCEPT ![a] = @ + 1]
      OBVIOUS
    <3>2. R \in [Chain!Node -> Int]
      BY <1>1, <1>4, <3>1 DEF Memory
    <3>3. m' = [m EXCEPT !.refs = R]
      BY <2>1, <3>1
    <3>4. /\ m' \in Memory /\ Edges(m, m') /\ m'.mine = m.mine /\ m'.fault = m.fault
          /\ m'.next = m.next /\ m'.prev = m.prev /\ m'.live = m.live /\ m'.has = m.has /\ m'.refs = R
      BY <1>1, <3>2, <3>3 DEF Memory, Edges
    <3> QED BY <3>1, <3>4
  <2>2. CASE m' = [m EXCEPT !.has = @ \ {a}, !.removed = @ \cup {a}]
    <3>1. PICK H : H = m.has \ {a}
      OBVIOUS
    <3>2. PICK R : R = m.removed \cup {a}
      OBVIOUS
    <3>3. H \in SUBSET Chain!Node /\ R \in SUBSET Chain!Node
      BY <1>1, <1>4, <3>1, <3>2 DEF Memory
    <3>4. m' = [m EXCEPT !.has = H, !.removed = R]
      BY <2>2, <3>1, <3>2
    <3>5. /\ m' \in Memory /\ Edges(m, m') /\ m'.mine = m.mine /\ m'.fault = m.fault
          /\ m'.next = m.next /\ m'.prev = m.prev /\ m'.live = m.live /\ m'.has = H /\ m'.refs = m.refs
      BY <1>1, <3>3, <3>4 DEF Memory, Edges
    <3> QED BY <3>1, <3>5
  <2> QED BY <1>3, <2>1, <2>2
<1>8. InChains(m', C)
  BY <1>1, <1>7, ChainsKept
<1>9. Stands(m', c)
  BY <1>1, <1>7, <1>8, SetAside
<1>10. ASSUME NEW x \in Chain!Node
       PROVE  m'.refs[x] = (IF x \in m'.has THEN 1 ELSE 0) + (IF x = a THEN 1 ELSE 0)
  <2>1. m.refs \in [Chain!Node -> Int]
    BY <1>1 DEF Memory
  <2> QED BY <1>3, <1>4, <1>6, <1>7, <2>1
<1>11. Sound(m', taken')
  BY <1>2, <1>3, <1>4, <1>7, <1>10 DEF Sound
<1> QED BY <1>9, <1>11 DEF Proceeds, Evolves, Shifted

(* And given back.                                                         *)
LEMMA DropProceeds ==
  ASSUME NEW C, NEW c, Listed(m, C, c), Sound(m, taken), Chain!DropValue
  PROVE  Proceeds(m.removed, c)
<1>1. m \in Memory /\ InChains(m, C) /\ (c # <<>> => c \in C)
  BY DEF Listed
<1>2. taken # 0 /\ ~m.fault /\ taken \in Chain!Addr /\ taken' = 0 /\ m' = Chain!delListItemVal(m, taken)
  BY DEF Chain!DropValue, Sound
<1>3. taken \in Chain!Node /\ 0 \notin Chain!Node /\ 0 \in Chain!Addr
  BY <1>2, ChainAssumption DEF Chain!Node, Chain!Addr
<1>4. \A x \in Chain!Node : m.refs[x] = (IF x \in m.has THEN 1 ELSE 0) + (IF x = taken THEN 1 ELSE 0)
  BY DEF Sound
<1>5. m.refs[taken] > 0 /\ m.refs \in [Chain!Node -> Int]
  BY <1>1, <1>3, <1>4 DEF Memory
<1>6. m' = [m EXCEPT !.refs[taken] = @ - 1]
  BY <1>2, <1>5 DEF Chain!delListItemVal
<1>7. /\ m' \in Memory /\ Edges(m, m') /\ m'.mine = m.mine /\ m'.fault = m.fault
      /\ m'.next = m.next /\ m'.prev = m.prev /\ m'.live = m.live /\ m'.has = m.has
      /\ m'.refs = [m.refs EXCEPT ![taken] = @ - 1]
  <2>1. PICK R : R = [m.refs EXCEPT ![taken] = @ - 1]
    OBVIOUS
  <2>2. R \in [Chain!Node -> Int]
    BY <1>3, <1>5, <2>1
  <2>3. m' = [m EXCEPT !.refs = R]
    BY <1>6, <2>1
  <2>4. /\ m' \in Memory /\ Edges(m, m') /\ m'.mine = m.mine /\ m'.fault = m.fault
        /\ m'.next = m.next /\ m'.prev = m.prev /\ m'.live = m.live /\ m'.has = m.has /\ m'.refs = R
    BY <1>1, <2>2, <2>3 DEF Memory, Edges
  <2> QED BY <2>1, <2>4
<1>8. InChains(m', C)
  BY <1>1, <1>7, ChainsKept
<1>9. Stands(m', c)
  BY <1>1, <1>7, <1>8, SetAside
<1>10. ASSUME NEW x \in Chain!Node
       PROVE  m'.refs[x] = (IF x \in m'.has THEN 1 ELSE 0) + (IF x = 0 THEN 1 ELSE 0)
  BY <1>3, <1>4, <1>5, <1>7
<1>11. Sound(m', taken')
  BY <1>2, <1>3, <1>7, <1>10 DEF Sound
<1> QED BY <1>9, <1>11 DEF Proceeds, Evolves, Shifted

-----------------------------------------------------------------------------
(* A step of the list, call or value.                                      *)
LEMMA ChainProceeds ==
  ASSUME Careful, NEW C, NEW c, Listed(m, C, c), Sound(m, taken), Chain!Next
  PROVE  Proceeds(m.removed, c)
<1>1. CASE \/ Chain!NewItem \/ Chain!DeleteLoose \/ Chain!JoinLoose \/ Chain!Push \/ Chain!Insert
           \/ Chain!InsertBeside
  BY <1>1, LooseCalls, CallProceeds
<1>2. CASE \/ Chain!Move \/ Chain!MoveCount \/ Chain!RemoveOne \/ Chain!RemoveCount \/ Chain!PullOut
           \/ Chain!Mark \/ Chain!Sweep \/ Chain!Renew
  BY <1>2, ListCalls, CallProceeds
<1>3. CASE Chain!TakeValue
  BY <1>3, TakeProceeds
<1>4. CASE Chain!DropValue
  BY <1>4, DropProceeds
<1> QED BY <1>1, <1>2, <1>3, <1>4 DEF Chain!Next

(* The sequence of a list that stands is what its pointers spell out.      *)
LEMMA ItemsOf ==
  ASSUME NEW s, NEW c, Stands(s, c)
  PROVE  Chain!Chain(s, s.begin) = c
BY ChainOfList DEF Stands

(* A list that was just created.                                           *)
LEMMA ChainBegins == ASSUME ContainersInit PROVE ChainInv /\ Chain!Items = <<>>
<1>1. PICK garbage \in BOOLEAN :
        m = [next |-> [a \in Chain!Addr |-> 0], prev |-> [a \in Chain!Addr |-> 0], begin |-> 0, end |-> 0,
             count |-> 0, pending |-> garbage, mine |-> {}, live |-> {}, removed |-> {}, has |-> {},
             refs |-> [a \in Chain!Node |-> 0], fault |-> FALSE]
  BY DEF ContainersInit, Chain!Init
<1>2. taken = 0
  BY DEF ContainersInit, Chain!Init
<1>3. 0 \in Chain!Addr /\ 0 \notin Chain!Node
  BY ChainAssumption DEF Chain!Addr, Chain!Node
<1>4. m \in Memory
  BY <1>1, <1>3 DEF Memory
<1>5. InChains(m, {})
  BY <1>1 DEF InChains
<1>6. Listed(m, {}, <<>>)
  BY <1>1, <1>4, <1>5 DEF Listed
<1>7. Sound(m, taken)
  <2>1. ASSUME NEW x \in Chain!Node
        PROVE  m.refs[x] = (IF x \in m.has THEN 1 ELSE 0) + (IF x = taken THEN 1 ELSE 0)
    <3>1. m.refs[x] = 0 /\ x \notin m.has /\ x # taken
      BY <1>1, <1>2, <1>3
    <3> QED BY <3>1
  <2> QED BY <1>1, <1>2, <1>3, <2>1 DEF Sound
<1>8. Stands(m, <<>>)
  BY <1>6 DEF Stands
<1>9. ChainInv
  BY <1>7, <1>8 DEF ChainInv
<1> QED BY <1>8, <1>9, ItemsOf DEF Chain!Items

(* Every step of the containers keeps the list standing, and its sequence  *)
(* evolves.                                                                *)
LEMMA ChainSteps ==
  ASSUME Careful, ChainInv, [ContainersNext]_allVars
  PROVE  ChainInv' /\ Evolves(m.removed, Chain!Items, Chain!Items')
<1>1. PICK c : Stands(m, c)
  BY DEF ChainInv
<1>2. PICK C : Listed(m, C, c)
  BY <1>1 DEF Stands
<1>3. Sound(m, taken)
  BY DEF ChainInv
<1>4. Chain!Items = c
  BY <1>1, ItemsOf DEF Chain!Items
<1>5. Proceeds(m.removed, c)
  <2>1. CASE Chain!Next
    BY <1>2, <1>3, <2>1, ChainProceeds
  <2>2. CASE m' = m /\ taken' = taken
    <3>1. Goes(m, m', c)
      <4>1. Stands(m', c) /\ Safe(m, m')
        BY <1>1, <2>2 DEF Safe
      <4> QED BY <4>1, GoesNowhere
    <3> QED BY <1>3, <2>2, <3>1, CallProceeds
  <2>3. Chain!Next \/ (m' = m /\ taken' = taken)
    BY DEF ContainersNext, allVars, chainVars
  <2> QED BY <2>1, <2>2, <2>3
<1>6. PICK d : Stands(m', d) /\ Sound(m', taken') /\ Evolves(m.removed, c, d)
  BY <1>5 DEF Proceeds
<1>7. ChainInv'
  BY <1>6 DEF ChainInv
<1>8. Chain!Items' = d
  BY <1>6, ItemsOf DEF Chain!Items
<1> QED BY <1>4, <1>6, <1>7, <1>8

(* The lists of careful callers stand.                                     *)
THEOREM ChainInvariant == ASSUME Careful PROVE ContainersSpec => []ChainInv
<1>1. ContainersInit => ChainInv
  BY ChainBegins
<1>2. ChainInv /\ [ContainersNext]_allVars => ChainInv'
  BY ChainSteps
<1> QED BY <1>1, <1>2, PTL DEF ContainersSpec

(* A walk from NULL, which has no links.                                   *)
LEMMA WalkFromNull ==
  ASSUME NEW link, link[0] = 0 PROVE Chain!Walk(link, 0, N) = 0
<1>1. PICK g : g = [j \in 0..N |-> 0]
  OBVIOUS
<1>2. PICK z : z = 0
  OBVIOUS
<1>3. OneOn(link, z) = z
  BY <1>2 DEF OneOn
<1>4. \A j \in 0..N : g[j] = z /\ (j # 0 => g[j - 1] = z)
  BY <1>1, <1>2, ChainAssumption
<1>5. \A j \in 0..N : (IF j = 0 THEN z ELSE OneOn(link, g[j - 1])) = z
  BY <1>3, <1>4
<1>6. g = [j \in 0..N |-> IF j = 0 THEN z ELSE OneOn(link, g[j - 1])]
  BY <1>1, <1>2, <1>5
<1>7. Chain!Walk(link, z, N) = g[N]
  BY <1>6, ChainAssumption, WalkIs
<1>8. g[N] = 0
  BY <1>1, ChainAssumption
<1> QED BY <1>2, <1>7, <1>8

(* What links say when every live item is in one chain.                    *)
LEMMA LinksAgree ==
  ASSUME NEW s \in Memory, NEW C, InChains(s, C), NEW a \in Chain!Node
  PROVE  /\ s.next[a] # 0 => s.prev[s.next[a]] = a /\ {a, s.next[a]} \subseteq s.live
         /\ s.prev[a] # 0 => s.next[s.prev[a]] = a
<1>1. a \in Chain!Addr
  BY DEF Chain!Node, Chain!Addr
<1>2. CASE a \notin s.live
  BY <1>1, <1>2 DEF InChains
<1>3. CASE a \in s.live
  <2>1. PICK e \in C : a \in Of(e)
    BY <1>3 DEF InChains
  <2>2. Linked(s, e) /\ \A x \in Chain!Node : x \in Of(e) => x \in s.live
    BY DEF InChains
  <2>3. PICK j \in 1..Len(e) : a = e[j]
    BY <2>1 DEF Of
  <2>4. /\ Len(e) \in Nat /\ \A l \in 1..Len(e) : e[l] \in Of(e) /\ e[l] \in Chain!Node
    BY <2>2, Ends
  <2>5. ASSUME s.next[a] # 0 PROVE s.prev[s.next[a]] = a /\ {a, s.next[a]} \subseteq s.live
    <3>1. j # Len(e)
      BY <2>2, <2>3, <2>5, Ends
    <3>2. PICK l : l = j + 1
      OBVIOUS
    <3>3. l \in 1..Len(e) /\ j < Len(e) /\ l > 1 /\ l - 1 = j
      BY <2>4, <3>1, <3>2
    <3>4. s.next[e[j]] = e[l]
      BY <2>2, <3>2, <3>3, Ends
    <3>5. s.prev[e[l]] = e[l - 1]
      BY <2>2, <3>3, Ends
    <3>6. e[l] \in s.live
      BY <2>2, <2>4, <3>3
    <3> QED BY <1>3, <2>3, <3>3, <3>4, <3>5, <3>6
  <2>6. ASSUME s.prev[a] # 0 PROVE s.next[s.prev[a]] = a
    <3>1. j # 1
      BY <2>2, <2>3, <2>6, Ends
    <3>2. PICK l : l = j - 1
      OBVIOUS
    <3>3. l \in 1..Len(e) /\ j > 1 /\ l < Len(e) /\ l + 1 = j
      BY <2>4, <3>1, <3>2
    <3>4. s.prev[e[j]] = e[l]
      BY <2>2, <3>2, <3>3, Ends
    <3>5. s.next[e[l]] = e[l + 1]
      BY <2>2, <3>3, Ends
    <3> QED BY <2>3, <3>3, <3>4, <3>5
  <2> QED BY <2>5, <2>6
<1> QED BY <1>2, <1>3

(* The books of a list that stands.                                        *)
LEMMA BooksAgree ==
  ASSUME NEW s, NEW C, NEW c, Listed(s, C, c)
  PROVE  /\ s.count = Len(c) /\ Chain!ToSet(c) = s.mine
         /\ s.end = Chain!DListItem_get_last_item(s, s.begin) /\ s.prev[s.begin] = 0
<1>1. c \in Seq(Chain!Node)
  BY ChainOfList
<1>2. Chain!ToSet(c) = Of(c)
  BY <1>1, ItemsAre DEF Chain!ToSet, Of
<1>3. CASE c # <<>>
  <2>1. s \in Memory /\ Linked(s, c) /\ s.begin = c[1] /\ s.end = c[Len(c)] /\ s.count = Len(c) /\ s.mine = Of(c)
        /\ s.begin \in Of(c)
    BY <1>3, ListIs
  <2>2. s.prev[s.begin] = 0
    BY <2>1, Ends
  <2>3. Chain!DListItem_get_last_item(s, s.begin) = c[Len(c)]
    BY <2>1, FromAny
  <2> QED BY <1>2, <2>1, <2>2, <2>3
<1>4. CASE c = <<>>
  <2>1. s \in Memory /\ InChains(s, C) /\ s.begin = 0 /\ s.end = 0 /\ s.count = 0 /\ s.mine = {}
    BY <1>4 DEF Listed
  <2>2. Len(c) = 0 /\ Of(c) = {}
    BY <1>1, <1>4, NoItems
  <2>3. 0 \in Chain!Addr /\ 0 \notin s.live
    BY <2>1, ChainAssumption DEF Memory, Chain!Addr, Chain!Node
  <2>4. s.next[0] = 0 /\ s.prev[0] = 0
    BY <2>1, <2>3 DEF InChains
  <2>5. Chain!Walk(s.next, 0, N) = 0
    BY <2>4, WalkFromNull
  <2> QED BY <1>2, <2>1, <2>2, <2>4, <2>5 DEF Chain!DListItem_get_last_item
<1> QED BY <1>3, <1>4

(* In the hands of careful callers the links of a DList agree both ways,   *)
(* no freed item is linked, and begin, end, count and the parents of the   *)
(* items describe one chain, after any sequence of its calls.              *)
THEOREM ListStaysLinked == ASSUME Careful PROVE ContainersSpec => []WellLinked
<1>1. ASSUME ChainInv PROVE WellLinked
  <2>1. PICK c : Stands(m, c)
    BY <1>1 DEF ChainInv
  <2>2. PICK C : Listed(m, C, c)
    BY <2>1 DEF Stands
  <2>3. ~m.fault
    BY <1>1 DEF ChainInv, Sound
  <2>4. Chain!Items = c
    BY <2>1, ItemsOf DEF Chain!Items
  <2>5. m \in Memory /\ InChains(m, C)
    BY <2>2 DEF Listed
  <2>6. \A a \in Chain!Node : /\ m.next[a] # 0 => m.prev[m.next[a]] = a /\ {a, m.next[a]} \subseteq m.live
                              /\ m.prev[a] # 0 => m.next[m.prev[a]] = a
    BY <2>5, LinksAgree
  <2>7. /\ m.count = Len(c) /\ Chain!ToSet(c) = m.mine
        /\ m.end = Chain!DListItem_get_last_item(m, m.begin) /\ m.prev[m.begin] = 0
    BY <2>2, BooksAgree
  <2> QED BY <2>3, <2>4, <2>6, <2>7 DEF WellLinked, Chain!WellLinked
<1> QED BY <1>1, ChainInvariant, PTL

(* The value of an item is referred to by its item and by the caller that  *)
(* took it, exactly as often as these are there: it is freed with the last *)
(* of them, whichever goes first.                                          *)
THEOREM ValuesLiveWhileHeld == ASSUME Careful PROVE ContainersSpec => []HeldValuesLive
<1>1. ASSUME ChainInv PROVE HeldValuesLive
  BY <1>1 DEF ChainInv, Sound, HeldValuesLive, Chain!HeldValuesLive
<1> QED BY <1>1, ChainInvariant, PTL

-----------------------------------------------------------------------------
(* A list with as many items as this has one.                              *)
LEMMA HasItem ==
  ASSUME NEW s, NEW C, NEW c, Listed(s, C, c), NEW k \in 0..(Len(c) - 1)
  PROVE  c # <<>> /\ c \in Seq(Chain!Node) /\ Len(c) \in Nat /\ k \in Nat /\ k < Len(c) /\ s.count = Len(c)
<1>1. c \in Seq(Chain!Node) /\ Len(c) \in Nat
  BY ChainOfList
<1>2. Len(c) # 0
  BY <1>1
<1>3. c # <<>>
  BY <1>1, <1>2, NoItems
<1>4. s.count = Len(c)
  BY <1>3, ListIs
<1> QED BY <1>1, <1>3, <1>4

(* What each of the calls that take an index makes of the sequence:        *)
(* DList_insert has the chain of the item from the index on.               *)
LEMMA InsertsAtIndex ==
  ASSUME NEW s, NEW C, NEW c, Listed(s, C, c), NEW k \in 0..(Len(c) - 1), k > 0, NEW x \in Chain!Loose(s),
         NEW t, t = Chain!DList_insert(s, k, x)
  PROVE  Chain!Chain(t, t.begin) = Chain!S!Spliced(c, k, Chain!ChainOf(s, x))
<1>1. c # <<>> /\ k \in Nat /\ k < Len(c) /\ Len(c) \in Nat
  BY HasItem
<1>2. PICK e : Outside(s, C, c, x, e)
  BY OutsideIs
<1>3. e \in C /\ e # c /\ x \in Of(e) /\ Of(e) \cap s.mine = {} /\ Chain!ChainOf(s, x) = e
  BY <1>2 DEF Outside
<1>4. Stands(t, Chain!S!Spliced(c, Least(k, Len(c)), e))
  BY <1>1, <1>3, InsertIs
<1>5. Least(k, Len(c)) = k
  BY <1>1 DEF Least
<1> QED BY <1>3, <1>4, <1>5, ItemsOf

(* DList_remove takes the item at the index.                               *)
LEMMA RemovesAtIndex ==
  ASSUME NEW s, NEW C, NEW c, Listed(s, C, c), NEW k \in 0..(Len(c) - 1), NEW t, t = Chain!DList_remove(s, k)
  PROVE  Chain!Chain(t, t.begin) = Chain!S!Without(c, k, 1)
<1>1. c # <<>>
  BY HasItem
<1>2. Removes(s, t, c, k)
  BY <1>1, RemoveIs
<1>3. Stands(t, Chain!S!Without(c, k, 1))
  BY <1>2 DEF Removes
<1> QED BY <1>3, ItemsOf

(* DList_move puts it at the other index, or at the back.                  *)
LEMMA MovesAtIndex ==
  ASSUME NEW s, NEW C, NEW c, Listed(s, C, c), NEW k \in 0..(Len(c) - 1), NEW to \in Nat,
         ~(k < to /\ to = s.count - 1), NEW t, t = Chain!DList_move(s, k, to)
  PROVE  Chain!Chain(t, t.begin) = Chain!S!Moved(c, k, 1, Chain!Smaller(to, Len(c) - 1))
<1>1. c # <<>> /\ k \in Nat /\ k < Len(c) /\ s.count = Len(c)
  BY HasItem
<1>2. ~(k < to /\ to = Len(c) - 1)
  BY <1>1
<1>3. Stands(t, MovedTo(c, k, to))
  BY <1>1, <1>2, MoveIs
<1>4. MovedTo(c, k, to) = Chain!S!Moved(c, k, 1, Chain!Smaller(to, Len(c) - 1))
  BY <1>1 DEF MovedTo, Least, Chain!Smaller
<1> QED BY <1>3, <1>4, ItemsOf

(* DList_move_count backward puts the block, or what there is of it.       *)
LEMMA MovesBlockToIndex ==
  ASSUME NEW s, NEW C, NEW c, Listed(s, C, c), NEW k \in 0..(Len(c) - 1), NEW to \in 0..(k - 1),
         NEW n \in Nat, n >= 1, NEW t, t = Chain!DList_move_count(s, k, to, n)
  PROVE  Chain!Chain(t, t.begin) = Chain!S!Moved(c, k, Chain!Smaller(n, Len(c) - k), to)
<1>1. c # <<>> /\ k \in Nat /\ k < Len(c)
  BY HasItem
<1>2. to \in Nat /\ k # to /\ to < k
  BY <1>1
<1>3. PICK d : Stands(t, d) /\ (to < k /\ k < Len(c) => d = MovedBlock(c, k, to, n))
  BY <1>1, <1>2, MoveCountIs
<1>4. d = MovedBlock(c, k, to, n)
  BY <1>1, <1>2, <1>3
<1>5. MovedBlock(c, k, to, n) = Chain!S!Moved(c, k, Chain!Smaller(n, Len(c) - k), to)
  BY DEF MovedBlock, Least, Chain!Smaller
<1> QED BY <1>3, <1>4, <1>5, ItemsOf

(* Whichever end of a DList an index is looked up from, an insertion, a    *)
(* removal, a move and a block that moves backward act at that index.      *)
THEOREM CallsActAtIndex == ASSUME Careful PROVE ContainersSpec => []ActsAtIndex
<1>1. ASSUME ChainInv PROVE ActsAtIndex
  <2>1. PICK c : Stands(m, c)
    BY <1>1 DEF ChainInv
  <2>2. PICK C : Listed(m, C, c)
    BY <2>1 DEF Stands
  <2>3. Chain!Items = c
    BY <2>1, ItemsOf DEF Chain!Items
  <2> DEFINE After(s) == Chain!Chain(s, s.begin)
  <2>4. ASSUME NEW k \in 0..(Len(c) - 1)
        PROVE  /\ k > 0 => \A item \in Chain!Loose(m) :
                    After(Chain!DList_insert(m, k, item)) = Chain!S!Spliced(c, k, Chain!ChainOf(m, item))
               /\ After(Chain!DList_remove(m, k)) = Chain!S!Without(c, k, 1)
               /\ \A to \in 0..N : Chain!SafeMove(k, to) =>
                    After(Chain!DList_move(m, k, to)) = Chain!S!Moved(c, k, 1, Chain!Smaller(to, Len(c) - 1))
               /\ \A to \in 0..(k - 1), n \in 1..N :
                    After(Chain!DList_move_count(m, k, to, n)) = Chain!S!Moved(c, k, Chain!Smaller(n, Len(c) - k), to)
    <3>1. ASSUME k > 0, NEW item \in Chain!Loose(m)
          PROVE  After(Chain!DList_insert(m, k, item)) = Chain!S!Spliced(c, k, Chain!ChainOf(m, item))
      BY <2>2, <3>1, InsertsAtIndex
    <3>2. After(Chain!DList_remove(m, k)) = Chain!S!Without(c, k, 1)
      BY <2>2, RemovesAtIndex
    <3>3. ASSUME NEW to \in 0..N, Chain!SafeMove(k, to)
          PROVE  After(Chain!DList_move(m, k, to)) = Chain!S!Moved(c, k, 1, Chain!Smaller(to, Len(c) - 1))
      <4>1. to \in Nat /\ ~(k < to /\ to = m.count - 1)
        BY <3>3 DEF Chain!SafeMove
      <4> QED BY <2>2, <4>1, MovesAtIndex
    <3>4. ASSUME NEW to \in 0..(k - 1), NEW n \in 1..N
          PROVE  After(Chain!DList_move_count(m, k, to, n)) = Chain!S!Moved(c, k, Chain!Smaller(n, Len(c) - k), to)
      <4>1. n \in Nat /\ n >= 1
        OBVIOUS
      <4> QED BY <2>2, <4>1, MovesBlockToIndex
    <3> QED BY <3>1, <3>2, <3>3, <3>4
  <2> QED BY <2>3, <2>4 DEF ActsAtIndex, Chain!ActsAtIndex
<1> QED BY <1>1, ChainInvariant, PTL

-----------------------------------------------------------------------------
(* A chain that enters is a step Insert of the sequence.                   *)
LEMMA EntersInserts ==
  ASSUME NEW c \in Seq(Chain!Node), NEW d, Enters(c, d)
  PROVE  Chain!S!Insert(c, d)
<1>1. PICK k \in 0..Len(c), e \in Seq(Chain!Node) :
        Len(e) >= 1 /\ Distinct(e) /\ Of(c) \cap Of(e) = {} /\ d = Chain!S!Spliced(c, k, e)
  BY DEF Enters
<1>2. Len(c) \in Nat /\ Len(e) \in Nat /\ DOMAIN e = 1..Len(e) /\ DOMAIN c = 1..Len(c)
  BY ItemsAre
<1>3. SplicedAt(d, c, k, e)
  BY <1>1, SplicedIs
<1>4. d \in Seq(Chain!Node) /\ Len(d) = Len(c) + Len(e) /\ \A l \in 1..Len(e) : d[k + l] = e[l]
  BY <1>3 DEF SplicedAt
<1>5. PICK new : new = SubSeq(d, k + 1, k + Len(d) - Len(c))
  OBVIOUS
<1>6. new = e
  <2>1. PICK p : p = k + 1
    OBVIOUS
  <2>2. PICK q : q = k + Len(d) - Len(c)
    OBVIOUS
  <2>3. p \in Int /\ q \in Int /\ 1 <= p /\ q <= Len(d) /\ p <= q + 1 /\ q - p + 1 = Len(e)
    BY <1>1, <1>2, <1>4, <2>1, <2>2
  <2>4. /\ SubSeq(d, p, q) \in Seq(Chain!Node) /\ Len(SubSeq(d, p, q)) = q - p + 1
        /\ \A l \in 1..(q - p + 1) : SubSeq(d, p, q)[l] = d[p + l - 1]
    BY <1>4, <2>3, PartIs
  <2>5. new \in Seq(Chain!Node) /\ Len(new) = Len(e) /\ \A l \in 1..Len(e) : new[l] = d[p + l - 1]
    BY <1>5, <2>1, <2>2, <2>3, <2>4
  <2>6. ASSUME NEW l \in 1..Len(new) PROVE new[l] = e[l]
    <3>1. p + l - 1 = k + l /\ l \in 1..Len(e)
      BY <1>2, <2>1, <2>5
    <3> QED BY <1>4, <2>5, <3>1
  <2> QED BY <2>5, <2>6, SameItems
<1>7. Chain!S!ToSet(new) = Of(e) /\ Chain!S!ToSet(c) = Of(c)
  BY <1>2, <1>6 DEF Chain!S!ToSet, Of
<1>8. Of(e) \subseteq Chain!Node
  BY ItemsAre DEF Of
<1>9. Chain!S!IsInjective(new)
  BY <1>1, <1>2, <1>6 DEF Chain!S!IsInjective, Distinct
<1>10. Len(d) > Len(c)
  BY <1>1, <1>2, <1>4
<1>11. d = Chain!S!Spliced(c, k, new)
  BY <1>1, <1>6
<1>12. Chain!S!ToSet(new) \subseteq Chain!Node \ Chain!S!ToSet(c)
  BY <1>1, <1>7, <1>8
<1> QED BY <1>5, <1>9, <1>10, <1>11, <1>12 DEF Chain!S!Insert

(* A block that leaves is a step Leave.                                    *)
LEMMA ExitsLeaves ==
  ASSUME NEW c \in Seq(Chain!Node), NEW d, Exits(c, d)
  PROVE  Chain!S!Leave(c, d)
<1>1. PICK k, n : Fits(c, k, n) /\ d = Chain!S!Without(c, k, n)
  BY DEF Exits
<1>2. k \in Nat /\ n \in Nat /\ k + n <= Len(c) /\ Len(c) \in Nat
  BY <1>1, ItemsAre DEF Fits
<1>3. CutAt(d, c, k, n)
  BY <1>1, <1>2, WithoutIs
<1>4. Len(d) = Len(c) - n
  BY <1>3 DEF CutAt
<1>5. k \in 0..Len(d) /\ Len(c) - Len(d) = n /\ n >= 0
  BY <1>2, <1>4
<1> QED BY <1>1, <1>5 DEF Chain!S!Leave

(* A block that moves is a step Move, or none.                             *)
LEMMA ShiftedMoves ==
  ASSUME NEW c \in Seq(Chain!Node), NEW d, Shifted(c, d), d # c
  PROVE  Chain!S!Move(c, d)
<1>1. PICK k, n, to : Fits(c, k, n) /\ to \in 0..(Len(c) - n) /\ d = Chain!S!Moved(c, k, n, to)
  BY DEF Shifted
<1>2. k \in 0..Len(c) /\ n \in 1..(Len(c) - k)
  BY <1>1, ItemsAre DEF Fits
<1> QED BY <1>1, <1>2 DEF Chain!S!Move

(* What evolves makes a step of the sequence, or none.                     *)
LEMMA EvolvesIsStep ==
  ASSUME NEW c, c = Chain!Items, c \in Seq(Chain!Node), NEW d, d = Chain!Items', Evolves(m.removed, c, d)
  PROVE  [Chain!S!Next]_(Chain!Items)
<1>1. CASE Enters(c, d)
  <2>1. Chain!S!Insert(c, d)
    BY <1>1, EntersInserts
  <2> QED BY <2>1 DEF Chain!S!Next
<1>2. CASE Exits(c, d)
  <2>1. Chain!S!Leave(c, d)
    BY <1>2, ExitsLeaves
  <2> QED BY <2>1 DEF Chain!S!Next
<1>3. CASE Shifted(c, d) /\ d # c
  <2>1. Chain!S!Move(c, d)
    BY <1>3, ShiftedMoves
  <2> QED BY <2>1 DEF Chain!S!Next
<1>4. CASE d = KeptOf(c, m.removed)
  <2>1. Chain!S!Kept(c) = (CHOOSE g : KeptRun(c, m.removed, Len(c), g))[Len(c)]
    BY DEF Chain!S!Kept, KeptRun
  <2>2. Chain!S!Sweep(c, d)
    BY <1>4, <2>1 DEF Chain!S!Sweep, KeptOf
  <2> QED BY <2>2 DEF Chain!S!Next
<1>5. CASE d = c
  BY <1>5
<1> QED BY <1>1, <1>2, <1>3, <1>4, <1>5 DEF Evolves

(* Whatever its pointers do, a DList in the hands of careful callers is a  *)
(* sequence: blocks of new items come in, blocks leave or move, and a      *)
(* sweep takes the marked items and no others.                             *)
THEOREM ListIsSequence == ASSUME Careful PROVE ContainersSpec => ImplementsSeq
<1>1. ContainersInit => Chain!S!Init
  BY ChainBegins DEF Chain!S!Init
<1>2. ASSUME ChainInv, [ContainersNext]_allVars PROVE [Chain!S!Next]_(Chain!Items)
  <2>1. PICK c : Stands(m, c)
    BY <1>2 DEF ChainInv
  <2>2. Chain!Items = c
    BY <2>1, ItemsOf DEF Chain!Items
  <2>3. c \in Seq(Chain!Node)
    BY <2>1, ChainOfList DEF Stands
  <2>4. Evolves(m.removed, Chain!Items, Chain!Items')
    BY <1>2, ChainSteps
  <2> QED BY <2>2, <2>3, <2>4, EvolvesIsStep
<1> QED BY <1>1, <1>2, ChainInvariant, PTL DEF ContainersSpec, ImplementsSeq, Chain!ImplementsSeq, Chain!S!Spec
=============================================================================
