---------------------- MODULE TimerEventHandler_proof ----------------------
(***************************************************************************)
(* Proofs about TimerEventHandler: no freed event is on the list, and the  *)
(* worker never sleeps past the end of an event.                           *)
(*                                                                         *)
(* The second rests on the list being in the order of end times whenever   *)
(* the worker looks at its front, and that on THREAD_RUNNING being up      *)
(* while the loop runs, for add_event orders by run times otherwise.       *)
(***************************************************************************)
EXTENDS TimerEventHandler, SequenceTheorems, WellFoundedInduction, TLAPS

-----------------------------------------------------------------------------
(* The invariant.                                                          *)

(* Where the worker holds handler->mutex, and where it is in its loop.     *)
Held == {"loop", "empty", "wait", "check", "callback", "reinsert", "timed"}
Starts == {"born", "run", "lock"}
Loops == Held \cup {"relock", "asleep", "alarm"}
Ends == {"quit", "quitted", "done"}

(* The list holds each event once, and none that was freed.                *)
Listed(s) == s \in Seq(Event) /\ \A m, n \in 1..Len(s) : s[m] = s[n] => m = n

HList ==
  /\ Listed(list) /\ ToSet(list) \cap freed = {}
  /\ due \in [Event -> Int] /\ \A e \in Event : due[e] >= -Late

HPlaces ==
  /\ until \in Int
  /\ pc = [t \in Thread |-> pc[t]] /\ reg = [t \in Thread |-> reg[t]]
  /\ pc["worker"] \in {"none"} \cup Starts \cup Loops \cup Ends
  /\ pc["ctl"] \in {"idle", "begin", "stop", "stopped", "cast", "join", "free", "gone"}
  /\ after \in {"idle", "begin", "free"}

(* The worker has the mutex in the loop's body, which goes on with the     *)
(* first event; THREAD_CREATED is up while there is a thread to join, and  *)
(* only then, so that no second one is created.                            *)
HThread ==
  /\ mutex = IF pc["worker"] \in Held THEN "worker" ELSE "none"
  /\ pc["worker"] \in {"callback", "reinsert", "timed"} => list # <<>>
  /\ pc["worker"] = "none" <=> "CREATED" \notin flags
  /\ pc["worker"] \in {"run", "quitted"} => "CREATED" \in reg["worker"]
  /\ pc["ctl"] = "stopped" => "CREATED" \in reg["ctl"]
  /\ pc["ctl"] \in {"stop", "stopped", "cast", "join"} => pc["worker"] # "none"
  /\ pc["ctl"] = "begin" => pc["worker"] = "none"

HInv == HList /\ HPlaces /\ HThread

(* THREAD_RUNNING is up while the loop runs, and a stop stores it back.    *)
Runs ==
  /\ pc["worker"] \in Starts => pc["ctl"] = "idle"
  /\ pc["worker"] \in Loops \cup {"lock", "quit"} => "RUNNING" \in flags
  /\ pc["worker"] \in Loops \cup {"lock", "quit"} /\ pc["ctl"] = "stopped" => "RUNNING" \in reg["ctl"]

(* The list is in the order of end times, but for the event that is called *)
(* back, and the worker sleeps no longer than until the first of them.     *)
InOrder ==
  ordered =>
    /\ pc["worker"] \in Starts \cup (Loops \ {"callback", "reinsert"}) => Ascending(list, due)
    /\ pc["worker"] \in {"callback", "reinsert"} => Ascending(Tail(list), due)
    /\ pc["worker"] = "alarm" /\ waiting => \A n \in 1..Len(list) : until <= due[list[n]]

OInv == HInv /\ Runs /\ InOrder

-----------------------------------------------------------------------------
(* Sequences.                                                              *)

(* A set of natural numbers that is not empty has a least one.             *)
LEMMA LeastNat ==
  ASSUME NEW T \in SUBSET Nat, T # {}
  PROVE  \E n \in T : \A m \in T : n <= m
<1> DEFINE R == OpToRel(<, Nat)
<1>1. IsWellFoundedOn(R, Nat)
  BY NatLessThanWellFounded
<1>2. \A x, y \in Nat : <<y, x>> \in R <=> y < x
  BY DEF OpToRel
<1> HIDE DEF R
<1>3. PICK n \in T : \A m \in T : ~(<<m, n>> \in R)
  BY <1>1, WFMin
<1>4. ASSUME NEW m \in T PROVE n <= m
  <2>1. m \in Nat /\ n \in Nat
    OBVIOUS
  <2>2. ~(m < n)
    BY <1>2, <1>3, <2>1
  <2> QED BY <2>1, <2>2
<1> QED BY <1>4

(* A sequence with one more element.                                       *)
LEMMA Inserted ==
  ASSUME NEW s \in Seq(Event), NEW e \in Event, NEW n \in 1..(Len(s) + 1)
  PROVE  /\ InsertAt(s, n, e) \in Seq(Event) /\ Len(InsertAt(s, n, e)) = Len(s) + 1
         /\ \A i \in 1..(Len(s) + 1) :
              InsertAt(s, n, e)[i] = IF i < n THEN s[i] ELSE IF i = n THEN e ELSE s[i - 1]
<1> DEFINE a == SubSeq(s, 1, n - 1)
           b == <<e>>
           c == SubSeq(s, n, Len(s))
<1>0. Len(s) \in Nat /\ \A i \in 1..Len(s) : s[i] \in Event
  BY LenProperties
<1>1. a \in Seq(Event) /\ Len(a) = n - 1 /\ \A i \in 1..(n - 1) : a[i] = s[i]
  BY <1>0, SubSeqProperties
<1>2. c \in Seq(Event) /\ Len(c) = Len(s) - n + 1 /\ \A i \in 1..(Len(s) - n + 1) : c[i] = s[n + i - 1]
  BY <1>0, SubSeqProperties
<1>3. b \in Seq(Event) /\ Len(b) = 1 /\ b[1] = e
  OBVIOUS
<1> HIDE DEF a, b, c
<1>4. a \o b \in Seq(Event) /\ Len(a \o b) = n /\ \A i \in 1..n : (a \o b)[i] = IF i < n THEN s[i] ELSE e
  <2>1. /\ a \o b \in Seq(Event) /\ Len(a \o b) = Len(a) + Len(b)
        /\ \A i \in 1..(Len(a) + Len(b)) :
             (a \o b)[i] = IF i <= Len(a) THEN a[i] ELSE b[i - Len(a)]
    BY <1>1, <1>3, ConcatProperties
  <2>2. Len(a \o b) = n
    BY <1>0, <1>1, <1>3, <2>1
  <2>3. ASSUME NEW i \in 1..n PROVE (a \o b)[i] = IF i < n THEN s[i] ELSE e
    <3>1. CASE i < n
      BY <1>0, <1>1, <1>3, <2>1, <3>1
    <3>2. CASE i = n
      <4>1. i - Len(a) = 1 /\ ~(i <= Len(a)) /\ i \in 1..(Len(a) + Len(b))
        BY <1>0, <1>1, <1>3, <3>2
      <4> QED BY <1>3, <2>1, <3>2, <4>1
    <3>3. i < n \/ i = n
      BY <1>0
    <3> QED BY <3>1, <3>2, <3>3
  <2> QED BY <2>1, <2>2, <2>3
<1> DEFINE ab == a \o b
<1> HIDE DEF ab
<1>5. ab \in Seq(Event) /\ Len(ab) = n /\ \A i \in 1..n : ab[i] = IF i < n THEN s[i] ELSE e
  BY <1>4 DEF ab
<1>6. /\ ab \o c \in Seq(Event) /\ Len(ab \o c) = Len(s) + 1
      /\ \A i \in 1..(Len(s) + 1) : (ab \o c)[i] = IF i < n THEN s[i] ELSE IF i = n THEN e ELSE s[i - 1]
  <2>1. /\ ab \o c \in Seq(Event) /\ Len(ab \o c) = Len(ab) + Len(c)
        /\ \A i \in 1..(Len(ab) + Len(c)) :
             (ab \o c)[i] = IF i <= Len(ab) THEN ab[i] ELSE c[i - Len(ab)]
    BY <1>2, <1>5, ConcatProperties
  <2>2. Len(ab \o c) = Len(s) + 1
    BY <1>0, <1>2, <1>5, <2>1
  <2>3. ASSUME NEW i \in 1..(Len(s) + 1)
        PROVE (ab \o c)[i] = IF i < n THEN s[i] ELSE IF i = n THEN e ELSE s[i - 1]
    <3>1. CASE i <= n
      BY <1>0, <1>2, <1>5, <2>1, <3>1
    <3>2. CASE i > n
      <4>1. i - n \in 1..(Len(s) - n + 1) /\ n + (i - n) - 1 = i - 1
        BY <1>0, <3>2
      <4>2. c[i - n] = s[i - 1]
        BY <1>2, <4>1
      <4> QED BY <1>0, <1>2, <1>5, <2>1, <3>2, <4>2
    <3>3. i <= n \/ i > n
      BY <1>0
    <3> QED BY <3>1, <3>2, <3>3
  <2> QED BY <2>1, <2>2, <2>3
<1>7. InsertAt(s, n, e) = ab \o c
  BY DEF InsertAt, ab, a, b, c
<1> QED BY <1>6, <1>7

(* A sequence with one element less.                                       *)
LEMMA Removed ==
  ASSUME NEW s \in Seq(Event), NEW n \in 1..Len(s)
  PROVE  /\ RemoveAt(s, n) \in Seq(Event) /\ Len(RemoveAt(s, n)) = Len(s) - 1
         /\ \A i \in 1..(Len(s) - 1) : RemoveAt(s, n)[i] = IF i < n THEN s[i] ELSE s[i + 1]
<1> DEFINE a == SubSeq(s, 1, n - 1)
           c == SubSeq(s, n + 1, Len(s))
<1>0. Len(s) \in Nat /\ \A i \in 1..Len(s) : s[i] \in Event
  BY LenProperties
<1>1. a \in Seq(Event) /\ Len(a) = n - 1 /\ \A i \in 1..(n - 1) : a[i] = s[i]
  BY <1>0, SubSeqProperties
<1>2. c \in Seq(Event) /\ Len(c) = Len(s) - n /\ \A i \in 1..(Len(s) - n) : c[i] = s[n + i]
  BY <1>0, SubSeqProperties
<1> HIDE DEF a, c
<1>3. /\ a \o c \in Seq(Event) /\ Len(a \o c) = Len(s) - 1
      /\ \A i \in 1..(Len(s) - 1) : (a \o c)[i] = IF i < n THEN s[i] ELSE s[i + 1]
  <2>1. /\ a \o c \in Seq(Event) /\ Len(a \o c) = Len(a) + Len(c)
        /\ \A i \in 1..(Len(a) + Len(c)) :
             (a \o c)[i] = IF i <= Len(a) THEN a[i] ELSE c[i - Len(a)]
    BY <1>1, <1>2, ConcatProperties
  <2>2. Len(a \o c) = Len(s) - 1
    BY <1>0, <1>1, <1>2, <2>1
  <2>3. ASSUME NEW i \in 1..(Len(s) - 1)
        PROVE (a \o c)[i] = IF i < n THEN s[i] ELSE s[i + 1]
    <3>1. CASE i < n
      BY <1>0, <1>1, <1>2, <2>1, <3>1
    <3>2. CASE i >= n
      <4>1. i - (n - 1) \in 1..(Len(s) - n) /\ n + (i - (n - 1)) = i + 1
        BY <1>0, <3>2
      <4>2. c[i - (n - 1)] = s[i + 1]
        BY <1>2, <4>1
      <4> QED BY <1>0, <1>1, <1>2, <2>1, <3>2, <4>2
    <3>3. i < n \/ i >= n
      BY <1>0
    <3> QED BY <3>1, <3>2, <3>3
  <2> QED BY <2>1, <2>2, <2>3
<1> QED BY <1>3 DEF RemoveAt, a, c

(* What is on a list, and what an insertion and a removal do to it.        *)
LEMMA Members ==
  ASSUME NEW s \in Seq(Event)
  PROVE  ToSet(s) = {s[i] : i \in 1..Len(s)} /\ ToSet(s) \subseteq Event
BY LenProperties DEF ToSet

(* An inserted event is on the list once, with those that were there.      *)
LEMMA InsertedListed ==
  ASSUME NEW s, Listed(s), NEW e \in Event \ ToSet(s), NEW n \in 1..(Len(s) + 1)
  PROVE  Listed(InsertAt(s, n, e)) /\ ToSet(InsertAt(s, n, e)) = ToSet(s) \cup {e}
<1> DEFINE t == InsertAt(s, n, e)
<1>0. s \in Seq(Event) /\ Len(s) \in Nat /\ ToSet(s) = {s[i] : i \in 1..Len(s)}
  BY Members, LenProperties DEF Listed
<1>1. /\ t \in Seq(Event) /\ Len(t) = Len(s) + 1
      /\ \A i \in 1..(Len(s) + 1) : t[i] = IF i < n THEN s[i] ELSE IF i = n THEN e ELSE s[i - 1]
  BY <1>0, Inserted
<1>2. ToSet(t) = {t[i] : i \in 1..Len(t)}
  BY <1>1, Members
<1> HIDE DEF t
<1>3. \A i \in 1..Len(s) : s[i] # e
  BY <1>0
<1>4. ASSUME NEW i \in 1..Len(t), NEW j \in 1..Len(t), t[i] = t[j] PROVE i = j
  <2> DEFINE back(k) == IF k < n THEN k ELSE k - 1
  <2>1. ASSUME NEW k \in 1..Len(t), k # n PROVE back(k) \in 1..Len(s) /\ t[k] = s[back(k)]
    BY <1>0, <1>1, <2>1
  <2>2. CASE i = n /\ j # n
    <3>1. t[i] = e /\ t[j] = s[back(j)] /\ back(j) \in 1..Len(s)
      BY <1>0, <1>1, <2>1, <2>2
    <3> QED BY <1>3, <1>4, <3>1
  <2>3. CASE j = n /\ i # n
    <3>1. t[j] = e /\ t[i] = s[back(i)] /\ back(i) \in 1..Len(s)
      BY <1>0, <1>1, <2>1, <2>3
    <3> QED BY <1>3, <1>4, <3>1
  <2>4. CASE i # n /\ j # n
    <3>1. back(i) = back(j)
      BY <1>4, <2>1, <2>4 DEF Listed
    <3> QED BY <1>0, <1>1, <2>4, <3>1
  <2> QED BY <2>2, <2>3, <2>4
<1>5. ASSUME NEW i \in 1..Len(t) PROVE t[i] \in ToSet(s) \cup {e}
  BY <1>0, <1>1
<1>6. ASSUME NEW i \in 1..Len(s) PROVE s[i] \in ToSet(t)
  <2>1. CASE i < n
    BY <1>0, <1>1, <1>2, <2>1
  <2>2. CASE i >= n
    <3>1. i + 1 \in 1..Len(t) /\ t[i + 1] = s[i]
      BY <1>0, <1>1, <2>2
    <3> QED BY <1>2, <3>1
  <2> QED BY <1>0, <2>1, <2>2
<1>7. e \in ToSet(t)
  BY <1>0, <1>1, <1>2
<1> QED BY <1>0, <1>1, <1>2, <1>4, <1>5, <1>6, <1>7 DEF Listed, t

(* A removed event is not on the list any more.                            *)
LEMMA RemovedListed ==
  ASSUME NEW s, Listed(s), NEW n \in 1..Len(s)
  PROVE  Listed(RemoveAt(s, n)) /\ ToSet(RemoveAt(s, n)) \subseteq ToSet(s) \ {s[n]}
<1> DEFINE t == RemoveAt(s, n)
<1>0. s \in Seq(Event) /\ Len(s) \in Nat /\ ToSet(s) = {s[i] : i \in 1..Len(s)}
  BY Members, LenProperties DEF Listed
<1>1. /\ t \in Seq(Event) /\ Len(t) = Len(s) - 1
      /\ \A i \in 1..(Len(s) - 1) : t[i] = IF i < n THEN s[i] ELSE s[i + 1]
  BY <1>0, Removed
<1>2. ToSet(t) = {t[i] : i \in 1..Len(t)}
  BY <1>1, Members
<1> HIDE DEF t
<1>3. ASSUME NEW i \in 1..Len(t), NEW j \in 1..Len(t), t[i] = t[j] PROVE i = j
  BY <1>0, <1>1, <1>3 DEF Listed
<1>4. ASSUME NEW i \in 1..Len(t) PROVE t[i] \in ToSet(s) \ {s[n]}
  BY <1>0, <1>1 DEF Listed
<1> QED BY <1>1, <1>2, <1>3, <1>4 DEF Listed, t

(* The rest of a list.                                                     *)
LEMMA RestListed ==
  ASSUME NEW s, Listed(s), s # <<>>
  PROVE  /\ Listed(Tail(s)) /\ ToSet(Tail(s)) \subseteq ToSet(s) /\ Head(s) \in Event \ ToSet(Tail(s))
         /\ Len(Tail(s)) = Len(s) - 1 /\ \A i \in 1..(Len(s) - 1) : Tail(s)[i] = s[i + 1]
         /\ Head(s) = s[1] /\ Len(s) >= 1 /\ Head(s) \in ToSet(s)
<1> DEFINE t == Tail(s)
<1>0. s \in Seq(Event) /\ Len(s) \in Nat /\ ToSet(s) = {s[i] : i \in 1..Len(s)}
  BY Members, LenProperties DEF Listed
<1>1. Len(s) >= 1 /\ Head(s) = s[1]
  BY <1>0, EmptySeq
<1>2. t \in Seq(Event) /\ Len(t) = Len(s) - 1 /\ \A i \in 1..(Len(s) - 1) : t[i] = s[i + 1]
  BY <1>0, HeadTailProperties
<1>3. ToSet(t) = {t[i] : i \in 1..Len(t)}
  BY <1>2, Members
<1> HIDE DEF t
<1>4. Listed(t)
  BY <1>0, <1>1, <1>2 DEF Listed
<1>5. ASSUME NEW i \in 1..Len(t) PROVE t[i] \in ToSet(s) /\ t[i] # s[1]
  BY <1>0, <1>1, <1>2 DEF Listed
<1>6. s[1] \in Event /\ s[1] \in ToSet(s)
  BY <1>0, <1>1, Members
<1> QED BY <1>0, <1>1, <1>2, <1>3, <1>4, <1>5, <1>6 DEF t

-----------------------------------------------------------------------------
(* The order of the list.                                                  *)

(* The search of add_event ends between the earlier events and the rest.   *)
LEMMA PlaceIsBetween ==
  ASSUME NEW s \in Seq(Event), NEW e \in Event, NEW key \in [Event -> Int]
  PROVE  /\ Place(e, s, key) \in 1..(Len(s) + 1)
         /\ \A m \in 1..Len(s) : m < Place(e, s, key) => key[s[m]] < key[e]
         /\ Place(e, s, key) <= Len(s) => key[e] <= key[s[Place(e, s, key)]]
<1> DEFINE later == {n \in 1..Len(s) : key[e] <= key[s[n]]}
<1>0. Len(s) \in Nat /\ \A i \in 1..Len(s) : s[i] \in Event /\ key[s[i]] \in Int
  BY LenProperties
<1>1. key[e] \in Int
  OBVIOUS
<1>2. CASE later = {}
  <2>1. Place(e, s, key) = Len(s) + 1
    BY <1>2 DEF Place
  <2>2. \A m \in 1..Len(s) : key[s[m]] < key[e]
    BY <1>0, <1>1, <1>2
  <2> QED BY <1>0, <2>1, <2>2
<1>3. CASE later # {}
  <2>1. \E n \in later : \A m \in later : n <= m
    <3>1. later \in SUBSET Nat
      BY <1>0
    <3> HIDE DEF later
    <3> QED BY <1>3, <3>1, LeastNat
  <2>2. Place(e, s, key) = CHOOSE n \in later : \A m \in later : n <= m
    BY <1>3 DEF Place
  <2>3. Place(e, s, key) \in later /\ \A m \in later : Place(e, s, key) <= m
    <3> DEFINE P(n) == \A m \in later : n <= m
    <3>1. \E n \in later : P(n)
      BY <2>1
    <3> HIDE DEF later, P
    <3>2. (CHOOSE n \in later : P(n)) \in later /\ P(CHOOSE n \in later : P(n))
      BY <3>1
    <3> QED BY <2>2, <3>2 DEF P
  <2> DEFINE p == Place(e, s, key)
  <2>4. p \in 1..Len(s) /\ key[e] <= key[s[p]] /\ \A m \in later : p <= m
    BY <2>3
  <2> HIDE DEF p
  <2>5. ASSUME NEW m \in 1..Len(s), m < p PROVE key[s[m]] < key[e]
    <3>1. m \notin later
      BY <1>0, <2>4, <2>5
    <3> QED BY <1>0, <1>1, <3>1
  <2> QED BY <1>0, <2>4, <2>5 DEF p
<1> QED BY <1>2, <1>3

(* An event inserted there leaves the list in order.                       *)
LEMMA PlaceKeepsOrder ==
  ASSUME NEW s \in Seq(Event), NEW e \in Event, NEW key \in [Event -> Int], Ascending(s, key)
  PROVE  Ascending(InsertAt(s, Place(e, s, key), e), key)
<1> DEFINE p == Place(e, s, key)
           t == InsertAt(s, p, e)
<1>0. Len(s) \in Nat /\ key[e] \in Int /\ \A i \in 1..Len(s) : s[i] \in Event /\ key[s[i]] \in Int
  BY LenProperties
<1>1. /\ p \in 1..(Len(s) + 1) /\ \A m \in 1..Len(s) : m < p => key[s[m]] < key[e]
      /\ p <= Len(s) => key[e] <= key[s[p]]
  BY PlaceIsBetween
<1> HIDE DEF p
<1>2. /\ Len(t) = Len(s) + 1
      /\ \A i \in 1..(Len(s) + 1) : t[i] = IF i < p THEN s[i] ELSE IF i = p THEN e ELSE s[i - 1]
  BY <1>1, Inserted
<1> HIDE DEF t
<1>3. \A i, j \in 1..Len(s) : i < j => key[s[i]] <= key[s[j]]
  BY DEF Ascending
<1>4. ASSUME NEW i \in 1..Len(s), p <= i PROVE key[e] <= key[s[i]]
  <2>1. p \in 1..Len(s) /\ key[e] <= key[s[p]] /\ (p = i \/ p < i)
    BY <1>0, <1>1, <1>4
  <2>2. key[s[p]] <= key[s[i]]
    BY <1>0, <1>3, <2>1
  <2> QED BY <1>0, <2>1, <2>2
<1>5. ASSUME NEW i \in 1..Len(t), NEW j \in 1..Len(t), i < j PROVE key[t[i]] <= key[t[j]]
  <2>1. CASE j < p
    <3>1. i \in 1..Len(s) /\ j \in 1..Len(s) /\ t[i] = s[i] /\ t[j] = s[j]
      BY <1>0, <1>1, <1>2, <1>5, <2>1
    <3> QED BY <1>3, <1>5, <3>1
  <2>2. CASE j = p
    <3>1. i \in 1..Len(s) /\ t[i] = s[i] /\ t[j] = e /\ i < p
      BY <1>0, <1>1, <1>2, <1>5, <2>2
    <3> QED BY <1>0, <1>1, <3>1
  <2>3. CASE j > p
    <3>1. j - 1 \in 1..Len(s) /\ t[j] = s[j - 1] /\ p <= j - 1
      BY <1>0, <1>1, <1>2, <1>5, <2>3
    <3>2. CASE i < p
      <4>1. i \in 1..Len(s) /\ t[i] = s[i] /\ i < j - 1
        BY <1>0, <1>1, <1>2, <1>5, <3>1, <3>2
      <4> QED BY <1>3, <3>1, <4>1
    <3>3. CASE i = p
      <4>1. t[i] = e
        BY <1>0, <1>1, <1>2, <3>3
      <4> QED BY <1>4, <3>1, <4>1
    <3>4. CASE i > p
      <4>1. i - 1 \in 1..Len(s) /\ t[i] = s[i - 1] /\ i - 1 < j - 1
        BY <1>0, <1>1, <1>2, <1>5, <3>4
      <4> QED BY <1>3, <3>1, <4>1
    <3>5. i < p \/ i = p \/ i > p
      BY <1>0, <1>1, <1>2
    <3> QED BY <3>2, <3>3, <3>4, <3>5
  <2>4. j < p \/ j = p \/ j > p
    BY <1>0, <1>1, <1>2
  <2> QED BY <2>1, <2>2, <2>3, <2>4
<1> QED BY <1>5 DEF Ascending, t, p

(* So does the removal of one.                                             *)
LEMMA RemovalKeepsOrder ==
  ASSUME NEW s \in Seq(Event), NEW n \in 1..Len(s), NEW key, Ascending(s, key)
  PROVE  Ascending(RemoveAt(s, n), key)
<1> DEFINE t == RemoveAt(s, n)
           at(i) == IF i < n THEN i ELSE i + 1
<1>0. Len(s) \in Nat
  BY LenProperties
<1>1. Len(t) = Len(s) - 1 /\ \A i \in 1..(Len(s) - 1) : t[i] = IF i < n THEN s[i] ELSE s[i + 1]
  BY Removed
<1> HIDE DEF t
<1>2. ASSUME NEW i \in 1..Len(t) PROVE at(i) \in 1..Len(s) /\ t[i] = s[at(i)]
  BY <1>0, <1>1
<1>3. ASSUME NEW i \in 1..Len(t), NEW j \in 1..Len(t), i < j PROVE key[t[i]] <= key[t[j]]
  <2>1. at(i) < at(j)
    BY <1>0, <1>1, <1>3
  <2> HIDE DEF at
  <2> QED BY <1>2, <2>1 DEF Ascending
<1> QED BY <1>3 DEF Ascending, t

(* The list without its first event is in order as well.                   *)
LEMMA RestKeepsOrder ==
  ASSUME NEW s, Listed(s), s # <<>>, NEW key, Ascending(s, key)
  PROVE  Ascending(Tail(s), key)
<1>1. s \in Seq(Event) /\ Len(s) \in Nat
  BY LenProperties DEF Listed
<1>2. Len(Tail(s)) = Len(s) - 1 /\ \A i \in 1..(Len(s) - 1) : Tail(s)[i] = s[i + 1]
  BY RestListed
<1> QED BY <1>1, <1>2 DEF Ascending

(* The order depends on the end times of the events on the list only.      *)
LEMMA OtherEnds ==
  ASSUME NEW s, NEW key, NEW new, Ascending(s, key), \A i \in 1..Len(s) : new[s[i]] = key[s[i]]
  PROVE  Ascending(s, new)
BY DEF Ascending

-----------------------------------------------------------------------------
(* What holds whenever the caller calls.                                   *)

(* An empty handler without a worker is in order.                          *)
LEMMA InitInv == Init => OInv
<1> SUFFICES ASSUME Init PROVE OInv
  OBVIOUS
<1>1. HList
  BY TimeAssumption, EmptySeq DEF Init, HList, Listed, ToSet
<1>2. HPlaces /\ HThread /\ Runs
  BY DEF Init, HPlaces, HThread, Runs, Thread, Held, Loops, Starts, Ends
<1>3. InOrder
  BY DEF Init, InOrder, Loops, Starts, Held
<1> QED BY <1>1, <1>2, <1>3 DEF OInv, HInv

(* What add_event does to the list and to the end times.                   *)
LEMMA AddsEvent ==
  ASSUME NEW s, Listed(s), NEW e \in Event \ ToSet(s), AddEvent(e, s),
         due \in [Event -> Int], \A f \in Event : due[f] >= -Late
  PROVE  /\ Listed(list') /\ ToSet(list') = ToSet(s) \cup {e} /\ list' # <<>>
         /\ due' \in [Event -> Int] /\ \A f \in Event : due'[f] >= -Late
         /\ "RUNNING" \in flags /\ Ascending(s, due) => Ascending(list', due')
<1>0. s \in Seq(Event) /\ Len(s) \in Nat /\ ToSet(s) = {s[i] : i \in 1..Len(s)}
  BY Members, LenProperties DEF Listed
<1>1. RunTime \in [Event -> Int] /\ RunTime[e] \in Int /\ RunTime[e] >= -Late
  BY TimeAssumption
<1>2. /\ due' \in [Event -> Int] /\ \A f \in Event : due'[f] >= -Late
      /\ \A f \in Event \ {e} : due'[f] = due[f]
  <2>1. due' = [due EXCEPT ![e] = RunTime[e]] \/ due' = due
    BY DEF AddEvent, Timer_begin
  <2> QED BY <1>1, <2>1
<1> DEFINE key == IF "RUNNING" \in flags THEN due' ELSE RunTime
           p == Place(e, s, key)
<1>3. key \in [Event -> Int]
  BY <1>1, <1>2
<1>4. list' = InsertAt(s, p, e)
  BY DEF AddEvent
<1>5. p \in 1..(Len(s) + 1)
  <2> HIDE DEF key
  <2> QED BY <1>0, <1>3, PlaceIsBetween
<1>6. "RUNNING" \in flags /\ Ascending(s, due) => Ascending(list', due')
  <2> SUFFICES ASSUME "RUNNING" \in flags, Ascending(s, due) PROVE Ascending(list', due')
    OBVIOUS
  <2>1. \A i \in 1..Len(s) : due'[s[i]] = due[s[i]]
    <3>1. \A i \in 1..Len(s) : s[i] \in Event \ {e}
      BY <1>0, LenProperties
    <3> QED BY <1>2, <3>1
  <2>2. Ascending(s, due')
    BY <2>1, OtherEnds
  <2>3. list' = InsertAt(s, Place(e, s, due'), e)
    BY <1>4
  <2> QED BY <1>0, <1>2, <2>2, <2>3, PlaceKeepsOrder
<1> HIDE DEF p, key
<1>7. Listed(list') /\ ToSet(list') = ToSet(s) \cup {e}
  BY <1>4, <1>5, InsertedListed
<1>8. list' # <<>>
  <2>1. Len(InsertAt(s, p, e)) = Len(s) + 1
    BY <1>0, <1>5, Inserted
  <2> QED BY <1>0, <1>4, <2>1
<1> QED BY <1>2, <1>6, <1>7, <1>8

(* A step that leaves the events alone leaves the list as it is.           *)
LEMMA EventsStay ==
  ASSUME HList, UNCHANGED events PROVE HList'
BY DEF HList, events, Listed, ToSet

(* The worker on its way to the loop takes the mutex and stores            *)
(* THREAD_CREATED back.                                                    *)
LEMMA StartsKeepHInv == ASSUME HInv, WorkerStarts PROVE HInv'
<1> USE DEF Thread, Held, Starts, Loops, Ends, Goto, WorkerStarts, Load, Store, Lock
<1>1. HList'
  BY EventsStay DEF HInv
<1>2. HPlaces'
  BY DEF HInv, HPlaces
<1>3. HThread'
  BY DEF HInv, HPlaces, HThread, events
<1> QED BY <1>1, <1>2, <1>3 DEF HInv

(* On its way out it stores THREAD_CREATED back as well.                   *)
LEMMA EndsKeepHInv == ASSUME HInv, WorkerEnds PROVE HInv'
<1> USE DEF Thread, Held, Starts, Loops, Ends, Goto, WorkerEnds, Load, Store
<1>1. HList'
  BY EventsStay DEF HInv
<1>2. HPlaces'
  BY DEF HInv, HPlaces
<1>3. HThread'
  BY DEF HInv, HPlaces, HThread, events
<1> QED BY <1>1, <1>2, <1>3 DEF HInv

(* The head of the loop releases the mutex and takes it again; what is     *)
(* called back is fetched later.                                           *)
LEMMA HeadKeepsHInv == ASSUME HInv, LoopHead \/ WaitForEvents PROVE HInv'
<1> USE DEF Thread, Held, Starts, Loops, Ends, Goto, LoopHead, WaitForEvents, Lock, Unlock, Branch, Sleep, thread
<1>1. HList'
  BY EventsStay DEF HInv
<1>2. HPlaces'
  BY DEF HInv, HPlaces
<1>3. HThread'
  BY DEF HInv, HPlaces, HThread, events
<1> QED BY <1>1, <1>2, <1>3 DEF HInv

(* The timed wait is for an event that is on the list.                     *)
LEMMA TimedKeepsHInv == ASSUME HInv, TimedWait PROVE HInv'
<1> USE DEF Thread, Held, Starts, Loops, Ends, Goto, TimedWait, Sleep, Awake
<1>1. HList'
  BY EventsStay DEF HInv
<1>2. HPlaces'
  <2>1. CASE pc["worker"] = "timed"
    <3>1. Head(list) \in Event
      BY <2>1, RestListed DEF HInv, HList, HThread
    <3>2. due[Head(list)] \in Int
      BY <3>1 DEF HInv, HList
    <3> QED BY <2>1, <3>2 DEF HInv, HPlaces
  <2>2. CASE pc["worker"] # "timed"
    BY <2>2 DEF HInv, HPlaces
  <2> QED BY <2>1, <2>2
<1>3. HThread'
  BY DEF HInv, HPlaces, HThread, events
<1> QED BY <1>1, <1>2, <1>3 DEF HInv

(* The check of the first event only moves its end, towards later.         *)
LEMMA CheckKeepsHInv == ASSUME HInv, CheckFirst PROVE HInv'
<1> USE DEF Thread, Held, Starts, Loops, Ends, Goto, CheckFirst, Branch, thread
<1>1. HList'
  <2>1. CASE UNCHANGED events
    BY <2>1, EventsStay DEF HInv
  <2>2. CASE list # <<>> /\ Rang(Head(list)) /\ Timer_begin_before(Head(list)) /\ UNCHANGED <<list, freed>>
    <3> DEFINE e == Head(list)
    <3>1. e \in Event
      BY <2>2, RestListed DEF HInv, HList
    <3> HIDE DEF e
    <3>2. due' = [due EXCEPT ![e] = RunTime[e] + due[e]]
      BY <2>2 DEF Timer_begin_before, e
    <3>3. RunTime[e] \in Nat /\ due[e] \in Int /\ due[e] >= -Late /\ Late \in Nat
      BY <3>1, TimeAssumption DEF HInv, HList
    <3>4. due' \in [Event -> Int] /\ \A f \in Event : due'[f] >= -Late
      BY <3>1, <3>2, <3>3 DEF HInv, HList
    <3> QED BY <2>2, <3>4 DEF HInv, HList, Listed, ToSet
  <2> QED BY <2>1, <2>2
<1>2. HPlaces'
  BY DEF HInv, HPlaces
<1>3. HThread'
  BY DEF HInv, HPlaces, HThread, events
<1> QED BY <1>1, <1>2, <1>3 DEF HInv

(* The event that is freed is taken off the list, whichever it is.         *)
LEMMA CallbackKeepsHInv == ASSUME HInv, Callback PROVE HInv'
<1> USE DEF Thread, Held, Starts, Loops, Ends, Goto
<1>1. CASE Branch("worker", "reinsert")
  <2>1. HList'
    BY <1>1, EventsStay DEF HInv, Branch
  <2>2. HPlaces'
    BY <1>1 DEF HInv, HPlaces, Branch, thread, Callback
  <2>3. HThread'
    BY <1>1 DEF HInv, HPlaces, HThread, Branch, thread, events, Callback
  <2> QED BY <2>1, <2>2, <2>3 DEF HInv
<1>2. ASSUME NEW n \in 1..Len(list),
             list' = RemoveAt(list, n), Free(list[n]), Broadcast,
             Goto("worker", IF n = 1 THEN "loop" ELSE "reinsert"),
             UNCHANGED <<flags, reg, mutex, after, crashed, ordered>>
      PROVE HInv'
  <2> DEFINE e == list[n]
  <2>0. Listed(list) /\ list \in Seq(Event) /\ Len(list) \in Nat /\ e \in Event
    BY LenProperties DEF HInv, HList, Listed
  <2>1. Listed(list') /\ ToSet(list') \subseteq ToSet(list) \ {e}
    BY <1>2, <2>0, RemovedListed
  <2>2. due' = [due EXCEPT ![e] = -Late] /\ freed' = freed \cup {e}
    BY <1>2 DEF Free
  <2>3. Len(list') = Len(list) - 1
    BY <1>2, <2>0, Removed
  <2> HIDE DEF e
  <2>4. ToSet(list') \cap freed' = {}
    BY <2>1, <2>2 DEF HInv, HList
  <2>5. due' \in [Event -> Int] /\ \A f \in Event : due'[f] >= -Late
    BY <2>0, <2>2, TimeAssumption DEF HInv, HList
  <2>6. HList'
    BY <2>1, <2>4, <2>5 DEF HList
  <2>7. HPlaces'
    <3>1. until' = 0 /\ UNCHANGED <<reg, after>>
      BY <1>2 DEF Broadcast, Awake
    <3>2. /\ pc' = [t \in Thread |-> pc'[t]] /\ pc'["ctl"] = pc["ctl"]
          /\ pc'["worker"] \in {"loop", "reinsert"}
      BY <1>2 DEF HInv, HPlaces
    <3> QED BY <3>1, <3>2 DEF HInv, HPlaces
  <2>8. n # 1 => list' # <<>>
    BY <2>0, <2>3
  <2>9. HThread'
    BY <1>2, <2>8 DEF HInv, HPlaces, HThread, Callback
  <2> QED BY <2>6, <2>7, <2>9 DEF HInv
<1> QED BY <1>1, <1>2 DEF Callback

(* The event put back is the one that was taken off, and was not freed.    *)
LEMMA ReinsertKeepsHInv == ASSUME HInv, Reinsert PROVE HInv'
<1> USE DEF Thread, Held, Starts, Loops, Ends, Goto
<1>1. list # <<>> /\ Listed(list)
  BY DEF HInv, HThread, HList, Reinsert
<1>2. /\ Listed(Tail(list)) /\ Head(list) \in Event \ ToSet(Tail(list))
      /\ ToSet(Tail(list)) \subseteq ToSet(list) /\ Head(list) \in ToSet(list)
  BY <1>1, RestListed
<1>3. AddEvent(Head(list), Tail(list))
  BY DEF Reinsert
<1>4. /\ Listed(list') /\ ToSet(list') = ToSet(Tail(list)) \cup {Head(list)} /\ list' # <<>>
      /\ due' \in [Event -> Int] /\ \A f \in Event : due'[f] >= -Late
  BY <1>2, <1>3, AddsEvent DEF HInv, HList
<1>5. HList'
  BY <1>2, <1>4 DEF HInv, HList, Reinsert
<1>6. HPlaces'
  BY DEF HInv, HPlaces, Reinsert, thread
<1>7. HThread'
  BY DEF HInv, HPlaces, HThread, Reinsert, thread
<1> QED BY <1>5, <1>6, <1>7 DEF HInv

(* A caller adds an event that is neither on the list nor freed.           *)
LEMMA AddKeepsHInv ==
  ASSUME HInv, NEW e \in Event, TimerEventHandler_add_tsafe(e) PROVE HInv'
<1> USE DEF Thread, Held, Starts, Loops, Ends, TimerEventHandler_add_tsafe
<1>1. Listed(list) /\ e \in Event \ ToSet(list) /\ AddEvent(e, list)
  BY DEF HInv, HList
<1>2. /\ Listed(list') /\ ToSet(list') = ToSet(list) \cup {e} /\ list' # <<>>
      /\ due' \in [Event -> Int] /\ \A f \in Event : due'[f] >= -Late
  BY <1>1, AddsEvent DEF HInv, HList
<1>3. HList'
  BY <1>2 DEF HInv, HList
<1>4. HPlaces'
  BY DEF HInv, HPlaces, Broadcast, Awake
<1>5. HThread'
  BY DEF HInv, HPlaces, HThread
<1> QED BY <1>3, <1>4, <1>5 DEF HInv

(* What a caller extracts is gone from the list; the worker does not       *)
(* hold the mutex then.                                                    *)
LEMMA ExtractKeepsHInv ==
  ASSUME HInv, NEW e \in Event, TimerEventHandler_extract_tsafe(e) PROVE HInv'
<1> USE DEF Thread, Held, Starts, Loops, Ends, TimerEventHandler_extract_tsafe
<1>1. PICK n \in 1..Len(list) : list' = RemoveAt(list, n)
  OBVIOUS
<1>2. Listed(list') /\ ToSet(list') \subseteq ToSet(list)
  BY <1>1, RemovedListed DEF HInv, HList
<1>3. HList'
  BY <1>2 DEF HInv, HList
<1>4. HPlaces'
  BY DEF HInv, HPlaces, Broadcast, Awake
<1>5. HThread'
  BY DEF HInv, HPlaces, HThread
<1> QED BY <1>3, <1>4, <1>5 DEF HInv

(* The other calls leave the events alone, and a stop begins only where    *)
(* there is a thread.                                                      *)
LEMMA CallsKeepHInv ==
  ASSUME HInv,
         \/ TimerEventHandler_wakeup \/ TimerEventHandler_start
         \/ TimerEventHandler_stop \/ freeTimerEventHandler
         \/ \E e \in Event : TimerEventHandler_remove_tsafe(e)
  PROVE  HInv'
<1> USE DEF Thread, Held, Starts, Loops, Ends, Goto, TimerEventHandler_wakeup, TimerEventHandler_start,
            TimerEventHandler_stop, freeTimerEventHandler, TimerEventHandler_remove_tsafe,
            Broadcast, Awake, thread, MayCall
<1>1. HList'
  BY EventsStay DEF HInv
<1>2. HPlaces'
  BY DEF HInv, HPlaces
<1>3. HThread'
  BY DEF HInv, HPlaces, HThread, events
<1> QED BY <1>1, <1>2, <1>3 DEF HInv

(* A stop stores THREAD_CREATED back, and lowers it when it has joined     *)
(* the thread.                                                             *)
LEMMA StopKeepsHInv == ASSUME HInv, StopFlag \/ StopJoin \/ FreeList PROVE HInv'
<1> USE DEF Thread, Held, Starts, Loops, Ends, Goto, StopFlag, StopJoin, FreeList, Load, Store,
            Broadcast, Awake, thread
<1>1. HList'
  BY EventsStay DEF HInv
<1>2. HPlaces'
  BY DEF HInv, HPlaces
<1>3. HThread'
  BY DEF HInv, HPlaces, HThread, events
<1> QED BY <1>1, <1>2, <1>3 DEF HInv

(* A thread is created only where there is none.                           *)
LEMMA StartKeepsHInv == ASSUME HInv, StartThread PROVE HInv'
<1> USE DEF Thread, Held, Starts, Loops, Ends, Goto, StartThread
<1>1. HList'
  <2>1. due' \in [Event -> Int] /\ \A f \in Event : due'[f] >= -Late
    BY TimeAssumption DEF HInv, HList
  <2> QED BY <2>1 DEF HInv, HList, Listed, ToSet
<1>2. HPlaces'
  BY DEF HInv, HPlaces
<1>3. HThread'
  BY DEF HInv, HPlaces, HThread
<1> QED BY <1>1, <1>2, <1>3 DEF HInv

(* Time goes on without the list.                                          *)
LEMMA TickKeepsHInv == ASSUME HInv, Tick PROVE HInv'
<1>1. HList'
  <2>1. due' \in [Event -> Int] /\ \A f \in Event : due'[f] >= -Late
    BY TimeAssumption DEF HInv, HList, Tick
  <2> QED BY <2>1 DEF HInv, HList, Listed, ToSet, Tick
<1>2. HPlaces'
  BY DEF HInv, HPlaces, Tick, Thread
<1>3. HThread'
  BY DEF HInv, HPlaces, HThread, Tick
<1> QED BY <1>1, <1>2, <1>3 DEF HInv

(* A stuttering step changes nothing.                                      *)
LEMMA StutterKeepsHInv == ASSUME HInv, UNCHANGED vars PROVE HInv'
<1>1. HList'
  BY EventsStay DEF HInv, vars
<1>2. HPlaces' /\ HThread'
  BY DEF HInv, HPlaces, HThread, vars, events, thread
<1> QED BY <1>1, <1>2 DEF HInv

(* Every step keeps the part of the invariant that needs no patient        *)
(* caller.                                                                 *)
LEMMA StepsKeepHInv == ASSUME HInv, [Next]_vars PROVE HInv'
<1>1. CASE \E e \in Event :
             \/ TimerEventHandler_add_tsafe(e) \/ TimerEventHandler_extract_tsafe(e)
             \/ TimerEventHandler_remove_tsafe(e)
  BY <1>1, AddKeepsHInv, ExtractKeepsHInv, CallsKeepHInv
<1>2. CASE \/ TimerEventHandler_wakeup \/ TimerEventHandler_start
           \/ TimerEventHandler_stop \/ freeTimerEventHandler
  BY <1>2, CallsKeepHInv
<1>3. CASE ControlStep
  BY <1>3, StartKeepsHInv, StopKeepsHInv DEF ControlStep
<1>4. CASE WorkerStep
  BY <1>4, StartsKeepHInv, HeadKeepsHInv, CheckKeepsHInv, CallbackKeepsHInv, ReinsertKeepsHInv,
     TimedKeepsHInv, EndsKeepHInv DEF WorkerStep
<1>5. CASE Tick
  BY <1>5, TickKeepsHInv
<1>6. CASE UNCHANGED vars
  BY <1>6, StutterKeepsHInv
<1> QED BY <1>1, <1>2, <1>3, <1>4, <1>5, <1>6 DEF Next, Calls

(* The list holds each event once and none that a callback freed, whoever  *)
(* calls what when: timer_loop goes on with an event that is still there.  *)
THEOREM FreedEventsAreOff == Spec => []NoFreedListed
<1>1. Init => HInv
  BY InitInv DEF OInv
<1>2. HInv /\ [Next]_vars => HInv'
  BY StepsKeepHInv
<1>3. HInv => NoFreedListed
  BY DEF HInv, HList, NoFreedListed
<1> QED BY <1>1, <1>2, <1>3, PTL DEF Spec

-----------------------------------------------------------------------------
(* The order of end times.                                                 *)

(* A step after which no worker is in its loop or on its way there, or one *)
(* that leaves list, end times and sleep as they are.                      *)
LEMMA OrderStays ==
  ASSUME InOrder, UNCHANGED <<list, due, ordered, waiting, until>>,
         \/ pc'["worker"] = pc["worker"]
         \/ /\ pc["worker"] \in Starts \cup (Loops \ {"callback", "reinsert"})
            /\ pc'["worker"] \notin {"callback", "reinsert", "alarm"}
         \/ pc["worker"] = "callback" /\ pc'["worker"] = "reinsert"
         \/ pc'["worker"] \in {"none"} \cup Ends
  PROVE  InOrder'
BY DEF InOrder, Ascending, Starts, Loops, Held, Ends

(* The worker keeps THREAD_RUNNING up from before the loop until after     *)
(* it.                                                                     *)
LEMMA WorkerRuns ==
  ASSUME OInv, WorkerStep PROVE Runs'
<1> USE DEF Thread, Held, Starts, Loops, Ends, Goto, thread, Load, Store, Lock, Unlock, Branch, Sleep, Awake
<1>1. CASE WorkerStarts
  BY <1>1 DEF OInv, HInv, HPlaces, Runs, WorkerStarts
<1>2. CASE LoopHead \/ WaitForEvents
  BY <1>2 DEF OInv, HInv, HPlaces, Runs, LoopHead, WaitForEvents
<1>3. CASE CheckFirst \/ Reinsert
  BY <1>3 DEF OInv, HInv, HPlaces, Runs, CheckFirst, Reinsert
<1>4. CASE Callback
  <2>1. /\ pc["worker"] = "callback" /\ UNCHANGED <<flags, reg>>
        /\ pc'["ctl"] = pc["ctl"] /\ pc'["worker"] \in {"loop", "reinsert"}
    BY <1>4 DEF OInv, HInv, HPlaces, Callback
  <2> QED BY <2>1 DEF OInv, Runs
<1>5. CASE TimedWait
  BY <1>5 DEF OInv, HInv, HPlaces, Runs, TimedWait
<1>6. CASE WorkerEnds
  BY <1>6 DEF OInv, HInv, HPlaces, Runs, WorkerEnds
<1> QED BY <1>1, <1>2, <1>3, <1>4, <1>5, <1>6 DEF WorkerStep

(* The worker's steps keep the list in the order of end times.             *)
LEMMA WorkerInOrder ==
  ASSUME OInv, WorkerStep PROVE InOrder'
<1> USE DEF Held, Starts, Loops, Ends, Goto
<1>0. "ctl" \in Thread /\ "worker" \in Thread /\ \A v : [pc EXCEPT !["worker"] = v]["worker"] = v
  BY DEF Thread, OInv, HInv, HPlaces
<1>1. CASE WorkerStarts
  BY <1>0, <1>1, OrderStays DEF OInv, WorkerStarts, Load, Store, Lock, events
<1>2. CASE LoopHead
  BY <1>0, <1>2, OrderStays DEF OInv, LoopHead, Lock, Unlock, events
<1>3. CASE WaitForEvents
  <2>1. CASE pc["worker"] = "wait" /\ Sleep(0, "asleep")
    BY <1>0, <2>1 DEF OInv, InOrder, Ascending, Sleep, events
  <2> QED BY <1>0, <1>3, <2>1, OrderStays DEF OInv, WaitForEvents, Branch, Lock, events, thread
<1>4. CASE CheckFirst
  <2>1. CASE Branch("worker", "loop") \/ Branch("worker", "timed")
    BY <1>0, <1>4, <2>1, OrderStays DEF OInv, CheckFirst, Branch, events, thread
  <2>2. CASE /\ list # <<>> /\ Timer_begin_before(Head(list)) /\ Goto("worker", "callback")
             /\ UNCHANGED <<list, ordered>>
    <3> SUFFICES ASSUME ordered PROVE Ascending(Tail(list), due')
      BY <1>0, <2>2 DEF InOrder
    <3>1. Listed(list) /\ Ascending(list, due)
      BY <1>4 DEF OInv, HInv, HList, InOrder, CheckFirst
    <3>2. Ascending(Tail(list), due)
      BY <2>2, <3>1, RestKeepsOrder
    <3>3. /\ Tail(list) \in Seq(Event) /\ Len(Tail(list)) \in Nat
          /\ Head(list) \notin {Tail(list)[i] : i \in 1..Len(Tail(list))}
      BY <2>2, <3>1, RestListed, Members, LenProperties DEF Listed
    <3>4. \A i \in 1..Len(Tail(list)) : Tail(list)[i] \in Event /\ Tail(list)[i] # Head(list)
      BY <3>3, LenProperties
    <3>5. \A i \in 1..Len(Tail(list)) : due'[Tail(list)[i]] = due[Tail(list)[i]]
      BY <2>2, <3>4 DEF Timer_begin_before, OInv, HInv, HList
    <3> QED BY <3>2, <3>5 DEF Ascending
  <2> QED BY <1>4, <2>1, <2>2 DEF CheckFirst
<1>5. CASE Callback
  <2>1. CASE Branch("worker", "reinsert")
    BY <1>0, <1>5, <2>1, OrderStays DEF OInv, Callback, Branch, events, thread
  <2>2. ASSUME NEW n \in 1..Len(list), list' = RemoveAt(list, n), Free(list[n]),
               Goto("worker", IF n = 1 THEN "loop" ELSE "reinsert"), UNCHANGED ordered
        PROVE InOrder'
    <3> SUFFICES ASSUME ordered
                 PROVE  /\ n = 1 => Ascending(list', due')
                        /\ n # 1 => Ascending(Tail(list'), due')
      BY <1>0, <2>2 DEF InOrder
    <3>1. /\ Listed(list) /\ list \in Seq(Event) /\ Len(list) \in Nat /\ list # <<>>
          /\ \A i \in 1..Len(list) : list[i] \in Event
      BY <1>5, LenProperties DEF OInv, HInv, HList, HThread, Listed, Callback
    <3>2. /\ Listed(list') /\ Len(list') = Len(list) - 1
          /\ \A i \in 1..(Len(list) - 1) : list'[i] = IF i < n THEN list[i] ELSE list[i + 1]
      <4>1. Listed(list')
        BY <2>2, <3>1, RemovedListed
      <4>2. /\ Len(RemoveAt(list, n)) = Len(list) - 1
            /\ \A i \in 1..(Len(list) - 1) :
                 RemoveAt(list, n)[i] = IF i < n THEN list[i] ELSE list[i + 1]
        BY <3>1, Removed
      <4> QED BY <2>2, <4>1, <4>2
    <3>3. Len(Tail(list)) = Len(list) - 1 /\ \A i \in 1..(Len(list) - 1) : Tail(list)[i] = list[i + 1]
      BY <3>1, RestListed
    <3>4. \A i, j \in 2..Len(list) : i < j => due[list[i]] <= due[list[j]]
      <4>1. Ascending(Tail(list), due)
        BY <1>5 DEF OInv, InOrder, Callback
      <4> SUFFICES ASSUME NEW i \in 2..Len(list), NEW j \in 2..Len(list), i < j
                   PROVE  due[list[i]] <= due[list[j]]
        OBVIOUS
      <4>2. /\ i - 1 \in 1..Len(Tail(list)) /\ j - 1 \in 1..Len(Tail(list)) /\ i - 1 < j - 1
            /\ Tail(list)[i - 1] = list[i] /\ Tail(list)[j - 1] = list[j]
        BY <3>1, <3>3
      <4> QED BY <4>1, <4>2 DEF Ascending
    <3>5. \A i \in 1..Len(list) : i # n => due'[list[i]] = due[list[i]]
      <4>1. \A i \in 1..Len(list) : i # n => list[i] # list[n]
        BY <3>1 DEF Listed
      <4> QED BY <2>2, <3>1, <4>1 DEF Free, OInv, HInv, HList
    <3> DEFINE at(i) == IF i < n THEN i ELSE i + 1
    <3>6. ASSUME NEW i \in 1..Len(list')
          PROVE at(i) \in 1..Len(list) /\ at(i) # n /\ list'[i] = list[at(i)]
      BY <3>1, <3>2
    <3>7. ASSUME NEW i \in 1..Len(list'), NEW j \in 1..Len(list'), i < j, 2 <= at(i)
          PROVE due'[list'[i]] <= due'[list'[j]]
      <4>1. at(i) < at(j) /\ at(i) \in 2..Len(list) /\ at(j) \in 2..Len(list)
        BY <3>1, <3>2, <3>6, <3>7
      <4> HIDE DEF at
      <4>2. due'[list'[i]] = due[list[at(i)]] /\ due'[list'[j]] = due[list[at(j)]]
        BY <3>5, <3>6
      <4> QED BY <3>4, <4>1, <4>2
    <3>8. CASE n = 1
      <4>1. \A i \in 1..Len(list') : 2 <= at(i)
        BY <3>1, <3>2, <3>8
      <4> HIDE DEF at
      <4> QED BY <3>7, <3>8, <4>1 DEF Ascending
    <3>9. CASE n # 1
      <4>1. list' # <<>>
        BY <3>1, <3>2, <3>9
      <4>2. Len(Tail(list')) = Len(list') - 1 /\ \A i \in 1..(Len(list') - 1) : Tail(list')[i] = list'[i + 1]
        BY <3>2, <4>1, RestListed
      <4>3. ASSUME NEW i \in 1..Len(Tail(list')), NEW j \in 1..Len(Tail(list')), i < j
            PROVE due'[Tail(list')[i]] <= due'[Tail(list')[j]]
        <5>1. /\ i + 1 \in 1..Len(list') /\ j + 1 \in 1..Len(list') /\ i + 1 < j + 1 /\ 2 <= at(i + 1)
              /\ Tail(list')[i] = list'[i + 1] /\ Tail(list')[j] = list'[j + 1]
          BY <3>1, <3>2, <4>2, <4>3
        <5> HIDE DEF at
        <5> QED BY <3>7, <5>1
      <4> QED BY <3>9, <4>3 DEF Ascending
    <3> QED BY <3>8, <3>9
  <2> QED BY <1>5, <2>1, <2>2 DEF Callback
<1>6. CASE Reinsert
  <2> SUFFICES ASSUME ordered PROVE Ascending(list', due')
    BY <1>0, <1>6 DEF InOrder, Reinsert
  <2>1. /\ list # <<>> /\ Listed(list) /\ "RUNNING" \in flags /\ Ascending(Tail(list), due)
        /\ due \in [Event -> Int] /\ \A f \in Event : due[f] >= -Late
    BY <1>6 DEF OInv, HInv, HThread, HList, InOrder, Runs, Reinsert
  <2>2. Listed(Tail(list)) /\ Head(list) \in Event \ ToSet(Tail(list))
    BY <2>1, RestListed
  <2> QED BY <1>6, <2>1, <2>2, AddsEvent DEF Reinsert
<1>7. CASE TimedWait
  <2>1. CASE pc["worker"] = "timed" /\ Sleep(due[Head(list)], "alarm")
    <3> SUFFICES ASSUME ordered
                 PROVE  Ascending(list, due) /\ \A n \in 1..Len(list) : due[Head(list)] <= due[list[n]]
      BY <1>0, <2>1 DEF InOrder, Ascending, Sleep, events
    <3>1. /\ Listed(list) /\ list # <<>> /\ Ascending(list, due) /\ list \in Seq(Event) /\ Len(list) \in Nat
          /\ due \in [Event -> Int] /\ \A i \in 1..Len(list) : list[i] \in Event
      BY <2>1, LenProperties DEF OInv, HInv, HList, HThread, InOrder, Listed
    <3>2. Head(list) = list[1] /\ Len(list) >= 1
      BY <3>1, RestListed
    <3>3. ASSUME NEW n \in 1..Len(list) PROVE due[list[1]] <= due[list[n]]
      <4>1. due[list[1]] \in Int /\ 1 \in 1..Len(list) /\ (n = 1 \/ 1 < n)
        BY <3>1, <3>2
      <4> QED BY <3>1, <4>1 DEF Ascending
    <3> QED BY <3>1, <3>2, <3>3
  <2>2. CASE pc["worker"] = "alarm"
    BY <1>0, <1>7, <2>2 DEF OInv, InOrder, Ascending, TimedWait, Awake, events
  <2> QED BY <1>7, <2>1, <2>2 DEF TimedWait
<1>8. CASE WorkerEnds
  BY <1>0, <1>8, OrderStays DEF OInv, WorkerEnds, Load, Store, events
<1> QED BY <1>1, <1>2, <1>3, <1>4, <1>5, <1>6, <1>7, <1>8 DEF WorkerStep

(* Time goes on alike for all end times, and for the timeout of the        *)
(* wait.                                                                   *)
LEMMA TickInOrder ==
  ASSUME OInv, Tick PROVE InOrder'
<1> SUFFICES ASSUME ordered PROVE InOrder'
  BY DEF InOrder, Tick
<1>0. /\ list \in Seq(Event) /\ Len(list) \in Nat /\ \A i \in 1..Len(list) : list[i] \in Event
      /\ Late \in Nat /\ due \in [Event -> Int] /\ \A e \in Event : due[e] >= -Late
      /\ until \in Int /\ UNCHANGED <<list, pc, waiting, ordered>>
  BY LenProperties, TimeAssumption DEF OInv, HInv, HList, HPlaces, Listed, Tick
<1>1. \A e, f \in Event : due[e] <= due[f] => due'[e] <= due'[f]
  BY <1>0 DEF Tick
<1>2. ASSUME NEW s \in Seq(Event), Ascending(s, due) PROVE Ascending(s, due')
  <2>1. \A i \in 1..Len(s) : s[i] \in Event
    BY LenProperties
  <2> QED BY <1>1, <1>2, <2>1 DEF Ascending
<1>3. pc["worker"] \in Starts \cup (Loops \ {"callback", "reinsert"}) => Ascending(list, due')
  BY <1>0, <1>2 DEF OInv, InOrder
<1>4. pc["worker"] \in {"callback", "reinsert"} => Ascending(Tail(list), due')
  <2> SUFFICES ASSUME pc["worker"] \in {"callback", "reinsert"} PROVE Ascending(Tail(list), due')
    OBVIOUS
  <2>1. Tail(list) \in Seq(Event)
    BY RestListed DEF OInv, HInv, HThread, HList, Listed
  <2> QED BY <1>2, <2>1 DEF OInv, InOrder
<1>5. ASSUME pc["worker"] = "alarm", waiting, NEW n \in 1..Len(list) PROVE until' <= due'[list[n]]
  <2>1. list[n] \in ToSet(list) /\ InLoop
    BY <1>0, <1>5, Members DEF InLoop
  <2>2. due[list[n]] > -Late /\ due'[list[n]] = due[list[n]] - 1 /\ due[list[n]] \in Int
    BY <1>0, <2>1 DEF Tick
  <2>3. until' = IF until > -Late THEN until - 1 ELSE until
    BY <1>5 DEF Tick
  <2>4. until <= due[list[n]]
    BY <1>5 DEF OInv, InOrder
  <2> QED BY <1>0, <2>2, <2>3, <2>4
<1> QED BY <1>0, <1>3, <1>4, <1>5 DEF InOrder

(* The caller's steps, if it lets the worker reach its loop first: the     *)
(* handler it adds to is running, and the worker wakes.                    *)
LEMMA CallsKeepOInv ==
  ASSUME Patient, OInv, Calls \/ ControlStep PROVE Runs' /\ InOrder'
<1> USE DEF Thread, Held, Starts, Loops, Ends, Goto, MayCall
<1>1. ASSUME NEW e \in Event, TimerEventHandler_add_tsafe(e) PROVE Runs' /\ InOrder'
  <2>1. Runs'
    BY <1>1 DEF OInv, Runs, TimerEventHandler_add_tsafe
  <2>2. /\ pc' = pc /\ waiting' = FALSE /\ ordered' = ordered
        /\ pc["worker"] \notin Starts \cup {"callback", "reinsert"}
    BY <1>1 DEF OInv, HInv, HThread, TimerEventHandler_add_tsafe, Broadcast, Awake
  <2>3. CASE pc["worker"] \in Loops
    <3>1. "RUNNING" \in flags /\ Listed(list) /\ e \in Event \ ToSet(list) /\ AddEvent(e, list)
          /\ due \in [Event -> Int] /\ \A f \in Event : due[f] >= -Late
      BY <1>1, <2>3 DEF OInv, HInv, HList, Runs, TimerEventHandler_add_tsafe
    <3>2. Ascending(list, due) => Ascending(list', due')
      BY <3>1, AddsEvent
    <3> QED BY <2>1, <2>2, <2>3, <3>2 DEF OInv, InOrder
  <2>4. CASE pc["worker"] \notin Loops
    BY <2>1, <2>2, <2>4 DEF InOrder
  <2> QED BY <2>3, <2>4
<1>2. ASSUME NEW e \in Event, TimerEventHandler_extract_tsafe(e) PROVE Runs' /\ InOrder'
  <2>1. Runs'
    BY <1>2 DEF OInv, Runs, TimerEventHandler_extract_tsafe
  <2>2. /\ pc' = pc /\ waiting' = FALSE /\ ordered' = ordered /\ due' = due
        /\ pc["worker"] \notin Starts \cup {"callback", "reinsert"}
    BY <1>2 DEF OInv, HInv, HThread, TimerEventHandler_extract_tsafe, Broadcast, Awake
  <2>3. PICK n \in 1..Len(list) : list' = RemoveAt(list, n)
    BY <1>2 DEF TimerEventHandler_extract_tsafe
  <2>4. Ascending(list, due) => Ascending(list', due')
    BY <2>2, <2>3, RemovalKeepsOrder DEF OInv, HInv, HList, Listed
  <2> QED BY <2>1, <2>2, <2>4 DEF OInv, InOrder
<1>3. ASSUME NEW e \in Event, TimerEventHandler_remove_tsafe(e) PROVE Runs' /\ InOrder'
  <2>1. Runs'
    BY <1>3 DEF OInv, Runs, TimerEventHandler_remove_tsafe, thread
  <2> QED BY <1>3, <2>1, OrderStays DEF OInv, TimerEventHandler_remove_tsafe, thread, events
<1>4. CASE TimerEventHandler_wakeup
  <2>1. Runs'
    BY <1>4 DEF OInv, Runs, TimerEventHandler_wakeup
  <2>2. InOrder'
    BY <1>4 DEF OInv, InOrder, Ascending, TimerEventHandler_wakeup, Broadcast, Awake, events
  <2> QED BY <2>1, <2>2
<1>5. CASE TimerEventHandler_start \/ TimerEventHandler_stop \/ freeTimerEventHandler
  <2>1. Runs'
    BY <1>5 DEF OInv, HInv, HPlaces, Runs, TimerEventHandler_start, TimerEventHandler_stop,
                freeTimerEventHandler, thread
  <2>2. pc'["worker"] = pc["worker"] /\ UNCHANGED <<list, due, ordered, waiting, until>>
    BY <1>5 DEF OInv, HInv, HPlaces, TimerEventHandler_start, TimerEventHandler_stop,
                freeTimerEventHandler, thread, events
  <2> QED BY <2>1, <2>2, OrderStays DEF OInv
<1>6. CASE StartThread
  <2>1. Runs'
    BY <1>6 DEF OInv, HInv, HPlaces, HThread, Runs, StartThread
  <2>2. list \in Seq(Event) /\ Len(list) \in Nat /\ ToSet(list) = {list[i] : i \in 1..Len(list)}
        /\ \A i \in 1..Len(list) : list[i] \in Event
    BY Members, LenProperties DEF OInv, HInv, HList, Listed
  <2>3. \A i \in 1..Len(list) : due'[list[i]] = RunTime[list[i]]
    BY <1>6, <2>2 DEF StartThread
  <2>4. ordered' => Ascending(list', due')
    <3>1. list' = list /\ ordered' = Ascending(list, RunTime)
      BY <1>6 DEF StartThread
    <3>2. Ascending(list, RunTime) => Ascending(list, due')
      BY <2>3, OtherEnds
    <3> QED BY <3>1, <3>2
  <2>5. pc'["worker"] \in {"born", "none"}
    BY <1>6 DEF OInv, HInv, HPlaces, HThread, StartThread
  <2> QED BY <2>1, <2>4, <2>5 DEF InOrder
<1>7. CASE StopFlag
  <2>1. Runs'
    BY <1>7 DEF OInv, HInv, HPlaces, Runs, StopFlag, Load, Store
  <2>2. pc'["worker"] = pc["worker"] /\ UNCHANGED <<list, due, ordered>>
        /\ (UNCHANGED <<waiting, until>> \/ waiting' = FALSE)
    BY <1>7 DEF OInv, HInv, HPlaces, StopFlag, Load, Store, Broadcast, Awake, events
  <2> QED BY <2>1, <2>2 DEF OInv, InOrder, Ascending
<1>8. CASE StopJoin
  BY <1>8 DEF Runs, InOrder, StopJoin
<1>9. CASE FreeList
  <2>1. Runs'
    BY <1>9 DEF OInv, HInv, HPlaces, Runs, FreeList, thread
  <2>2. pc'["worker"] = pc["worker"] /\ UNCHANGED <<list, due, ordered, waiting, until>>
    BY <1>9 DEF OInv, HInv, HPlaces, FreeList, thread, events
  <2> QED BY <2>1, <2>2, OrderStays DEF OInv
<1> QED BY <1>1, <1>2, <1>3, <1>4, <1>5, <1>6, <1>7, <1>8, <1>9 DEF Calls, ControlStep

(* Whatever rings, is added, extracted or freed, the worker is awake in    *)
(* time for the first event to end, for a caller that lets it reach its    *)
(* loop before the next call: before that, add_event goes by run times.    *)
THEOREM WakesInTime ==
  ASSUME Patient
  PROVE  Spec => []NeverOversleeps
<1>1. Init => OInv
  BY InitInv
<1>2. OInv /\ [Next]_vars => OInv'
  <2> SUFFICES ASSUME OInv, [Next]_vars PROVE OInv'
    OBVIOUS
  <2>1. HInv'
    BY StepsKeepHInv DEF OInv
  <2>2. CASE Calls \/ ControlStep
    BY <2>1, <2>2, CallsKeepOInv DEF OInv
  <2>3. CASE WorkerStep
    BY <2>1, <2>3, WorkerRuns, WorkerInOrder DEF OInv
  <2>4. CASE Tick
    <3>1. Runs'
      BY <2>4 DEF OInv, Runs, Tick
    <3> QED BY <2>1, <2>4, <3>1, TickInOrder DEF OInv
  <2>5. CASE UNCHANGED vars
    <3>1. Runs' /\ InOrder'
      BY <2>5 DEF OInv, Runs, InOrder, Ascending, vars, events, thread
    <3> QED BY <2>1, <3>1 DEF OInv
  <2> QED BY <2>2, <2>3, <2>4, <2>5 DEF Next
<1>3. OInv => NeverOversleeps
  <2> SUFFICES ASSUME OInv, ordered, pc["worker"] = "alarm", waiting, NEW e \in ToSet(list)
               PROVE  until <= due[e]
    BY DEF NeverOversleeps
  <2>1. PICK n \in 1..Len(list) : e = list[n]
    BY Members DEF OInv, HInv, HList, Listed
  <2> QED BY <2>1 DEF OInv, InOrder
<1> QED BY <1>1, <1>2, <1>3, PTL DEF Spec
=============================================================================
