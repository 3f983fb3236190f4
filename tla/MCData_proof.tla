---------------------------- MODULE MCData_proof ----------------------------
(***************************************************************************)
(* Proofs about four components of MCData.tla: the framing of messages on  *)
(* a stream (ComDataCheck.tla), for every length of the header and all     *)
(* messages, the reading of a timer (TimeSpec.tla), for every clock, the   *)
(* functions on texts (TextFunctions.tla), for memory of every size, and   *)
(* the byte buffer (BinaryBuffer.tla), for lengths up to every bound.      *)
(***************************************************************************)
EXTENDS MCData, Integers, SequenceTheorems, WellFoundedInduction, TLAPS

-----------------------------------------------------------------------------
(* Pieces of a byte stream.                                                *)

Bytes == Int \X Int

(* The bytes of S behind its first y, up to its x-th.                      *)
Piece(S, y, x) == SubSeq(S, y + 1, x)

(* A piece is as long as it should be, of the bytes that are there.        *)
LEMMA PieceIs ==
  ASSUME NEW T, NEW S \in Seq(T), NEW y \in Nat, NEW x \in Nat, y <= x, x <= Len(S)
  PROVE  /\ Piece(S, y, x) \in Seq(T)
         /\ Len(Piece(S, y, x)) = x - y
         /\ \A i \in 1..(x - y) : Piece(S, y, x)[i] = S[y + i]
PROOF
  BY SubSeqProperties, SMTT(30) DEF Piece

(* A piece is empty if and only if its ends meet.                          *)
LEMMA PieceEmpty ==
  ASSUME NEW T, NEW S \in Seq(T), NEW y \in Nat, NEW x \in Nat, y <= x, x <= Len(S)
  PROVE  (Piece(S, y, x) = <<>>) <=> (y = x)
PROOF
  <1>1. Len(Piece(S, y, x)) = x - y /\ Piece(S, y, x) \in Seq(T)
    BY PieceIs
  <1>2. Piece(S, y, x) = <<>> <=> Len(Piece(S, y, x)) = 0
    BY <1>1, EmptySeq
  <1> QED
    BY <1>1, <1>2

(* Neighbouring pieces join to one.                                        *)
LEMMA PiecesJoin ==
  ASSUME NEW T, NEW S \in Seq(T), NEW y \in Nat, NEW z \in Nat, NEW x \in Nat,
         y <= z, z <= x, x <= Len(S)
  PROVE  Piece(S, y, z) \o Piece(S, z, x) = Piece(S, y, x)
PROOF
  <1> DEFINE l == Piece(S, y, z)
             r == Piece(S, z, x)
             w == Piece(S, y, x)
  <1>0. z <= Len(S) /\ y <= x /\ Len(S) \in Nat
    BY LenProperties
  <1>1. l \in Seq(T) /\ Len(l) = z - y /\ \A i \in 1..(z - y) : l[i] = S[y + i]
    BY <1>0, PieceIs, ZenonT(60)
  <1>2. r \in Seq(T) /\ Len(r) = x - z /\ \A i \in 1..(x - z) : r[i] = S[z + i]
    BY PieceIs
  <1>3. w \in Seq(T) /\ Len(w) = x - y /\ \A i \in 1..(x - y) : w[i] = S[y + i]
    BY <1>0, PieceIs
  <1> HIDE DEF l, r, w
  <1> DEFINE j == l \o r
  <1>4. /\ j \in Seq(T) /\ Len(j) = Len(l) + Len(r)
        /\ \A i \in 1..(Len(l) + Len(r)) : j[i] = IF i <= Len(l) THEN l[i] ELSE r[i - Len(l)]
    BY <1>1, <1>2, ConcatProperties
  <1> HIDE DEF j
  <1>5. ASSUME NEW i \in 1..(x - y) PROVE j[i] = w[i]
    <2>1. w[i] = S[y + i]
      BY <1>3
    <2>2. j[i] = IF i <= z - y THEN l[i] ELSE r[i - (z - y)]
      <3>1. i \in 1..(Len(l) + Len(r))
        BY <1>1, <1>2
      <3> QED
        BY <3>1, <1>1, <1>4
    <2>3. CASE i <= z - y
      <3>1. i \in 1..(z - y)
        BY <2>3
      <3>2. l[i] = S[y + i]
        BY <3>1, <1>1
      <3> QED
        BY <3>2, <2>1, <2>2, <2>3
    <2>4. CASE ~(i <= z - y)
      <3>1. i - (z - y) \in 1..(x - z) /\ z + (i - (z - y)) = y + i
        BY <2>4
      <3>2. r[i - (z - y)] = S[y + i]
        BY <3>1, <1>2
      <3> QED
        BY <3>2, <2>1, <2>2, <2>4
    <2> QED
      BY <2>3, <2>4
  <1>6. Len(j) = Len(w) /\ \A i \in 1..Len(j) : j[i] = w[i]
    BY <1>1, <1>2, <1>3, <1>4, <1>5
  <1>7. j = w
    BY <1>3, <1>4, <1>6, SeqEqual
  <1> QED
    BY <1>7 DEF j, l, r, w

(* A piece is cut into its first bytes and the rest.                       *)
LEMMA PieceCut ==
  ASSUME NEW T, NEW S \in Seq(T), NEW y \in Nat, NEW z \in Nat, NEW x \in Nat,
         y <= z, z <= x, x <= Len(S)
  PROVE  /\ SubSeq(Piece(S, y, x), 1, z - y) = Piece(S, y, z)
         /\ SubSeq(Piece(S, y, x), (z - y) + 1, Len(Piece(S, y, x))) = Piece(S, z, x)
PROOF
  <1> DEFINE l == Piece(S, y, z)
             r == Piece(S, z, x)
             w == Piece(S, y, x)
  <1>0. z <= Len(S) /\ y <= x /\ Len(S) \in Nat
    BY LenProperties
  <1>1. l \in Seq(T) /\ Len(l) = z - y /\ \A i \in 1..(z - y) : l[i] = S[y + i]
    BY <1>0, PieceIs
  <1>2. r \in Seq(T) /\ Len(r) = x - z /\ \A i \in 1..(x - z) : r[i] = S[z + i]
    BY PieceIs
  <1>3. w \in Seq(T) /\ Len(w) = x - y /\ \A i \in 1..(x - y) : w[i] = S[y + i]
    BY <1>0, PieceIs
  <1> HIDE DEF l, r, w
  <1> DEFINE u == SubSeq(w, 1, z - y)
             v == SubSeq(w, (z - y) + 1, Len(w))
  <1>4. u \in Seq(T) /\ Len(u) = z - y /\ \A i \in 1..(z - y) : u[i] = w[i]
    BY <1>3, SubSeqProperties, SMTT(30)
  <1>5. v \in Seq(T) /\ Len(v) = x - z /\ \A i \in 1..(x - z) : v[i] = w[(z - y) + i]
    BY <1>3, SubSeqProperties, SMTT(30)
  <1> HIDE DEF u, v
  <1>6. u = l
    BY <1>1, <1>3, <1>4, SeqEqual
  <1>7. v = r
    BY <1>2, <1>3, <1>5, SeqEqual, SMTT(40)
  <1> QED
    BY <1>6, <1>7 DEF l, r, w, u, v

(* Streams that begin with the same bytes have the same pieces there.      *)
LEMMA SamePiece ==
  ASSUME NEW T, NEW S \in Seq(T), NEW W \in Seq(T), NEW y \in Nat, NEW x \in Nat,
         y <= x, x <= Len(S), x <= Len(W), \A i \in 1..Len(S) : W[i] = S[i]
  PROVE  Piece(W, y, x) = Piece(S, y, x)
PROOF
  <1> DEFINE p == Piece(S, y, x)
             q == Piece(W, y, x)
  <1>1. p \in Seq(T) /\ Len(p) = x - y /\ \A i \in 1..(x - y) : p[i] = S[y + i]
    BY PieceIs
  <1>2. q \in Seq(T) /\ Len(q) = x - y /\ \A i \in 1..(x - y) : q[i] = W[y + i]
    <2> HIDE DEF q
    <2>1. /\ Piece(W, y, x) \in Seq(T) /\ Len(Piece(W, y, x)) = x - y
          /\ \A i \in 1..(x - y) : Piece(W, y, x)[i] = W[y + i]
      BY ONLY W \in Seq(T), y \in Nat, x \in Nat, y <= x, x <= Len(W), PieceIs
    <2> QED
      BY <2>1 DEF q
  <1> HIDE DEF p, q
  <1>3. \A i \in 1..(x - y) : y + i \in 1..Len(S)
    BY LenProperties
  <1>4. \A i \in 1..(x - y) : q[i] = p[i]
    BY <1>1, <1>2, <1>3
  <1>5. q = p
    BY <1>1, <1>2, <1>4, SeqEqual
  <1> QED
    BY <1>5 DEF p, q

(* What is appended to a stream changes no piece of it.                    *)
LEMMA PieceStays ==
  ASSUME NEW T, NEW S \in Seq(T), NEW U \in Seq(T), NEW y \in Nat, NEW x \in Nat,
         y <= x, x <= Len(S)
  PROVE  Piece(S \o U, y, x) = Piece(S, y, x)
PROOF
  <1> DEFINE W == S \o U
  <1>1. W \in Seq(T) /\ Len(W) = Len(S) + Len(U) /\ \A i \in 1..Len(S) : W[i] = S[i]
    BY ConcatProperties, LenProperties
  <1> HIDE DEF W
  <1>2. x <= Len(W)
    BY <1>1, LenProperties
  <1>3. Piece(W, y, x) = Piece(S, y, x)
    BY <1>1, <1>2, SamePiece
  <1> QED
    BY <1>3 DEF W

-----------------------------------------------------------------------------
(* The receiver, for every way the stream is cut.                          *)

(* S are the bytes of the messages sent, each behind its header; message i *)
(* has those behind place st[i].                                           *)
Layout(S, st) ==
  /\ S \in Seq(Bytes) /\ sent \in Seq(Seq(Bytes))
  /\ st \in [1..(Len(sent) + 1) -> Nat]
  /\ st[Len(sent) + 1] = Len(S)
  /\ \A i \in 1..Len(sent) :
       /\ st[i + 1] = st[i] + Header + Len(sent[i])
       /\ \A k \in 1..Header : S[st[i] + k] = <<i, k - Header>>
       /\ \A k \in 1..Len(sent[i]) : S[st[i] + Header + k] = sent[i][k]
  /\ \A i, j \in 1..(Len(sent) + 1) : i < j => st[i] + Header <= st[j]

(* The receiver's object c waits in message n, of which it has the bytes   *)
(* up to place x: a part of its header, or the header and a part of the    *)
(* data.                                                                   *)
InHeader(c, S, st, n, x) ==
  /\ n \in 1..(Len(sent) + 1) /\ st[n] <= x /\ x <= st[n] + Header
  /\ c.data_len = 0 /\ c.buff = Piece(S, st[n], x) /\ c.unread_buff = <<>>

InData(c, S, st, n, x) ==
  /\ n \in 1..Len(sent) /\ st[n] + Header <= x /\ x < st[n + 1]
  /\ c.data_len = Len(sent[n]) /\ c.buff = Piece(S, st[n] + Header, x) /\ c.unread_buff = <<>>

Waiting(c, S, st, n, x) ==
  /\ c.rval \in {Stream!CDC_WAITING, Stream!Unasked}
  /\ InHeader(c, S, st, n, x) \/ InData(c, S, st, n, x)

(* It has not looked at the bytes it kept.                                 *)
Keeping(c, S, st, n, x) ==
  /\ n \in 1..(Len(sent) + 1) /\ st[n] < x
  /\ c.rval = Stream!Unasked /\ c.data_len = 0 /\ c.buff = <<>> /\ c.unread_buff = Piece(S, st[n], x)

(* It holds the whole message n and keeps what came behind it.             *)
Holding(c, S, st, n, x) ==
  /\ n \in 1..Len(sent) /\ st[n + 1] <= x
  /\ c.buff = Piece(S, st[n] + Header, st[n + 1])
  /\ c.unread_buff = Piece(S, st[n + 1], x)
  /\ c.rval = IF x = st[n + 1] THEN Stream!CDC_COMPLETE ELSE Stream!CDC_DATA_REMAINING

CdcObject == [data_len : Nat, buff : Seq(Bytes), unread_buff : Seq(Bytes),
            rval : {Stream!CDC_WAITING, Stream!CDC_COMPLETE, Stream!CDC_DATA_REMAINING, Stream!Unasked}]

(* The four values ComDataCheck calls return, or none, are different.      *)
LEMMA ReturnsDiffer ==
  /\ Stream!CDC_WAITING # Stream!CDC_COMPLETE /\ Stream!CDC_WAITING # Stream!CDC_DATA_REMAINING
  /\ Stream!CDC_COMPLETE # Stream!CDC_DATA_REMAINING
  /\ Stream!Unasked \notin {Stream!CDC_WAITING, Stream!CDC_COMPLETE, Stream!CDC_DATA_REMAINING}
PROOF
  BY DEF Stream!CDC_WAITING, Stream!CDC_COMPLETE, Stream!CDC_DATA_REMAINING, Stream!Unasked

(* Where the messages of a stream are.                                     *)
LEMMA PlacesInStream ==
  ASSUME NEW S, NEW st, Layout(S, st)
  PROVE  /\ Len(sent) \in Nat /\ Len(S) \in Nat
         /\ \A i \in 1..(Len(sent) + 1) :
              st[i] \in Nat /\ st[i] <= Len(S) /\ (i # Len(sent) + 1 => st[i] + Header <= Len(S))
PROOF
  <1>1. Len(sent) \in Nat /\ Len(S) \in Nat
    BY LenProperties DEF Layout
  <1>2. \A i \in 1..(Len(sent) + 1) : st[i] \in Nat
    BY DEF Layout
  <1>3. \A i, j \in 1..(Len(sent) + 1) : i < j => st[i] + Header <= st[j]
    BY DEF Layout
  <1>4. st[Len(sent) + 1] = Len(S) /\ Len(sent) + 1 \in 1..(Len(sent) + 1)
    BY <1>1 DEF Layout
  <1>5. \A i \in 1..(Len(sent) + 1) : i # Len(sent) + 1 => st[i] + Header <= Len(S)
    BY <1>1, <1>3, <1>4
  <1> QED
    BY <1>1, <1>2, <1>4, <1>5, StreamAssumption

(* Where a message is, and where the next begins.                          *)
LEMMA MessageInStream ==
  ASSUME NEW S, NEW st, Layout(S, st), NEW n \in 1..Len(sent)
  PROVE  /\ S \in Seq(Bytes) /\ Len(S) \in Nat /\ Len(sent) \in Nat
         /\ sent[n] \in Seq(Bytes) /\ Len(sent[n]) \in Nat
         /\ st[n] \in Nat /\ st[n] + Header \in Nat /\ st[n + 1] \in Nat
         /\ st[n + 1] = st[n] + Header + Len(sent[n])
         /\ st[n + 1] <= Len(S) /\ st[n] + Header <= Len(S) /\ st[n] <= st[n] + Header
         /\ st[n] + Header <= st[n + 1]
         /\ n \in 1..(Len(sent) + 1) /\ n + 1 \in 1..(Len(sent) + 1)
PROOF
  <1>1. Len(sent) \in Nat /\ Len(S) \in Nat /\ S \in Seq(Bytes)
    BY LenProperties DEF Layout
  <1>2. sent[n] \in Seq(Bytes)
    BY DEF Layout
  <1>3. Len(sent[n]) \in Nat
    BY <1>2, LenProperties
  <1>4. n \in 1..(Len(sent) + 1) /\ n + 1 \in 1..(Len(sent) + 1)
    BY <1>1
  <1>5. st[n] \in Nat /\ st[n + 1] \in Nat /\ st[n + 1] <= Len(S)
    BY <1>4, PlacesInStream
  <1>6. st[n + 1] = st[n] + Header + Len(sent[n])
    BY DEF Layout
  <1> QED
    BY <1>1, <1>2, <1>3, <1>4, <1>5, <1>6, StreamAssumption

(* The header of a message that was sent reads as the length of its data.  *)
LEMMA HeaderReadsLength ==
  ASSUME NEW S, NEW st, Layout(S, st), NEW n \in 1..Len(sent)
  PROVE  Stream!ntohl(Piece(S, st[n], st[n] + Header)) = Len(sent[n])
PROOF
  <1> DEFINE y == st[n]
             x == st[n] + Header
             h == Piece(S, y, x)
  <1>1. S \in Seq(Bytes) /\ y \in Nat /\ x \in Nat /\ x <= Len(S) /\ y <= x /\ x - y = Header
    BY MessageInStream, StreamAssumption
  <1>2. h \in Seq(Bytes) /\ Len(h) = Header /\ \A k \in 1..Header : h[k] = <<n, k - Header>>
    <2>1. \A k \in 1..Header : S[y + k] = <<n, k - Header>>
      BY DEF Layout
    <2> HIDE DEF y, x
    <2>2. h \in Seq(Bytes) /\ Len(h) = x - y /\ \A k \in 1..(x - y) : h[k] = S[y + k]
      BY ONLY <1>1, PieceIs
    <2> QED
      BY <1>1, <2>1, <2>2
  <1> HIDE DEF h
  <1>3. h = [k \in 1..Header |-> <<n, k - Header>>]
    <2>1. DOMAIN h = 1..Header /\ h = [k \in DOMAIN h |-> h[k]]
      BY <1>2, LenProperties
    <2> QED
      BY <2>1, <1>2, Zenon
  <1>4. h = Stream!htonl(n)
    BY <1>3 DEF Stream!htonl
  <1>5. \A i \in Int : h = Stream!htonl(i) => i = n
    <2> SUFFICES ASSUME NEW i \in Int, h = Stream!htonl(i) PROVE i = n
      OBVIOUS
    <2>1. 1 \in 1..Header
      BY StreamAssumption
    <2>2. h[1] = <<i, 1 - Header>> /\ h[1] = <<n, 1 - Header>>
      BY <2>1, <1>2 DEF Stream!htonl
    <2> QED
      BY <2>2
  <1>6. DOMAIN sent = 1..Len(sent) /\ n \in DOMAIN sent
    BY DEF Layout
  <1>7. (CHOOSE i \in DOMAIN sent : h = Stream!htonl(i)) = n
    BY <1>4, <1>5, <1>6
  <1> QED
    BY <1>4, <1>6, <1>7 DEF Stream!ntohl, h, x, y

(* ComDataCheck_check, given the data of message n and what follows it:    *)
(* too little waits, enough is the message, the surplus is kept.           *)
LEMMA CheckSplits ==
  ASSUME NEW S, NEW st, Layout(S, st), NEW n \in 1..Len(sent),
         NEW x \in Nat, st[n] + Header <= x, x <= Len(S),
         NEW c \in CdcObject, c.unread_buff = <<>>, c.data_len = Len(sent[n]),
         c.buff = Piece(S, st[n] + Header, x)
  PROVE  LET d == Stream!ComDataCheck_check(c)
         IN /\ d \in CdcObject
            /\ \/ d.rval = Stream!CDC_WAITING /\ InData(d, S, st, n, x)
               \/ Holding(d, S, st, n, x)
PROOF
  <1> DEFINE y == st[n] + Header
             z == st[n + 1]
             l == Len(sent[n])
             d == Stream!ComDataCheck_check(c)
  <1>1. /\ S \in Seq(Bytes) /\ Len(S) \in Nat /\ y \in Nat /\ z \in Nat /\ l \in Nat
        /\ z = y + l /\ y <= z /\ z <= Len(S) /\ y <= x /\ x <= Len(S) /\ y <= Len(S)
    BY MessageInStream
  <1>2. c.buff = Piece(S, y, x) /\ c.data_len = l
    OBVIOUS
  <1> HIDE DEF y, z, l
  <1>3. c.buff \in Seq(Bytes) /\ Len(c.buff) = x - y
    BY ONLY <1>1, <1>2, x \in Nat, PieceIs
  <1>4. CASE x < z
    <2>1. d = [c EXCEPT !.rval = Stream!CDC_WAITING]
      BY <1>1, <1>2, <1>3, <1>4 DEF Stream!ComDataCheck_check
    <2>2. d \in CdcObject /\ d.rval = Stream!CDC_WAITING /\ d.data_len = c.data_len /\ d.buff = c.buff
          /\ d.unread_buff = c.unread_buff
      BY <2>1 DEF CdcObject
    <2>3. InData(d, S, st, n, x)
      BY <1>4, <2>2 DEF InData, z
    <2> QED
      BY <2>2, <2>3
  <1>5. CASE x = z
    <2>1. d = [c EXCEPT !.rval = Stream!CDC_COMPLETE]
      BY <1>1, <1>2, <1>3, <1>5 DEF Stream!ComDataCheck_check
    <2>2. d \in CdcObject /\ d.rval = Stream!CDC_COMPLETE /\ d.buff = c.buff
          /\ d.unread_buff = c.unread_buff
      BY <2>1 DEF CdcObject
    <2>3. Piece(S, z, x) = <<>>
      BY ONLY <1>1, <1>5, x \in Nat, PieceEmpty
    <2>4. Holding(d, S, st, n, x)
      BY <1>1, <1>2, <1>5, <2>2, <2>3 DEF Holding, z, y
    <2> QED
      BY <2>2, <2>4
  <1>6. CASE x > z
    <2>1. d = [c EXCEPT !.buff = Stream!Take(c.buff, l), !.unread_buff = c.unread_buff \o Stream!Drop(c.buff, l),
                        !.rval = Stream!CDC_DATA_REMAINING]
      BY <1>1, <1>2, <1>3, <1>6 DEF Stream!ComDataCheck_check
    <2>2. Stream!Take(c.buff, l) = Piece(S, y, z) /\ Stream!Drop(c.buff, l) = Piece(S, z, x)
      <3>1. z <= x /\ z - y = l
        BY <1>1, <1>6
      <3>2. /\ SubSeq(Piece(S, y, x), 1, z - y) = Piece(S, y, z)
            /\ SubSeq(Piece(S, y, x), (z - y) + 1, Len(Piece(S, y, x))) = Piece(S, z, x)
        BY ONLY <1>1, <3>1, x \in Nat, PieceCut
      <3> QED
        BY <1>2, <3>1, <3>2 DEF Stream!Take, Stream!Drop
    <2>3. Piece(S, y, z) \in Seq(Bytes) /\ Piece(S, z, x) \in Seq(Bytes)
      <3>1. z <= x
        BY <1>1, <1>6
      <3> QED
        BY ONLY <1>1, <3>1, x \in Nat, PieceIs
    <2>4. <<>> \o Piece(S, z, x) = Piece(S, z, x)
      BY ONLY <2>3, ConcatEmptySeq
    <2>5. d = [c EXCEPT !.buff = Piece(S, y, z), !.unread_buff = Piece(S, z, x), !.rval = Stream!CDC_DATA_REMAINING]
      BY <2>1, <2>2, <2>4
    <2>6. d \in CdcObject /\ d.rval = Stream!CDC_DATA_REMAINING /\ d.buff = Piece(S, y, z)
          /\ d.unread_buff = Piece(S, z, x)
      BY <2>3, <2>5 DEF CdcObject
    <2>7. Holding(d, S, st, n, x)
      BY <1>1, <1>6, <2>6 DEF Holding, z, y
    <2> QED
      BY <2>6, <2>7
  <1>7. x < z \/ x = z \/ x > z
    BY <1>1
  <1> QED
    BY <1>4, <1>5, <1>6, <1>7

(* ComDataCheck_append once there is no unread data: the next bytes of the *)
(* stream are added to what the object has of the message.                 *)
LEMMA AppendInputTakes ==
  ASSUME NEW S, NEW st, Layout(S, st), NEW n, NEW y \in Nat, NEW x \in Nat, y < x, x <= Len(S),
         NEW c \in CdcObject, InHeader(c, S, st, n, y) \/ InData(c, S, st, n, y)
  PROVE  LET d == Stream!AppendInput(c, Piece(S, y, x))
         IN /\ d \in CdcObject
            /\ \/ d.rval = Stream!CDC_WAITING /\ Waiting(d, S, st, n, x)
               \/ Holding(d, S, st, n, x)
PROOF
  <1> DEFINE data == Piece(S, y, x)
             d == Stream!AppendInput(c, data)
             all == c.buff \o data
  <1>0. n \in 1..Len(sent)
    <2>1. CASE InHeader(c, S, st, n, y)
      <3>1. n \in 1..(Len(sent) + 1) /\ st[n] <= y
        BY <2>1 DEF InHeader
      <3>2. st[Len(sent) + 1] = Len(S) /\ Len(sent) \in Nat /\ Len(S) \in Nat
        BY PlacesInStream DEF Layout
      <3>3. n # Len(sent) + 1
        BY <3>1, <3>2
      <3> QED
        BY <3>1, <3>2, <3>3
    <2>2. CASE InData(c, S, st, n, y)
      BY <2>2 DEF InData
    <2> QED
      BY <2>1, <2>2
  <1>1. /\ S \in Seq(Bytes) /\ Len(S) \in Nat /\ st[n] \in Nat /\ st[n] + Header \in Nat
        /\ st[n] + Header <= Len(S) /\ st[n] <= st[n] + Header
        /\ n \in 1..(Len(sent) + 1) /\ Len(sent[n]) \in Nat
    BY <1>0, MessageInStream
  <1> S \in Seq(Bytes)
    BY <1>1
  <1>2. data \in Seq(Bytes) /\ Len(data) = x - y /\ data # <<>>
    <2>1. y <= x /\ y # x
      OBVIOUS
    <2>2. data \in Seq(Bytes) /\ Len(data) = x - y
      BY ONLY S \in Seq(Bytes), <2>1, y \in Nat, x \in Nat, x <= Len(S), PieceIs
    <2>3. data # <<>>
      BY ONLY S \in Seq(Bytes), <2>1, y \in Nat, x \in Nat, x <= Len(S), PieceEmpty
    <2> QED
      BY <2>2, <2>3
  <1>3. CASE InData(c, S, st, n, y)
    <2> DEFINE z == st[n] + Header
               e == [c EXCEPT !.buff = all]
    <2>1. /\ z <= y /\ y < st[n + 1] /\ c.data_len = Len(sent[n]) /\ c.buff = Piece(S, z, y)
          /\ c.unread_buff = <<>> /\ st[n + 1] = st[n] + Header + Len(sent[n])
      BY <1>0, <1>3, MessageInStream DEF InData
    <2>2. c.data_len # 0
      BY <1>1, <2>1
    <2>3. all = Piece(S, z, x)
      <3>1. z \in Nat /\ y <= x /\ z <= y
        BY <1>1, <2>1
      <3> HIDE DEF z
      <3>2. Piece(S, z, y) \o Piece(S, y, x) = Piece(S, z, x)
        BY ONLY <1>1, <3>1, y \in Nat, x \in Nat, x <= Len(S), PiecesJoin
      <3> QED
        BY <2>1, <3>2
    <2>4. all \in Seq(Bytes)
      BY <1>2, ConcatProperties DEF CdcObject
    <2> HIDE DEF all, data
    <2>5. d = Stream!ComDataCheck_check(e)
      BY <1>2, <2>2 DEF Stream!AppendInput, all
    <2>6. e \in CdcObject /\ e.buff = all /\ e.unread_buff = c.unread_buff /\ e.data_len = c.data_len
      BY <2>4 DEF CdcObject
    <2> HIDE DEF e, d
    <2>7. st[n] + Header <= x /\ e.unread_buff = <<>> /\ e.data_len = Len(sent[n])
          /\ e.buff = Piece(S, st[n] + Header, x)
      BY <1>1, <2>1, <2>3, <2>6
    <2>8. /\ d \in CdcObject
          /\ \/ d.rval = Stream!CDC_WAITING /\ InData(d, S, st, n, x)
             \/ Holding(d, S, st, n, x)
      BY <1>0, <2>5, <2>6, <2>7, CheckSplits
    <2> QED
      BY <2>8 DEF Waiting, d, data
  <1>4. CASE InHeader(c, S, st, n, y)
    <2> DEFINE z == st[n]
               h == st[n] + Header
    <2>1. /\ z <= y /\ y <= h /\ c.data_len = 0 /\ c.buff = Piece(S, z, y) /\ c.unread_buff = <<>>
      BY <1>4 DEF InHeader
    <2>2. all = Piece(S, z, x) /\ all \in Seq(Bytes) /\ Len(all) = x - z
      <3>1. z \in Nat /\ y <= x /\ z <= y /\ z <= x
        BY <1>1, <2>1
      <3> HIDE DEF z
      <3>2. Piece(S, z, y) \o Piece(S, y, x) = Piece(S, z, x)
        BY ONLY <1>1, <3>1, y \in Nat, x \in Nat, x <= Len(S), PiecesJoin, SMTT(40)
      <3>3. Piece(S, z, x) \in Seq(Bytes) /\ Len(Piece(S, z, x)) = x - z
        BY ONLY S \in Seq(Bytes), <3>1, x \in Nat, x <= Len(S), PieceIs
      <3> QED
        BY <2>1, <3>2, <3>3
    <2>3. z \in Nat /\ h \in Nat /\ h = z + Header /\ h <= Len(S)
      BY <1>1
    <2> HIDE DEF all, data
    <2>4. CASE x <= h
      <3>1. d = [c EXCEPT !.buff = all, !.rval = Stream!CDC_WAITING]
        <4>1. Len(all) <= Header
          BY <2>2, <2>3, <2>4, StreamAssumption
        <4> QED
          BY <1>2, <2>1, <4>1 DEF Stream!AppendInput, all
      <3>2. d \in CdcObject /\ d.buff = all /\ d.unread_buff = c.unread_buff /\ d.data_len = c.data_len
            /\ d.rval = Stream!CDC_WAITING
        BY <2>2, <3>1 DEF CdcObject
      <3>3. InHeader(d, S, st, n, x)
        BY <1>1, <2>1, <2>2, <2>3, <2>4, <3>2 DEF InHeader
      <3> QED
        BY <3>2, <3>3 DEF Waiting, d, data
    <2>5. CASE x > h
      <3> DEFINE e == [c EXCEPT !.data_len = Stream!ntohl(Stream!Take(all, Header)),
                                !.buff = Stream!Drop(all, Header)]
      <3>1. d = Stream!ComDataCheck_check(e)
        <4>1. ~(Len(all) <= Header)
          BY <2>2, <2>3, <2>5, StreamAssumption
        <4> QED
          BY <1>2, <2>1, <4>1 DEF Stream!AppendInput, all
      <3>2. Stream!Take(all, Header) = Piece(S, z, h) /\ Stream!Drop(all, Header) = Piece(S, h, x)
        <4>1. z <= h /\ h <= x /\ h - z = Header
          BY <2>3, <2>5, StreamAssumption
        <4> z \in Nat /\ h \in Nat
          BY <2>3
        <4> HIDE DEF z, h
        <4>2. /\ SubSeq(Piece(S, z, x), 1, h - z) = Piece(S, z, h)
              /\ SubSeq(Piece(S, z, x), (h - z) + 1, Len(Piece(S, z, x))) = Piece(S, h, x)
          BY ONLY S \in Seq(Bytes), z \in Nat, h \in Nat, <4>1, x \in Nat, x <= Len(S), PieceCut
        <4> QED
          BY <2>2, <4>1, <4>2 DEF Stream!Take, Stream!Drop
      <3>3. Stream!ntohl(Piece(S, z, h)) = Len(sent[n])
        BY <1>0, HeaderReadsLength
      <3>4. Piece(S, h, x) \in Seq(Bytes)
        <4>1. h <= x
          BY <2>3, <2>5
        <4> HIDE DEF h
        <4> QED
          BY ONLY <1>1, <2>3, <4>1, x \in Nat, x <= Len(S), PieceIs
      <3>5. e = [c EXCEPT !.data_len = Len(sent[n]), !.buff = Piece(S, h, x)]
        BY <3>2, <3>3
      <3>6. e \in CdcObject /\ e.buff = Piece(S, h, x) /\ e.unread_buff = c.unread_buff
            /\ e.data_len = Len(sent[n])
        BY <1>1, <3>4, <3>5 DEF CdcObject
      <3> HIDE DEF e, d
      <3>7. st[n] + Header <= x /\ e.unread_buff = <<>> /\ e.buff = Piece(S, st[n] + Header, x)
        BY <2>1, <2>3, <2>5, <3>6
      <3>8. /\ d \in CdcObject
            /\ \/ d.rval = Stream!CDC_WAITING /\ InData(d, S, st, n, x)
               \/ Holding(d, S, st, n, x)
        BY <1>0, <3>1, <3>6, <3>7, CheckSplits
      <3> QED
        BY <3>8 DEF Waiting, d, data
    <2>6. x <= h \/ x > h
      BY <2>3
    <2> QED
      BY <2>4, <2>5, <2>6
  <1> QED
    BY <1>3, <1>4

(* ComDataCheck_process_buffered_data: bytes that were kept are the        *)
(* beginning of the next message.                                          *)
LEMMA ProcessTakes ==
  ASSUME NEW S, NEW st, Layout(S, st), NEW n \in 1..(Len(sent) + 1), NEW x \in Nat, st[n] < x, x <= Len(S),
         NEW c \in CdcObject, c.data_len = 0, c.buff = <<>>, c.unread_buff = Piece(S, st[n], x)
  PROVE  LET d == Stream!ComDataCheck_process_buffered_data(c)
         IN /\ d \in CdcObject
            /\ \/ d.rval = Stream!CDC_WAITING /\ Waiting(d, S, st, n, x)
               \/ Holding(d, S, st, n, x)
PROOF
  <1> DEFINE y == st[n]
             e == [c EXCEPT !.unread_buff = <<>>]
             d == Stream!ComDataCheck_process_buffered_data(c)
  <1>1. y \in Nat /\ y <= Len(S) /\ S \in Seq(Bytes)
    BY PlacesInStream DEF Layout
  <1>2. Piece(S, y, y) = <<>>
    BY ONLY <1>1, PieceEmpty
  <1>3. e \in CdcObject /\ e.data_len = 0 /\ e.buff = <<>> /\ e.unread_buff = <<>>
    BY EmptySeq DEF CdcObject
  <1>4. d = Stream!AppendInput(e, Piece(S, y, x))
    BY DEF Stream!ComDataCheck_process_buffered_data
  <1> HIDE DEF e
  <1>5. InHeader(e, S, st, n, y)
    BY <1>1, <1>2, <1>3, StreamAssumption DEF InHeader
  <1>6. y < x
    OBVIOUS
  <1> HIDE DEF y, d
  <1>7. /\ d \in CdcObject
        /\ \/ d.rval = Stream!CDC_WAITING /\ Waiting(d, S, st, n, x)
           \/ Holding(d, S, st, n, x)
    BY <1>1, <1>3, <1>4, <1>5, <1>6, AppendInputTakes
  <1> QED
    BY <1>7 DEF d

(* ComDataCheck_append in input mode takes the next bytes of the stream,   *)
(* whether it has bytes it has not looked at or not.                       *)
LEMMA AppendTakes ==
  ASSUME NEW S, NEW st, Layout(S, st), NEW n, NEW x \in Nat, NEW z \in Nat, x < z, z <= Len(S),
         NEW c \in CdcObject, Waiting(c, S, st, n, x) \/ Keeping(c, S, st, n, x)
  PROVE  LET d == Stream!ComDataCheck_append(c, Piece(S, x, z))
         IN /\ d \in CdcObject
            /\ Waiting(d, S, st, n, z) \/ Holding(d, S, st, n, z)
PROOF
  <1> DEFINE data == Piece(S, x, z)
             p == Stream!ComDataCheck_process_buffered_data(c)
             d == Stream!ComDataCheck_append(c, data)
  <1>1. S \in Seq(Bytes) /\ Len(S) \in Nat /\ Len(sent) \in Nat
    BY PlacesInStream DEF Layout
  <1> S \in Seq(Bytes)
    BY <1>1
  <1>2. x <= Len(S) /\ x <= z /\ x # z
    BY <1>1
  <1>3. CASE Waiting(c, S, st, n, x)
    <2>1. c.unread_buff = <<>> /\ (InHeader(c, S, st, n, x) \/ InData(c, S, st, n, x))
      BY <1>3 DEF Waiting, InHeader, InData
    <2>2. d = Stream!AppendInput(c, data)
      BY <2>1 DEF Stream!ComDataCheck_append
    <2> HIDE DEF d
    <2>3. d \in CdcObject /\ (Waiting(d, S, st, n, z) \/ Holding(d, S, st, n, z))
      BY <2>1, <2>2, AppendInputTakes
    <2> QED
      BY <2>3 DEF d
  <1>4. CASE Keeping(c, S, st, n, x)
    <2>1. n \in 1..(Len(sent) + 1) /\ st[n] < x /\ c.data_len = 0 /\ c.buff = <<>>
          /\ c.unread_buff = Piece(S, st[n], x)
      BY <1>4 DEF Keeping
    <2>2. st[n] \in Nat
      BY <2>1, PlacesInStream
    <2>3. /\ p \in CdcObject
          /\ \/ p.rval = Stream!CDC_WAITING /\ Waiting(p, S, st, n, x)
             \/ Holding(p, S, st, n, x)
      BY <1>2, <2>1, ProcessTakes
    <2>4. c.unread_buff # <<>>
      <3> DEFINE y == st[n]
      <3>1. y \in Nat /\ y <= x /\ y # x
        BY <2>1, <2>2
      <3> HIDE DEF y
      <3>2. Piece(S, y, x) # <<>>
        BY ONLY S \in Seq(Bytes), <3>1, x \in Nat, x <= Len(S), <1>2, PieceEmpty
      <3> QED
        BY <2>1, <3>2 DEF y
    <2> HIDE DEF p
    <2>5. CASE p.rval = Stream!CDC_WAITING /\ Waiting(p, S, st, n, x)
      <3>1. d = Stream!AppendInput(p, data)
        BY <2>4, <2>5 DEF Stream!ComDataCheck_append, p
      <3>2. InHeader(p, S, st, n, x) \/ InData(p, S, st, n, x)
        BY <2>5 DEF Waiting
      <3> HIDE DEF d
      <3>3. d \in CdcObject /\ (Waiting(d, S, st, n, z) \/ Holding(d, S, st, n, z))
        BY <2>3, <3>1, <3>2, AppendInputTakes
      <3> QED
        BY <3>3 DEF d
    <2>6. CASE Holding(p, S, st, n, x)
      <3> DEFINE e == st[n + 1]
      <3>1. n \in 1..Len(sent) /\ e <= x /\ p.buff = Piece(S, st[n] + Header, e)
            /\ p.unread_buff = Piece(S, e, x) /\ p.rval \in {Stream!CDC_COMPLETE, Stream!CDC_DATA_REMAINING}
        BY <2>6 DEF Holding
      <3>2. e \in Nat
        BY <3>1, MessageInStream
      <3>3. data # <<>> /\ data \in Seq(Bytes)
        BY ONLY S \in Seq(Bytes), <1>2, x \in Nat, z \in Nat, z <= Len(S), PieceEmpty, PieceIs
      <3>4. d = [p EXCEPT !.unread_buff = p.unread_buff \o data, !.rval = Stream!CDC_DATA_REMAINING]
        BY <2>4, <3>1, <3>3, ReturnsDiffer DEF Stream!ComDataCheck_append, p
      <3>5. Piece(S, e, x) \o data = Piece(S, e, z) /\ Piece(S, e, z) \in Seq(Bytes)
        <4>1. e <= z
          BY <1>2, <3>1, <3>2
        <4> HIDE DEF e
        <4>2. Piece(S, e, x) \o data = Piece(S, e, z)
          BY ONLY S \in Seq(Bytes), <1>2, <3>1, <3>2, x \in Nat, z \in Nat, z <= Len(S), PiecesJoin
        <4>3. Piece(S, e, z) \in Seq(Bytes)
          BY ONLY S \in Seq(Bytes), <4>1, <3>2, z \in Nat, z <= Len(S), PieceIs
        <4> QED
          BY <4>2, <4>3
      <3> HIDE DEF data
      <3>6. d \in CdcObject /\ d.buff = p.buff /\ d.unread_buff = Piece(S, e, z)
            /\ d.rval = Stream!CDC_DATA_REMAINING
        BY <2>3, <3>1, <3>4, <3>5 DEF CdcObject
      <3>7. Holding(d, S, st, n, z)
        BY <1>2, <3>1, <3>2, <3>6 DEF Holding
      <3> QED
        BY <3>6, <3>7 DEF data
    <2> QED
      BY <2>3, <2>5, <2>6
  <1> QED
    BY <1>3, <1>4

-----------------------------------------------------------------------------
(* The sender adds a message to the stream.                                *)

Frame == Stream!htonl(Len(sent) + 1) \o out
Places(st, e) == [i \in 1..(Len(sent) + 2) |-> IF i <= Len(sent) + 1 THEN st[i] ELSE e]

(* A frame is the bytes of its header and then those of the message.       *)
LEMMA FrameIs ==
  ASSUME sent \in Seq(Seq(Bytes)), out \in Seq(Bytes)
  PROVE  /\ Stream!htonl(Len(sent) + 1) \in Seq(Bytes)
         /\ Frame \in Seq(Bytes) /\ Len(Frame) = Header + Len(out)
         /\ \A k \in 1..Header : Frame[k] = <<Len(sent) + 1, k - Header>>
         /\ \A k \in 1..Len(out) : Frame[Header + k] = out[k]
PROOF
  <1> DEFINE h == Stream!htonl(Len(sent) + 1)
  <1>1. h = [k \in 1..Header |-> <<Len(sent) + 1, k - Header>>]
    BY DEF Stream!htonl
  <1>2. Len(sent) \in Nat /\ Len(out) \in Nat
    BY LenProperties
  <1>3. h \in [1..Header -> Bytes]
    BY <1>1, <1>2, StreamAssumption DEF Bytes
  <1>4. h \in Seq(Bytes) /\ Len(h) = Header
    BY <1>3, StreamAssumption, LenProperties
  <1>5. \A k \in 1..Header : h[k] = <<Len(sent) + 1, k - Header>>
    BY <1>1
  <1> HIDE DEF h
  <1>6. /\ h \o out \in Seq(Bytes) /\ Len(h \o out) = Len(h) + Len(out)
        /\ \A k \in 1..(Len(h) + Len(out)) : (h \o out)[k] = IF k <= Len(h) THEN h[k] ELSE out[k - Len(h)]
    BY <1>4, ConcatProperties
  <1>7. Frame = h \o out
    BY DEF Frame, h
  <1>8. /\ Frame \in Seq(Bytes) /\ Len(Frame) = Header + Len(out)
        /\ \A k \in 1..(Header + Len(out)) : Frame[k] = IF k <= Header THEN h[k] ELSE out[k - Header]
    BY <1>4, <1>6, <1>7
  <1>9. \A k \in 1..Header : Frame[k] = h[k]
    BY <1>2, <1>8, StreamAssumption
  <1>10. \A k \in 1..Len(out) : Frame[Header + k] = out[k]
    BY <1>2, <1>8, StreamAssumption
  <1> QED
    BY <1>4, <1>5, <1>8, <1>9, <1>10 DEF h

(* A frame that ends inside of the stream lies inside of it.               *)
LEMMA PlacesInside ==
  \A a, h, l, n \in Nat : a + h + l <= n =>
    /\ \A k \in 1..h : a + k \in 1..n
    /\ \A k \in 1..l : a + h + k \in 1..n
  OBVIOUS

(* The stream with one more message is laid out as before.                 *)
LEMMA SendLays ==
  ASSUME NEW S, NEW st, Layout(S, st), out \in Seq(Bytes), sent' = Append(sent, out),
         NEW W, W = S \o Frame, NEW pl, pl = Places(st, Len(W))
  PROVE  Layout(W, pl)'
PROOF
  <1> DEFINE m == Len(sent)
  <1>1. sent \in Seq(Seq(Bytes)) /\ S \in Seq(Bytes) /\ st \in [1..(m + 1) -> Nat] /\ st[m + 1] = Len(S)
    BY DEF Layout
  <1>2. m \in Nat /\ Len(S) \in Nat /\ Len(out) \in Nat
    BY <1>1, LenProperties
  <1>3. /\ Frame \in Seq(Bytes) /\ Len(Frame) = Header + Len(out)
        /\ \A k \in 1..Header : Frame[k] = <<m + 1, k - Header>>
        /\ \A k \in 1..Len(out) : Frame[Header + k] = out[k]
    BY <1>1, FrameIs
  <1>4. /\ W \in Seq(Bytes) /\ Len(W) = Len(S) + Len(Frame)
        /\ \A k \in 1..(Len(S) + Len(Frame)) : W[k] = IF k <= Len(S) THEN S[k] ELSE Frame[k - Len(S)]
    <2> S \in Seq(Bytes) /\ Frame \in Seq(Bytes)
      BY <1>1, <1>3
    <2> QED
      BY ONLY W = S \o Frame, S \in Seq(Bytes), Frame \in Seq(Bytes), ConcatProperties
  <1>5. /\ sent' \in Seq(Seq(Bytes)) /\ Len(sent') = m + 1 /\ sent'[m + 1] = out
        /\ \A i \in 1..m : sent'[i] = sent[i]
    BY <1>1, AppendProperties
  <1>6. Len(W) = Len(S) + Header + Len(out) /\ Len(W) \in Nat
    BY <1>2, <1>3, <1>4, StreamAssumption
  <1>7. /\ pl \in [1..(m + 2) -> Nat]
        /\ \A i \in 1..(m + 1) : pl[i] = st[i]
        /\ pl[m + 2] = Len(W)
    BY <1>1, <1>2, <1>6 DEF Places
  <1>8. \A k \in 1..Len(S) : W[k] = S[k]
    BY <1>2, <1>3, <1>4, StreamAssumption
  <1>9. \A k \in 1..(Header + Len(out)) : W[Len(S) + k] = Frame[k]
    BY <1>2, <1>3, <1>4, StreamAssumption
  <1>10. ASSUME NEW i \in 1..(m + 1)
         PROVE  /\ pl[i + 1] = pl[i] + Header + Len(sent'[i])
                /\ \A k \in 1..Header : W[pl[i] + k] = <<i, k - Header>>
                /\ \A k \in 1..Len(sent'[i]) : W[pl[i] + Header + k] = sent'[i][k]
    <2>1. CASE i = m + 1
      <3>1. pl[i] = Len(S) /\ pl[i + 1] = Len(W) /\ sent'[i] = out
        BY <1>1, <1>2, <1>5, <1>7, <2>1
      <3>2. \A k \in 1..Header : W[Len(S) + k] = Frame[k]
        <4> TAKE k \in 1..Header
        <4>1. k \in 1..(Header + Len(out))
          BY <1>2, StreamAssumption
        <4> QED
          BY <1>9, <4>1
      <3>3. \A k \in 1..Len(out) : W[Len(S) + Header + k] = Frame[Header + k]
        <4> TAKE k \in 1..Len(out)
        <4>1. Header + k \in 1..(Header + Len(out)) /\ Len(S) + Header + k = Len(S) + (Header + k)
          BY <1>2, StreamAssumption
        <4> QED
          BY <1>9, <4>1, Zenon
      <3>4. \A k \in 1..Header : W[pl[i] + k] = <<i, k - Header>>
        BY <1>3, <2>1, <3>1, <3>2
      <3>5. \A k \in 1..Len(sent'[i]) : W[pl[i] + Header + k] = sent'[i][k]
        BY <1>3, <3>1, <3>3, ZenonT(60)
      <3> QED
        BY <1>6, <3>1, <3>4, <3>5
    <2>2. CASE i # m + 1
      <3>1. i \in 1..m /\ i \in 1..(m + 1) /\ i + 1 \in 1..(m + 1)
        BY <1>2, <2>2
      <3>2. pl[i] = st[i] /\ pl[i + 1] = st[i + 1] /\ sent'[i] = sent[i]
        BY <1>5, <1>7, <3>1
      <3>3. /\ st[i + 1] = st[i] + Header + Len(sent[i]) /\ st[i] \in Nat /\ st[i + 1] <= Len(S)
            /\ Len(sent[i]) \in Nat
        BY <3>1, MessageInStream
      <3>4. /\ \A k \in 1..Header : S[st[i] + k] = <<i, k - Header>>
            /\ \A k \in 1..Len(sent[i]) : S[st[i] + Header + k] = sent[i][k]
        BY <3>1 DEF Layout
      <3>a. /\ st[i] \in Nat /\ Header \in Nat /\ Len(sent[i]) \in Nat /\ Len(S) \in Nat
            /\ st[i] + Header + Len(sent[i]) <= Len(S)
        BY <1>2, <3>3, StreamAssumption
      <3>5. \A k \in 1..Header : st[i] + k \in 1..Len(S)
        BY <3>a, PlacesInside, Zenon
      <3>6. \A k \in 1..Len(sent[i]) : st[i] + Header + k \in 1..Len(S)
        BY <3>a, PlacesInside, Zenon
      <3>7. \A k \in 1..Header : W[st[i] + k] = <<i, k - Header>>
        BY <1>8, <3>4, <3>5, Zenon
      <3>8. \A k \in 1..Len(sent[i]) : W[st[i] + Header + k] = sent[i][k]
        BY <1>8, <3>4, <3>6, Zenon
      <3> QED
        BY <3>2, <3>3, <3>7, <3>8, Zenon
    <2> QED
      BY <2>1, <2>2
  <1>11. ASSUME NEW i \in 1..(m + 2), NEW j \in 1..(m + 2), i < j
         PROVE  pl[i] + Header <= pl[j]
    <2>1. i \in 1..(m + 1) /\ pl[i] = st[i] /\ st[i] \in Nat /\ st[i] <= Len(S)
      <3>1. i \in 1..(m + 1)
        BY <1>2, <1>11
      <3> QED
        BY <3>1, <1>7, PlacesInStream
    <2>2. CASE j = m + 2
      BY <1>2, <1>6, <1>7, <2>1, <2>2, StreamAssumption
    <2>3. CASE j # m + 2
      <3>1. j \in 1..(m + 1)
        BY <1>2, <2>3
      <3>2. pl[j] = st[j]
        BY <1>7, <3>1
      <3>3. st[i] + Header <= st[j]
        BY <2>1, <3>1, <1>11 DEF Layout
      <3> QED
        BY <2>1, <3>2, <3>3
    <2> QED
      BY <2>2, <2>3
  <1>12. Len(sent') + 1 = m + 2
    BY <1>2, <1>5
  <1> QED
    BY <1>4, <1>5, <1>6, <1>7, <1>10, <1>11, <1>12, ZenonT(60) DEF Layout

(* What is behind a stream in a longer one is what was appended.           *)
LEMMA PieceBehind ==
  ASSUME NEW T, NEW S \in Seq(T), NEW U \in Seq(T)
  PROVE  Piece(S \o U, Len(S), Len(S \o U)) = U
PROOF
  <1> DEFINE W == S \o U
             y == Len(S)
             x == Len(W)
             q == Piece(W, y, x)
  <1>1. /\ W \in Seq(T) /\ Len(W) = Len(S) + Len(U)
        /\ \A i \in 1..(Len(S) + Len(U)) : W[i] = IF i <= Len(S) THEN S[i] ELSE U[i - Len(S)]
    BY ConcatProperties
  <1>2. Len(S) \in Nat /\ Len(U) \in Nat
    BY LenProperties
  <1> HIDE DEF W
  <1>3. y \in Nat /\ x \in Nat /\ y <= x /\ x <= Len(W) /\ x - y = Len(U) /\ W \in Seq(T)
    BY <1>1, <1>2
  <1> HIDE DEF y, x
  <1>4. q \in Seq(T) /\ Len(q) = x - y /\ \A i \in 1..(x - y) : q[i] = W[y + i]
    BY ONLY <1>3, PieceIs
  <1> HIDE DEF q
  <1>5. \A i \in 1..Len(U) : W[y + i] = U[i]
    <2> TAKE i \in 1..Len(U)
    <2>1. y + i \in 1..(Len(S) + Len(U)) /\ ~(y + i <= Len(S)) /\ (y + i) - Len(S) = i
      BY <1>2 DEF y
    <2> QED
      BY <1>1, <2>1
  <1>6. Len(q) = Len(U) /\ \A i \in 1..Len(q) : q[i] = U[i]
    BY <1>3, <1>4, <1>5
  <1>7. q = U
    BY <1>4, <1>6, SeqEqual
  <1> QED
    BY <1>7 DEF q, x, y, W

(* The receiver's object has taken the first x bytes of the stream, those  *)
(* up to place e are under way: all others, unless a send was short.       *)
Received(S, st, x, e) ==
  /\ Layout(S, st)
  /\ x \in Nat /\ e \in Nat /\ x <= e /\ e <= Len(S) /\ wire = Piece(S, x, e)
  /\ broken = FALSE => e = Len(S)
  /\ \/ Waiting(in, S, st, Len(got) + 1, x)
     \/ Keeping(in, S, st, Len(got) + 1, x)
     \/ Holding(in, S, st, Len(got) + 1, x)

(* The invariant of the stream: the messages taken are the first that were *)
(* sent, and all other bytes that were sent are with the receiver or under *)
(* way, in order.                                                          *)
StreamInv ==
  /\ out \in Seq(Bytes) /\ got \in Seq(Seq(Bytes)) /\ in \in CdcObject /\ broken \in BOOLEAN
  /\ Len(got) <= Len(sent) /\ \A i \in 1..Len(got) : got[i] = sent[i]
  /\ \E S, st, x, e : Received(S, st, x, e)

(* Sending a message leaves the receiver where it is in the stream.        *)
LEMMA SendSent ==
  ASSUME StreamInv, Stream!ComDataCheck_send
  PROVE  StreamInv'
PROOF
  <1>1. PICK S, st, x, e : Received(S, st, x, e)
    BY DEF StreamInv
  <1>2. Layout(S, st) /\ x \in Nat /\ x <= Len(S) /\ wire = Piece(S, x, Len(S))
    <2>1. ~broken /\ broken \in BOOLEAN
      BY DEF Stream!ComDataCheck_send, StreamInv
    <2> QED
      BY <1>1, <2>1 DEF Received
  <1>3. /\ sent' = Append(sent, out) /\ out' = out /\ in' = in /\ got' = got
        /\ ~broken /\ broken' \in BOOLEAN
    BY DEF Stream!ComDataCheck_send
  <1>4. out \in Seq(Bytes) /\ sent \in Seq(Seq(Bytes)) /\ S \in Seq(Bytes) /\ Len(S) \in Nat
        /\ st \in [1..(Len(sent) + 1) -> Nat] /\ Len(sent) \in Nat
    BY <1>2, PlacesInStream DEF StreamInv, Layout
  <1>5. PICK W : W = S \o Frame
    OBVIOUS
  <1>6. PICK pl : pl = Places(st, Len(W))
    OBVIOUS
  <1>7. Layout(W, pl)'
    BY <1>2, <1>3, <1>4, <1>5, <1>6, SendLays
  <1>8. Frame \in Seq(Bytes) /\ Stream!htonl(Len(sent) + 1) \in Seq(Bytes)
    BY <1>4, FrameIs
  <1>9. W \in Seq(Bytes) /\ Len(W) = Len(S) + Len(Frame) /\ Len(Frame) \in Nat
    BY ONLY <1>4, <1>5, <1>8, ConcatProperties, LenProperties
  <1>10. x <= Len(W) /\ Len(S) <= Len(W) /\ Len(W) \in Nat
    BY <1>2, <1>4, <1>9
  <1>w. PICK whole : whole = (wire \o Stream!htonl(Len(sent) + 1)) \o out
    OBVIOUS
  <1>v. /\ \/ wire' = whole /\ broken' = FALSE
           \/ \E k \in Len(wire)..Len(whole) : wire' = Stream!Take(whole, k) /\ broken' = TRUE
    BY <1>w DEF Stream!ComDataCheck_send
  <1>11. whole = Piece(W, x, Len(W))
    <2>1. Piece(S, x, Len(S)) \in Seq(Bytes)
      <3> S \in Seq(Bytes) /\ Len(S) \in Nat /\ Len(S) <= Len(S) /\ x \in Nat /\ x <= Len(S)
        BY <1>2, <1>4
      <3> QED
        BY ONLY S \in Seq(Bytes), Len(S) \in Nat, Len(S) <= Len(S), x \in Nat, x <= Len(S), PieceIs
    <2>2. whole = wire \o Frame
      <3> wire \in Seq(Bytes) /\ out \in Seq(Bytes) /\ Stream!htonl(Len(sent) + 1) \in Seq(Bytes)
        BY <1>2, <1>4, <1>8, <2>1
      <3>1. (wire \o Stream!htonl(Len(sent) + 1)) \o out = wire \o (Stream!htonl(Len(sent) + 1) \o out)
        BY ONLY wire \in Seq(Bytes), out \in Seq(Bytes), Stream!htonl(Len(sent) + 1) \in Seq(Bytes), ConcatAssociative, SMTT(40)
      <3> QED
        BY <1>w, <3>1 DEF Frame
    <2>3. Piece(W, x, Len(S)) \o Piece(W, Len(S), Len(W)) = Piece(W, x, Len(W))
      <3>1. Len(W) <= Len(W)
        BY <1>10
      <3> QED
        BY ONLY <1>2, <1>4, <1>9, <1>10, <3>1, PiecesJoin
    <2>4. Piece(W, x, Len(S)) = Piece(S, x, Len(S))
      <3>1. Len(S) <= Len(S)
        BY <1>4
      <3> QED
        BY ONLY <1>2, <1>4, <1>5, <1>8, <3>1, PieceStays
    <2>5. Piece(W, Len(S), Len(W)) = Frame
      BY ONLY <1>4, <1>5, <1>8, PieceBehind
    <2> QED
      BY <1>2, <2>2, <2>3, <2>4, <2>5
  <1>u. PICK f : /\ f \in Nat /\ x <= f /\ f <= Len(W) /\ wire' = Piece(W, x, f)
                 /\ broken' = FALSE => f = Len(W)
    <2>1. CASE wire' = whole /\ broken' = FALSE
      <3>1. Len(W) \in Nat /\ x <= Len(W) /\ Len(W) <= Len(W)
        BY <1>10
      <3> QED
        BY <1>11, <2>1, <3>1
    <2>2. CASE \E k \in Len(wire)..Len(whole) : wire' = Stream!Take(whole, k) /\ broken' = TRUE
      <3>1. PICK k \in Len(wire)..Len(whole) : wire' = Stream!Take(whole, k) /\ broken' = TRUE
        BY <2>2
      <3>2. Len(W) <= Len(W) /\ Len(wire) \in Nat
        <4>1. Len(S) <= Len(S)
          BY <1>4
        <4>2. Piece(S, x, Len(S)) \in Seq(Bytes)
          BY ONLY <1>2, <1>4, <4>1, PieceIs
        <4> QED
          BY <1>2, <1>10, <4>2, LenProperties
      <3>3. Len(Piece(W, x, Len(W))) = Len(W) - x
        BY ONLY <1>2, <1>9, <1>10, <3>2, PieceIs, ZenonT(60)
      <3>4. PICK z : z = x + k
        OBVIOUS
      <3>5. z \in Nat /\ x <= z /\ z <= Len(W) /\ z - x = k
        BY <1>2, <1>10, <1>11, <3>1, <3>2, <3>3, <3>4
      <3>6. SubSeq(Piece(W, x, Len(W)), 1, z - x) = Piece(W, x, z)
        BY ONLY <1>2, <1>9, <1>10, <3>2, <3>5, PieceCut
      <3>7. wire' = Piece(W, x, z)
        BY <1>11, <3>1, <3>5, <3>6 DEF Stream!Take
      <3> QED
        BY <3>1, <3>5, <3>7
    <2> QED
      BY <1>v, <2>1, <2>2
  <1>12. /\ Len(sent') = Len(sent) + 1 /\ \A i \in 1..Len(sent) : sent'[i] = sent[i]
    BY <1>3, <1>4, AppendProperties
  <1>13. \A i \in 1..(Len(sent) + 1) : pl[i] = st[i]
    BY <1>4, <1>6 DEF Places
  <1>14. \A y, z \in Nat : y <= z /\ z <= Len(S) => Piece(W, y, z) = Piece(S, y, z)
    BY ONLY <1>4, <1>5, <1>8, PieceStays
  <1> DEFINE n == Len(got) + 1
  <1>n. n' = n
    BY <1>3
  <1> HIDE DEF n
  <1>15. ASSUME InHeader(in, S, st, n, x) PROVE InHeader(in, W, pl, n, x)'
    <2>1. n \in 1..(Len(sent) + 1) /\ st[n] <= x /\ st[n] \in Nat
      BY <1>4, <1>15 DEF InHeader
    <2>2. Piece(W, st[n], x) = Piece(S, st[n], x) /\ pl[n] = st[n] /\ n \in 1..(Len(sent') + 1)
      BY <1>2, <1>4, <1>12, <1>13, <1>14, <2>1
    <2> QED
      BY <1>3, <1>15, <1>n, <2>2 DEF InHeader
  <1>16. ASSUME InData(in, S, st, n, x) PROVE InData(in, W, pl, n, x)'
    <2>1. n \in 1..Len(sent) /\ st[n] + Header <= x
      BY <1>16 DEF InData
    <2>2. n \in 1..(Len(sent) + 1) /\ n + 1 \in 1..(Len(sent) + 1) /\ st[n] + Header \in Nat
      BY <1>2, <2>1, MessageInStream
    <2>3. /\ Piece(W, st[n] + Header, x) = Piece(S, st[n] + Header, x)
          /\ pl[n] = st[n] /\ pl[n + 1] = st[n + 1] /\ sent'[n] = sent[n] /\ n \in 1..Len(sent')
      BY <1>2, <1>4, <1>12, <1>13, <1>14, <2>1, <2>2
    <2> QED
      BY <1>3, <1>16, <1>n, <2>3 DEF InData
  <1>17. ASSUME Keeping(in, S, st, n, x) PROVE Keeping(in, W, pl, n, x)'
    <2>1. n \in 1..(Len(sent) + 1) /\ st[n] < x /\ st[n] \in Nat
      BY <1>4, <1>17 DEF Keeping
    <2>2. Piece(W, st[n], x) = Piece(S, st[n], x) /\ pl[n] = st[n] /\ n \in 1..(Len(sent') + 1)
      BY <1>2, <1>4, <1>12, <1>13, <1>14, <2>1
    <2> QED
      BY <1>3, <1>17, <1>n, <2>2 DEF Keeping
  <1>18. ASSUME Holding(in, S, st, n, x) PROVE Holding(in, W, pl, n, x)'
    <2>1. n \in 1..Len(sent) /\ st[n + 1] <= x
      BY <1>18 DEF Holding
    <2>2. /\ n \in 1..(Len(sent) + 1) /\ n + 1 \in 1..(Len(sent) + 1) /\ st[n] + Header \in Nat
          /\ st[n] + Header <= st[n + 1] /\ st[n + 1] <= Len(S) /\ st[n + 1] \in Nat
      BY <1>2, <2>1, MessageInStream
    <2>3. /\ Piece(W, st[n] + Header, st[n + 1]) = Piece(S, st[n] + Header, st[n + 1])
          /\ Piece(W, st[n + 1], x) = Piece(S, st[n + 1], x)
      BY <1>2, <1>14, <2>1, <2>2
    <2>4. pl[n] = st[n] /\ pl[n + 1] = st[n + 1] /\ n \in 1..Len(sent')
      BY <1>4, <1>12, <1>13, <2>1, <2>2
    <2> QED
      BY <1>3, <1>18, <1>n, <2>3, <2>4 DEF Holding
  <1>19. (Waiting(in, W, pl, n, x) \/ Keeping(in, W, pl, n, x) \/ Holding(in, W, pl, n, x))'
    <2>1. Waiting(in, S, st, n, x) \/ Keeping(in, S, st, n, x) \/ Holding(in, S, st, n, x)
      BY <1>1 DEF Received, n
    <2>2. ASSUME Waiting(in, S, st, n, x) PROVE Waiting(in, W, pl, n, x)'
      <3>1. in'.rval \in {Stream!CDC_WAITING, Stream!Unasked}
        BY <1>3, <2>2 DEF Waiting
      <3>2. InHeader(in, S, st, n, x) \/ InData(in, S, st, n, x)
        BY <2>2 DEF Waiting
      <3>3. InHeader(in, W, pl, n, x)' \/ InData(in, W, pl, n, x)'
        BY <3>2, <1>15, <1>16
      <3> QED
        BY <3>1, <3>3 DEF Waiting
    <2> QED
      BY <2>1, <2>2, <1>17, <1>18
  <1>20. Received(W, pl, x, f)'
    BY <1>2, <1>7, <1>10, <1>u, <1>19, Zenon DEF Received, n
  <1>21. Len(got') <= Len(sent') /\ \A i \in 1..Len(got') : got'[i] = sent'[i]
    <2>1. Len(got) \in Nat /\ Len(got) <= Len(sent) /\ \A i \in 1..Len(got) : got[i] = sent[i]
      BY LenProperties DEF StreamInv
    <2> QED
      BY <1>3, <1>4, <1>12, <2>1
  <1> QED
    BY <1>3, <1>20, <1>21 DEF StreamInv

(* A turn of ComDataCheck_recv moves the receiver on by what recv returns. *)
LEMMA RecvTakes ==
  ASSUME StreamInv, Stream!ComDataCheck_recv
  PROVE  StreamInv'
PROOF
  <1>1. PICK S, st, x, e : Received(S, st, x, e)
    BY DEF StreamInv
  <1>2. /\ Layout(S, st) /\ x \in Nat /\ e \in Nat /\ x <= e /\ e <= Len(S) /\ wire = Piece(S, x, e)
        /\ broken = FALSE => e = Len(S)
    BY <1>1 DEF Received
  <1>3. S \in Seq(Bytes) /\ Len(S) \in Nat
    BY <1>2, PlacesInStream DEF Layout
  <1>4. /\ ~Stream!Due
        /\ out' = out /\ sent' = sent /\ got' = got /\ broken' = broken
        /\ \E k \in 1..Len(wire) :
             in' = Stream!ComDataCheck_append(in, Stream!Take(wire, k)) /\ wire' = Stream!Drop(wire, k)
    BY DEF Stream!ComDataCheck_recv
  <1>5. PICK k \in 1..Len(wire) :
          in' = Stream!ComDataCheck_append(in, Stream!Take(wire, k)) /\ wire' = Stream!Drop(wire, k)
    BY <1>4
  <1>6. Len(wire) = e - x
    <2>1. Len(Piece(S, x, e)) = e - x
      BY ONLY <1>2, <1>3, PieceIs
    <2> QED
      BY <1>2, <2>1
  <1>7. PICK z : z = x + k
    OBVIOUS
  <1>8. z \in Nat /\ x < z /\ x <= z /\ z <= e /\ z <= Len(S) /\ z - x = k
    BY <1>2, <1>3, <1>5, <1>6, <1>7
  <1>9. Stream!Take(wire, k) = Piece(S, x, z) /\ Stream!Drop(wire, k) = Piece(S, z, e)
    <2>1. /\ SubSeq(Piece(S, x, e), 1, z - x) = Piece(S, x, z)
          /\ SubSeq(Piece(S, x, e), (z - x) + 1, Len(Piece(S, x, e))) = Piece(S, z, e)
      BY ONLY <1>2, <1>3, <1>8, PieceCut, ZenonT(60)
    <2> QED
      BY <1>2, <1>8, <2>1 DEF Stream!Take, Stream!Drop
  <1> DEFINE n == Len(got) + 1
             d == Stream!ComDataCheck_append(in, Piece(S, x, z))
  <1>10. Waiting(in, S, st, n, x) \/ Keeping(in, S, st, n, x)
    <2>1. ~Holding(in, S, st, n, x)
      BY <1>4 DEF Holding, Stream!Due
    <2> QED
      BY <1>1, <2>1 DEF Received
  <1>11. in \in CdcObject
    BY DEF StreamInv
  <1>12. d \in CdcObject /\ (Waiting(d, S, st, n, z) \/ Holding(d, S, st, n, z))
    <2> HIDE DEF n
    <2> QED
      BY <1>2, <1>8, <1>10, <1>11, AppendTakes
  <1>13. in' = d
    BY <1>5, <1>9
  <1> HIDE DEF d
  <1>14. (Waiting(in, S, st, n, z) \/ Holding(in, S, st, n, z))'
    <2>1. Waiting(d, S, st, n, z) => Waiting(in, S, st, n, z)'
      BY <1>4, <1>13 DEF Waiting, InHeader, InData
    <2>2. Holding(d, S, st, n, z) => Holding(in, S, st, n, z)'
      BY <1>4, <1>13 DEF Holding
    <2> QED
      BY <1>12, <2>1, <2>2
  <1>15. Layout(S, st)'
    BY <1>2, <1>4 DEF Layout
  <1>16. Received(S, st, z, e)'
    BY <1>2, <1>4, <1>5, <1>8, <1>9, <1>14, <1>15 DEF Received
  <1> QED
    BY <1>4, <1>12, <1>13, <1>16 DEF StreamInv

(* The message taken is the next of those sent, and the receiver is at the *)
(* beginning of the one behind it.                                         *)
LEMMA TakeTakes ==
  ASSUME StreamInv, Stream!TakeMessage
  PROVE  StreamInv'
PROOF
  <1>1. PICK S, st, x, f : Received(S, st, x, f)
    BY DEF StreamInv
  <1>2. /\ Layout(S, st) /\ x \in Nat /\ f \in Nat /\ x <= f /\ f <= Len(S) /\ x <= Len(S)
        /\ wire = Piece(S, x, f) /\ (broken = FALSE => f = Len(S))
    <2>1. Layout(S, st) /\ x \in Nat /\ f \in Nat /\ x <= f /\ f <= Len(S)
      BY <1>1 DEF Received
    <2>2. Len(S) \in Nat
      BY <2>1, PlacesInStream
    <2> QED
      BY <1>1, <2>1, <2>2 DEF Received
  <1> DEFINE n == Len(got) + 1
             c == Stream!ComDataCheck_clear(in)
  <1>3. /\ Stream!Due /\ got' = Append(got, in.buff)
        /\ \/ in' = [c EXCEPT !.rval = Stream!Unasked]
           \/ in.rval = Stream!CDC_DATA_REMAINING /\ in' = Stream!ComDataCheck_process_buffered_data(c)
        /\ out' = out /\ sent' = sent /\ wire' = wire /\ broken' = broken
    BY DEF Stream!TakeMessage
  <1>4. /\ out \in Seq(Bytes) /\ got \in Seq(Seq(Bytes)) /\ in \in CdcObject
        /\ Len(got) \in Nat /\ Len(got) <= Len(sent) /\ \A i \in 1..Len(got) : got[i] = sent[i]
    BY LenProperties DEF StreamInv
  <1>5. Holding(in, S, st, n, x)
    <2>1. ~Waiting(in, S, st, n, x)
      BY <1>3, ReturnsDiffer DEF Waiting, Stream!Due
    <2>2. ~Keeping(in, S, st, n, x)
      BY <1>3, ReturnsDiffer DEF Keeping, Stream!Due
    <2> QED
      BY <1>1, <2>1, <2>2 DEF Received
  <1> DEFINE e == st[n + 1]
             y == st[n] + Header
  <1>6. /\ n \in 1..Len(sent) /\ e <= x /\ in.buff = Piece(S, y, e) /\ in.unread_buff = Piece(S, e, x)
        /\ in.rval = IF x = e THEN Stream!CDC_COMPLETE ELSE Stream!CDC_DATA_REMAINING
    BY <1>5 DEF Holding
  <1>7. /\ S \in Seq(Bytes) /\ y \in Nat /\ e \in Nat /\ y <= e /\ e <= Len(S) /\ e - y = Len(sent[n])
        /\ n + 1 \in 1..(Len(sent) + 1) /\ sent[n] \in Seq(Bytes) /\ Len(sent) \in Nat
    <2>1. /\ S \in Seq(Bytes) /\ y \in Nat /\ e \in Nat /\ y <= e /\ e <= Len(S) /\ e = y + Len(sent[n])
          /\ n + 1 \in 1..(Len(sent) + 1) /\ sent[n] \in Seq(Bytes) /\ Len(sent) \in Nat
          /\ Len(sent[n]) \in Nat
      <3> HIDE DEF n
      <3> QED
        BY <1>2, <1>6, MessageInStream
    <2> HIDE DEF e, y
    <2> QED
      BY <2>1
  <1>8. in.buff = sent[n]
    <2>1. \A k \in 1..Len(sent[n]) : S[y + k] = sent[n][k]
      BY <1>2, <1>6 DEF Layout
    <2> HIDE DEF e, y, n
    <2>2. Piece(S, y, e) \in Seq(Bytes) /\ Len(Piece(S, y, e)) = e - y
          /\ \A k \in 1..(e - y) : Piece(S, y, e)[k] = S[y + k]
      BY ONLY <1>7, PieceIs
    <2> DEFINE q == Piece(S, y, e)
    <2> HIDE DEF q
    <2>3. q \in Seq(Bytes) /\ Len(q) = Len(sent[n]) /\ \A k \in 1..Len(q) : q[k] = sent[n][k]
      BY <1>7, <2>1, <2>2 DEF q
    <2>4. q = sent[n]
      BY <1>7, <2>3, SeqEqual
    <2> QED
      BY <1>6, <2>4 DEF q
  <1>9. /\ got' \in Seq(Seq(Bytes)) /\ Len(got') = Len(got) + 1 /\ got'[Len(got) + 1] = sent[n]
        /\ \A i \in 1..Len(got) : got'[i] = got[i]
    BY <1>3, <1>4, <1>7, <1>8, AppendProperties
  <1>10. Len(got') <= Len(sent') /\ \A i \in 1..Len(got') : got'[i] = sent'[i]
    BY <1>3, <1>4, <1>6, <1>7, <1>9
  <1>11. c \in CdcObject /\ c.data_len = 0 /\ c.buff = <<>> /\ c.unread_buff = Piece(S, e, x) /\ c.rval = in.rval
    BY <1>4, <1>6, EmptySeq DEF Stream!ComDataCheck_clear, CdcObject
  <1>12. Piece(S, e, e) = <<>>
    <2> HIDE DEF e
    <2> QED
      BY ONLY <1>7, PieceEmpty
  <1> HIDE DEF c
  <1>13. ASSUME in' = [c EXCEPT !.rval = Stream!Unasked]
         PROVE  in' \in CdcObject /\ (Waiting(in', S, st, n + 1, x) \/ Keeping(in', S, st, n + 1, x))
    <2>1. /\ in' \in CdcObject /\ in'.data_len = 0 /\ in'.buff = <<>> /\ in'.unread_buff = Piece(S, e, x)
          /\ in'.rval = Stream!Unasked
      BY <1>11, <1>13 DEF CdcObject
    <2>2. CASE e = x
      <3>1. InHeader(in', S, st, n + 1, x)
        BY <1>7, <1>12, <2>1, <2>2, StreamAssumption DEF InHeader
      <3> QED
        BY <2>1, <3>1 DEF Waiting
    <2>3. CASE e # x
      <3>1. e < x
        BY <1>2, <1>6, <1>7, <2>3
      <3>2. Keeping(in', S, st, n + 1, x)
        BY <1>7, <2>1, <3>1 DEF Keeping
      <3> QED
        BY <2>1, <3>2
    <2> QED
      BY <2>2, <2>3
  <1>14. ASSUME in.rval = Stream!CDC_DATA_REMAINING, in' = Stream!ComDataCheck_process_buffered_data(c)
         PROVE  in' \in CdcObject /\ (Waiting(in', S, st, n + 1, x) \/ Holding(in', S, st, n + 1, x))
    <2>1. e < x
      BY <1>2, <1>6, <1>7, <1>14, ReturnsDiffer
    <2> DEFINE j == n + 1
    <2>2. j \in 1..(Len(sent) + 1) /\ st[j] < x /\ c.unread_buff = Piece(S, st[j], x)
      BY <1>7, <1>11, <2>1
    <2> HIDE DEF j
    <2>3. LET d == Stream!ComDataCheck_process_buffered_data(c)
          IN d \in CdcObject /\ (Waiting(d, S, st, j, x) \/ Holding(d, S, st, j, x))
      BY <1>2, <1>11, <2>2, ProcessTakes
    <2> QED
      BY <1>14, <2>3 DEF j
  <1>15. in' \in CdcObject /\ (\/ Waiting(in', S, st, n + 1, x)
                             \/ Keeping(in', S, st, n + 1, x)
                             \/ Holding(in', S, st, n + 1, x))
    BY <1>3, <1>13, <1>14 DEF c
  <1>16. Layout(S, st)'
    BY <1>2, <1>3 DEF Layout
  <1>17. Len(got') + 1 = n + 1
    BY <1>9
  <1>18. Received(S, st, x, f)'
    <2>1. Waiting(in', S, st, n + 1, x) => Waiting(in, S, st, Len(got) + 1, x)'
      BY <1>3, <1>17 DEF Waiting, InHeader, InData
    <2>2. Keeping(in', S, st, n + 1, x) => Keeping(in, S, st, Len(got) + 1, x)'
      BY <1>3, <1>17 DEF Keeping
    <2>3. Holding(in', S, st, n + 1, x) => Holding(in, S, st, Len(got) + 1, x)'
      BY <1>3, <1>17 DEF Holding
    <2>4. (wire = Piece(S, x, f) /\ (broken = FALSE => f = Len(S)))'
      BY <1>2, <1>3
    <2> QED
      BY <1>2, <1>15, <1>16, <2>1, <2>2, <2>3, <2>4 DEF Received
  <1> QED
    BY <1>3, <1>4, <1>9, <1>10, <1>15, <1>18 DEF StreamInv

(* The stream's invariant holds before the first byte.                     *)
LEMMA StreamStarts ==
  ASSUME Stream!Init
  PROVE  StreamInv
PROOF
  <1> DEFINE pl == [i \in 1..1 |-> 0]
  <1>1. /\ out = <<>> /\ sent = <<>> /\ wire = <<>> /\ got = <<>> /\ broken = FALSE
        /\ in = [data_len |-> 0, buff |-> <<>>, unread_buff |-> <<>>, rval |-> Stream!Unasked]
    BY DEF Stream!Init
  <1>2. /\ <<>> \in Seq(Bytes) /\ <<>> \in Seq(Seq(Bytes)) /\ Len(<<>>) = 0
    BY EmptySeq
  <1>3. pl \in [1..1 -> Nat] /\ pl[1] = 0
    OBVIOUS
  <1> HIDE DEF pl
  <1>4. Layout(<<>>, pl)
    BY <1>1, <1>2, <1>3 DEF Layout
  <1>5. Piece(<<>>, 0, 0) = <<>>
    <2> DEFINE S == <<>>
    <2>1. S \in Seq(Bytes) /\ 0 \in Nat /\ 0 <= 0 /\ 0 <= Len(S)
      BY <1>2
    <2> HIDE DEF S
    <2>2. Piece(S, 0, 0) = <<>>
      BY ONLY <2>1, PieceEmpty
    <2> QED
      BY <2>2 DEF S
  <1>6. in \in CdcObject
    BY <1>1, <1>2 DEF CdcObject
  <1>7. InHeader(in, <<>>, pl, 1, 0)
    BY <1>1, <1>2, <1>3, <1>5, StreamAssumption DEF InHeader
  <1>8. Waiting(in, <<>>, pl, Len(got) + 1, 0)
    BY <1>1, <1>2, <1>7 DEF Waiting
  <1>9. Received(<<>>, pl, 0, 0)
    BY <1>1, <1>2, <1>4, <1>5, <1>8 DEF Received
  <1>10. \E S, st, x, e : Received(S, st, x, e)
    BY <1>9
  <1>11. broken \in BOOLEAN
    <2>1. broken = FALSE
      BY <1>1
    <2> QED
      BY <2>1
  <1>12. /\ out \in Seq(Bytes) /\ got \in Seq(Seq(Bytes)) /\ Len(got) <= Len(sent)
         /\ \A i \in 1..Len(got) : got[i] = sent[i]
    BY <1>1, <1>2
  <1> QED
    BY <1>6, <1>10, <1>11, <1>12 DEF StreamInv

(* What does not touch the stream keeps its invariant.                     *)
LEMMA StreamIdle ==
  ASSUME StreamInv, out' \in Seq(Bytes), UNCHANGED <<sent, wire, in, got, broken>>
  PROVE  StreamInv'
PROOF
  <1>1. PICK S, st, x, e : Received(S, st, x, e)
    BY DEF StreamInv
  <1>2. Received(S, st, x, e)'
    BY <1>1 DEF Received, Layout, Waiting, InHeader, InData, Keeping, Holding
  <1> QED
    BY <1>2 DEF StreamInv

(* Every step keeps the stream's invariant.                                *)
LEMMA StreamSteps ==
  ASSUME StreamInv, [Next]_allVars
  PROVE  StreamInv'
PROOF
  <1>1. ASSUME UNCHANGED streamVars PROVE StreamInv'
    BY <1>1, StreamIdle DEF streamVars, StreamInv
  <1>2. CASE On("stream", Stream!Next)
    <2>1. CASE Stream!Compose
      <3>1. UNCHANGED <<sent, wire, in, got, broken>> /\ out' = Append(out, <<Len(sent) + 1, Len(out) + 1>>)
        BY <2>1 DEF Stream!Compose
      <3>2. out \in Seq(Bytes) /\ sent \in Seq(Seq(Bytes))
        BY DEF StreamInv, Received, Layout
      <3>3. <<Len(sent) + 1, Len(out) + 1>> \in Bytes
        BY <3>2, LenProperties DEF Bytes
      <3>4. out' \in Seq(Bytes)
        BY <3>1, <3>2, <3>3, AppendProperties
      <3> QED
        BY <3>1, <3>4, StreamIdle
    <2>6. CASE Stream!ClearOutput
      BY <2>6, StreamIdle, EmptySeq DEF Stream!ClearOutput, StreamInv
    <2>2. CASE Stream!ComDataCheck_send
      BY <2>2, SendSent
    <2>3. CASE Stream!ComDataCheck_recv
      BY <2>3, RecvTakes
    <2>4. CASE Stream!ComDataCheck_recv_timeout
      BY <2>4, StreamIdle DEF Stream!ComDataCheck_recv_timeout, StreamInv
    <2>5. CASE Stream!TakeMessage
      BY <2>5, TakeTakes
    <2> QED
      BY <1>2, <2>1, <2>2, <2>3, <2>4, <2>5, <2>6 DEF On, Stream!Next
  <1>3. CASE ~On("stream", Stream!Next)
    <2>1. [Next]_allVars => UNCHANGED streamVars \/ On("stream", Stream!Next)
      BY DEF Next, On, allVars
    <2> QED
      BY <1>1, <1>3, <2>1
  <1> QED
    BY <1>2, <1>3

(* The invariant says that messages come out of the stream as they went    *)
(* in.                                                                     *)
LEMMA StreamIsWhole ==
  ASSUME StreamInv
  PROVE  FramesSurvive
PROOF
  <1>1. PICK S, st, x, e : Received(S, st, x, e)
    BY DEF StreamInv
  <1>2. /\ Layout(S, st) /\ x \in Nat /\ e \in Nat /\ x <= e /\ e <= Len(S) /\ wire = Piece(S, x, e)
        /\ (broken = FALSE => e = Len(S)) /\ broken \in BOOLEAN
    BY <1>1 DEF Received, StreamInv
  <1>3. /\ got \in Seq(Seq(Bytes)) /\ Len(got) <= Len(sent) /\ \A i \in 1..Len(got) : got[i] = sent[i]
        /\ sent \in Seq(Seq(Bytes)) /\ S \in Seq(Bytes)
    BY <1>2 DEF StreamInv, Layout
  <1>4. Len(got) \in Nat /\ Len(sent) \in Nat /\ Len(S) \in Nat
    BY <1>3, LenProperties
  <1>5. Stream!IsPrefix(got, sent)
    <2> DEFINE g == SubSeq(got, 1, Len(got))
               h == SubSeq(sent, 1, Len(got))
    <2>1. g \in Seq(Seq(Bytes)) /\ Len(g) = Len(got) /\ \A i \in 1..Len(got) : g[i] = got[i]
      BY <1>3, <1>4, SubSeqProperties
    <2>2. h \in Seq(Seq(Bytes)) /\ Len(h) = Len(got) /\ \A i \in 1..Len(got) : h[i] = sent[i]
      BY <1>3, <1>4, SubSeqProperties
    <2> HIDE DEF g, h
    <2>3. g = h
      BY <1>3, <2>1, <2>2, SeqEqual
    <2> QED
      BY <1>3, <2>3 DEF g, h, Stream!IsPrefix
  <1>6. ASSUME ~broken, wire = <<>>, in.unread_buff = <<>>, ~Stream!Due
        PROVE  sent \in {got, Append(got, <<>>)}
    <2> DEFINE n == Len(got) + 1
    <2>1. x = Len(S)
      <3>1. Piece(S, x, e) = <<>> <=> x = e
        BY ONLY <1>2, <1>3, PieceEmpty
      <3> QED
        BY <1>2, <1>6, <3>1
    <2>2. ~Holding(in, S, st, n, x)
      BY <1>6 DEF Holding, Stream!Due
    <2>3. ~Keeping(in, S, st, n, x)
      <3> SUFFICES ASSUME Keeping(in, S, st, n, x) PROVE FALSE
        OBVIOUS
      <3> DEFINE y == st[n]
      <3>1. n \in 1..(Len(sent) + 1) /\ y < x /\ in.unread_buff = Piece(S, y, x)
        BY DEF Keeping
      <3>2. y \in Nat
        BY <1>2, <3>1, PlacesInStream
      <3>3. y <= x /\ y # x
        BY <1>2, <3>1, <3>2
      <3> HIDE DEF y
      <3>4. S \in Seq(Bytes)
        BY <1>3
      <3>5. Piece(S, y, x) # <<>>
        BY ONLY <1>2, <1>4, <2>1, <3>2, <3>3, <3>4, PieceEmpty
      <3> QED
        BY <1>6, <3>1, <3>5
    <2>4. ~InData(in, S, st, n, x)
      <3> SUFFICES ASSUME InData(in, S, st, n, x) PROVE FALSE
        OBVIOUS
      <3>1. n \in 1..Len(sent) /\ x < st[n + 1]
        BY DEF InData
      <3>2. st[n + 1] <= Len(S) /\ st[n + 1] \in Nat
        <4> HIDE DEF n
        <4> QED
          BY <1>2, <3>1, MessageInStream
      <3> QED
        BY <1>4, <2>1, <3>1, <3>2
    <2>5. InHeader(in, S, st, n, x)
      BY <1>1, <2>2, <2>3, <2>4 DEF Received, Waiting
    <2>6. n \in 1..(Len(sent) + 1) /\ Len(S) <= st[n] + Header
      BY <2>1, <2>5 DEF InHeader
    <2>7. CASE n = Len(sent) + 1
      <3>1. Len(sent) = Len(got)
        BY <1>4, <2>7
      <3>2. sent = got
        BY <1>3, <3>1, SeqEqual
      <3> QED
        BY <3>2
    <2>8. CASE n # Len(sent) + 1
      <3>1. n \in 1..Len(sent)
        BY <1>4, <2>6, <2>8
      <3>2. /\ st[n + 1] = st[n] + Header + Len(sent[n]) /\ st[n + 1] <= Len(S) /\ st[n] \in Nat
            /\ Len(sent[n]) \in Nat /\ sent[n] \in Seq(Bytes) /\ n + 1 \in 1..(Len(sent) + 1)
        <4> HIDE DEF n
        <4> QED
          BY <1>2, <3>1, MessageInStream
      <3>3. Len(sent[n]) = 0 /\ st[n + 1] = Len(S)
        BY <1>4, <2>6, <3>2, StreamAssumption
      <3>4. sent[n] = <<>>
        BY <3>2, <3>3, EmptySeq
      <3>5. n + 1 = Len(sent) + 1
        <4>1. n + 1 # Len(sent) + 1 => st[n + 1] + Header <= Len(S)
          <5> DEFINE j == n + 1
          <5>1. j \in 1..(Len(sent) + 1)
            BY <3>2
          <5> HIDE DEF j
          <5>2. j # Len(sent) + 1 => st[j] + Header <= Len(S)
            BY <1>2, <5>1, PlacesInStream
          <5> QED
            BY <5>2 DEF j
        <4> QED
          BY <1>4, <3>3, <4>1, StreamAssumption
      <3>6. Len(sent) = Len(got) + 1
        BY <1>4, <3>5
      <3>7. /\ Append(got, <<>>) \in Seq(Seq(Bytes)) /\ Len(Append(got, <<>>)) = Len(got) + 1
            /\ \A i \in 1..Len(got) : Append(got, <<>>)[i] = got[i]
            /\ Append(got, <<>>)[Len(got) + 1] = <<>>
        <4>1. <<>> \in Seq(Bytes)
          BY EmptySeq
        <4> QED
          BY <1>3, <4>1, AppendProperties
      <3> DEFINE a == Append(got, <<>>)
      <3> HIDE DEF a
      <3>8. a \in Seq(Seq(Bytes)) /\ Len(a) = Len(sent) /\ \A i \in 1..Len(a) : a[i] = sent[i]
        BY <1>3, <1>4, <3>4, <3>6, <3>7, SMTT(40) DEF a
      <3>9. a = sent
        BY <1>3, <3>8, SeqEqual
      <3> QED
        BY <3>9 DEF a
    <2> QED
      BY <2>7, <2>8
  <1> QED
    BY <1>5, <1>6 DEF FramesSurvive, Stream!FramesSurvive

(* ComDataCheck.c: however recv cuts the stream and wherever a send breaks *)
(* off, for every length of the header, the messages the receiver is told  *)
(* of are those that were sent, whole and in order; while no send broke    *)
(* off, none is left out once all is read but an empty one that nothing    *)
(* follows.                                                                *)
THEOREM MessagesComeOutWhole == Spec => []FramesSurvive
PROOF
  <1>1. Init => StreamInv
    BY StreamStarts DEF Init
  <1>2. StreamInv /\ [Next]_allVars => StreamInv'
    BY StreamSteps
  <1>3. StreamInv => FramesSurvive
    BY StreamIsWhole
  <1> QED
    BY <1>1, <1>2, <1>3, PTL DEF Spec

-----------------------------------------------------------------------------
(* Times.  Nanos(t) stands for the time in nanoseconds.                    *)

N == NANOS_PER_SECOND

(* A time as the functions of alib_time.c leave it: the signs agree.       *)
Fixed(t) ==
  /\ t = Time!timespec(t.sec, t.nsec) /\ t.sec \in Int /\ t.nsec \in (-N)..N
  /\ t.nsec < 0 => t.sec <= 0
  /\ t.nsec > 0 => t.sec >= 0

(* A time that is not before zero.                                         *)
Later(t) == t = Time!timespec(t.sec, t.nsec) /\ t.sec \in Nat /\ t.nsec \in 0..N

(* Whole seconds are nanoseconds.                                          *)
LEMMA SecondsCount ==
  /\ N \in Nat \ {0}
  /\ \A k \in Int : k * N \in Int
  /\ \A k, l \in Int : (k + l) * N = k * N + l * N /\ (k - l) * N = k * N - l * N
  /\ \A k \in Int : k > 0 => k * N >= N
  /\ \A k \in Int : k < 0 => k * N <= -N
  /\ 0 * N = 0 /\ 1 * N = N /\ 2 * N = N + N
PROOF
  <1>1. N \in Nat \ {0}
    BY TimeAssumption DEF N
  <1>2. \A k \in Int : k * N \in Int
    BY <1>1
  <1>3. \A k, l \in Int : (k + l) * N = k * N + l * N /\ (k - l) * N = k * N - l * N
    BY <1>1
  <1>4. \A k \in Nat : k * N \in Nat
    BY <1>1
  <1>5. 0 * N = 0 /\ 1 * N = N /\ 2 * N = N + N
    BY <1>1
  <1>6. ASSUME NEW k \in Int, k > 0 PROVE k * N >= N
    <2>1. k - 1 \in Nat /\ (k - 1) * N = k * N - 1 * N
      BY <1>3, <1>6
    <2>2. (k - 1) * N \in Nat
      BY <1>4, <2>1
    <2> HIDE DEF N
    <2> QED
      BY <1>1, <1>2, <1>5, <2>1, <2>2
  <1>7. ASSUME NEW k \in Int, k < 0 PROVE k * N <= -N
    <2>1. 0 - k \in Int /\ 0 - k > 0 /\ (0 - k) * N = 0 * N - k * N
      BY <1>3, <1>7
    <2>2. (0 - k) * N >= N
      BY <1>6, <2>1
    <2> HIDE DEF N
    <2> QED
      BY <1>1, <1>2, <1>5, <2>1, <2>2
  <1> QED
    BY <1>1, <1>2, <1>3, <1>5, <1>6, <1>7

(* timespec_fix_values_fast changes the form of a time and not the time.   *)
LEMMA FixFixes ==
  ASSUME NEW k \in Int, NEW l \in (-(2 * N))..(2 * N)
  PROVE  LET t == Time!timespec(k, l)
             f == Time!timespec_fix_values_fast(t)
         IN Fixed(f) /\ Time!Nanos(f) = Time!Nanos(t)
PROOF
  <1> DEFINE t == Time!timespec(k, l)
             c == Time!Carried(t)
             f == Time!timespec_fix_values_fast(t)
  <1>0. N \in Nat \ {0} /\ l \in Int /\ -(2 * N) <= l /\ l <= 2 * N
    BY SecondsCount
  <1>1. t.sec = k /\ t.nsec = l
    BY DEF Time!timespec
  <1>2. \E q, r \in Int : /\ c = Time!timespec(k + q, r) /\ l = r + q * N
                         /\ -N <= r /\ r <= N
    <2>1. CASE l > N
      <3>1. l \div N \in {1, 2} /\ l - N * (l \div N) = l - (l \div N) * N
        BY <1>0, <2>1
      <3> QED
        BY <1>0, <1>1, <2>1, <3>1 DEF Time!Carried, Time!Abs, Time!DivC, N
    <2>2. CASE l < -N
      <3>1. (-l) \div N \in {1, 2} /\ l - N * (-((-l) \div N)) = l + ((-l) \div N) * N
        BY <1>0, <2>2
      <3>2. c = Time!timespec(k + (-((-l) \div N)), l + ((-l) \div N) * N)
        BY <1>0, <1>1, <2>2, <3>1 DEF Time!Carried, Time!Abs, Time!DivC, N
      <3> QED
        BY <1>0, <2>2, <3>1, <3>2
    <2>3. CASE -N <= l /\ l <= N
      <3>1. c = t
        BY <1>0, <1>1, <2>3 DEF Time!Carried, Time!Abs, N
      <3>2. c = Time!timespec(k + 0, l) /\ l = l + 0 * N
        BY <1>0, <3>1
      <3> QED
        BY <1>0, <2>3, <3>2
    <2> QED
      BY <1>0, <2>1, <2>2, <2>3
  <1>3. PICK q \in Int, r \in Int : c = Time!timespec(k + q, r) /\ l = r + q * N /\ -N <= r /\ r <= N
    BY <1>2
  <1>4. c.sec = k + q /\ c.nsec = r
    BY <1>3 DEF Time!timespec
  <1>5. Time!Nanos(t) = (k + q) * N + r
    <2>1. Time!Nanos(t) = k * N + l
      BY <1>1 DEF Time!Nanos, N
    <2>2. (k + q) * N = k * N + q * N /\ k * N \in Int /\ q * N \in Int
      BY SecondsCount
    <2> HIDE DEF N
    <2> QED
      BY <1>0, <1>3, <2>1, <2>2
  <1> HIDE DEF c
  <1>6. CASE r < 0 /\ k + q > 0
    <2>1. f = Time!timespec((k + q) - 1, r + N)
      BY <1>0, <1>4, <1>6 DEF Time!timespec_fix_values_fast, c, N
    <2>2. f.sec = (k + q) - 1 /\ f.nsec = r + N
      BY <2>1 DEF Time!timespec
    <2>3. Time!Nanos(f) = ((k + q) - 1) * N + (r + N)
      BY <2>2 DEF Time!Nanos, N
    <2>4. ((k + q) - 1) * N = (k + q) * N - N /\ (k + q) * N \in Int
      BY SecondsCount
    <2>5. Time!Nanos(f) = Time!Nanos(t)
      BY <1>0, <1>5, <2>3, <2>4
    <2>6. Fixed(f)
      BY <1>0, <1>3, <1>6, <2>1, <2>2 DEF Fixed
    <2> QED
      BY <2>5, <2>6
  <1>7. CASE r > 0 /\ k + q < 0
    <2>1. f = Time!timespec((k + q) + 1, r - N)
      BY <1>0, <1>4, <1>7 DEF Time!timespec_fix_values_fast, c, N
    <2>2. f.sec = (k + q) + 1 /\ f.nsec = r - N
      BY <2>1 DEF Time!timespec
    <2>3. Time!Nanos(f) = ((k + q) + 1) * N + (r - N)
      BY <2>2 DEF Time!Nanos, N
    <2>4. ((k + q) + 1) * N = (k + q) * N + N /\ (k + q) * N \in Int
      BY SecondsCount
    <2>5. Time!Nanos(f) = Time!Nanos(t)
      BY <1>0, <1>5, <2>3, <2>4
    <2>6. Fixed(f)
      BY <1>0, <1>3, <1>7, <2>1, <2>2 DEF Fixed
    <2> QED
      BY <2>5, <2>6
  <1>8. CASE ~(r < 0 /\ k + q > 0) /\ ~(r > 0 /\ k + q < 0)
    <2>1. f = c
      BY <1>4, <1>8 DEF Time!timespec_fix_values_fast, c
    <2>2. Time!Nanos(f) = Time!Nanos(t)
      BY <1>4, <1>5, <2>1 DEF Time!Nanos, N
    <2>3. Fixed(f)
      BY <1>0, <1>3, <1>4, <1>8, <2>1 DEF Fixed
    <2> QED
      BY <2>2, <2>3
  <1> QED
    BY <1>6, <1>7, <1>8

(* The sign of a time in its fixed form is the sign of both its parts.     *)
LEMMA SignsTell ==
  ASSUME NEW t, Fixed(t)
  PROVE  /\ Time!Nanos(t) \in Int
         /\ (Time!Nanos(t) <= 0) <=> (t.sec <= 0 /\ t.nsec <= 0)
         /\ (Time!Nanos(t) >= 0) <=> (t.sec >= 0 /\ t.nsec >= 0)
PROOF
  <1> DEFINE k == t.sec
             l == t.nsec
             p == k * N
  <1>1. Time!Nanos(t) = p + l
    BY DEF Time!Nanos, N
  <1>2. /\ N \in Nat \ {0} /\ p \in Int /\ k \in Int /\ l \in Int /\ -N <= l /\ l <= N
        /\ k > 0 => p >= N
        /\ k < 0 => p <= -N
        /\ k = 0 => p = 0
        /\ (l < 0 => k <= 0) /\ (l > 0 => k >= 0)
    BY SecondsCount DEF Fixed
  <1> HIDE DEF k, l, p
  <1>3. (p + l <= 0) <=> (k <= 0 /\ l <= 0)
    BY <1>2
  <1>4. (p + l >= 0) <=> (k >= 0 /\ l >= 0)
    BY <1>2
  <1> QED
    BY <1>1, <1>2, <1>3, <1>4 DEF k, l

(* A time whose nanoseconds are at most a second.                          *)
Near(t) == t.sec \in Int /\ t.nsec \in (-N)..N

(* timespec_add and timespec_subtract add and subtract.                    *)
LEMMA TimesAdd ==
  ASSUME NEW t, NEW u, Near(t), Near(u)
  PROVE  /\ Fixed(Time!timespec_add(t, u)) /\ Fixed(Time!timespec_subtract(t, u))
         /\ Time!Nanos(t) \in Int /\ Time!Nanos(u) \in Int
         /\ Time!Nanos(Time!timespec_add(t, u)) = Time!Nanos(t) + Time!Nanos(u)
         /\ Time!Nanos(Time!timespec_subtract(t, u)) = Time!Nanos(t) - Time!Nanos(u)
PROOF
  <1> DEFINE k == t.sec
             l == t.nsec
             p == u.sec
             q == u.nsec
  <1>1. /\ N \in Nat \ {0} /\ k \in Int /\ p \in Int
        /\ l \in Int /\ -N <= l /\ l <= N /\ q \in Int /\ -N <= q /\ q <= N
    BY SecondsCount DEF Near
  <1>2. Time!Nanos(t) = k * N + l /\ Time!Nanos(u) = p * N + q
    BY DEF Time!Nanos, N
  <1>3. /\ Time!timespec_add(t, u) = Time!timespec_fix_values_fast(Time!timespec(k + p, l + q))
        /\ Time!timespec_subtract(t, u) = Time!timespec_fix_values_fast(Time!timespec(k - p, l - q))
    BY DEF Time!timespec_add, Time!timespec_subtract
  <1>4. /\ Time!Nanos(Time!timespec(k + p, l + q)) = (k + p) * N + (l + q)
        /\ Time!Nanos(Time!timespec(k - p, l - q)) = (k - p) * N + (l - q)
    BY DEF Time!Nanos, Time!timespec, N
  <1> HIDE DEF k, l, p, q
  <1>5. /\ k * N \in Int /\ p * N \in Int
        /\ (k + p) * N = k * N + p * N /\ (k - p) * N = k * N - p * N
    BY <1>1, SecondsCount
  <1>6. /\ k + p \in Int /\ k - p \in Int
        /\ l + q \in (-(2 * N))..(2 * N) /\ l - q \in (-(2 * N))..(2 * N)
    BY <1>1
  <1>7. /\ Fixed(Time!timespec_add(t, u)) /\ Fixed(Time!timespec_subtract(t, u))
        /\ Time!Nanos(Time!timespec_add(t, u)) = (k + p) * N + (l + q)
        /\ Time!Nanos(Time!timespec_subtract(t, u)) = (k - p) * N + (l - q)
    BY <1>3, <1>4, <1>6, FixFixes
  <1> HIDE DEF N
  <1> QED
    BY <1>1, <1>2, <1>5, <1>7

(* A fixed time that is not before zero, and times that are near.          *)
LEMMA LaterTimes ==
  ASSUME NEW t
  PROVE  /\ Fixed(t) /\ Time!Nanos(t) >= 0 => Later(t)
         /\ Fixed(t) => Near(t)
         /\ Later(t) => Near(t) /\ Fixed(t) /\ Time!Nanos(t) \in Int /\ Time!Nanos(t) >= 0
PROOF
  <1>0. N \in Nat \ {0}
    BY SecondsCount
  <1>1. Fixed(t) => Near(t)
    BY DEF Fixed, Near
  <1>2. Later(t) => Fixed(t)
    BY <1>0 DEF Later, Fixed
  <1>3. Fixed(t) /\ Time!Nanos(t) >= 0 => Later(t)
    <2> SUFFICES ASSUME Fixed(t), Time!Nanos(t) >= 0 PROVE Later(t)
      OBVIOUS
    <2>1. t.sec >= 0 /\ t.nsec >= 0
      BY SignsTell
    <2> QED
      BY <1>0, <2>1 DEF Later, Fixed
  <1>4. Later(t) => Time!Nanos(t) \in Int /\ Time!Nanos(t) >= 0
    <2> SUFFICES ASSUME Later(t) PROVE Time!Nanos(t) \in Int /\ Time!Nanos(t) >= 0
      OBVIOUS
    <2>1. Fixed(t) /\ t.sec >= 0 /\ t.nsec >= 0
      BY <1>0, <1>2 DEF Later
    <2> QED
      BY <2>1, SignsTell
  <1> QED
    BY <1>1, <1>2, <1>3, <1>4

(* What a clock reads is not before zero.                                  *)
LEMMA ClockReads ==
  ASSUME NEW t \in Time!Clock
  PROVE  Later(t)
PROOF
  <1>1. PICK k \in 0..Seconds, l \in 0..(NANOS_PER_SECOND - 1) : t = Time!timespec(k, l)
    BY DEF Time!Clock
  <1>2. t.sec = k /\ t.nsec = l
    BY <1>1 DEF Time!timespec
  <1> QED
    BY <1>1, <1>2, TimeAssumption DEF Later, N

(* Timer_get_time_status: a timer is over exactly when its end is not      *)
(* ahead, and the difference is exact.                                     *)
LEMMA StatusIs ==
  ASSUME NEW t, NEW clock, Later(t.end_time), Later(clock), t.rang = FALSE
  PROVE  LET st == Time!Timer_get_time_status(t, clock)
             d == Time!Nanos(clock) - Time!Nanos(t.end_time)
         IN /\ st.err = FALSE /\ st.rang \in BOOLEAN /\ (st.rang <=> d >= 0)
            /\ Time!Nanos(st.rTime) = IF d < 0 THEN -d ELSE 0
            /\ Time!Nanos(st.oTime) = IF d < 0 THEN 0 ELSE d
            /\ Later(st.oTime) /\ (st.rang <=> st.rTime = Time!timespec(0, 0))
PROOF
  <1> DEFINE st == Time!Timer_get_time_status(t, clock)
             none == Time!timespec(0, 0)
             lf == Time!timespec_fix_values_fast(Time!timespec_subtract(t.end_time, clock))
             E == Time!Nanos(t.end_time)
             C == Time!Nanos(clock)
  <1>1. Near(t.end_time) /\ Near(clock) /\ E \in Int /\ C \in Int
    BY LaterTimes
  <1>2. Fixed(lf) /\ Time!Nanos(lf) = E - C
    <2> DEFINE g == Time!timespec_subtract(t.end_time, clock)
    <2>1. Fixed(g) /\ Time!Nanos(g) = E - C
      BY <1>1, TimesAdd
    <2> HIDE DEF g
    <2>2. /\ g = Time!timespec(g.sec, g.nsec) /\ g.sec \in Int /\ g.nsec \in (-(2 * N))..(2 * N)
      BY <2>1, SecondsCount DEF Fixed
    <2>3. Fixed(Time!timespec_fix_values_fast(g)) /\ Time!Nanos(Time!timespec_fix_values_fast(g)) = Time!Nanos(g)
      BY <2>2, FixFixes
    <2> QED
      BY <2>1, <2>3 DEF g
  <1>3. /\ (E - C <= 0) <=> (lf.sec <= 0 /\ lf.nsec <= 0)
        /\ (E - C >= 0) <=> (lf.sec >= 0 /\ lf.nsec >= 0)
        /\ lf.sec \in Int /\ lf.nsec \in Int
    BY <1>2, SignsTell, SecondsCount DEF Fixed
  <1>4. Time!Nanos(none) = 0 /\ Later(none)
    BY SecondsCount DEF Time!Nanos, Time!timespec, Later, N
  <1> DEFINE ov == Time!timespec(-lf.sec, -lf.nsec)
  <1>5. st = CASE lf.nsec <= 0 /\ lf.sec <= 0 ->
                    [rang |-> TRUE, rTime |-> none, oTime |-> ov, err |-> FALSE]
               [] (lf.nsec > 0 \/ lf.sec > 0) /\ lf.sec >= 0 /\ lf.nsec >= 0 ->
                    [rang |-> t.rang, rTime |-> lf, oTime |-> none, err |-> FALSE]
               [] OTHER -> [rang |-> t.rang, rTime |-> none, oTime |-> none, err |-> TRUE]
    BY DEF Time!Timer_get_time_status
  <1>6. Time!Nanos(ov) = C - E
    <2>1. ov.sec = -lf.sec /\ ov.nsec = -lf.nsec
      BY DEF Time!timespec
    <2> DEFINE k == lf.sec
               l == lf.nsec
    <2>2. Time!Nanos(ov) = (-k) * N + (-l) /\ E - C = k * N + l /\ k \in Int /\ l \in Int
      BY <1>2, <1>3, <2>1 DEF Time!Nanos, N
    <2> HIDE DEF k, l
    <2>3. -k = 0 - k /\ (0 - k) * N = 0 * N - k * N /\ 0 * N = 0 /\ k * N \in Int
      BY <2>2, SecondsCount
    <2> HIDE DEF N, E, C, ov
    <2> QED
      BY <1>1, <2>2, <2>3
  <1> HIDE DEF lf, none, st, ov, E, C
  <1>7. CASE E - C <= 0
    <2>1. lf.sec <= 0 /\ lf.nsec <= 0
      BY <1>3, <1>7
    <2>2. st = [rang |-> TRUE, rTime |-> none, oTime |-> ov, err |-> FALSE]
      BY <1>3, <1>5, <2>1
    <2>3. Later(ov)
      <3>1. lf.sec \in Int /\ lf.nsec \in Int /\ -N <= lf.nsec /\ N \in Nat
        BY <1>2, <1>3, SecondsCount DEF Fixed
      <3>2. ov.sec = -lf.sec /\ ov.nsec = -lf.nsec /\ ov = Time!timespec(ov.sec, ov.nsec)
        BY DEF Time!timespec, ov
      <3>3. -lf.sec \in Nat /\ -lf.nsec \in 0..N
        BY <2>1, <3>1
      <3> QED
        BY <3>2, <3>3 DEF Later
    <2>4. C - E >= 0 /\ ~(C - E < 0)
      BY <1>1, <1>7
    <2>5. st.err = FALSE /\ st.rang = TRUE /\ st.rTime = none /\ st.oTime = ov
      BY <2>2
    <2> QED
      BY <1>4, <1>6, <2>3, <2>4, <2>5 DEF st, E, C, none
  <1>8. CASE E - C > 0
    <2>1. lf.sec >= 0 /\ lf.nsec >= 0 /\ ~(lf.sec <= 0 /\ lf.nsec <= 0)
      BY <1>1, <1>3, <1>8
    <2>2. st = [rang |-> FALSE, rTime |-> lf, oTime |-> none, err |-> FALSE]
      <3>1. ~(lf.nsec <= 0 /\ lf.sec <= 0) /\ (lf.nsec > 0 \/ lf.sec > 0) /\ lf.sec >= 0 /\ lf.nsec >= 0
        BY <1>3, <2>1
      <3>2. st = [rang |-> t.rang, rTime |-> lf, oTime |-> none, err |-> FALSE]
        BY <1>5, <3>1, Zenon
      <3> QED
        BY <3>2
    <2>3. C - E < 0 /\ ~(C - E >= 0) /\ -(C - E) = E - C
      BY <1>1, <1>8
    <2>4. st.err = FALSE /\ st.rang = FALSE /\ st.rTime = lf /\ st.oTime = none
      BY <2>2
    <2>5. lf # none
      <3>1. none.sec = 0 /\ none.nsec = 0
        BY DEF none, Time!timespec
      <3> QED
        BY <1>3, <2>1, <3>1
    <2> QED
      BY <1>2, <1>4, <2>3, <2>4, <2>5 DEF st, E, C, none
  <1>9. E - C <= 0 \/ E - C > 0
    BY <1>1
  <1> QED
    BY <1>7, <1>8, <1>9

(* A timer whose times are not before zero.                                *)
TimerOK(t) ==
  /\ t = [run_time |-> t.run_time, end_time |-> t.end_time, rang |-> t.rang]
  /\ Later(t.run_time) /\ Later(t.end_time)

(* What is known of a status until it is used: now is still the reading it *)
(* was made from.                                                          *)
StatusOK ==
  /\ status.err = FALSE /\ status.rang \in BOOLEAN /\ timer.rang = status.rang
  /\ status.rang <=> status.rTime = Time!timespec(0, 0)
  /\ status.rang =>
       Later(status.oTime) /\ Time!Nanos(status.oTime) = Time!Nanos(now) - Time!Nanos(timer.end_time)

(* The invariant of a timer: a timer that was begun and is not being       *)
(* checked has not rung.                                                   *)
TimeInv ==
  /\ now \in Time!Clock /\ TimerOK(timer)
  /\ status = Time!Unread => (timer.end_time # Time!timespec(0, 0) => timer.rang = FALSE)
  /\ status # Time!Unread => StatusOK

(* Timer_begin sets the end one run time ahead.                            *)
LEMMA BeginsAhead ==
  ASSUME NEW t, TimerOK(t), NEW clock, Later(clock)
  PROVE  LET g == Time!Timer_begin(t, clock)
         IN /\ TimerOK(g) /\ g.rang = FALSE /\ g.run_time = t.run_time
            /\ Time!Nanos(g.end_time) = Time!Nanos(t.run_time) + Time!Nanos(clock)
PROOF
  <1> DEFINE g == Time!Timer_begin(t, clock)
             e == Time!timespec_add(t.run_time, clock)
  <1>1. /\ Near(t.run_time) /\ Near(clock) /\ Time!Nanos(t.run_time) \in Int /\ Time!Nanos(clock) \in Int
        /\ Time!Nanos(t.run_time) >= 0 /\ Time!Nanos(clock) >= 0
    BY LaterTimes DEF TimerOK
  <1>2. Fixed(e) /\ Time!Nanos(e) = Time!Nanos(t.run_time) + Time!Nanos(clock)
    BY <1>1, TimesAdd
  <1>3. Time!Nanos(e) >= 0
    BY <1>1, <1>2
  <1> HIDE DEF e
  <1>4. Later(e)
    BY <1>2, <1>3, LaterTimes
  <1>5. g = [t EXCEPT !.end_time = e, !.rang = FALSE]
    BY DEF Time!Timer_begin, e
  <1>6. /\ g.end_time = e /\ g.rang = FALSE /\ g.run_time = t.run_time
        /\ g = [run_time |-> g.run_time, end_time |-> g.end_time, rang |-> g.rang]
    BY <1>5 DEF TimerOK
  <1> HIDE DEF g
  <1>7. TimerOK(g)
    BY <1>4, <1>6 DEF TimerOK
  <1> QED
    BY <1>2, <1>6, <1>7 DEF g

(* A timer's next end, begun anew at clock for a reading before it.        *)
WasOver(over, t, read) == Time!Nanos(over) = Time!Nanos(read) - Time!Nanos(t.end_time)
NotBefore(clock, read) == Time!Nanos(clock) >= Time!Nanos(read)
NextEnd(g, t, clock, read) ==
  Time!Nanos(g.end_time) = Time!Nanos(t.end_time) + Time!Nanos(t.run_time) + (Time!Nanos(clock) - Time!Nanos(read))

(* Timer_begin_before, given what the timer was over by at a reading of    *)
(* the clock, sets the end one run time behind the last end and later by   *)
(* what has passed since that reading.                                     *)
LEMMA BeginsBefore ==
  ASSUME NEW t, TimerOK(t), NEW read, Later(read), NEW clock, Later(clock), NEW over, Later(over),
         WasOver(over, t, read), NotBefore(clock, read),
         NEW g, g = Time!Timer_begin_before(t, clock, over)
  PROVE  TimerOK(g) /\ g.rang = FALSE /\ NextEnd(g, t, clock, read)
PROOF
  <1> DEFINE h == Time!Timer_begin(t, clock)
             e == Time!timespec_subtract(h.end_time, over)
             E == Time!Nanos(t.end_time)
             R == Time!Nanos(t.run_time)
             C == Time!Nanos(clock)
             F == Time!Nanos(read)
  <1>1. TimerOK(h) /\ h.rang = FALSE /\ h.run_time = t.run_time /\ Time!Nanos(h.end_time) = R + C
    BY BeginsAhead
  <1>2. g = [h EXCEPT !.end_time = e]
    BY DEF Time!Timer_begin_before
  <1> HIDE DEF h
  <1>3. E \in Int /\ E >= 0 /\ R \in Int /\ R >= 0 /\ C \in Int /\ F \in Int
    BY LaterTimes DEF TimerOK
  <1>4. Near(h.end_time) /\ Near(over)
    BY <1>1, LaterTimes DEF TimerOK
  <1>5. Fixed(e) /\ Time!Nanos(e) = Time!Nanos(h.end_time) - Time!Nanos(over)
    BY <1>4, TimesAdd
  <1>6. Time!Nanos(e) = E + R + (C - F) /\ Time!Nanos(e) >= 0
    <2>1. Time!Nanos(over) = F - E /\ C >= F
      BY DEF WasOver, NotBefore
    <2> HIDE DEF E, R, C, F, e
    <2> QED
      BY <1>1, <1>3, <1>5, <2>1
  <1> HIDE DEF e
  <1>7. Later(e)
    BY <1>5, <1>6, LaterTimes
  <1>8. /\ g.end_time = e /\ g.rang = FALSE /\ g.run_time = h.run_time
        /\ g = [run_time |-> g.run_time, end_time |-> g.end_time, rang |-> g.rang]
    BY <1>1, <1>2 DEF TimerOK
  <1>9. TimerOK(g)
    BY <1>1, <1>7, <1>8 DEF TimerOK
  <1> QED
    BY <1>6, <1>8, <1>9 DEF NextEnd

(* A later reading of the clock is a later time.                           *)
LEMMA ClockGoesOn ==
  ASSUME NEW t \in Time!Clock, NEW u \in Time!Clock, Time!timespec_cmp_fast(u, t) >= 0
  PROVE  Time!Nanos(u) >= Time!Nanos(t)
PROOF
  <1>1. PICK k \in 0..Seconds, l \in 0..(NANOS_PER_SECOND - 1) : t = Time!timespec(k, l)
    BY DEF Time!Clock
  <1>2. PICK p \in 0..Seconds, q \in 0..(NANOS_PER_SECOND - 1) : u = Time!timespec(p, q)
    BY DEF Time!Clock
  <1>3. t.sec = k /\ t.nsec = l /\ u.sec = p /\ u.nsec = q
    BY <1>1, <1>2 DEF Time!timespec
  <1>4. k \in Int /\ p \in Int /\ l \in Int /\ q \in Int /\ 0 <= l /\ l < N /\ 0 <= q /\ q < N
    BY TimeAssumption DEF N
  <1>5. p > k \/ (p = k /\ q >= l)
    <2>1. Time!timespec_cmp_fast(u, t) =
            CASE p > k \/ (p = k /\ q > l) -> 1 [] u = t -> 0 [] OTHER -> -1
      BY <1>3 DEF Time!timespec_cmp_fast
    <2>2. p > k \/ (p = k /\ q > l) \/ u = t
      BY <2>1
    <2> QED
      BY <1>3, <1>4, <2>2
  <1>6. Time!Nanos(t) = k * N + l /\ Time!Nanos(u) = p * N + q
    BY <1>3 DEF Time!Nanos, N
  <1>7. CASE p > k
    <2>1. p - k \in Int /\ p - k > 0
      BY <1>4, <1>7
    <2>2. (p - k) * N >= N /\ (p - k) * N = p * N - k * N /\ p * N \in Int /\ k * N \in Int /\ N \in Nat
      BY <1>4, <2>1, SecondsCount
    <2> HIDE DEF N
    <2> QED
      BY <1>4, <1>6, <2>2
  <1>8. CASE p = k /\ q >= l
    <2>1. k * N \in Int
      BY <1>4, SecondsCount
    <2> HIDE DEF N
    <2> QED
      BY <1>4, <1>6, <1>8, <2>1
  <1> QED
    BY <1>5, <1>7, <1>8

(* What RingsExactly says of a check and of its end.                       *)
Rings ==
  LET end == Time!Nanos(timer.end_time)
      t == Time!Nanos(now')
  IN /\ ~status'.err
     /\ status'.rang <=> t >= end
     /\ Time!Nanos(status'.rTime) = IF t < end THEN end - t ELSE 0
     /\ Time!Nanos(status'.oTime) = IF t < end THEN 0 ELSE t - end
     /\ \A real \in Time!Clock :
          Time!Nanos(Time!Timer_get_end_time_real_time(timer, now', real)) = end + (Time!Nanos(real) - t)
RingsNext ==
  LET end == Time!Nanos(timer.end_time)
      t == Time!Nanos(now')
  IN IF status.rang THEN Time!Nanos(timer'.end_time) = end + Time!Nanos(timer.run_time) + (t - Time!Nanos(now))
     ELSE timer' = timer

(* A reading of the timer rings exactly, and leaves the timer in order.    *)
LEMMA CheckRings ==
  ASSUME TimeInv, Time!Check
  PROVE  Rings /\ TimeInv'
PROOF
  <1>1. PICK clock \in Time!Clock : now' = clock /\ status' = Time!Timer_get_time_status(timer, clock)
    BY DEF Time!Check, Time!Reads
  <1>2. TimerOK(timer) /\ timer.rang = FALSE /\ Later(timer.end_time) /\ Later(clock)
    BY <1>1, ClockReads DEF TimeInv, TimerOK, Time!Check
  <1> DEFINE E == Time!Nanos(timer.end_time)
             C == Time!Nanos(clock)
  <1>3. E \in Int /\ C \in Int
    BY <1>2, LaterTimes
  <1>4. /\ status'.err = FALSE /\ status'.rang \in BOOLEAN /\ (status'.rang <=> C - E >= 0)
        /\ Time!Nanos(status'.rTime) = IF C - E < 0 THEN -(C - E) ELSE 0
        /\ Time!Nanos(status'.oTime) = IF C - E < 0 THEN 0 ELSE C - E
        /\ Later(status'.oTime) /\ (status'.rang <=> status'.rTime = Time!timespec(0, 0))
    BY <1>1, <1>2, StatusIs
  <1> HIDE DEF E, C
  <1>5. /\ ~status'.err
        /\ status'.rang <=> C >= E
        /\ Time!Nanos(status'.rTime) = IF C < E THEN E - C ELSE 0
        /\ Time!Nanos(status'.oTime) = IF C < E THEN 0 ELSE C - E
    BY <1>3, <1>4
  <1>6. timer' = [timer EXCEPT !.rang = status'.rang]
    BY DEF Time!Check
  <1>7. TimerOK(timer') /\ timer'.end_time = timer.end_time /\ timer'.rang = status'.rang
    BY <1>2, <1>6 DEF TimerOK
  <1>8. StatusOK'
    <2>1. status'.rang => Time!Nanos(status'.oTime) = C - E
      BY <1>3, <1>4
    <2> QED
      BY <1>1, <1>4, <1>7, <2>1 DEF StatusOK, E, C
  <1>9. ASSUME NEW real \in Time!Clock
        PROVE  Time!Nanos(Time!Timer_get_end_time_real_time(timer, clock, real)) = E + (Time!Nanos(real) - C)
    <2> DEFINE d == Time!timespec_subtract(timer.end_time, clock)
    <2>1. Later(real)
      BY ClockReads
    <2>2. Near(real) /\ Near(clock) /\ Near(timer.end_time)
      BY <1>2, <2>1, LaterTimes
    <2>3. Fixed(d) /\ Time!Nanos(d) = E - C
      BY <2>2, TimesAdd DEF E, C
    <2> HIDE DEF d
    <2>4. Near(d)
      BY <2>3, LaterTimes
    <2>5. Time!Nanos(Time!timespec_add(real, d)) = Time!Nanos(real) + Time!Nanos(d) /\ Time!Nanos(real) \in Int
      BY <2>2, <2>4, TimesAdd
    <2>6. Time!Timer_get_end_time_real_time(timer, clock, real) = Time!timespec_add(real, d)
      BY DEF Time!Timer_get_end_time_real_time, d
    <2> QED
      BY <1>3, <2>3, <2>5, <2>6
  <1>10. status' # Time!Unread
    <2>1. Time!Unread.rang = FALSE /\ Time!Unread.rTime = Time!timespec(0, 0)
      BY DEF Time!Unread
    <2> QED
      BY <1>4, <2>1
  <1>11. TimeInv'
    BY <1>1, <1>7, <1>8, <1>10 DEF TimeInv
  <1>12. Rings
    BY <1>1, <1>5, <1>9 DEF Rings, E, C
  <1> QED
    BY <1>11, <1>12

(* The rest of a check begins a timer that rang anew, exactly, and leaves  *)
(* another as it was.                                                      *)
LEMMA RestartRings ==
  ASSUME TimeInv, Time!Restart
  PROVE  RingsNext /\ TimeInv'
PROOF
  <1>1. PICK clock \in Time!Clock :
          /\ Time!timespec_cmp_fast(clock, now) >= 0 /\ now' = clock
          /\ timer' = IF status.err THEN Time!Timer_begin(timer, clock)
                      ELSE IF status.rTime # Time!timespec(0, 0) THEN timer
                      ELSE Time!Timer_begin_before(timer, clock, status.oTime)
    BY DEF Time!Restart, Time!Reads
  <1>2. StatusOK /\ now \in Time!Clock /\ TimerOK(timer) /\ status' = Time!Unread
    BY DEF TimeInv, Time!Restart
  <1>3. Later(clock) /\ Later(now) /\ Time!Nanos(clock) >= Time!Nanos(now)
    BY <1>1, <1>2, ClockReads, ClockGoesOn
  <1>4. status.err = FALSE /\ status.rang \in BOOLEAN /\ (status.rang <=> status.rTime = Time!timespec(0, 0))
    BY <1>2 DEF StatusOK
  <1>5. CASE status.rang
    <2>1. timer' = Time!Timer_begin_before(timer, clock, status.oTime)
      BY <1>1, <1>4, <1>5
    <2>2. Later(status.oTime) /\ Time!Nanos(status.oTime) = Time!Nanos(now) - Time!Nanos(timer.end_time)
      BY <1>2, <1>5 DEF StatusOK
    <2>3. /\ TimerOK(timer') /\ timer'.rang = FALSE
          /\ Time!Nanos(timer'.end_time) =
               Time!Nanos(timer.end_time) + Time!Nanos(timer.run_time) + (Time!Nanos(clock) - Time!Nanos(now))
      <3>1. WasOver(status.oTime, timer, now) /\ NotBefore(clock, now)
        BY <1>3, <2>2 DEF WasOver, NotBefore
      <3>2. TimerOK(timer') /\ timer'.rang = FALSE /\ NextEnd(timer', timer, clock, now)
        BY <1>2, <1>3, <2>1, <2>2, <3>1, BeginsBefore
      <3> QED
        BY <3>2 DEF NextEnd
    <2>4. RingsNext
      BY <1>1, <1>5, <2>3 DEF RingsNext
    <2>5. TimeInv'
      BY <1>1, <1>2, <2>3 DEF TimeInv
    <2> QED
      BY <2>4, <2>5
  <1>6. CASE ~status.rang
    <2>1. timer' = timer
      BY <1>1, <1>4, <1>6
    <2>2. RingsNext
      BY <1>6, <2>1 DEF RingsNext
    <2>3. timer.rang = FALSE
      BY <1>2, <1>6 DEF TimeInv, StatusOK
    <2>4. TimeInv'
      BY <1>1, <1>2, <2>1, <2>3 DEF TimeInv
    <2> QED
      BY <2>2, <2>4
  <1> QED
    BY <1>4, <1>5, <1>6

(* A new timer is in order.                                                *)
LEMMA TimerIsNew ==
  ASSUME NEW k \in 0..1, NEW l \in 0..(2 * N)
  PROVE  TimerOK(Time!newTimer(k, l)) /\ Time!newTimer(k, l).end_time = Time!timespec(0, 0)
PROOF
  <1> DEFINE r == Time!timespec_init(k, l)
             u == Time!timespec(k, l)
  <1>0. N \in Nat \ {0} /\ k \in Int /\ k >= 0 /\ l \in Int /\ l >= 0 /\ l \in (-(2 * N))..(2 * N)
    BY SecondsCount
  <1>1. Fixed(r) /\ Time!Nanos(r) = Time!Nanos(u)
    BY <1>0, FixFixes DEF Time!timespec_init
  <1>2. Time!Nanos(u) >= 0
    <2>1. Time!Nanos(u) = k * N + l
      BY DEF Time!Nanos, Time!timespec, N
    <2>2. k * N \in Int /\ k * N >= 0
      BY <1>0, SecondsCount
    <2> HIDE DEF N
    <2> QED
      BY <1>0, <2>1, <2>2
  <1>3. Later(r)
    BY <1>1, <1>2, LaterTimes
  <1>4. Later(Time!timespec(0, 0))
    BY <1>0 DEF Later, Time!timespec
  <1> HIDE DEF r
  <1> QED
    BY <1>3, <1>4 DEF TimerOK, Time!newTimer, r

(* The timer's invariant holds at first and through every step.            *)
LEMMA TimersInOrder == Spec => []TimeInv
PROOF
  <1>1. ASSUME Init PROVE TimeInv
    <2>0. N \in Nat \ {0} /\ N = NANOS_PER_SECOND
      BY SecondsCount DEF N
    <2>1. CASE part = "time"
      <3>1. now \in Time!Clock /\ status = Time!Unread /\ \E k \in 0..1, l \in 0..(2 * NANOS_PER_SECOND) : timer = Time!newTimer(k, l)
        BY <1>1, <2>1 DEF Init, Time!Init
      <3> QED
        BY <3>1, <2>0, TimerIsNew DEF TimeInv
    <2>2. CASE part # "time"
      <3>1. now = Time!timespec(0, 0) /\ timer = Time!newTimer(1, 0) /\ status = Time!Unread
        BY <1>1, <2>2 DEF Init
      <3>2. 0 \in 0..Seconds /\ 0 \in 0..(NANOS_PER_SECOND - 1) /\ 1 \in 0..1 /\ 0 \in 0..(2 * N)
        BY <2>0, TimeAssumption
      <3>3. now \in Time!Clock
        BY <3>1, <3>2 DEF Time!Clock
      <3> QED
        BY <3>1, <3>2, <3>3, TimerIsNew DEF TimeInv
    <2> QED
      BY <2>1, <2>2
  <1>2. ASSUME TimeInv, [Next]_allVars PROVE TimeInv'
    <2>1. UNCHANGED timeVars \/ Time!Begin \/ Time!Check \/ Time!Restart
      BY <1>2 DEF Next, On, allVars, Time!Next
    <2>2. CASE UNCHANGED timeVars
      BY <1>2, <2>2 DEF timeVars, TimeInv, TimerOK, StatusOK
    <2>3. CASE Time!Begin
      <3>1. timer' = Time!Timer_begin(timer, now) /\ now' = now /\ Later(now) /\ TimerOK(timer)
        BY <1>2, <2>3, ClockReads DEF Time!Begin, TimeInv
      <3>2. TimerOK(timer') /\ timer'.rang = FALSE
        BY <3>1, BeginsAhead
      <3>3. status' = Time!Unread
        BY <2>3 DEF Time!Begin
      <3> QED
        BY <1>2, <3>1, <3>2, <3>3 DEF TimeInv
    <2>4. CASE Time!Check
      BY <1>2, <2>4, CheckRings
    <2>5. CASE Time!Restart
      BY <1>2, <2>5, RestartRings
    <2> QED
      BY <2>1, <2>2, <2>3, <2>4, <2>5
  <1> QED
    BY <1>1, <1>2, PTL DEF Spec

(* alib_time.c and Timer.c, for every clock and any number of nanoseconds  *)
(* in a second: a timer reads as rung from the very nanosecond of its end  *)
(* on, and what is left or over is exact across the borrowing of seconds.  *)
(* The next end is one run time behind the last and later by exactly what  *)
(* passes between the two readings of the clock in TimerEvent_check        *)
(* (Timer.c:96 and :8); the end on another clock is off by exactly the     *)
(* difference of the two clocks as read one after the other (:61-62).      *)
THEOREM TimersRingExactly == Spec => RingsExactly
PROOF
  <1>1. TimeInv => [(Time!Check => Rings) /\ (Time!Restart => RingsNext)]_timeVars
    BY CheckRings, RestartRings
  <1>2. [][(Time!Check => Rings) /\ (Time!Restart => RingsNext)]_timeVars => RingsExactly
    BY PTL DEF Rings, RingsNext, RingsExactly, Time!RingsExactly, Time!vars, timeVars
  <1> QED
    BY <1>1, <1>2, TimersInOrder, PTL

-----------------------------------------------------------------------------
(* Text functions: memory.                                                 *)

(* A piece of memory, ended by a terminator.                               *)
Memory(m) == m \in [1..Size -> Text!Symbol] /\ m[Size] = Text!NUL

(* Every set of numbers has a least element.                               *)
LEMMA LeastOf ==
  ASSUME NEW T, T \subseteq Nat, T # {}
  PROVE  \E k \in T : \A l \in T : k <= l
PROOF
  <1> DEFINE R == OpToRel(<, Nat)
  <1>1. IsWellFoundedOn(R, Nat)
    BY NatLessThanWellFounded
  <1>2. \A x, y \in Nat : <<y, x>> \in R <=> y < x
    BY DEF OpToRel
  <1> HIDE DEF R
  <1>3. PICK k \in T : \A l \in T : ~(<<l, k>> \in R)
    BY <1>1, WFMin
  <1>4. ASSUME NEW l \in T PROVE k <= l
    <2>1. l \in Nat /\ k \in Nat
      OBVIOUS
    <2>2. ~(l < k)
      BY <1>2, <1>3, <2>1
    <2> QED BY <2>1, <2>2
  <1> QED BY <1>4

(* MinOf takes it.                                                         *)
LEMMA MinOfIs ==
  ASSUME NEW T, T \subseteq Nat, T # {}
  PROVE  Text!MinOf(T) \in T /\ \A l \in T : Text!MinOf(T) <= l
PROOF
  <1> DEFINE P(k) == \A l \in T : k <= l
  <1>1. \E k \in T : P(k)
    BY LeastOf
  <1> HIDE DEF P
  <1>2. (CHOOSE k \in T : P(k)) \in T /\ P(CHOOSE k \in T : P(k))
    BY <1>1
  <1>3. Text!MinOf(T) = CHOOSE k \in T : P(k)
    BY DEF Text!MinOf, P
  <1> QED BY <1>2, <1>3 DEF P

(* A number is the least if it is one of them and none is less.            *)
LEMMA MinOfThat ==
  ASSUME NEW T, T \subseteq Nat, NEW k \in T, \A l \in T : k <= l
  PROVE  Text!MinOf(T) = k
PROOF
  <1>1. Text!MinOf(T) \in T /\ \A l \in T : Text!MinOf(T) <= l
    BY MinOfIs
  <1>2. PICK x : x = Text!MinOf(T)
    OBVIOUS
  <1>3. x \in Nat /\ k \in Nat /\ x <= k /\ k <= x
    BY <1>1, <1>2
  <1>4. x = k
    BY <1>3
  <1> QED BY <1>2, <1>4

(* The greatest of numbers below a bound.                                  *)
LEMMA MaxOfIs ==
  ASSUME NEW n \in Nat, NEW T, T \subseteq 0..n, T # {}
  PROVE  Text!MaxOf(T) \in T /\ \A l \in T : l <= Text!MaxOf(T)
PROOF
  <1> DEFINE P(k) == \A l \in T : l <= k
             U == {n - k : k \in T}
  <1>1. U \subseteq Nat /\ U # {}
    <2>1. \A k \in T : n - k \in Nat
      OBVIOUS
    <2>2. PICK k \in T : TRUE
      OBVIOUS
    <2>3. n - k \in U
      OBVIOUS
    <2> QED BY <2>1, <2>3
  <1>2. PICK u \in U : \A l \in U : u <= l
    <2> HIDE DEF U
    <2> QED BY <1>1, LeastOf
  <1>3. PICK k \in T : u = n - k
    BY <1>2
  <1>4. ASSUME NEW l \in T PROVE l <= k
    <2>1. n - l \in U
      OBVIOUS
    <2>2. n - k <= n - l
      BY <1>2, <1>3, <2>1
    <2> QED BY <2>2
  <1>5. \E j \in T : P(j)
    BY <1>4
  <1> HIDE DEF P
  <1>6. (CHOOSE j \in T : P(j)) \in T /\ P(CHOOSE j \in T : P(j))
    BY <1>5
  <1>7. Text!MaxOf(T) = CHOOSE j \in T : P(j)
    BY DEF Text!MaxOf, P
  <1> QED BY <1>6, <1>7 DEF P

(* A number is the greatest if it is one of them and none is greater.      *)
LEMMA MaxOfThat ==
  ASSUME NEW n \in Nat, NEW T, T \subseteq 0..n, NEW k \in T, \A l \in T : l <= k
  PROVE  Text!MaxOf(T) = k
PROOF
  <1>1. Text!MaxOf(T) \in T /\ \A l \in T : l <= Text!MaxOf(T)
    BY MaxOfIs
  <1>2. PICK x : x = Text!MaxOf(T)
    OBVIOUS
  <1>3. x \in Nat /\ k \in Nat /\ x <= k /\ k <= x
    <2>1. \A l \in 0..n : l \in Nat
      OBVIOUS
    <2>2. x \in 0..n /\ k \in 0..n
      BY <1>1, <1>2
    <2> QED BY <1>1, <1>2, <2>1, <2>2
  <1>4. x = k
    BY <1>3
  <1> QED BY <1>2, <1>4

(* The length of the string at an address: its terminator is there, and    *)
(* none before it.                                                         *)
StringAt(m, a, n) ==
  /\ n \in Nat /\ a + n \in 0..(Size - 1)
  /\ m[a + n + 1] = Text!NUL
  /\ \A k \in 0..(n - 1) : m[a + k + 1] # Text!NUL

(* strlen gives it.                                                        *)
LEMMA LengthIs ==
  ASSUME NEW m, Memory(m), NEW a \in Text!Address
  PROVE  StringAt(m, a, Text!strlen(m, a))
PROOF
  <1>1. Size \in Nat /\ Size # 0 /\ a \in 0..(Size - 1)
    BY TextAssumption DEF Text!Address
  <1>2. PICK T : T = {n \in 0..(Size - 1 - a) : m[a + n + 1] = Text!NUL}
    OBVIOUS
  <1>3. Size - 1 - a \in 0..(Size - 1 - a) /\ a + (Size - 1 - a) + 1 = Size
    BY <1>1
  <1>4. Size - 1 - a \in T
    BY <1>2, <1>3 DEF Memory
  <1>5. T \subseteq Nat /\ T # {}
    <2>1. \A x \in T : x \in 0..(Size - 1 - a)
      BY <1>2
    <2>2. \A x \in 0..(Size - 1 - a) : x \in Nat
      BY <1>1
    <2> QED BY <1>4, <2>1, <2>2
  <1>6. PICK n : n = Text!MinOf(T)
    OBVIOUS
  <1>7. n \in T /\ \A l \in T : n <= l
    BY <1>5, <1>6, MinOfIs
  <1>8. Text!strlen(m, a) = n
    BY <1>2, <1>6 DEF Text!strlen, Text!At
  <1>9. n \in Nat /\ a + n \in 0..(Size - 1) /\ m[a + n + 1] = Text!NUL
    BY <1>1, <1>2, <1>7
  <1>10. ASSUME NEW k \in 0..(n - 1) PROVE m[a + k + 1] # Text!NUL
    <2>1. k \in 0..(Size - 1 - a) /\ ~(n <= k)
      BY <1>1, <1>9
    <2> QED BY <1>2, <1>7, <2>1
  <1> QED BY <1>8, <1>9, <1>10 DEF StringAt

-----------------------------------------------------------------------------
(* Copies.                                                                 *)

(* The memory when the offsets in K have been copied from what was there.  *)
Shifted(m, to, from, K) == [p \in 1..Size |-> IF p - 1 - to \in K THEN m[p - to + from] ELSE m[p]]

(* The memory after each turn of the loops.                                *)
DownRun(m, to, from, n, f) ==
  f = [k \in 0..(n + 1) |-> IF k = 0 THEN m ELSE Text!CopyByte(f[k - 1], to, from, n + 1 - k)]
UpRun(m, to, from, n, f) ==
  f = [k \in 0..(n + 1) |-> IF k = 0 THEN m ELSE Text!CopyByte(f[k - 1], to, from, k - 1)]

(* There is one run down.                                                  *)
LEMMA OneDownRun ==
  ASSUME NEW m, NEW to, NEW from, NEW n \in Int, n >= -1, NEW g, DownRun(m, to, from, n, g)
  PROVE  Text!Downwards(m, to, from, n) = g[n + 1]
PROOF
  <1>1. PICK w : w = CHOOSE f : DownRun(m, to, from, n, f)
    OBVIOUS
  <1>2. DownRun(m, to, from, n, w)
    BY <1>1
  <1>3. Text!Downwards(m, to, from, n) = w[n + 1]
    BY <1>1 DEF Text!Downwards, DownRun
  <1> DEFINE T == {j \in 0..(n + 1) : w[j] # g[j]}
  <1>4. ASSUME T # {} PROVE FALSE
    <2>1. T \subseteq Nat
      OBVIOUS
    <2> HIDE DEF T
    <2>2. PICK k \in T : \A l \in T : k <= l
      BY <1>4, <2>1, LeastOf
    <2>3. k \in 0..(n + 1) /\ w[k] # g[k]
      BY <2>2 DEF T
    <2>4. k # 0
      BY <1>2, <2>3 DEF DownRun
    <2>5. k - 1 \in 0..(n + 1) /\ ~(k <= k - 1)
      BY <2>3, <2>4
    <2>6. w[k - 1] = g[k - 1]
      BY <2>2, <2>5 DEF T
    <2>7. w[k] = Text!CopyByte(w[k - 1], to, from, n + 1 - k)
      BY <1>2, <2>3, <2>4 DEF DownRun
    <2>8. g[k] = Text!CopyByte(g[k - 1], to, from, n + 1 - k)
      BY <2>3, <2>4 DEF DownRun
    <2> QED BY <2>3, <2>6, <2>7, <2>8
  <1>5. n + 1 \in 0..(n + 1)
    OBVIOUS
  <1> QED BY <1>3, <1>4, <1>5

(* There is one run up.                                                    *)
LEMMA OneUpRun ==
  ASSUME NEW m, NEW to, NEW from, NEW n \in Int, n >= -1, NEW g, UpRun(m, to, from, n, g)
  PROVE  Text!Upwards(m, to, from, n) = g[n + 1]
PROOF
  <1>1. PICK w : w = CHOOSE f : UpRun(m, to, from, n, f)
    OBVIOUS
  <1>2. UpRun(m, to, from, n, w)
    BY <1>1
  <1>3. Text!Upwards(m, to, from, n) = w[n + 1]
    BY <1>1 DEF Text!Upwards, UpRun
  <1> DEFINE T == {j \in 0..(n + 1) : w[j] # g[j]}
  <1>4. ASSUME T # {} PROVE FALSE
    <2>1. T \subseteq Nat
      OBVIOUS
    <2> HIDE DEF T
    <2>2. PICK k \in T : \A l \in T : k <= l
      BY <1>4, <2>1, LeastOf
    <2>3. k \in 0..(n + 1) /\ w[k] # g[k]
      BY <2>2 DEF T
    <2>4. k # 0
      BY <1>2, <2>3 DEF UpRun
    <2>5. k - 1 \in 0..(n + 1) /\ ~(k <= k - 1)
      BY <2>3, <2>4
    <2>6. w[k - 1] = g[k - 1]
      BY <2>2, <2>5 DEF T
    <2>7. w[k] = Text!CopyByte(w[k - 1], to, from, k - 1)
      BY <1>2, <2>3, <2>4 DEF UpRun
    <2>8. g[k] = Text!CopyByte(g[k - 1], to, from, k - 1)
      BY <2>3, <2>4 DEF UpRun
    <2> QED BY <2>3, <2>6, <2>7, <2>8
  <1>5. n + 1 \in 0..(n + 1)
    OBVIOUS
  <1> QED BY <1>3, <1>4, <1>5

(* A turn that copies offset j leads from those in K to those in L.        *)
Copies(m, to, from, K, j, L) ==
  Text!CopyByte(Shifted(m, to, from, K), to, from, j) = Shifted(m, to, from, L)

(* One turn copies one more byte, if what it reads was not overwritten.    *)
LEMMA CopyOne ==
  ASSUME NEW m, m \in [1..Size -> Text!Symbol], NEW to \in Nat, NEW from \in Nat, NEW K, K \subseteq Nat, NEW j \in Nat,
         to + j < Size, from + j < Size, NEW i, i = (from + j) - to, i \notin K, NEW L, L = K \cup {j}
  PROVE  Copies(m, to, from, K, j, L)
PROOF
  <1>1. PICK x : x = Shifted(m, to, from, K)
    OBVIOUS
  <1>2. Size \in Nat
    BY TextAssumption
  <1>3. x = [p \in 1..Size |-> IF p - 1 - to \in K THEN m[p - to + from] ELSE m[p]]
    BY <1>1 DEF Shifted
  <1>4. to + j + 1 \in 1..Size /\ from + j + 1 \in 1..Size
    BY <1>2
  <1>5. x[from + j + 1] = m[from + j + 1]
    <2>1. from + j + 1 - 1 - to = (from + j) - to
      OBVIOUS
    <2> QED BY <1>3, <1>4, <2>1
  <1>6. Text!CopyByte(x, to, from, j) = [x EXCEPT ![to + j + 1] = m[from + j + 1]]
    BY <1>5 DEF Text!CopyByte, Text!Put, Text!At
  <1>7. ASSUME NEW p \in 1..Size
        PROVE  [x EXCEPT ![to + j + 1] = m[from + j + 1]][p] = IF p - 1 - to \in L THEN m[p - to + from] ELSE m[p]
    <2>1. CASE p = to + j + 1
      <3>1. p - 1 - to = j /\ p - to + from = from + j + 1
        BY <2>1
      <3> QED BY <1>3, <1>4, <2>1, <3>1
    <2>2. CASE p # to + j + 1
      <3>1. p - 1 - to # j
        BY <2>2
      <3> QED BY <1>3, <2>2, <3>1
    <2> QED BY <2>1, <2>2
  <1>8. [x EXCEPT ![to + j + 1] = m[from + j + 1]] = [p \in 1..Size |-> IF p - 1 - to \in L THEN m[p - to + from] ELSE m[p]]
    BY <1>3, <1>7
  <1> QED BY <1>1, <1>6, <1>8 DEF Shifted, Copies

(* The loop down is right when it copies to higher addresses.              *)
LEMMA DownwardsIs ==
  ASSUME NEW m, m \in [1..Size -> Text!Symbol], NEW to \in Nat, NEW from \in Nat, NEW n \in Int, n >= -1,
         to + n < Size, from + n < Size, from <= to
  PROVE  Text!Downwards(m, to, from, n) = Shifted(m, to, from, 0..n)
PROOF
  <1>1. PICK g : g = [k \in 0..(n + 1) |-> Shifted(m, to, from, (n + 1 - k)..n)]
    OBVIOUS
  <1>2. g[0] = m
    <2>1. (n + 1 - 0)..n = {}
      OBVIOUS
    <2>2. g[0] = Shifted(m, to, from, {})
      BY <1>1, <2>1
    <2> QED BY <2>2 DEF Shifted
  <1>3. ASSUME NEW k \in 0..(n + 1), k # 0 PROVE g[k] = Text!CopyByte(g[k - 1], to, from, n + 1 - k)
    <2>1. PICK j : j = n + 1 - k
      OBVIOUS
    <2>2. PICK K : K = (n + 1 - (k - 1))..n
      OBVIOUS
    <2>3. PICK L : L = (n + 1 - k)..n
      OBVIOUS
    <2>4. j \in Nat /\ to + j < Size /\ from + j < Size
      BY <1>3, <2>1, TextAssumption
    <2>5. L = K \cup {j} /\ K \subseteq Nat /\ (from + j) - to \notin K
      BY <1>3, <2>1, <2>2, <2>3
    <2>6. k - 1 \in 0..(n + 1)
      BY <1>3
    <2>7. g[k - 1] = Shifted(m, to, from, K) /\ g[k] = Shifted(m, to, from, L)
      BY <1>1, <2>2, <2>3, <2>6
    <2>8. Copies(m, to, from, K, j, L)
      <3>1. PICK i : i = (from + j) - to
        OBVIOUS
      <3> QED BY <2>4, <2>5, <3>1, CopyOne
    <2> QED BY <2>1, <2>7, <2>8 DEF Copies
  <1>4. g = [k \in 0..(n + 1) |-> g[k]]
    BY <1>1
  <1>5. DownRun(m, to, from, n, g)
    BY <1>2, <1>3, <1>4 DEF DownRun
  <1>6. Text!Downwards(m, to, from, n) = g[n + 1]
    BY <1>5, OneDownRun
  <1>7. n + 1 \in 0..(n + 1) /\ n + 1 - (n + 1) = 0
    OBVIOUS
  <1> QED BY <1>1, <1>6, <1>7

(* The loop up is right when it copies to lower ones, or far enough up.    *)
LEMMA UpwardsIs ==
  ASSUME NEW m, m \in [1..Size -> Text!Symbol], NEW to \in Nat, NEW from \in Nat, NEW n \in Int, n >= -1,
         to + n < Size, from + n < Size, to <= from \/ to > from + n
  PROVE  Text!Upwards(m, to, from, n) = Shifted(m, to, from, 0..n)
PROOF
  <1>1. PICK g : g = [k \in 0..(n + 1) |-> Shifted(m, to, from, 0..(k - 1))]
    OBVIOUS
  <1>2. g[0] = m
    <2>1. 0..(0 - 1) = {}
      OBVIOUS
    <2>2. g[0] = Shifted(m, to, from, {})
      BY <1>1, <2>1
    <2> QED BY <2>2 DEF Shifted
  <1>3. ASSUME NEW k \in 0..(n + 1), k # 0 PROVE g[k] = Text!CopyByte(g[k - 1], to, from, k - 1)
    <2>1. PICK j : j = k - 1
      OBVIOUS
    <2>2. PICK K : K = 0..(j - 1)
      OBVIOUS
    <2>3. PICK L : L = 0..(k - 1)
      OBVIOUS
    <2>4. j \in Nat /\ to + j < Size /\ from + j < Size
      BY <1>3, <2>1, TextAssumption
    <2>5. L = K \cup {j} /\ K \subseteq Nat /\ (from + j) - to \notin K
      BY <1>3, <2>1, <2>2, <2>3
    <2>6. j \in 0..(n + 1)
      BY <1>3, <2>1
    <2>7. g[j] = Shifted(m, to, from, K) /\ g[k] = Shifted(m, to, from, L)
      BY <1>1, <2>2, <2>3, <2>6
    <2>8. Copies(m, to, from, K, j, L)
      <3>1. PICK i : i = (from + j) - to
        OBVIOUS
      <3> QED BY <2>4, <2>5, <3>1, CopyOne
    <2> QED BY <2>1, <2>7, <2>8 DEF Copies
  <1>4. g = [k \in 0..(n + 1) |-> g[k]]
    BY <1>1
  <1>5. UpRun(m, to, from, n, g)
    BY <1>2, <1>3, <1>4 DEF UpRun
  <1>6. Text!Upwards(m, to, from, n) = g[n + 1]
    BY <1>5, OneUpRun
  <1>7. n + 1 \in 0..(n + 1) /\ n + 1 - 1 = n
    OBVIOUS
  <1> QED BY <1>1, <1>6, <1>7

(* What a copied byte is.                                                  *)
LEMMA ShiftedIs ==
  ASSUME NEW m, NEW to \in Nat, NEW from \in Nat, NEW K, NEW a \in Text!Address
  PROVE  Shifted(m, to, from, K)[a + 1] = IF a - to \in K THEN m[a - to + from + 1] ELSE m[a + 1]
PROOF
  <1>1. a + 1 \in 1..Size /\ a \in Nat
    BY TextAssumption DEF Text!Address
  <1>2. a + 1 - 1 - to = a - to /\ a + 1 - to + from = a - to + from + 1
    BY <1>1
  <1> QED BY <1>1, <1>2 DEF Shifted

(* The n bytes are copied, the terminators are put, and nothing else is    *)
(* touched.                                                                *)
CopiedRight(m, to, from, n, ends, after) ==
  \A a \in Text!Address :
    after[a + 1] = IF a - to \in 0..(n - 1) THEN m[a - to + from + 1] ELSE IF a \in ends THEN Text!NUL ELSE m[a + 1]

(* The loops copy their bytes and touch nothing else.                      *)
LEMMA ShiftedRight ==
  ASSUME NEW m, NEW to \in Nat, NEW from \in Nat, NEW n, NEW q, q = n - 1
  PROVE  CopiedRight(m, to, from, n, {}, Shifted(m, to, from, 0..q))
PROOF
  <1>1. PICK K : K = 0..q
    OBVIOUS
  <1>2. ASSUME NEW a \in Text!Address
        PROVE  Shifted(m, to, from, K)[a + 1] = IF a - to \in K THEN m[a - to + from + 1] ELSE m[a + 1]
    BY ShiftedIs
  <1> QED BY <1>1, <1>2 DEF CopiedRight

(* A byte is put.                                                          *)
PutAt(m, p, c, z) ==
  /\ z \in [1..Size -> Text!Symbol]
  /\ \A a \in Text!Address : z[a + 1] = IF a = p THEN c ELSE m[a + 1]

(* Put puts it.                                                            *)
LEMMA PutIs ==
  ASSUME NEW m, m \in [1..Size -> Text!Symbol], NEW p \in Nat, p < Size, NEW c \in Text!Symbol
  PROVE  PutAt(m, p, c, Text!Put(m, p, c))
PROOF
  <1>1. p + 1 \in 1..Size /\ Size \in Nat
    BY TextAssumption
  <1>2. \A a \in Text!Address : a + 1 \in 1..Size /\ (a + 1 = p + 1 <=> a = p)
    BY <1>1 DEF Text!Address
  <1> QED BY <1>1, <1>2 DEF Text!Put, PutAt

(* strcpy_back and strncpy_back.                                           *)
LEMMA CopyBackRight ==
  ASSUME NEW m, m \in [1..Size -> Text!Symbol], NEW to \in Nat, NEW from \in Nat, NEW n \in Nat,
         to + n + 1 < Size, from < to, NEW k, k = n + 1
  PROVE  CopiedRight(m, to, from, k, Text!Behind(m, to, n), Text!CopyBack(m, to, from, n))
PROOF
  <1> DEFINE hit == \E i \in 0..n : Text!At(m, to + i) = Text!NUL
  <1>1. PICK x : x = IF hit THEN Text!Put(m, to + n + 1, Text!NUL) ELSE m
    OBVIOUS
  <1>2. Text!CopyBack(m, to, from, n) = Text!Downwards(x, to, from, n)
    BY <1>1 DEF Text!CopyBack
  <1>3. Text!NUL \in Text!Symbol /\ Size \in Nat
    BY TextAssumption DEF Text!Symbol
  <1>4. PICK p : p = to + n + 1
    OBVIOUS
  <1>5. p \in Nat /\ p < Size
    BY <1>4
  <1>6. PICK y : y = Text!Put(m, p, Text!NUL)
    OBVIOUS
  <1>7. y \in [1..Size -> Text!Symbol] /\ \A a \in Text!Address : y[a + 1] = IF a = p THEN Text!NUL ELSE m[a + 1]
    <2>1. PutAt(m, p, Text!NUL, Text!Put(m, p, Text!NUL))
      BY <1>3, <1>5, PutIs
    <2> QED BY <1>6, <2>1 DEF PutAt
  <1>8. PICK E : E = Text!Behind(m, to, n)
    OBVIOUS
  <1>9. E = IF hit THEN {p} ELSE {}
    BY <1>4, <1>8 DEF Text!Behind
  <1>10. x = IF hit THEN y ELSE m
    BY <1>1, <1>4, <1>6
  <1> HIDE DEF hit
  <1>11. x \in [1..Size -> Text!Symbol] /\ \A a \in Text!Address : x[a + 1] = IF a \in E THEN Text!NUL ELSE m[a + 1]
    BY <1>7, <1>9, <1>10
  <1>12. to + n < Size /\ from + n < Size /\ n \in Int /\ n >= -1 /\ from <= to
    BY <1>3
  <1>13. Text!Downwards(x, to, from, n) = Shifted(x, to, from, 0..n)
    BY <1>11, <1>12, DownwardsIs
  <1>14. PICK z : z = Shifted(x, to, from, 0..n)
    OBVIOUS
  <1>15. CopiedRight(x, to, from, k, {}, z)
    <2>1. n = k - 1
      OBVIOUS
    <2> QED BY <1>14, <2>1, ShiftedRight
  <1>16. ASSUME NEW a \in Text!Address
         PROVE  z[a + 1] = IF a - to \in 0..(k - 1) THEN m[a - to + from + 1] ELSE IF a \in E THEN Text!NUL ELSE m[a + 1]
    <2>1. z[a + 1] = IF a - to \in 0..(k - 1) THEN x[a - to + from + 1] ELSE x[a + 1]
      BY <1>15 DEF CopiedRight
    <2>2. CASE a - to \in 0..(k - 1)
      <3>1. PICK b0 : b0 = a - to + from
        OBVIOUS
      <3>2. b0 \in Text!Address /\ b0 # p
        BY <1>3, <1>4, <1>12, <2>2, <3>1 DEF Text!Address
      <3>3. b0 \notin E
        BY <1>9, <3>2
      <3>4. x[b0 + 1] = m[b0 + 1]
        BY <1>11, <3>2, <3>3
      <3> QED BY <2>1, <2>2, <3>1, <3>4
    <2>3. CASE a - to \notin 0..(k - 1)
      BY <1>11, <2>1, <2>3
    <2> QED BY <2>2, <2>3
  <1> QED BY <1>2, <1>8, <1>13, <1>14, <1>16 DEF CopiedRight

(* The least of two numbers.                                               *)
LEMMA MinOfTwo ==
  ASSUME NEW x \in Nat, NEW y \in Nat
  PROVE  Text!MinOf({x, y}) = IF x <= y THEN x ELSE y
PROOF
  <1>1. PICK T : T = {x, y}
    OBVIOUS
  <1>2. T \subseteq Nat
    BY <1>1
  <1>3. CASE x <= y
    <2>1. x \in T /\ \A l \in T : x <= l
      BY <1>1, <1>3
    <2> QED BY <1>1, <1>2, <1>3, <2>1, MinOfThat
  <1>4. CASE ~(x <= y)
    <2>1. y \in T /\ \A l \in T : y <= l
      BY <1>1, <1>4
    <2> QED BY <1>1, <1>2, <1>4, <2>1, MinOfThat
  <1> QED BY <1>3, <1>4

(* The terminators that strncpy pads with.                                 *)
LEMMA PaddedRight ==
  ASSUME NEW m, m \in [1..Size -> Text!Symbol], NEW to \in Nat, NEW from \in Nat, NEW n \in Nat, NEW count \in Nat,
         NEW x, CopiedRight(m, to, from, n, {}, x), NEW E, E = (to + n)..(to + count - 1),
         NEW z, z = [i \in DOMAIN m |-> IF i \in (to + n + 1)..(to + count) THEN Text!NUL ELSE x[i]]
  PROVE  CopiedRight(m, to, from, n, E, z)
PROOF
  <1>1. DOMAIN m = 1..Size /\ Size \in Nat
    BY TextAssumption
  <1>2. ASSUME NEW a \in Text!Address
        PROVE  z[a + 1] = IF a - to \in 0..(n - 1) THEN m[a - to + from + 1] ELSE IF a \in E THEN Text!NUL ELSE m[a + 1]
    <2>1. a + 1 \in 1..Size /\ a \in Nat
      BY <1>1 DEF Text!Address
    <2>2. x[a + 1] = IF a - to \in 0..(n - 1) THEN m[a - to + from + 1] ELSE m[a + 1]
      BY DEF CopiedRight
    <2>3. a + 1 \in (to + n + 1)..(to + count) <=> a \in E
      BY <2>1
    <2>4. z[a + 1] = IF a \in E THEN Text!NUL ELSE x[a + 1]
      BY <1>1, <2>1, <2>3
    <2>5. a \in E => a - to \notin 0..(n - 1)
      BY <2>1
    <2> QED BY <2>2, <2>4, <2>5
  <1> QED BY <1>2 DEF CopiedRight

(* Every copy of the run is right.                                         *)
LEMMA CopyHandles ==
  ASSUME NEW m, Memory(m), mem = m, Text!Copy, mem' = mem
  PROVE  Text!TextIsHandled'
PROOF
  <1>1. PICK to, from \in Text!Address, count \in 1..(Size - 1) :
          /\ to + count < Size - 1 /\ from + count < Size
          /\ LET n == Text!MinOf({count, Text!strlen(mem, from)})
                 padding == (to + n)..(to + count - 1)
                 back == to > from /\ to < from + count
             IN \/ call' = Text!Copied(to, from, count, count, {}, Text!memcpy_safe(mem, to, from, count))
                \/ to = from /\ call' = Text!Copied(to, from, count, 0, {}, Text!strncpy_safe(mem, to, from, count))
                \/ back /\ call' = Text!Copied(to, from, count, n + 1, Text!Behind(mem, to, n), Text!strncpy_safe(mem, to, from, count))
                \/ to # from /\ ~back /\ call' = Text!Copied(to, from, count, n, padding, Text!strncpy_safe(mem, to, from, count))
                \/ to <= from /\ call' = Text!Copied(to, from, count, IF n < count THEN n + 1 ELSE n, {}, Text!strncpy_fast(mem, to, from, count))
                \/ /\ Text!strlen(mem, from) < count
                   /\ call' = Text!Copied(to, from, count, n + 1, IF to > from THEN Text!Behind(mem, to, n) ELSE {}, Text!strcpy_safe(mem, to, from))
    BY DEF Text!Copy
  <1>2. /\ m \in [1..Size -> Text!Symbol] /\ Size \in Nat /\ to \in Nat /\ from \in Nat /\ count \in Nat
        /\ to + count < Size /\ to + count + 1 < Size /\ to < Size /\ from < Size
    BY <1>1, TextAssumption DEF Memory, Text!Address
  <1>3. PICK len : len = Text!strlen(m, from)
    OBVIOUS
  <1>4. len \in Nat /\ from + len < Size
    <2>1. StringAt(m, from, len)
      BY <1>3, LengthIs
    <2> QED BY <1>2, <2>1 DEF StringAt
  <1>5. PICK n : n = IF count <= len THEN count ELSE len
    OBVIOUS
  <1>6. Text!MinOf({count, len}) = n
    BY <1>2, <1>4, <1>5, MinOfTwo
  <1>7. /\ n \in Nat /\ n <= count /\ n <= len /\ to + n < Size /\ from + n < Size /\ n - 1 \in Int /\ n - 1 >= -1
        /\ to + (n - 1) < Size /\ from + (n - 1) < Size /\ to + n + 1 < Size /\ n \in Int /\ n >= -1
    BY <1>1, <1>2, <1>4, <1>5
  <1>8. ASSUME NEW k, NEW E, NEW after, call' = Text!Copied(to, from, count, k, E, after), CopiedRight(m, to, from, k, E, after)
        PROVE  Text!TextIsHandled'
    <2>1. call'.kind = "copy" /\ call'.to = to /\ call'.from = from /\ call'.n = k /\ call'.ends = E /\ call'.after = after
      BY <1>8 DEF Text!Copied
    <2>2. \A a \in Text!Address : from + (a - to) + 1 = a - to + from + 1
      BY <1>2 DEF Text!Address
    <2>3. Text!OverlapIsCopied'
      BY <1>8, <2>1, <2>2 DEF Text!OverlapIsCopied, CopiedRight, Text!At
    <2> QED BY <2>1, <2>3 DEF Text!TextIsHandled, Text!AnswersAreRight, Text!TrimsBothEnds
  <1>9. ASSUME to <= from \/ to >= from + count PROVE Text!Upwards(m, to, from, n - 1) = Shifted(m, to, from, 0..(n - 1))
    <2>1. PICK q : q = n - 1
      OBVIOUS
    <2>2. to <= from \/ to > from + q
      BY <1>2, <1>7, <1>9, <2>1
    <2>3. q \in Int /\ q >= -1 /\ to + q < Size /\ from + q < Size
      BY <1>7, <2>1
    <2>4. Text!Upwards(m, to, from, q) = Shifted(m, to, from, 0..q)
      BY <1>2, <2>2, <2>3, UpwardsIs
    <2> QED BY <2>1, <2>4
  <1>10. CopiedRight(m, to, from, n, {}, Shifted(m, to, from, 0..(n - 1)))
    <2>1. PICK q : q = n - 1
      OBVIOUS
    <2> QED BY <1>2, <2>1, ShiftedRight
  <1>11. PICK k : k = n + 1
    OBVIOUS
  <1>12. CopiedRight(m, to, from, k, {}, Shifted(m, to, from, 0..n))
    <2>1. n = k - 1
      BY <1>7, <1>11
    <2> QED BY <1>2, <2>1, ShiftedRight
  <1>13. ASSUME to <= from PROVE Text!Upwards(m, to, from, n) = Shifted(m, to, from, 0..n)
    BY <1>2, <1>7, <1>13, UpwardsIs
  <1>14. ASSUME from < to PROVE CopiedRight(m, to, from, k, Text!Behind(m, to, n), Text!CopyBack(m, to, from, n))
    BY <1>2, <1>7, <1>11, <1>14, CopyBackRight
  <1>15. CASE call' = Text!Copied(to, from, count, count, {}, Text!memcpy_safe(m, to, from, count))
    <2>1. PICK q : q = count - 1
      OBVIOUS
    <2>2. q \in Int /\ q >= -1 /\ to + q < Size /\ from + q < Size
      BY <1>1, <1>2, <2>1
    <2>3. Text!memcpy_safe(m, to, from, count) = Shifted(m, to, from, 0..q)
      <3>1. CASE to > from
        <4>1. from <= to
          BY <1>2, <3>1
        <4>2. Text!Downwards(m, to, from, q) = Shifted(m, to, from, 0..q)
          BY <1>2, <2>2, <4>1, DownwardsIs
        <4> QED BY <2>1, <3>1, <4>2 DEF Text!memcpy_safe, Text!memcpy_back
      <3>2. CASE ~(to > from)
        <4>1. to <= from
          BY <1>2, <3>2
        <4>2. Text!Upwards(m, to, from, q) = Shifted(m, to, from, 0..q)
          BY <1>2, <2>2, <4>1, UpwardsIs
        <4> QED BY <2>1, <3>2, <4>2 DEF Text!memcpy_safe
      <3> QED BY <3>1, <3>2
    <2>4. CopiedRight(m, to, from, count, {}, Shifted(m, to, from, 0..q))
      BY <1>2, <2>1, ShiftedRight
    <2> QED BY <1>8, <1>15, <2>3, <2>4
  <1>16. CASE to = from /\ call' = Text!Copied(to, from, count, 0, {}, Text!strncpy_safe(m, to, from, count))
    <2>1. Text!strncpy_safe(m, to, from, count) = m
      BY <1>16 DEF Text!strncpy_safe
    <2>2. CopiedRight(m, to, from, 0, {}, m)
      BY DEF CopiedRight
    <2> QED BY <1>8, <1>16, <2>1, <2>2
  <1>17. CASE /\ to > from /\ to < from + count
              /\ call' = Text!Copied(to, from, count, n + 1, Text!Behind(m, to, n), Text!strncpy_safe(m, to, from, count))
    <2>1. from < to /\ to # from
      BY <1>2, <1>17
    <2>2. Text!strncpy_safe(m, to, from, count) = Text!CopyBack(m, to, from, n)
      BY <1>3, <1>6, <1>17, <2>1 DEF Text!strncpy_safe, Text!strncpy_back
    <2>3. call' = Text!Copied(to, from, count, k, Text!Behind(m, to, n), Text!CopyBack(m, to, from, n))
      BY <1>11, <1>17, <2>2
    <2> QED BY <1>8, <1>14, <2>1, <2>3
  <1>18. CASE /\ to # from /\ ~(to > from /\ to < from + count)
              /\ call' = Text!Copied(to, from, count, n, (to + n)..(to + count - 1), Text!strncpy_safe(m, to, from, count))
    <2>1. PICK x : x = Shifted(m, to, from, 0..(n - 1))
      OBVIOUS
    <2>2. PICK z : z = [i \in DOMAIN m |-> IF i \in (to + n + 1)..(to + count) THEN Text!NUL ELSE x[i]]
      OBVIOUS
    <2>3. to <= from \/ to >= from + count
      BY <1>2, <1>18
    <2>4. Text!strncpy(m, to, from, count) = z
      BY <1>3, <1>6, <1>9, <2>1, <2>2, <2>3 DEF Text!strncpy
    <2>5. PICK E : E = (to + n)..(to + count - 1)
      OBVIOUS
    <2>6. CopiedRight(m, to, from, n, E, z)
      BY <1>2, <1>7, <1>10, <2>1, <2>2, <2>5, PaddedRight
    <2>7. Text!strncpy_safe(m, to, from, count) = z
      BY <1>18, <2>4 DEF Text!strncpy_safe
    <2> QED BY <1>8, <1>18, <2>5, <2>6, <2>7
  <1>19. CASE to <= from /\ call' = Text!Copied(to, from, count, IF n < count THEN n + 1 ELSE n, {}, Text!strncpy_fast(m, to, from, count))
    <2>1. CASE n < count
      <3>1. Text!strncpy_fast(m, to, from, count) = Shifted(m, to, from, 0..n)
        BY <1>3, <1>6, <1>13, <1>19, <2>1 DEF Text!strncpy_fast
      <3>2. call' = Text!Copied(to, from, count, k, {}, Shifted(m, to, from, 0..n))
        BY <1>11, <1>19, <2>1, <3>1
      <3> QED BY <1>8, <1>12, <3>2
    <2>2. CASE ~(n < count)
      <3>1. Text!strncpy_fast(m, to, from, count) = Shifted(m, to, from, 0..(n - 1))
        BY <1>3, <1>6, <1>9, <1>19, <2>2 DEF Text!strncpy_fast
      <3>2. call' = Text!Copied(to, from, count, n, {}, Shifted(m, to, from, 0..(n - 1)))
        BY <1>19, <2>2, <3>1
      <3> QED BY <1>8, <1>10, <3>2
    <2> QED BY <2>1, <2>2
  <1>20. CASE /\ len < count
              /\ call' = Text!Copied(to, from, count, n + 1, IF to > from THEN Text!Behind(m, to, n) ELSE {}, Text!strcpy_safe(m, to, from))
    <2>1. n = len
      BY <1>2, <1>4, <1>5, <1>20
    <2>2. CASE to > from
      <3>1. from < to
        BY <1>2, <2>2
      <3>2. Text!strcpy_safe(m, to, from) = Text!CopyBack(m, to, from, n)
        BY <1>3, <2>1, <2>2 DEF Text!strcpy_safe, Text!strcpy_back
      <3>3. call' = Text!Copied(to, from, count, k, Text!Behind(m, to, n), Text!CopyBack(m, to, from, n))
        BY <1>11, <1>20, <2>2, <3>2
      <3> QED BY <1>8, <1>14, <3>1, <3>3
    <2>3. CASE ~(to > from)
      <3>1. to <= from
        BY <1>2, <2>3
      <3>2. Text!strcpy_safe(m, to, from) = Shifted(m, to, from, 0..n)
        BY <1>3, <1>13, <2>1, <2>3, <3>1 DEF Text!strcpy_safe
      <3>3. call' = Text!Copied(to, from, count, k, {}, Shifted(m, to, from, 0..n))
        BY <1>11, <1>20, <2>3, <3>2
      <3> QED BY <1>8, <1>12, <3>3
    <2> QED BY <2>2, <2>3
  <1> QED BY <1>1, <1>3, <1>6, <1>15, <1>16, <1>17, <1>18, <1>19, <1>20

-----------------------------------------------------------------------------
(* Searches.                                                               *)

(* x is the string of n characters at a.                                   *)
StringIs(m, a, n, x) ==
  x \in Seq(Text!Symbol) /\ Len(x) = n /\ \A i \in 1..n : x[i] = m[a + i]

(* Bytes gives it.                                                         *)
LEMMA BytesAre ==
  ASSUME NEW m, m \in [1..Size -> Text!Symbol], NEW a \in Nat, NEW n \in Nat, a + n <= Size
  PROVE  StringIs(m, a, n, Text!Bytes(m, a, n))
PROOF
  <1>1. Size \in Nat
    BY TextAssumption
  <1>2. m \in Seq(Text!Symbol) /\ Len(m) = Size
    BY <1>1
  <1>3. PICK x : x = SubSeq(m, a + 1, a + n)
    OBVIOUS
  <1>4. x = [i \in 1..n |-> m[a + i]]
    <2>1. x = [i \in 1..((a + n) - (a + 1) + 1) |-> m[i + (a + 1) - 1]]
      BY <1>1, <1>2, <1>3
    <2>2. (a + n) - (a + 1) + 1 = n /\ \A i \in 1..n : i + (a + 1) - 1 = a + i
      OBVIOUS
    <2> QED BY <2>1, <2>2
  <1>5. \A i \in 1..n : m[a + i] \in Text!Symbol
    BY <1>1
  <1>6. x \in [1..n -> Text!Symbol]
    BY <1>4, <1>5
  <1>7. x \in Seq(Text!Symbol) /\ Len(x) = n
    BY <1>6
  <1> QED BY <1>3, <1>4, <1>7 DEF StringIs, Text!Bytes

(* An answer that is what was wanted, unless the call is odd.              *)
LEMMA AskedRight ==
  ASSUME NEW f, NEW x, NEW y, NEW o, call' = Text!Asked(f, x, y, o), ~o => x = y
  PROVE  Text!TextIsHandled'
PROOF
  <1>1. call'.kind = "ask" /\ call'.odd = o /\ (~o => call'.got = call'.want)
    BY DEF Text!Asked
  <1> QED BY <1>1 DEF Text!TextIsHandled, Text!OverlapIsCopied, Text!AnswersAreRight, Text!TrimsBothEnds

(* k is the first place where x is in D, or the last one.                  *)
IsFirst(x, D, k) == k \in DOMAIN x /\ x[k] \in D /\ \A i \in DOMAIN x : i < k => x[i] \notin D
IsLast(x, d, k) == k \in DOMAIN x /\ x[k] = d /\ \A i \in DOMAIN x : i > k => x[i] # d

(* A first white space is the one SelectInSeq gives.                       *)
LEMMA FirstSpaceIs ==
  ASSUME NEW x \in Seq(Text!Symbol), NEW k, IsFirst(x, {Text!Space}, k)
  PROVE  Text!FirstSpace(x) = k
PROOF
  <1>1. PICK T : T = {i \in 1..Len(x) : x[i] = Text!Space}
    OBVIOUS
  <1>2. DOMAIN x = 1..Len(x) /\ Len(x) \in Nat
    OBVIOUS
  <1>3. T \subseteq Nat /\ k \in T
    BY <1>1, <1>2 DEF IsFirst
  <1>4. ASSUME NEW l \in T PROVE k <= l
    BY <1>1, <1>2, <1>3 DEF IsFirst
  <1>5. Text!MinOf(T) = k
    BY <1>3, <1>4, MinOfThat
  <1>6. Text!FirstSpace(x) = IF T # {} THEN Text!Min(T) ELSE 0
    BY <1>1 DEF Text!FirstSpace, Text!SelectInSeq, Text!is_whitespace
  <1>7. Text!Min(T) = Text!MinOf(T)
    BY DEF Text!Min, Text!MinOf
  <1> QED BY <1>3, <1>5, <1>6, <1>7

(* The same for a first character that is none.                            *)
LEMMA FirstOtherIs ==
  ASSUME NEW x \in Seq(Text!Symbol), NEW k, IsFirst(x, Text!Symbol \ {Text!Space}, k)
  PROVE  Text!FirstOther(x) = k
PROOF
  <1>1. PICK T : T = {i \in 1..Len(x) : x[i] # Text!Space}
    OBVIOUS
  <1>2. DOMAIN x = 1..Len(x) /\ Len(x) \in Nat /\ \A i \in 1..Len(x) : x[i] \in Text!Symbol
    OBVIOUS
  <1>3. T \subseteq Nat /\ k \in T
    BY <1>1, <1>2 DEF IsFirst
  <1>4. ASSUME NEW l \in T PROVE k <= l
    BY <1>1, <1>2, <1>3 DEF IsFirst
  <1>5. Text!MinOf(T) = k
    BY <1>3, <1>4, MinOfThat
  <1>6. Text!FirstOther(x) = IF T # {} THEN Text!Min(T) ELSE 0
    BY <1>1 DEF Text!FirstOther, Text!SelectInSeq
  <1>7. Text!Min(T) = Text!MinOf(T)
    BY DEF Text!Min, Text!MinOf
  <1> QED BY <1>3, <1>5, <1>6, <1>7

(* The last place of a character is the one SelectLastInSeq gives.         *)
LEMMA LastPlaceIs ==
  ASSUME NEW x \in Seq(Text!Symbol), NEW d, NEW k, IsLast(x, d, k)
  PROVE  Text!LastPlace(x, d) = k
PROOF
  <1>1. PICK T : T = {i \in 1..Len(x) : x[i] = d}
    OBVIOUS
  <1>2. PICK n : n = Len(x)
    OBVIOUS
  <1>3. DOMAIN x = 1..n /\ n \in Nat
    BY <1>2
  <1>4. T \subseteq 0..n /\ k \in T
    BY <1>1, <1>2, <1>3 DEF IsLast
  <1>5. \A l \in T : l <= k
    BY <1>1, <1>2, <1>3, <1>4 DEF IsLast
  <1>6. Text!MaxOf(T) = k
    BY <1>3, <1>4, <1>5, MaxOfThat
  <1>7. Text!LastPlace(x, d) = IF T # {} THEN Text!Max(T) ELSE 0
    BY <1>1 DEF Text!LastPlace, Text!SelectLastInSeq
  <1>8. Text!Max(T) = Text!MaxOf(T)
    <2>1. \A u, v \in T : u >= v <=> v <= u
      BY <1>3, <1>4
    <2> QED BY <2>1 DEF Text!Max, Text!MaxOf
  <1> QED BY <1>4, <1>6, <1>7, <1>8

(* Skip stops at the first byte it may stop at.                            *)
LEMMA SkipIs ==
  ASSUME NEW m, NEW a \in Text!Address, NEW D, NEW p \in a..(Size - 1), m[p + 1] \in D,
         \A q \in a..(p - 1) : m[q + 1] \notin D
  PROVE  Text!Skip(m, a, D) = p
PROOF
  <1>1. PICK T : T = {q \in a..(Size - 1) : m[q + 1] \in D}
    OBVIOUS
  <1>2. a \in Nat /\ Size \in Nat
    BY TextAssumption DEF Text!Address
  <1>3. T \subseteq Nat /\ p \in T
    BY <1>1, <1>2
  <1>4. ASSUME NEW l \in T PROVE p <= l
    <2>1. l \in a..(Size - 1) /\ m[l + 1] \in D
      BY <1>1
    <2>2. ~(l \in a..(p - 1))
      BY <2>1
    <2> QED BY <1>2, <2>1, <2>2
  <1>5. Text!MinOf(T) = p
    BY <1>3, <1>4, MinOfThat
  <1> QED BY <1>1, <1>5 DEF Text!Skip, Text!At

(* x is the text at a: what is before the terminator.                      *)
TextAt(m, a, n, x) == StringAt(m, a, n) /\ StringIs(m, a, n, x)

(* A byte of the text, by its address.                                     *)
LEMMA TextByte ==
  ASSUME NEW m, NEW a \in Text!Address, NEW n, NEW x, TextAt(m, a, n, x), NEW q, q \in a..(a + n - 1),
         NEW i, i = q - a + 1
  PROVE  i \in 1..n /\ m[q + 1] = x[i] /\ m[q + 1] # Text!NUL
PROOF
  <1>1. a \in Nat /\ n \in Nat
    BY TextAssumption DEF Text!Address, TextAt, StringAt
  <1>2. i \in 1..n /\ a + i = q + 1
    BY <1>1
  <1>3. q - a \in 0..(n - 1) /\ a + (q - a) + 1 = q + 1
    BY <1>1
  <1> QED BY <1>2, <1>3 DEF TextAt, StringAt, StringIs

(* Of the places where a text has a character in D one is the first.       *)
LEMMA HasFirst ==
  ASSUME NEW x \in Seq(Text!Symbol), NEW D, NEW i \in DOMAIN x, x[i] \in D
  PROVE  \E k : IsFirst(x, D, k)
PROOF
  <1>1. PICK T : T = {j \in DOMAIN x : x[j] \in D}
    OBVIOUS
  <1>2. DOMAIN x = 1..Len(x) /\ Len(x) \in Nat
    OBVIOUS
  <1>3. T \subseteq Nat /\ T # {}
    BY <1>1, <1>2
  <1>4. PICK k \in T : \A l \in T : k <= l
    BY <1>3, LeastOf
  <1>5. \A j \in DOMAIN x : j < k => x[j] \notin D
    BY <1>1, <1>2, <1>3, <1>4
  <1> QED BY <1>1, <1>4, <1>5 DEF IsFirst

(* The address of a first place.                                           *)
LEMMA FirstAddress ==
  ASSUME NEW m, NEW a \in Text!Address, NEW n, NEW x, TextAt(m, a, n, x), NEW D, NEW k, IsFirst(x, D, k),
         NEW p, p = a + k - 1
  PROVE  p \in a..(a + n - 1) /\ p \in a..(Size - 1) /\ m[p + 1] = x[k] /\ \A q \in a..(p - 1) : m[q + 1] \notin D \cup {Text!NUL}
PROOF
  <1>1. a \in Nat /\ n \in Nat /\ Size \in Nat /\ a + n < Size /\ DOMAIN x = 1..n
    BY TextAssumption DEF Text!Address, TextAt, StringAt, StringIs
  <1>2. k \in 1..n /\ a + k = p + 1 /\ p \in a..(a + n - 1) /\ p \in a..(Size - 1)
    BY <1>1 DEF IsFirst
  <1>3. m[p + 1] = x[k]
    BY <1>2 DEF TextAt, StringIs
  <1>4. ASSUME NEW q \in a..(p - 1) PROVE m[q + 1] \notin D \cup {Text!NUL}
    <2>1. PICK i : i = q - a + 1
      OBVIOUS
    <2>2. q \in a..(a + n - 1) /\ i < k
      BY <1>1, <1>2, <2>1
    <2>3. i \in 1..n /\ m[q + 1] = x[i] /\ m[q + 1] # Text!NUL
      BY <2>1, <2>2, TextByte
    <2> QED BY <1>1, <2>2, <2>3 DEF IsFirst
  <1> QED BY <1>2, <1>3, <1>4

(* find_next_whitespace finds the first one, or the end.                   *)
LEMMA SpaceIsFound ==
  ASSUME NEW m, NEW a \in Text!Address, NEW n, NEW x, TextAt(m, a, n, x)
  PROVE  Text!find_next_whitespace(m, a) = IF Text!Space \in Text!Range(x) THEN a + Text!FirstSpace(x) - 1 ELSE Text!NULL
PROOF
  <1>1. a \in Nat /\ n \in Nat /\ Size \in Nat /\ a + n < Size /\ DOMAIN x = 1..n /\ x \in Seq(Text!Symbol)
    BY TextAssumption DEF Text!Address, TextAt, StringAt, StringIs
  <1>2. PICK E : E = {Text!Space, Text!NUL}
    OBVIOUS
  <1>3. Text!Space # Text!NUL
    BY DEF Text!Space, Text!NUL
  <1>4. CASE \E i \in DOMAIN x : x[i] = Text!Space
    <2>1. PICK k : IsFirst(x, {Text!Space}, k)
      BY <1>1, <1>4, HasFirst
    <2>2. PICK p : p = a + k - 1
      OBVIOUS
    <2>3. p \in a..(Size - 1) /\ m[p + 1] = x[k] /\ \A q \in a..(p - 1) : m[q + 1] \notin {Text!Space} \cup {Text!NUL}
      BY <2>1, <2>2, FirstAddress
    <2>4. x[k] = Text!Space
      BY <2>1 DEF IsFirst
    <2>5. m[p + 1] \in E /\ \A q \in a..(p - 1) : m[q + 1] \notin E
      BY <1>2, <2>3, <2>4
    <2>6. Text!Skip(m, a, E) = p
      BY <2>3, <2>5, SkipIs
    <2>7. Text!find_next_whitespace(m, a) = p
      BY <1>2, <1>3, <2>3, <2>4, <2>6 DEF Text!find_next_whitespace, Text!At
    <2>8. Text!FirstSpace(x) = k
      BY <1>1, <2>1, FirstSpaceIs
    <2>9. Text!Space \in Text!Range(x)
      BY <1>4 DEF Text!Range
    <2> QED BY <2>2, <2>7, <2>8, <2>9
  <1>5. CASE ~\E i \in DOMAIN x : x[i] = Text!Space
    <2>1. PICK p : p = a + n
      OBVIOUS
    <2>2. p \in a..(Size - 1) /\ m[p + 1] = Text!NUL
      BY <1>1, <2>1 DEF TextAt, StringAt
    <2>3. ASSUME NEW q \in a..(p - 1) PROVE m[q + 1] \notin E
      <3>1. PICK i : i = q - a + 1
        OBVIOUS
      <3>2. q \in a..(a + n - 1)
        BY <1>1, <2>1
      <3>3. i \in 1..n /\ m[q + 1] = x[i] /\ m[q + 1] # Text!NUL
        BY <3>1, <3>2, TextByte
      <3> QED BY <1>1, <1>2, <1>5, <3>3
    <2>4. Text!Skip(m, a, E) = p
      <3>1. m[p + 1] \in E
        BY <1>2, <2>2
      <3> QED BY <2>2, <2>3, <3>1, SkipIs
    <2>5. Text!find_next_whitespace(m, a) = Text!NULL
      BY <1>2, <2>2, <2>4 DEF Text!find_next_whitespace, Text!At
    <2>6. Text!Space \notin Text!Range(x)
      BY <1>5 DEF Text!Range
    <2> QED BY <2>5, <2>6
  <1> QED BY <1>4, <1>5

(* find_next_non_whitespace finds a first character that is none.          *)
LEMMA OtherIsFound ==
  ASSUME NEW m, NEW a \in Text!Address, NEW n, NEW x, TextAt(m, a, n, x), \E i \in 1..n : x[i] # Text!Space
  PROVE  Text!find_next_non_whitespace(m, a) = a + Text!FirstOther(x) - 1
PROOF
  <1>1. DOMAIN x = 1..n /\ x \in Seq(Text!Symbol) /\ n \in Nat
    BY DEF TextAt, StringAt, StringIs
  <1>2. PICK D : D = Text!Symbol \ {Text!Space}
    OBVIOUS
  <1>3. PICK k : IsFirst(x, D, k)
    <2>1. PICK i \in 1..n : x[i] # Text!Space
      OBVIOUS
    <2>2. i \in DOMAIN x /\ x[i] \in D
      BY <1>1, <1>2, <2>1
    <2> QED BY <1>1, <2>2, HasFirst
  <1>4. PICK p : p = a + k - 1
    OBVIOUS
  <1>5. p \in a..(a + n - 1) /\ p \in a..(Size - 1) /\ m[p + 1] = x[k] /\ \A q \in a..(p - 1) : m[q + 1] \notin D \cup {Text!NUL}
    BY <1>3, <1>4, FirstAddress
  <1>6. m[p + 1] # Text!NUL
    BY <1>5, TextByte
  <1>7. x[k] \in D
    BY <1>3 DEF IsFirst
  <1>8. PICK E : E = Text!Symbol \ {Text!Space, Text!NUL}
    OBVIOUS
  <1>9. m[p + 1] \in E /\ \A q \in a..(p - 1) : m[q + 1] \notin E
    BY <1>2, <1>5, <1>6, <1>7, <1>8
  <1>10. Text!Skip(m, a, E) = p
    BY <1>5, <1>9, SkipIs
  <1>11. Text!FirstOther(x) = k
    BY <1>1, <1>2, <1>3, FirstOtherIs
  <1> QED BY <1>4, <1>8, <1>10, <1>11 DEF Text!find_next_non_whitespace

(* find_last_char_count finds the last place of a character, unless only   *)
(* the byte before the string is one.                                      *)
LEMMA LastIsFound ==
  ASSUME NEW m, NEW a \in Text!Address, NEW n, NEW x, TextAt(m, a, n, x), NEW d, d # Text!NUL, a # 0,
         d \in Text!Range(x) \/ m[a] # d
  PROVE  Text!find_last_char_count(m, a, d, n) = IF d \in Text!Range(x) THEN a + Text!LastPlace(x, d) - 1 ELSE Text!NULL
PROOF
  <1>1. a \in Nat /\ n \in Nat /\ Size \in Nat /\ a + n < Size /\ DOMAIN x = 1..n /\ x \in Seq(Text!Symbol)
    BY TextAssumption DEF Text!Address, TextAt, StringAt, StringIs
  <1>2. PICK F : F = {p \in (a - 1)..(a + n) : m[p + 1] = d}
    OBVIOUS
  <1>3. Text!find_last_char_count(m, a, d, n) = IF F = {} THEN Text!NULL ELSE Text!MaxOf(F)
    BY <1>2 DEF Text!find_last_char_count, Text!At
  <1>4. ASSUME NEW p \in F, p # a - 1 PROVE (p - a + 1) \in 1..n /\ x[p - a + 1] = d
    <2>1. p \in a..(a + n) /\ m[p + 1] = d
      BY <1>1, <1>2, <1>4
    <2>2. p # a + n
      BY <2>1 DEF TextAt, StringAt
    <2>3. p \in a..(a + n - 1)
      BY <1>1, <2>1, <2>2
    <2>4. PICK i : i = p - a + 1
      OBVIOUS
    <2> QED BY <2>1, <2>3, <2>4, TextByte
  <1>5. ASSUME NEW i \in 1..n, x[i] = d PROVE a + i - 1 \in F
    <2>1. a + i - 1 \in (a - 1)..(a + n) /\ (a + i - 1) + 1 = a + i
      BY <1>1
    <2>2. m[a + i] = d
      BY <1>5 DEF TextAt, StringIs
    <2> QED BY <1>2, <2>1, <2>2
  <1>6. CASE F = {}
    <2>1. d \notin Text!Range(x)
      BY <1>1, <1>5, <1>6 DEF Text!Range
    <2> QED BY <1>3, <1>6, <2>1
  <1>7. CASE F # {}
    <2>1. PICK e : e = a + n
      OBVIOUS
    <2>2. F \subseteq 0..e /\ e \in Nat
      BY <1>1, <1>2, <2>1
    <2>3. PICK p : p = Text!MaxOf(F)
      OBVIOUS
    <2>4. p \in F /\ \A l \in F : l <= p
      BY <1>7, <2>2, <2>3, MaxOfIs
    <2>5. PICK k : k = p - a + 1
      OBVIOUS
    <2>6. k \in 1..n /\ x[k] = d
      <3>1. p # a - 1
        <4>1. SUFFICES ASSUME p = a - 1 PROVE FALSE
          OBVIOUS
        <4>2. m[a] = d
          <5>1. m[p + 1] = d
            BY <1>2, <2>4
          <5>2. p + 1 = a
            BY <1>1, <4>1
          <5> QED BY <5>1, <5>2
        <4>3. d \in Text!Range(x)
          BY <4>2
        <4>4. PICK i \in 1..n : x[i] = d
          BY <1>1, <4>3 DEF Text!Range
        <4>5. a + i - 1 <= p
          BY <1>5, <2>4, <4>4
        <4> QED BY <1>1, <4>1, <4>5
      <3> QED BY <1>4, <2>4, <2>5, <3>1
    <2>7. ASSUME NEW i \in DOMAIN x, i > k PROVE x[i] # d
      <3>1. SUFFICES ASSUME x[i] = d PROVE FALSE
        OBVIOUS
      <3>2. a + i - 1 <= p
        BY <1>1, <1>5, <2>4, <3>1
      <3> QED BY <1>1, <2>2, <2>4, <2>5, <2>7, <3>2
    <2>8. IsLast(x, d, k)
      BY <1>1, <2>6, <2>7 DEF IsLast
    <2>9. Text!LastPlace(x, d) = k
      BY <1>1, <2>8, LastPlaceIs
    <2>10. d \in Text!Range(x)
      BY <1>1, <2>6 DEF Text!Range
    <2>11. a + k - 1 = p
      BY <1>1, <2>2, <2>4, <2>5
    <2> QED BY <1>3, <1>7, <2>3, <2>9, <2>10, <2>11
  <1> QED BY <1>6, <1>7

(* make_substr gives the first k characters.                               *)
LEMMA SubstrIs ==
  ASSUME NEW m, Memory(m), NEW a \in Text!Address, NEW n, n = Text!strlen(m, a), NEW x, TextAt(m, a, n, x), NEW k \in 0..n
  PROVE  Text!make_substr(m, a, a + k) = SubSeq(x, 1, k)
PROOF
  <1>1. a \in Nat /\ n \in Nat /\ k \in Nat /\ k <= n /\ a + n < Size /\ x \in Seq(Text!Symbol) /\ Len(x) = n
    BY TextAssumption DEF Text!Address, TextAt, StringAt, StringIs
  <1>2. Text!MinOf({k, n}) = k
    BY <1>1, MinOfTwo
  <1>3. (a + k) - a = k
    BY <1>1
  <1>4. Text!make_substr(m, a, a + k) = Text!Bytes(m, a, k)
    BY <1>2, <1>3 DEF Text!make_substr, Text!strncpy_alloc
  <1>5. PICK y : y = Text!Bytes(m, a, k)
    OBVIOUS
  <1>6. StringIs(m, a, k, y)
    <2>1. a + k <= Size /\ m \in [1..Size -> Text!Symbol]
      BY <1>1, TextAssumption DEF Memory
    <2> QED BY <1>1, <1>5, <2>1, BytesAre
  <1>7. PICK z : z = SubSeq(x, 1, k)
    OBVIOUS
  <1>8. z \in Seq(Text!Symbol) /\ Len(z) = k /\ \A i \in 1..k : z[i] = x[i]
    BY <1>1, <1>7
  <1>9. \A i \in 1..k : y[i] = z[i]
    <2>1. \A i \in 1..k : i \in 1..n
      BY <1>1
    <2> QED BY <1>6, <1>8, <2>1 DEF StringIs, TextAt
  <1>10. y \in Seq(Text!Symbol) /\ Len(y) = k
    BY <1>6 DEF StringIs
  <1>11. y = z
    BY <1>8, <1>9, <1>10, SMTT(40)
  <1> QED BY <1>4, <1>5, <1>7, <1>11

(* strn_to_lower changes the first k characters and nothing else.          *)
LEMMA LowerIs ==
  ASSUME NEW m, Memory(m), NEW a \in Text!Address, NEW n, n = Text!strlen(m, a), NEW x, TextAt(m, a, n, x), NEW k \in 0..n,
         NEW e, e = SubSeq(m, 1, a) \o [i \in 1..k |-> Text!tolower(x[i])] \o SubSeq(m, a + k + 1, Size)
  PROVE  Text!strn_to_lower(m, a, k) = e
PROOF
  <1>1. a \in Nat /\ n \in Nat /\ k \in Nat /\ k <= n /\ a + n < Size /\ x \in Seq(Text!Symbol) /\ Len(x) = n /\ Size \in Nat
    BY TextAssumption DEF Text!Address, TextAt, StringAt, StringIs
  <1>2. Text!MinOf({k, n}) = k
    BY <1>1, MinOfTwo
  <1>3. m \in Seq(Text!Symbol) /\ Len(m) = Size /\ DOMAIN m = 1..Size
    BY <1>1 DEF Memory
  <1>4. PICK y : y = Text!strn_to_lower(m, a, k)
    OBVIOUS
  <1>5. y = [i \in 1..Size |-> IF i \in (a + 1)..(a + k) THEN Text!tolower(m[i]) ELSE m[i]]
    BY <1>2, <1>3, <1>4 DEF Text!strn_to_lower
  <1>6. PICK u : u = SubSeq(m, 1, a)
    OBVIOUS
  <1>7. PICK v : v = [i \in 1..k |-> Text!tolower(x[i])]
    OBVIOUS
  <1>8. PICK w : w = SubSeq(m, a + k + 1, Size)
    OBVIOUS
  <1>9. \A d \in Text!Symbol : Text!tolower(d) \in Text!Symbol
    BY DEF Text!tolower, Text!Symbol
  <1>10. u \in Seq(Text!Symbol) /\ Len(u) = a /\ \A i \in 1..a : u[i] = m[i]
    BY <1>1, <1>3, <1>6
  <1>11. v \in Seq(Text!Symbol) /\ Len(v) = k /\ \A i \in 1..k : v[i] = Text!tolower(x[i])
    <2>1. \A i \in 1..k : x[i] \in Text!Symbol
      BY <1>1
    <2> QED BY <1>1, <1>7, <1>9, <2>1
  <1>12. w \in Seq(Text!Symbol) /\ Len(w) = Size - a - k /\ \A i \in 1..(Size - a - k) : w[i] = m[a + k + i]
    <2>1. w = [i \in 1..(Size - (a + k + 1) + 1) |-> m[i + (a + k + 1) - 1]]
      BY <1>1, <1>3, <1>8
    <2>2. Size - (a + k + 1) + 1 = Size - a - k /\ Size - a - k \in Nat
      BY <1>1
    <2>3. \A i \in 1..(Size - a - k) : i + (a + k + 1) - 1 = a + k + i /\ a + k + i \in 1..Size
      BY <1>1
    <2>4. w \in [1..(Size - a - k) -> Text!Symbol] /\ \A i \in 1..(Size - a - k) : w[i] = m[a + k + i]
      BY <1>3, <2>1, <2>2, <2>3, SMTT(40)
    <2> QED BY <2>2, <2>4
  <1>13. PICK z : z = (u \o v) \o w
    OBVIOUS
  <1>14. PICK t : t = u \o v
    OBVIOUS
  <1>15. t \in Seq(Text!Symbol) /\ Len(t) = a + k /\ \A i \in 1..(a + k) : t[i] = IF i <= a THEN u[i] ELSE v[i - a]
    BY <1>1, <1>10, <1>11, <1>14
  <1>16. z \in Seq(Text!Symbol) /\ Len(z) = Size /\ \A i \in 1..Size : z[i] = IF i <= a + k THEN t[i] ELSE w[i - (a + k)]
    <2>1. z = t \o w
      BY <1>13, <1>14
    <2>2. PICK h : h = a + k
      OBVIOUS
    <2>3. PICK g : g = Size - a - k
      OBVIOUS
    <2>4. h \in Nat /\ g \in Nat /\ h + g = Size
      BY <1>1, <2>2, <2>3
    <2>5. Len(t) = h /\ Len(w) = g /\ t \in Seq(Text!Symbol) /\ w \in Seq(Text!Symbol)
      BY <1>12, <1>15, <2>2, <2>3
    <2>6. z \in Seq(Text!Symbol) /\ Len(z) = Size
      <3>1. t \o w \in Seq(Text!Symbol)
        BY <2>5
      <3>2. Len(t \o w) = Len(t) + Len(w)
        BY <2>5
      <3> QED BY <2>1, <2>4, <2>5, <3>1, <3>2
    <2>7. ASSUME NEW i \in 1..Size PROVE z[i] = IF i <= h THEN t[i] ELSE w[i - h]
      <3>1. i \in 1..(Len(t) + Len(w))
        BY <2>4, <2>5
      <3>2. z[i] = IF i <= Len(t) THEN t[i] ELSE w[i - Len(t)]
        BY <2>1, <2>5, <3>1
      <3> QED BY <2>5, <3>2
    <2> QED BY <2>2, <2>6, <2>7
  <1>17. ASSUME NEW i \in 1..Size PROVE y[i] = z[i]
    <2>1. CASE i <= a
      <3>1. i \in 1..a /\ i \in 1..(a + k) /\ i <= a + k /\ i \notin (a + 1)..(a + k)
        BY <1>1, <2>1
      <3> QED BY <1>5, <1>10, <1>15, <1>16, <2>1, <3>1
    <2>2. CASE i > a /\ i <= a + k
      <3>1. PICK j : j = i - a
        OBVIOUS
      <3>2. j \in 1..k /\ j \in 1..n /\ i = a + j /\ i \in 1..(a + k) /\ ~(i <= a) /\ i \in (a + 1)..(a + k)
        BY <1>1, <2>2, <3>1
      <3>3. x[j] = m[i]
        BY <3>2 DEF TextAt, StringIs
      <3> QED BY <1>5, <1>11, <1>15, <1>16, <2>2, <3>1, <3>2, <3>3
    <2>3. CASE i > a + k
      <3>1. PICK j : j = i - (a + k)
        OBVIOUS
      <3>2. j \in 1..(Size - a - k) /\ a + k + j = i /\ ~(i <= a + k) /\ i \notin (a + 1)..(a + k)
        BY <1>1, <2>3, <3>1
      <3> QED BY <1>5, <1>12, <1>16, <3>1, <3>2
    <2> QED BY <1>1, <2>1, <2>2, <2>3
  <1>18. DOMAIN y = 1..Size /\ DOMAIN z = 1..Size /\ y = [i \in 1..Size |-> y[i]] /\ z = [i \in 1..Size |-> z[i]]
    BY <1>5, <1>16
  <1>19. y = z
    BY <1>17, <1>18
  <1> QED BY <1>4, <1>6, <1>7, <1>8, <1>13, <1>19

(* Where a word begins and where it stops.                                 *)
Begins(m, a, e, u) ==
  u \in a..e /\ (u = e \/ m[u + 1] # Text!Space) /\ \A p \in a..(u - 1) : m[p + 1] = Text!Space
Stops(m, u, e, v) ==
  v \in u..e /\ (v = e \/ m[v + 1] = Text!Space) /\ \A p \in u..(v - 1) : m[p + 1] # Text!Space

(* The addresses Word_of takes the least of.                               *)
Beginnings(m, a, e) == {e} \cup {p \in a..(e - 1) : ~Text!is_whitespace(Text!At(m, p))}
Endings(m, u, e) == {e} \cup {p \in u..(e - 1) : Text!is_whitespace(Text!At(m, p))}

(* A beginning is the least of them, so there is one only.                 *)
LEMMA BeginsIs ==
  ASSUME NEW m, NEW a \in Nat, NEW e \in Nat, a <= e, NEW u, Begins(m, a, e, u)
  PROVE  Text!MinOf(Beginnings(m, a, e)) = u
PROOF
  <1>1. PICK T : T = Beginnings(m, a, e)
    OBVIOUS
  <1>2. u \in Nat /\ u <= e
    BY DEF Begins
  <1>3. T \subseteq Nat /\ u \in T
    BY <1>1, <1>2 DEF Begins, Beginnings, Text!is_whitespace, Text!At
  <1>4. ASSUME NEW l \in T PROVE u <= l
    <2>1. CASE l = e
      BY <1>2, <2>1
    <2>2. CASE l # e
      <3>1. l \in a..(e - 1) /\ m[l + 1] # Text!Space
        BY <1>1, <2>2 DEF Beginnings, Text!is_whitespace, Text!At
      <3>2. l \notin a..(u - 1)
        BY <3>1 DEF Begins
      <3> QED BY <1>2, <3>1, <3>2
    <2> QED BY <2>1, <2>2
  <1> QED BY <1>1, <1>3, <1>4, MinOfThat

(* The same for an end.                                                    *)
LEMMA StopsIs ==
  ASSUME NEW m, NEW u \in Nat, NEW e \in Nat, u <= e, NEW v, Stops(m, u, e, v)
  PROVE  Text!MinOf(Endings(m, u, e)) = v
PROOF
  <1>1. PICK T : T = Endings(m, u, e)
    OBVIOUS
  <1>2. v \in Nat /\ v <= e
    BY DEF Stops
  <1>3. T \subseteq Nat /\ v \in T
    BY <1>1, <1>2 DEF Stops, Endings, Text!is_whitespace, Text!At
  <1>4. ASSUME NEW l \in T PROVE v <= l
    <2>1. CASE l = e
      BY <1>2, <2>1
    <2>2. CASE l # e
      <3>1. l \in u..(e - 1) /\ m[l + 1] = Text!Space
        BY <1>1, <2>2 DEF Endings, Text!is_whitespace, Text!At
      <3>2. l \notin u..(v - 1)
        BY <3>1 DEF Stops
      <3> QED BY <1>2, <3>1, <3>2
    <2> QED BY <2>1, <2>2
  <1> QED BY <1>1, <1>3, <1>4, MinOfThat

(* There is a beginning.                                                   *)
LEMMA SomeBeginning ==
  ASSUME NEW m, NEW a \in Nat, NEW e \in Nat, a <= e
  PROVE  \E u : Begins(m, a, e, u)
PROOF
  <1>1. PICK T : T = Beginnings(m, a, e)
    OBVIOUS
  <1>2. T \subseteq Nat /\ e \in T
    BY <1>1 DEF Beginnings
  <1>3. PICK u \in T : \A l \in T : u <= l
    BY <1>2, LeastOf
  <1>4. u \in a..e /\ (u = e \/ m[u + 1] # Text!Space)
    BY <1>1, <1>3 DEF Beginnings, Text!is_whitespace, Text!At
  <1>5. ASSUME NEW p \in a..(u - 1) PROVE m[p + 1] = Text!Space
    <2>1. p \notin T /\ p \in a..(e - 1)
      BY <1>3, <1>4
    <2> QED BY <1>1, <2>1 DEF Beginnings, Text!is_whitespace, Text!At
  <1> QED BY <1>4, <1>5 DEF Begins

(* There is an end behind a beginning.                                     *)
LEMMA SomeEnding ==
  ASSUME NEW m, NEW u \in Nat, NEW e \in Nat, u <= e
  PROVE  \E v : Stops(m, u, e, v)
PROOF
  <1>1. PICK T : T = Endings(m, u, e)
    OBVIOUS
  <1>2. T \subseteq Nat /\ e \in T
    BY <1>1 DEF Endings
  <1>3. PICK v \in T : \A l \in T : v <= l
    BY <1>2, LeastOf
  <1>4. v \in u..e /\ (v = e \/ m[v + 1] = Text!Space)
    BY <1>1, <1>3 DEF Endings, Text!is_whitespace, Text!At
  <1>5. ASSUME NEW p \in u..(v - 1) PROVE m[p + 1] # Text!Space
    <2>1. p \notin T /\ p \in u..(e - 1)
      BY <1>3, <1>4
    <2> QED BY <1>1, <2>1 DEF Endings, Text!is_whitespace, Text!At
  <1> QED BY <1>4, <1>5 DEF Stops

(* A word is a number if it is not empty and has digits only.              *)
LEMMA DigitsAre ==
  ASSUME NEW m, m \in [1..Size -> Text!Symbol], NEW a \in Nat, NEW e \in Nat, a <= e, e <= Size,
         NEW u, Begins(m, a, e, u), NEW v, Stops(m, u, e, v)
  PROVE  Text!AllDigits(Text!Word_of(m, a, e)) <=> u < v /\ \A p \in u..(v - 1) : m[p + 1] = Text!Digit
PROOF
  <1>1. u \in Nat /\ u <= e /\ v \in Nat /\ v <= e /\ u <= v /\ Size \in Nat
    BY TextAssumption DEF Begins, Stops
  <1>2. Text!MinOf(Beginnings(m, a, e)) = u
    BY BeginsIs
  <1>3. Text!MinOf(Endings(m, u, e)) = v
    BY <1>1, StopsIs
  <1>4. Text!Word_of(m, a, e) = SubSeq(m, u + 1, v)
    BY <1>2, <1>3 DEF Text!Word_of, Beginnings, Endings
  <1>5. PICK w : w = SubSeq(m, u + 1, v)
    OBVIOUS
  <1>6. PICK n : n = v - u
    OBVIOUS
  <1>7. n \in Nat /\ u + n = v
    BY <1>1, <1>6
  <1>8. w = Text!Bytes(m, u, n)
    BY <1>5, <1>7 DEF Text!Bytes
  <1>9. StringIs(m, u, n, w)
    BY <1>1, <1>7, <1>8, BytesAre
  <1>10. w \in Seq(Text!Symbol) /\ Len(w) = n /\ DOMAIN w = 1..n
    BY <1>9 DEF StringIs
  <1>11. w # <<>> <=> u < v
    BY <1>1, <1>6, <1>7, <1>10
  <1>12. (\A i \in 1..n : w[i] = Text!Digit) <=> \A p \in u..(v - 1) : m[p + 1] = Text!Digit
    <2>1. ASSUME \A i \in 1..n : w[i] = Text!Digit, NEW p \in u..(v - 1) PROVE m[p + 1] = Text!Digit
      <3>1. PICK i : i = p - u + 1
        OBVIOUS
      <3>2. i \in 1..n /\ u + i = p + 1
        BY <1>1, <1>6, <3>1
      <3> QED BY <1>9, <2>1, <3>2 DEF StringIs
    <2>2. ASSUME \A p \in u..(v - 1) : m[p + 1] = Text!Digit, NEW i \in 1..n PROVE w[i] = Text!Digit
      <3>1. PICK p : p = u + i - 1
        OBVIOUS
      <3>2. p \in u..(v - 1) /\ u + i = p + 1
        BY <1>1, <1>6, <3>1
      <3> QED BY <1>9, <2>2, <3>2 DEF StringIs
    <2> QED BY <2>1, <2>2
  <1> QED BY <1>4, <1>5, <1>10, <1>11, <1>12 DEF Text!AllDigits

(* A number is what is_int_n answers for.                                  *)
LEMMA NumberIs ==
  ASSUME NEW m, m \in [1..Size -> Text!Symbol], NEW a \in Text!Address, NEW n, NEW x, TextAt(m, a, n, x), NEW k \in 0..n
  PROVE  Text!is_int_n(m, a, k) <=> Text!IsNumber(x, k)
PROOF
  <1>1. a \in Nat /\ n \in Nat /\ k \in Nat /\ k <= n /\ a + n < Size /\ Size \in Nat
    BY TextAssumption DEF Text!Address, TextAt, StringAt
  <1>2. PICK e : e = a + k
    OBVIOUS
  <1>3. e \in Nat /\ a <= e /\ e <= Size
    BY <1>1, <1>2
  <1>4. Text!is_int_n(m, a, k) <=> Text!AllDigits(Text!Word_of(m, a, e))
    BY <1>2 DEF Text!is_int_n
  <1>5. \A i \in 1..n : x[i] = m[a + i]
    BY DEF TextAt, StringIs
  <1>6. ASSUME Text!is_int_n(m, a, k) PROVE Text!IsNumber(x, k)
    <2>1. PICK u : Begins(m, a, e, u)
      BY <1>1, <1>3, SomeBeginning
    <2>2. u \in Nat /\ a <= u /\ u <= e
      BY <1>1, <1>3, <2>1 DEF Begins
    <2>3. PICK v : Stops(m, u, e, v)
      BY <1>3, <2>2, SomeEnding
    <2>4. v \in Nat /\ u <= v /\ v <= e
      BY <1>3, <2>2, <2>3 DEF Stops
    <2>5. u < v /\ \A p \in u..(v - 1) : m[p + 1] = Text!Digit
      BY <1>1, <1>3, <1>4, <1>6, <2>1, <2>3, DigitsAre
    <2>6. PICK i : i = u - a
      OBVIOUS
    <2>7. PICK j : j = v - a
      OBVIOUS
    <2>8. i \in 0..k /\ j \in 0..k /\ i < j
      BY <1>1, <1>2, <2>2, <2>4, <2>5, <2>6, <2>7
    <2>9. ASSUME NEW y \in 1..i PROVE x[y] = Text!Space
      <3>1. PICK p : p = a + y - 1
        OBVIOUS
      <3>2. p \in a..(u - 1) /\ p + 1 = a + y /\ y \in 1..n
        BY <1>1, <2>2, <2>6, <2>8, <3>1
      <3> QED BY <1>5, <2>1, <3>2 DEF Begins
    <2>10. ASSUME NEW y \in (i + 1)..j PROVE x[y] = Text!Digit
      <3>1. PICK p : p = a + y - 1
        OBVIOUS
      <3>2. p \in u..(v - 1) /\ p + 1 = a + y /\ y \in 1..n
        BY <1>1, <2>2, <2>4, <2>6, <2>7, <2>8, <3>1
      <3> QED BY <1>5, <2>5, <3>2
    <2>11. ASSUME j # k PROVE x[j + 1] = Text!Space
      <3>1. v # e
        BY <1>1, <1>2, <2>4, <2>7, <2>11
      <3>2. m[v + 1] = Text!Space
        BY <2>3, <3>1 DEF Stops
      <3>3. j + 1 \in 1..n /\ a + (j + 1) = v + 1
        BY <1>1, <2>4, <2>7, <2>8, <2>11
      <3> QED BY <1>5, <3>2, <3>3
    <2>12. Text!Digit # Text!Space
      BY DEF Text!Digit, Text!Space
    <2>13. Text!WordIn(x, k, i, j)
      BY <2>8, <2>9, <2>10, <2>11, <2>12 DEF Text!WordIn
    <2> QED BY <2>8, <2>10, <2>13 DEF Text!IsNumber
  <1>7. ASSUME Text!IsNumber(x, k) PROVE Text!is_int_n(m, a, k)
    <2>1. PICK i \in 0..k, j \in 0..k :
            /\ i < j /\ (\A y \in 1..i : x[y] = Text!Space) /\ (\A y \in (i + 1)..j : x[y] = Text!Digit)
            /\ (j = k \/ x[j + 1] = Text!Space)
      BY <1>7 DEF Text!IsNumber, Text!WordIn
    <2>2. PICK u : u = a + i
      OBVIOUS
    <2>3. PICK v : v = a + j
      OBVIOUS
    <2>4. u \in a..e /\ v \in u..e /\ u < v /\ i + 1 \in (i + 1)..j
      BY <1>1, <1>2, <2>1, <2>2, <2>3
    <2>5. Text!Digit # Text!Space
      BY DEF Text!Digit, Text!Space
    <2>6. ASSUME NEW p \in u..(v - 1) PROVE m[p + 1] = Text!Digit
      <3>1. PICK y : y = p - a + 1
        OBVIOUS
      <3>2. y \in (i + 1)..j /\ y \in 1..n /\ a + y = p + 1
        BY <1>1, <2>1, <2>2, <2>3, <3>1
      <3> QED BY <1>5, <2>1, <3>2
    <2>7. Begins(m, a, e, u)
      <3>1. ASSUME NEW p \in a..(u - 1) PROVE m[p + 1] = Text!Space
        <4>1. PICK y : y = p - a + 1
          OBVIOUS
        <4>2. y \in 1..i /\ y \in 1..n /\ a + y = p + 1
          BY <1>1, <2>1, <2>2, <4>1
        <4> QED BY <1>5, <2>1, <4>2
      <3>2. u \in u..(v - 1)
        BY <1>1, <2>1, <2>2, <2>3
      <3> QED BY <2>4, <2>5, <2>6, <3>1, <3>2 DEF Begins
    <2>8. Stops(m, u, e, v)
      <3>1. ASSUME v # e PROVE m[v + 1] = Text!Space
        <4>1. j # k /\ j + 1 \in 1..n /\ a + (j + 1) = v + 1
          BY <1>1, <1>2, <2>1, <2>3, <3>1
        <4> QED BY <1>5, <2>1, <4>1
      <3> QED BY <2>4, <2>5, <2>6, <3>1 DEF Stops
    <2> QED BY <1>1, <1>3, <1>4, <2>4, <2>6, <2>7, <2>8, DigitsAre
  <1> QED BY <1>6, <1>7

(* Every search and test of the run answers what it is asked.              *)
LEMMA SearchHandles ==
  ASSUME Memory(mem), Text!Search, mem' = mem
  PROVE  Text!TextIsHandled'
PROOF
  <1>1. PICK m : m = mem
    OBVIOUS
  <1>2. PICK a \in Text!Address \ {0} :
          LET n == Text!strlen(m, a)
              x == Text!Bytes(m, a, n)
              begin == Text!Skip(m, a, Text!Symbol \ {Text!Space})
          IN \/ call' = Text!Asked("find_next_whitespace", Text!find_next_whitespace(m, a), IF Text!Space \in Text!Range(x) THEN a + Text!FirstSpace(x) - 1 ELSE Text!NULL, FALSE)
             \/ /\ \E i \in 1..n : x[i] # Text!Space
                /\ call' = Text!Asked("find_next_non_whitespace", Text!find_next_non_whitespace(m, a), a + Text!FirstOther(x) - 1, FALSE)
             \/ \E c \in Text!Symbol \ {Text!NUL} :
                  call' = Text!Asked("find_last_char_count", Text!find_last_char_count(m, a, c, n),
                                     IF c \in Text!Range(x) THEN a + Text!LastPlace(x, c) - 1 ELSE Text!NULL,
                                     c \notin Text!Range(x) /\ Text!At(m, a - 1) = c)
             \/ \E k \in 0..n :
                  \/ call' = Text!Asked("make_substr", Text!make_substr(m, a, a + k), SubSeq(x, 1, k), FALSE)
                  \/ call' = Text!Asked("strn_to_lower", Text!strn_to_lower(m, a, k), SubSeq(m, 1, a) \o [i \in 1..k |-> Text!tolower(x[i])] \o SubSeq(m, a + k + 1, Size), FALSE)
                  \/ call' = Text!Asked("is_int_n", Text!is_int_n(m, a, k), Text!IsNumber(x, k), FALSE)
             \/ call' = Text!Asked("get_string_type", Text!get_string_type(m, a), Text!TypeOf(x, n),
                                   Text!TypeOf(x, n) \in {"double", "bool"} \/ Text!At(m, begin + n) = Text!Space)
    BY <1>1, ZenonT(60) DEF Text!Search
  <1>3. PICK n : n = Text!strlen(m, a)
    OBVIOUS
  <1>4. PICK x : x = Text!Bytes(m, a, n)
    OBVIOUS
  <1>5. StringAt(m, a, n)
    BY <1>1, <1>3, LengthIs
  <1>6. m \in [1..Size -> Text!Symbol] /\ a \in Nat /\ n \in Nat /\ a + n <= Size
    BY <1>1, <1>5, TextAssumption DEF Memory, Text!Address, StringAt
  <1>7. StringIs(m, a, n, x)
    BY <1>4, <1>6, BytesAre
  <1>8. TextAt(m, a, n, x)
    BY <1>5, <1>7 DEF TextAt
  <1>9. CASE call' = Text!Asked("find_next_whitespace", Text!find_next_whitespace(m, a), IF Text!Space \in Text!Range(x) THEN a + Text!FirstSpace(x) - 1 ELSE Text!NULL, FALSE)
    BY <1>8, <1>9, SpaceIsFound, AskedRight
  <1>10. CASE /\ \E i \in 1..n : x[i] # Text!Space
              /\ call' = Text!Asked("find_next_non_whitespace", Text!find_next_non_whitespace(m, a), a + Text!FirstOther(x) - 1, FALSE)
    <2>1. Text!find_next_non_whitespace(m, a) = a + Text!FirstOther(x) - 1
      BY <1>8, <1>10, OtherIsFound
    <2> QED BY <1>10, <2>1, AskedRight
  <1>11. ASSUME NEW c \in Text!Symbol \ {Text!NUL},
                call' = Text!Asked("find_last_char_count", Text!find_last_char_count(m, a, c, n),
                                   IF c \in Text!Range(x) THEN a + Text!LastPlace(x, c) - 1 ELSE Text!NULL,
                                   c \notin Text!Range(x) /\ Text!At(m, a - 1) = c)
         PROVE  Text!TextIsHandled'
    <2>1. PICK o : o = (c \notin Text!Range(x) /\ Text!At(m, a - 1) = c)
      OBVIOUS
    <2>2. a - 1 + 1 = a /\ a # 0
      BY <1>6
    <2>3. Text!At(m, a - 1) = m[a]
      BY <2>2 DEF Text!At
    <2>4. ASSUME ~o
          PROVE  Text!find_last_char_count(m, a, c, n) = IF c \in Text!Range(x) THEN a + Text!LastPlace(x, c) - 1 ELSE Text!NULL
      <3>1. c \in Text!Range(x) \/ m[a] # c
        BY <2>1, <2>3, <2>4
      <3> QED BY <1>8, <2>2, <3>1, LastIsFound
    <2> QED BY <1>11, <2>1, <2>4, AskedRight
  <1>12. ASSUME NEW k \in 0..n, call' = Text!Asked("make_substr", Text!make_substr(m, a, a + k), SubSeq(x, 1, k), FALSE)
         PROVE  Text!TextIsHandled'
    <2>1. Text!make_substr(m, a, a + k) = SubSeq(x, 1, k)
      BY <1>1, <1>3, <1>8, SubstrIs
    <2> QED BY <1>12, <2>1, AskedRight
  <1>13. ASSUME NEW k \in 0..n,
                call' = Text!Asked("strn_to_lower", Text!strn_to_lower(m, a, k), SubSeq(m, 1, a) \o [i \in 1..k |-> Text!tolower(x[i])] \o SubSeq(m, a + k + 1, Size), FALSE)
         PROVE  Text!TextIsHandled'
    <2>1. Text!strn_to_lower(m, a, k) = SubSeq(m, 1, a) \o [i \in 1..k |-> Text!tolower(x[i])] \o SubSeq(m, a + k + 1, Size)
      <3>1. Memory(m) /\ a \in Text!Address
        BY <1>1
      <3>2. PICK e : e = SubSeq(m, 1, a) \o [i \in 1..k |-> Text!tolower(x[i])] \o SubSeq(m, a + k + 1, Size)
        OBVIOUS
      <3>3. Text!strn_to_lower(m, a, k) = e
        BY <1>3, <1>8, <3>1, <3>2, LowerIs, Zenon
      <3> QED BY <3>2, <3>3, Zenon
    <2> QED BY <1>13, <2>1, AskedRight
  <1>14. ASSUME NEW k \in 0..n, call' = Text!Asked("is_int_n", Text!is_int_n(m, a, k), Text!IsNumber(x, k), FALSE)
         PROVE  Text!TextIsHandled'
    <2>1. Text!is_int_n(m, a, k) <=> Text!IsNumber(x, k)
      BY <1>6, <1>8, NumberIs
    <2>2. Text!is_int_n(m, a, k) = Text!IsNumber(x, k)
      BY <2>1 DEF Text!is_int_n, Text!AllDigits, Text!IsNumber
    <2> QED BY <1>14, <2>2, AskedRight
  <1>15. ASSUME NEW begin,
                call' = Text!Asked("get_string_type", Text!get_string_type(m, a), Text!TypeOf(x, n),
                                   Text!TypeOf(x, n) \in {"double", "bool"} \/ Text!At(m, begin + n) = Text!Space),
                begin = Text!Skip(m, a, Text!Symbol \ {Text!Space})
         PROVE  Text!TextIsHandled'
    <2>1. Text!is_int(m, a) <=> Text!is_int_n(m, a, n)
      BY <1>3 DEF Text!is_int, Text!is_int_n
    <2>2. Text!is_int_n(m, a, n) <=> Text!IsNumber(x, n)
      <3>1. n \in 0..n
        BY <1>6
      <3> QED BY <1>6, <1>8, <3>1, NumberIs
    <2>3. PICK o : o = (Text!TypeOf(x, n) \in {"double", "bool"} \/ Text!At(m, begin + n) = Text!Space)
      OBVIOUS
    <2>4. ASSUME ~o PROVE Text!get_string_type(m, a) = Text!TypeOf(x, n)
      <3>1. ~Text!is_bool(m, a)
        BY <1>3, <1>15, <2>3, <2>4 DEF Text!is_bool, Text!is_whitespace
      <3>2. Text!get_string_type(m, a) = IF Text!IsNumber(x, n) THEN "int" ELSE "string"
        BY <2>1, <2>2, <3>1 DEF Text!get_string_type, Text!is_double
      <3>3. Text!TypeOf(x, n) \notin {"double", "bool"}
        BY <2>3, <2>4
      <3>4. Text!TypeOf(x, n) = IF Text!IsNumber(x, n) THEN "int" ELSE "string"
        BY <3>3 DEF Text!TypeOf
      <3> QED BY <3>2, <3>4
    <2> QED BY <1>15, <2>3, <2>4, AskedRight
  <1> QED BY <1>2, <1>3, <1>4, <1>9, <1>10, <1>11, <1>12, <1>13, <1>14, <1>15

-----------------------------------------------------------------------------
(* Comparisons.                                                            *)

(* The word at a as it is read, byte by byte, up to the n-th.              *)
Reading(m, a, n, f) ==
  /\ f = [k \in 0..n |-> IF k = 0 THEN 0 ELSE 10 * f[k - 1] + Text!At(m, a + Word - k)]
  /\ f \in [0..n -> Nat]

(* Its bytes are in the memory.                                            *)
WordIn(m, a) == \A k \in 1..Word : Text!At(m, a + Word - k) \in Nat

(* A word can be read.                                                     *)
LEMMA SomeReading ==
  ASSUME NEW m, NEW a, WordIn(m, a)
  PROVE  \E f : Reading(m, a, Word, f)
PROOF
  <1>1. Word \in Nat
    BY TextAssumption
  <1> DEFINE T == {n \in 0..Word : ~\E f : Reading(m, a, n, f)}
  <1>2. ASSUME T # {} PROVE FALSE
    <2>1. T \subseteq Nat
      BY <1>1
    <2> HIDE DEF T
    <2>2. PICK n \in T : \A l \in T : n <= l
      BY <1>2, <2>1, LeastOf
    <2>3. n \in 0..Word /\ ~\E f : Reading(m, a, n, f)
      BY <2>2 DEF T
    <2>4. CASE n = 0
      <3>1. PICK f : f = [k \in 0..0 |-> 0]
        OBVIOUS
      <3>2. Reading(m, a, 0, f)
        BY <3>1 DEF Reading
      <3> QED BY <2>3, <2>4, <3>2
    <2>5. CASE n # 0
      <3>1. PICK p : p = n - 1
        OBVIOUS
      <3>2. p \in Nat /\ p \in 0..Word /\ n = p + 1 /\ ~(n <= p) /\ n \in 1..Word
        BY <1>1, <2>3, <2>5, <3>1
      <3>3. PICK f : Reading(m, a, p, f)
        BY <2>2, <3>2 DEF T
      <3>4. PICK d : d = 10 * f[p] + Text!At(m, a + Word - n)
        OBVIOUS
      <3>5. d \in Nat
        <4>1. Text!At(m, a + Word - n) \in Nat
          BY <3>2 DEF WordIn
        <4>2. f[p] \in Nat
          BY <3>2, <3>3 DEF Reading
        <4> QED BY <3>4, <4>1, <4>2
      <3>6. PICK g : g = [k \in 0..n |-> IF k <= p THEN f[k] ELSE d]
        OBVIOUS
      <3>7. g \in [0..n -> Nat]
        BY <3>2, <3>3, <3>5, <3>6 DEF Reading
      <3>8. ASSUME NEW k \in 0..n PROVE g[k] = IF k = 0 THEN 0 ELSE 10 * g[k - 1] + Text!At(m, a + Word - k)
        <4>1. CASE k = n
          <5>1. g[k] = d /\ g[k - 1] = f[p] /\ k # 0 /\ k - 1 = p
            BY <3>2, <3>6, <4>1
          <5> QED BY <3>4, <4>1, <5>1
        <4>2. CASE k # n /\ k # 0
          <5>1. k \in 0..p /\ k - 1 \in 0..n /\ k <= p /\ k - 1 <= p
            BY <3>2, <4>2
          <5>2. g[k] = f[k] /\ g[k - 1] = f[k - 1]
            BY <3>6, <5>1
          <5>3. f[k] = 10 * f[k - 1] + Text!At(m, a + Word - k)
            BY <3>3, <4>2, <5>1 DEF Reading
          <5> QED BY <4>2, <5>2, <5>3
        <4>3. CASE k = 0
          <5>1. g[0] = f[0] /\ 0 \in 0..p
            BY <3>2, <3>6
          <5> QED BY <3>3, <4>3, <5>1 DEF Reading
        <4> QED BY <4>1, <4>2, <4>3
      <3>9. g = [k \in 0..n |-> IF k = 0 THEN 0 ELSE 10 * g[k - 1] + Text!At(m, a + Word - k)]
        <4>1. g = [k \in 0..n |-> g[k]]
          BY <3>6
        <4> QED BY <3>8, <4>1
      <3>10. Reading(m, a, n, g)
        BY <3>7, <3>9 DEF Reading
      <3> QED BY <2>3, <3>10
    <2> QED BY <2>4, <2>5
  <1>3. Word \in 0..Word
    BY <1>1
  <1> QED BY <1>2, <1>3

(* There is one reading, and WordAt is its result.                         *)
LEMMA WordIs ==
  ASSUME NEW m, NEW a, NEW g, Reading(m, a, Word, g)
  PROVE  Text!WordAt(m, a) = g[Word]
PROOF
  <1> DEFINE R(f) == f = [k \in 0..Word |-> IF k = 0 THEN 0 ELSE 10 * f[k - 1] + Text!At(m, a + Word - k)]
  <1>1. PICK w : w = CHOOSE f : R(f)
    OBVIOUS
  <1>2. R(g)
    BY DEF Reading
  <1>3. R(w)
    <2> HIDE DEF R
    <2> QED BY <1>1, <1>2
  <1>4. Text!WordAt(m, a) = w[Word]
    BY <1>1 DEF Text!WordAt
  <1>5. Word \in Nat
    BY TextAssumption
  <1> DEFINE T == {j \in 0..Word : w[j] # g[j]}
  <1>6. ASSUME T # {} PROVE FALSE
    <2>1. T \subseteq Nat
      BY <1>5
    <2> HIDE DEF T
    <2>2. PICK k \in T : \A l \in T : k <= l
      BY <1>6, <2>1, LeastOf
    <2>3. k \in 0..Word /\ w[k] # g[k]
      BY <2>2 DEF T
    <2>4. k # 0
      BY <1>2, <1>3, <2>3
    <2>5. k - 1 \in 0..Word /\ ~(k <= k - 1)
      BY <1>5, <2>3, <2>4
    <2>6. w[k - 1] = g[k - 1]
      BY <2>2, <2>5 DEF T
    <2>7. w[k] = 10 * w[k - 1] + Text!At(m, a + Word - k)
      BY <1>3, <2>3, <2>4
    <2>8. g[k] = 10 * g[k - 1] + Text!At(m, a + Word - k)
      BY <1>2, <2>3, <2>4
    <2> QED BY <2>3, <2>6, <2>7, <2>8
  <1>7. Word \in 0..Word
    BY <1>5
  <1> QED BY <1>4, <1>6, <1>7

(* Words are numbers.                                                      *)
LEMMA WordsAreNumbers ==
  ASSUME NEW m, NEW a, WordIn(m, a)
  PROVE  Text!WordAt(m, a) \in Nat
PROOF
  <1>1. PICK f : Reading(m, a, Word, f)
    BY SomeReading
  <1>2. Text!WordAt(m, a) = f[Word]
    BY <1>1, WordIs
  <1>3. Word \in 0..Word
    BY TextAssumption
  <1> QED BY <1>1, <1>2, <1>3 DEF Reading

(* Words of the same bytes are the same.                                   *)
LEMMA SameWords ==
  ASSUME NEW m, NEW a, NEW e, WordIn(m, a), \A k \in 1..Word : Text!At(m, a + Word - k) = Text!At(m, e + Word - k)
  PROVE  Text!WordAt(m, a) = Text!WordAt(m, e)
PROOF
  <1>1. PICK f : Reading(m, a, Word, f)
    BY SomeReading
  <1>2. Text!WordAt(m, a) = f[Word]
    BY <1>1, WordIs
  <1>3. ASSUME NEW k \in 0..Word PROVE f[k] = IF k = 0 THEN 0 ELSE 10 * f[k - 1] + Text!At(m, e + Word - k)
    <2>1. CASE k = 0
      BY <1>1, <2>1 DEF Reading
    <2>2. CASE k # 0
      <3>1. k \in 1..Word
        BY <2>2, TextAssumption
      <3>2. f[k] = 10 * f[k - 1] + Text!At(m, a + Word - k)
        BY <1>1, <2>2 DEF Reading
      <3> QED BY <2>2, <3>1, <3>2
    <2> QED BY <2>1, <2>2
  <1>4. f = [k \in 0..Word |-> f[k]] /\ f \in [0..Word -> Nat]
    BY <1>1 DEF Reading
  <1>5. Reading(m, e, Word, f)
    BY <1>3, <1>4 DEF Reading
  <1>6. Text!WordAt(m, e) = f[Word]
    BY <1>5, WordIs
  <1> QED BY <1>2, <1>6

(* The sign of a difference: nothing only for equals, and turned round     *)
(* with its arguments.                                                     *)
LEMMA SignIs ==
  ASSUME NEW x \in Int, NEW y \in Int
  PROVE  /\ Text!Sign(x, y) \in Int
         /\ Text!Sign(x, y) = 0 <=> x = y
         /\ Text!Sign(x, y) = -Text!Sign(y, x)
PROOF
  BY DEF Text!Sign

(* Where two texts differ, by words and by bytes.                          *)
OtherWords(m, a1, a2, n) ==
  {w \in 0..Size : (w + 1) * Word < n /\ Text!WordAt(m, a1 + w * Word) # Text!WordAt(m, a2 + w * Word)}
OtherBytes(m, a1, a2, n) == {k \in 0..(n - 1) : Text!At(m, a1 + k) # Text!At(m, a2 + k)}

(* Equal texts have one length and no different byte; alike are those for  *)
(* which that holds of small letters.                                      *)
Equal(m, a1, n1, a2, n2) == n1 = n2 /\ OtherBytes(m, a1, a2, n1) = {}
Alike(m, a1, n1, a2, n2) ==
  n1 = n2 /\ \A k \in 0..(n1 - 1) : Text!tolower(Text!At(m, a1 + k)) = Text!tolower(Text!At(m, a2 + k))

(* A text of n bytes lies in the memory.                                   *)
Lies(m, a, n) == m \in [1..Size -> Text!Symbol] /\ a \in Nat /\ n \in Nat /\ a + n < Size

(* Its bytes are numbers.                                                  *)
LEMMA ByteIn ==
  ASSUME NEW m, NEW a, NEW n, Lies(m, a, n), NEW k \in 0..(n - 1)
  PROVE  Text!At(m, a + k) \in Nat
PROOF
  <1>1. a + k + 1 \in 1..Size
    BY TextAssumption DEF Lies
  <1>2. \A d \in Text!Symbol : d \in Nat
    BY DEF Text!Symbol, Text!NUL, Text!Space, Text!Digit, Text!LowerA, Text!UpperA, Text!Dot
  <1> QED BY <1>1, <1>2 DEF Lies, Text!At

(* The offsets of the bytes of a word that is compared.                    *)
LEMMA WordOffset ==
  ASSUME NEW w \in Nat, NEW n \in Nat, (w + 1) * Word < n, NEW o, o = w * Word
  PROVE  o \in Nat /\ \A k \in 1..Word : o + Word - k \in 0..(n - 1)
PROOF
  <1>1. Word \in Nat
    BY TextAssumption
  <1>2. o \in Nat /\ (w + 1) * Word = o + Word
    BY <1>1
  <1> QED BY <1>1, <1>2

(* Its bytes are in the memory.                                            *)
LEMMA WordBytes ==
  ASSUME NEW m, NEW a, NEW n, Lies(m, a, n), NEW w \in Nat, (w + 1) * Word < n, NEW o, o = w * Word
  PROVE  WordIn(m, a + o)
PROOF
  <1>1. n \in Nat /\ a \in Nat /\ Word \in Nat
    BY TextAssumption DEF Lies
  <1>2. o \in Nat /\ \A k \in 1..Word : o + Word - k \in 0..(n - 1)
    BY <1>1, WordOffset
  <1>3. ASSUME NEW k \in 1..Word PROVE Text!At(m, (a + o) + Word - k) \in Nat
    <2>1. PICK j : j = o + Word - k
      OBVIOUS
    <2>2. j \in 0..(n - 1) /\ (a + o) + Word - k = a + j
      BY <1>1, <1>2, <2>1
    <2>3. Text!At(m, a + j) \in Nat
      BY <2>2, ByteIn
    <2> QED BY <2>2, <2>3
  <1> QED BY <1>3 DEF WordIn

(* Texts without a different byte have no different word.                  *)
LEMMA SameBytes ==
  ASSUME NEW m, NEW a1, NEW a2, NEW n, Lies(m, a1, n), Lies(m, a2, n), OtherBytes(m, a1, a2, n) = {}
  PROVE  OtherWords(m, a1, a2, n) = {}
PROOF
  <1>1. n \in Nat /\ a1 \in Nat /\ a2 \in Nat /\ Word \in Nat /\ Size \in Nat
    BY TextAssumption DEF Lies
  <1>2. ASSUME NEW w \in 0..Size, (w + 1) * Word < n PROVE Text!WordAt(m, a1 + w * Word) = Text!WordAt(m, a2 + w * Word)
    <2>1. PICK o : o = w * Word
      OBVIOUS
    <2>2. w \in Nat
      BY <1>1
    <2>3. o \in Nat /\ \A k \in 1..Word : o + Word - k \in 0..(n - 1)
      BY <1>1, <1>2, <2>1, <2>2, WordOffset
    <2>4. WordIn(m, a1 + o)
      BY <1>2, <2>1, <2>2, WordBytes
    <2>5. ASSUME NEW k \in 1..Word PROVE Text!At(m, (a1 + o) + Word - k) = Text!At(m, (a2 + o) + Word - k)
      <3>1. PICK j : j = o + Word - k
        OBVIOUS
      <3>2. j \in 0..(n - 1) /\ (a1 + o) + Word - k = a1 + j /\ (a2 + o) + Word - k = a2 + j
        BY <1>1, <2>3, <3>1
      <3>3. Text!At(m, a1 + j) = Text!At(m, a2 + j)
        BY <3>2 DEF OtherBytes
      <3> QED BY <3>2, <3>3
    <2>6. Text!WordAt(m, a1 + o) = Text!WordAt(m, a2 + o)
      BY <2>4, <2>5, SameWords
    <2> QED BY <2>1, <2>6
  <1> QED BY <1>2 DEF OtherWords

(* What a comparison of texts answers.                                     *)
Matches(m, a1, n1, a2, n2, x) ==
  /\ x \in Int
  /\ x = 0 <=> n1 = n2 /\ OtherBytes(m, a1, a2, n1) = {}
  /\ Text!str_match(m, a2, n2, a1, n1) = -x

(* str_match answers so.                                                   *)
LEMMA MatchIs ==
  ASSUME NEW m, NEW a1, NEW a2, NEW n1, NEW n2, Lies(m, a1, n1), Lies(m, a2, n2)
  PROVE  Matches(m, a1, n1, a2, n2, Text!str_match(m, a1, n1, a2, n2))
PROOF
  <1>1. n1 \in Nat /\ n2 \in Nat /\ n1 \in Int /\ n2 \in Int /\ Size \in Nat
    BY TextAssumption DEF Lies
  <1>2. PICK x : x = Text!str_match(m, a1, n1, a2, n2)
    OBVIOUS
  <1>3. PICK y : y = Text!str_match(m, a2, n2, a1, n1)
    OBVIOUS
  <1>4. CASE n1 # n2
    <2>1. x = Text!Sign(n1, n2) /\ y = Text!Sign(n2, n1)
      BY <1>2, <1>3, <1>4 DEF Text!str_match
    <2>2. Text!Sign(n1, n2) \in Int /\ (Text!Sign(n1, n2) = 0 <=> n1 = n2) /\ Text!Sign(n2, n1) = -Text!Sign(n1, n2)
      BY <1>1, SignIs
    <2> QED BY <1>2, <1>3, <1>4, <2>1, <2>2 DEF Matches
  <1>5. CASE n1 = n2
    <2>1. PICK n : n = n1
      OBVIOUS
    <2>2. Lies(m, a1, n) /\ Lies(m, a2, n) /\ n \in Nat
      BY <1>1, <1>5, <2>1
    <2>3. PICK T : T = OtherWords(m, a1, a2, n)
      OBVIOUS
    <2>4. PICK U : U = OtherBytes(m, a1, a2, n)
      OBVIOUS
    <2>5. T = OtherWords(m, a2, a1, n) /\ U = OtherBytes(m, a2, a1, n)
      BY <2>3, <2>4 DEF OtherWords, OtherBytes
    <2>6. x = IF T # {} THEN Text!Sign(Text!WordAt(m, a1 + Text!MinOf(T) * Word), Text!WordAt(m, a2 + Text!MinOf(T) * Word))
              ELSE IF U # {} THEN Text!Sign(Text!At(m, a1 + Text!MinOf(U)), Text!At(m, a2 + Text!MinOf(U)))
              ELSE 0
      BY <1>2, <1>5, <2>1, <2>3, <2>4 DEF Text!str_match, OtherWords, OtherBytes
    <2>7. y = IF T # {} THEN Text!Sign(Text!WordAt(m, a2 + Text!MinOf(T) * Word), Text!WordAt(m, a1 + Text!MinOf(T) * Word))
              ELSE IF U # {} THEN Text!Sign(Text!At(m, a2 + Text!MinOf(U)), Text!At(m, a1 + Text!MinOf(U)))
              ELSE 0
      BY <1>3, <1>5, <2>1, <2>5 DEF Text!str_match, OtherWords, OtherBytes
    <2>8. CASE T # {}
      <3>1. T \subseteq Nat
        BY <1>1, <2>3 DEF OtherWords
      <3>2. PICK w : w = Text!MinOf(T)
        OBVIOUS
      <3>3. w \in T
        BY <2>8, <3>1, <3>2, MinOfIs
      <3>4. w \in Nat /\ (w + 1) * Word < n /\ Text!WordAt(m, a1 + w * Word) # Text!WordAt(m, a2 + w * Word)
        BY <2>3, <3>1, <3>3 DEF OtherWords
      <3>5. PICK o : o = w * Word
        OBVIOUS
      <3>6. WordIn(m, a1 + o) /\ WordIn(m, a2 + o)
        BY <2>2, <3>4, <3>5, WordBytes
      <3>7. PICK p : p = Text!WordAt(m, a1 + o)
        OBVIOUS
      <3>8. PICK q : q = Text!WordAt(m, a2 + o)
        OBVIOUS
      <3>9. p \in Int /\ q \in Int /\ p # q
        <4>1. Text!WordAt(m, a1 + o) \in Nat
          BY <3>6, WordsAreNumbers
        <4>2. Text!WordAt(m, a2 + o) \in Nat
          BY <3>6, WordsAreNumbers
        <4> QED BY <3>4, <3>5, <3>7, <3>8, <4>1, <4>2
      <3>10. x = Text!Sign(p, q) /\ y = Text!Sign(q, p)
        BY <2>6, <2>7, <2>8, <3>2, <3>5, <3>7, <3>8
      <3>11. Text!Sign(p, q) \in Int /\ (Text!Sign(p, q) = 0 <=> p = q) /\ Text!Sign(q, p) = -Text!Sign(p, q)
        BY <3>9, SignIs
      <3>12. OtherBytes(m, a1, a2, n) # {}
        BY <2>2, <2>3, <2>8, SameBytes
      <3> QED BY <1>2, <1>3, <2>1, <3>9, <3>10, <3>11, <3>12 DEF Matches
    <2>9. CASE T = {} /\ U # {}
      <3>1. U \subseteq Nat
        BY <2>2, <2>4 DEF OtherBytes
      <3>2. PICK k : k = Text!MinOf(U)
        OBVIOUS
      <3>3. k \in U
        BY <2>9, <3>1, <3>2, MinOfIs
      <3>4. k \in 0..(n - 1) /\ Text!At(m, a1 + k) # Text!At(m, a2 + k)
        BY <2>4, <3>3 DEF OtherBytes
      <3>5. PICK p : p = Text!At(m, a1 + k)
        OBVIOUS
      <3>6. PICK q : q = Text!At(m, a2 + k)
        OBVIOUS
      <3>7. p \in Int /\ q \in Int /\ p # q
        <4>1. Text!At(m, a1 + k) \in Nat
          BY <2>2, <3>4, ByteIn
        <4>2. Text!At(m, a2 + k) \in Nat
          BY <2>2, <3>4, ByteIn
        <4> QED BY <3>4, <3>5, <3>6, <4>1, <4>2
      <3>8. x = Text!Sign(p, q) /\ y = Text!Sign(q, p)
        BY <2>6, <2>7, <2>9, <3>2, <3>5, <3>6
      <3>9. Text!Sign(p, q) \in Int /\ (Text!Sign(p, q) = 0 <=> p = q) /\ Text!Sign(q, p) = -Text!Sign(p, q)
        BY <3>7, SignIs
      <3> QED BY <1>2, <1>3, <2>1, <2>4, <2>9, <3>7, <3>8, <3>9 DEF Matches
    <2>10. CASE T = {} /\ U = {}
      <3>1. x = 0 /\ y = 0
        BY <2>6, <2>7, <2>10
      <3>2. Text!Sign(0, 0) = 0 /\ Text!Sign(0, 0) = -Text!Sign(0, 0)
        BY SignIs
      <3>3. y = -x
        BY <3>1, <3>2, Zenon
      <3>4. x \in Int /\ (x = 0 <=> n1 = n2 /\ OtherBytes(m, a1, a2, n1) = {})
        BY <1>5, <2>1, <2>4, <2>10, <3>1
      <3>5. Matches(m, a1, n1, a2, n2, x)
        BY <1>3, <3>3, <3>4, Zenon DEF Matches
      <3> QED BY <1>2, <3>5
    <2> QED BY <2>8, <2>9, <2>10
  <1> QED BY <1>4, <1>5

(* The texts that are compared are the bytes.                              *)
LEMMA EqualTexts ==
  ASSUME NEW m, NEW a1, NEW a2, NEW n1, NEW n2, Lies(m, a1, n1), Lies(m, a2, n2),
         NEW x1, x1 = Text!Bytes(m, a1, n1), NEW x2, x2 = Text!Bytes(m, a2, n2)
  PROVE  /\ x1 = x2 <=> Equal(m, a1, n1, a2, n2)
         /\ Text!Small(x1) = Text!Small(x2) <=> Alike(m, a1, n1, a2, n2)
PROOF
  <1>1. n1 \in Nat /\ n2 \in Nat /\ a1 \in Nat /\ a2 \in Nat /\ a1 + n1 <= Size /\ a2 + n2 <= Size
    BY TextAssumption DEF Lies
  <1>2. StringIs(m, a1, n1, x1)
    BY <1>1, BytesAre DEF Lies
  <1>3. StringIs(m, a2, n2, x2)
    BY <1>1, BytesAre DEF Lies
  <1>4. x1 = [i \in 1..n1 |-> x1[i]] /\ x2 = [i \in 1..n2 |-> x2[i]] /\ Len(x1) = n1 /\ Len(x2) = n2 /\ DOMAIN x1 = 1..n1 /\ DOMAIN x2 = 1..n2
    BY <1>1, <1>2, <1>3 DEF StringIs
  <1>5. ASSUME NEW i \in 1..n1 PROVE i - 1 \in 0..(n1 - 1) /\ x1[i] = Text!At(m, a1 + (i - 1))
    <2>1. i - 1 \in 0..(n1 - 1) /\ a1 + (i - 1) + 1 = a1 + i
      BY <1>1
    <2> QED BY <1>2, <2>1 DEF StringIs, Text!At
  <1>6. ASSUME NEW i \in 1..n2 PROVE i - 1 \in 0..(n2 - 1) /\ x2[i] = Text!At(m, a2 + (i - 1))
    <2>1. i - 1 \in 0..(n2 - 1) /\ a2 + (i - 1) + 1 = a2 + i
      BY <1>1
    <2> QED BY <1>3, <2>1 DEF StringIs, Text!At
  <1>7. ASSUME NEW k \in 0..(n1 - 1), n1 = n2
        PROVE  k + 1 \in 1..n1 /\ Text!At(m, a1 + k) = x1[k + 1] /\ Text!At(m, a2 + k) = x2[k + 1]
    <2>1. k + 1 \in 1..n1 /\ k + 1 \in 1..n2 /\ (k + 1) - 1 = k
      BY <1>1, <1>7
    <2> QED BY <1>5, <1>6, <2>1
  <1>8. ASSUME n1 = n2, OtherBytes(m, a1, a2, n1) = {} PROVE x1 = x2
    <2>1. ASSUME NEW i \in 1..n1 PROVE x1[i] = x2[i]
      <3>1. i - 1 \in 0..(n1 - 1) /\ x1[i] = Text!At(m, a1 + (i - 1)) /\ x2[i] = Text!At(m, a2 + (i - 1))
        BY <1>5, <1>6, <1>8
      <3> QED BY <1>8, <3>1 DEF OtherBytes
    <2> QED BY <1>4, <1>8, <2>1
  <1>9. ASSUME x1 = x2 PROVE n1 = n2 /\ OtherBytes(m, a1, a2, n1) = {}
    <2>1. n1 = n2
      BY <1>4, <1>9
    <2>2. ASSUME NEW k \in 0..(n1 - 1) PROVE Text!At(m, a1 + k) = Text!At(m, a2 + k)
      BY <1>7, <1>9, <2>1
    <2> QED BY <2>1, <2>2 DEF OtherBytes
  <1>10. Text!Small(x1) = [i \in 1..n1 |-> Text!tolower(x1[i])] /\ Text!Small(x2) = [i \in 1..n2 |-> Text!tolower(x2[i])]
    BY <1>4 DEF Text!Small
  <1>11. ASSUME n1 = n2, \A k \in 0..(n1 - 1) : Text!tolower(Text!At(m, a1 + k)) = Text!tolower(Text!At(m, a2 + k))
         PROVE  Text!Small(x1) = Text!Small(x2)
    <2>1. ASSUME NEW i \in 1..n1 PROVE Text!tolower(x1[i]) = Text!tolower(x2[i])
      <3>1. i - 1 \in 0..(n1 - 1) /\ x1[i] = Text!At(m, a1 + (i - 1)) /\ x2[i] = Text!At(m, a2 + (i - 1))
        BY <1>5, <1>6, <1>11
      <3> QED BY <1>11, <3>1
    <2> QED BY <1>10, <1>11, <2>1
  <1>12. ASSUME Text!Small(x1) = Text!Small(x2)
         PROVE  n1 = n2 /\ \A k \in 0..(n1 - 1) : Text!tolower(Text!At(m, a1 + k)) = Text!tolower(Text!At(m, a2 + k))
    <2>1. 1..n1 = 1..n2
      BY <1>10, <1>12
    <2>2. n1 = n2
      BY <1>1, <2>1
    <2>3. ASSUME NEW k \in 0..(n1 - 1) PROVE Text!tolower(Text!At(m, a1 + k)) = Text!tolower(Text!At(m, a2 + k))
      <3>1. k + 1 \in 1..n1 /\ Text!At(m, a1 + k) = x1[k + 1] /\ Text!At(m, a2 + k) = x2[k + 1]
        BY <1>7, <2>2
      <3>2. Text!Small(x1)[k + 1] = Text!tolower(x1[k + 1]) /\ Text!Small(x2)[k + 1] = Text!tolower(x2[k + 1])
        BY <1>10, <2>2, <3>1
      <3> QED BY <1>12, <3>1, <3>2
    <2> QED BY <2>2, <2>3
  <1> QED BY <1>8, <1>9, <1>11, <1>12 DEF Equal, Alike

(* Where a comparison of small letters stops, and the texts it is blind    *)
(* for.                                                                    *)
CaseStops(m, a1, a2, n) == {k \in 0..(n - 1) : Text!Differ(m, a1, a2, k) \/ Text!BothEnd(m, a1, a2, k)}
Blind(m, a1, n1, a2, n2) == n1 = n2 /\ \E k \in 0..(n1 - 1) : Text!BothEnd(m, a1, a2, k)

(* What a comparison of small letters answers.                             *)
CaseMatches(m, a1, n1, a2, n2, x) ==
  /\ x \in Int
  /\ ~Blind(m, a1, n1, a2, n2) => (x = 0 <=> Alike(m, a1, n1, a2, n2))
  /\ Text!str_match_no_case(m, a2, n2, a1, n1) = -x

(* A small letter is a number.                                             *)
LEMMA LowerIn ==
  ASSUME NEW c \in Nat
  PROVE  Text!tolower(c) \in Int
PROOF
  BY DEF Text!tolower, Text!LowerA

(* str_match_no_case answers so.                                           *)
LEMMA NoCaseIs ==
  ASSUME NEW m, NEW a1, NEW a2, NEW n1, NEW n2, Lies(m, a1, n1), Lies(m, a2, n2)
  PROVE  CaseMatches(m, a1, n1, a2, n2, Text!str_match_no_case(m, a1, n1, a2, n2))
PROOF
  <1>1. n1 \in Nat /\ n2 \in Nat /\ n1 \in Int /\ n2 \in Int
    BY DEF Lies
  <1>2. PICK x : x = Text!str_match_no_case(m, a1, n1, a2, n2)
    OBVIOUS
  <1>3. PICK y : y = Text!str_match_no_case(m, a2, n2, a1, n1)
    OBVIOUS
  <1>4. CASE n1 # n2
    <2>1. x = Text!Sign(n1, n2) /\ y = Text!Sign(n2, n1)
      BY <1>2, <1>3, <1>4 DEF Text!str_match_no_case
    <2>2. Text!Sign(n1, n2) \in Int /\ (Text!Sign(n1, n2) = 0 <=> n1 = n2) /\ Text!Sign(n2, n1) = -Text!Sign(n1, n2)
      BY <1>1, SignIs
    <2> QED BY <1>2, <1>3, <1>4, <2>1, <2>2 DEF CaseMatches, Alike
  <1>5. CASE n1 = n2
    <2>1. PICK n : n = n1
      OBVIOUS
    <2>2. Lies(m, a1, n) /\ Lies(m, a2, n) /\ n \in Nat
      BY <1>1, <1>5, <2>1
    <2>3. PICK U : U = CaseStops(m, a1, a2, n)
      OBVIOUS
    <2>4. U = CaseStops(m, a2, a1, n)
      BY <2>3 DEF CaseStops, Text!Differ, Text!BothEnd
    <2>5. x = IF U = {} THEN 0 ELSE Text!Sign(Text!tolower(Text!At(m, a1 + Text!MinOf(U))), Text!tolower(Text!At(m, a2 + Text!MinOf(U))))
      BY <1>2, <1>5, <2>1, <2>3 DEF Text!str_match_no_case, CaseStops
    <2>6. y = IF U = {} THEN 0 ELSE Text!Sign(Text!tolower(Text!At(m, a2 + Text!MinOf(U))), Text!tolower(Text!At(m, a1 + Text!MinOf(U))))
      BY <1>3, <1>5, <2>1, <2>4 DEF Text!str_match_no_case, CaseStops
    <2>7. CASE U # {}
      <3>1. U \subseteq Nat
        BY <2>2, <2>3 DEF CaseStops
      <3>2. PICK k : k = Text!MinOf(U)
        OBVIOUS
      <3>3. k \in U
        BY <2>7, <3>1, <3>2, MinOfIs
      <3>4. k \in 0..(n - 1) /\ (Text!Differ(m, a1, a2, k) \/ Text!BothEnd(m, a1, a2, k))
        BY <2>3, <3>3 DEF CaseStops
      <3>5. PICK p : p = Text!tolower(Text!At(m, a1 + k))
        OBVIOUS
      <3>6. PICK q : q = Text!tolower(Text!At(m, a2 + k))
        OBVIOUS
      <3>7. p \in Int /\ q \in Int
        <4>1. Text!At(m, a1 + k) \in Nat
          BY <2>2, <3>4, ByteIn
        <4>2. Text!At(m, a2 + k) \in Nat
          BY <2>2, <3>4, ByteIn
        <4> QED BY <3>5, <3>6, <4>1, <4>2, LowerIn
      <3>8. x = Text!Sign(p, q) /\ y = Text!Sign(q, p)
        BY <2>5, <2>6, <2>7, <3>2, <3>5, <3>6
      <3>9. Text!Sign(p, q) \in Int /\ (Text!Sign(p, q) = 0 <=> p = q) /\ Text!Sign(q, p) = -Text!Sign(p, q)
        BY <3>7, SignIs
      <3>10. ASSUME ~Blind(m, a1, n1, a2, n2) PROVE p # q /\ ~Alike(m, a1, n1, a2, n2)
        <4>1. Text!Differ(m, a1, a2, k)
          BY <1>5, <2>1, <3>4, <3>10 DEF Blind
        <4>2. p # q
          BY <3>5, <3>6, <4>1 DEF Text!Differ
        <4> QED BY <2>1, <3>4, <3>5, <3>6, <4>2 DEF Alike
      <3> QED BY <1>2, <1>3, <3>8, <3>9, <3>10 DEF CaseMatches
    <2>8. CASE U = {}
      <3>1. x = 0 /\ y = 0
        BY <2>5, <2>6, <2>8
      <3>2. Text!Sign(0, 0) = 0 /\ Text!Sign(0, 0) = -Text!Sign(0, 0)
        BY SignIs
      <3>3. y = -x
        BY <3>1, <3>2, Zenon
      <3>4. Alike(m, a1, n1, a2, n2)
        BY <1>5, <2>1, <2>3, <2>8 DEF CaseStops, Alike, Text!Differ
      <3>5. x \in Int
        BY <3>1
      <3>6. CaseMatches(m, a1, n1, a2, n2, x)
        BY <1>3, <3>1, <3>3, <3>4, <3>5, Zenon DEF CaseMatches
      <3> QED BY <1>2, <3>6
    <2> QED BY <2>7, <2>8
  <1> QED BY <1>4, <1>5

(* Every comparison of the run answers what it is asked.                   *)
LEMMA CompareHandles ==
  ASSUME Memory(mem), Text!Compare, mem' = mem
  PROVE  Text!TextIsHandled'
PROOF
  <1>1. PICK a1 \in Text!Address, a2 \in Text!Address, n1 \in 1..(Size - 1), n2 \in 1..(Size - 1) :
          /\ a1 + n1 < Size /\ a2 + n2 < Size
          /\ LET x1 == Text!Bytes(mem, a1, n1)
                 x2 == Text!Bytes(mem, a2, n2)
                 r == Text!str_match(mem, a1, n1, a2, n2)
                 q == Text!str_match_no_case(mem, a1, n1, a2, n2)
             IN \/ call' = Text!Asked("str_match", <<r = 0, r>>, <<x1 = x2, -Text!str_match(mem, a2, n2, a1, n1)>>, FALSE)
                \/ call' = Text!Asked("str_match_no_case", <<q = 0, q>>,
                                      <<Text!Small(x1) = Text!Small(x2), -Text!str_match_no_case(mem, a2, n2, a1, n1)>>,
                                      n1 = n2 /\ \E k \in 0..(n1 - 1) : Text!BothEnd(mem, a1, a2, k))
    BY Zenon DEF Text!Compare
  <1>2. PICK m : m = mem
    OBVIOUS
  <1>3. Lies(m, a1, n1) /\ Lies(m, a2, n2) /\ n1 \in Nat /\ n2 \in Nat
    BY <1>1, <1>2, TextAssumption DEF Lies, Memory, Text!Address
  <1>4. PICK x1 : x1 = Text!Bytes(mem, a1, n1)
    OBVIOUS
  <1>5. PICK x2 : x2 = Text!Bytes(mem, a2, n2)
    OBVIOUS
  <1>6. /\ x1 = x2 <=> Equal(m, a1, n1, a2, n2)
        /\ Text!Small(x1) = Text!Small(x2) <=> Alike(m, a1, n1, a2, n2)
    BY <1>2, <1>3, <1>4, <1>5, EqualTexts
  <1>7. ASSUME NEW x, x = Text!str_match(mem, a1, n1, a2, n2), NEW y, y = Text!str_match(mem, a2, n2, a1, n1),
               call' = Text!Asked("str_match", <<x = 0, x>>, <<x1 = x2, -y>>, FALSE)
        PROVE  Text!TextIsHandled'
    <2>1. Matches(m, a1, n1, a2, n2, x)
      BY <1>2, <1>3, <1>7, MatchIs
    <2>2. x \in Int /\ y = -x /\ (x = 0 <=> x1 = x2)
      BY <1>2, <1>6, <1>7, <2>1 DEF Matches, Equal
    <2>3. x = -y
      BY <2>2
    <2>4. (x = 0) = (x1 = x2)
      BY <2>2
    <2>5. <<x = 0, x>> = <<x1 = x2, -y>>
      BY <2>3, <2>4
    <2> QED BY <1>7, <2>5, AskedRight
  <1>8. ASSUME NEW x, x = Text!str_match_no_case(mem, a1, n1, a2, n2), NEW y, y = Text!str_match_no_case(mem, a2, n2, a1, n1),
               NEW o, o = (n1 = n2 /\ \E k \in 0..(n1 - 1) : Text!BothEnd(mem, a1, a2, k)),
               call' = Text!Asked("str_match_no_case", <<x = 0, x>>, <<Text!Small(x1) = Text!Small(x2), -y>>, o)
        PROVE  Text!TextIsHandled'
    <2>1. CaseMatches(m, a1, n1, a2, n2, x)
      BY <1>2, <1>3, <1>8, NoCaseIs
    <2>2. ASSUME ~o PROVE <<x = 0, x>> = <<Text!Small(x1) = Text!Small(x2), -y>>
      <3>1. ~Blind(m, a1, n1, a2, n2)
        BY <1>2, <1>8, <2>2 DEF Blind
      <3>2. x \in Int /\ y = -x /\ (x = 0 <=> Text!Small(x1) = Text!Small(x2))
        <4>1. x = 0 <=> Alike(m, a1, n1, a2, n2)
          BY <2>1, <3>1, Zenon DEF CaseMatches
        <4>2. x \in Int /\ Text!str_match_no_case(m, a2, n2, a1, n1) = -x
          BY <2>1, Zenon DEF CaseMatches
        <4>3. y = Text!str_match_no_case(m, a2, n2, a1, n1)
          BY <1>2, <1>8, Zenon
        <4> QED BY <1>6, <4>1, <4>2, <4>3, Zenon
      <3>3. x = -y
        BY <3>2
      <3>4. (x = 0) = (Text!Small(x1) = Text!Small(x2))
        BY <3>2
      <3> QED BY <3>3, <3>4
    <2> QED BY <1>8, <2>2, AskedRight
  <1>9. PICK r : r = Text!str_match(mem, a1, n1, a2, n2)
    OBVIOUS
  <1>10. PICK q : q = Text!str_match_no_case(mem, a1, n1, a2, n2)
    OBVIOUS
  <1>11. \/ call' = Text!Asked("str_match", <<r = 0, r>>, <<x1 = x2, -Text!str_match(mem, a2, n2, a1, n1)>>, FALSE)
         \/ call' = Text!Asked("str_match_no_case", <<q = 0, q>>,
                               <<Text!Small(x1) = Text!Small(x2), -Text!str_match_no_case(mem, a2, n2, a1, n1)>>,
                               n1 = n2 /\ \E k \in 0..(n1 - 1) : Text!BothEnd(mem, a1, a2, k))
    BY <1>1, <1>4, <1>5, <1>9, <1>10, Zenon
  <1>12. CASE call' = Text!Asked("str_match", <<r = 0, r>>, <<x1 = x2, -Text!str_match(mem, a2, n2, a1, n1)>>, FALSE)
    BY <1>7, <1>9, <1>12, Zenon
  <1>13. CASE call' = Text!Asked("str_match_no_case", <<q = 0, q>>,
                               <<Text!Small(x1) = Text!Small(x2), -Text!str_match_no_case(mem, a2, n2, a1, n1)>>,
                               n1 = n2 /\ \E k \in 0..(n1 - 1) : Text!BothEnd(mem, a1, a2, k))
    BY <1>8, <1>10, <1>13, Zenon
  <1> QED BY <1>11, <1>12, <1>13, Zenon

-----------------------------------------------------------------------------
(* Trimming.                                                               *)

(* The least of two integers.                                              *)
LEMMA LeastOfTwo ==
  ASSUME NEW x \in Int, NEW y \in Int
  PROVE  Text!MinOf({x, y}) = IF x <= y THEN x ELSE y
PROOF
  <1> DEFINE P(k) == \A l \in {x, y} : k <= l
  <1>1. PICK w : w = IF x <= y THEN x ELSE y
    OBVIOUS
  <1>2. w \in {x, y} /\ P(w)
    BY <1>1
  <1>3. ASSUME NEW k \in {x, y}, P(k) PROVE k = w
    BY <1>1, <1>2, <1>3
  <1>4. Text!MinOf({x, y}) = CHOOSE k \in {x, y} : P(k)
    BY DEF Text!MinOf
  <1> HIDE DEF P
  <1>5. (CHOOSE k \in {x, y} : P(k)) \in {x, y} /\ P(CHOOSE k \in {x, y} : P(k))
    BY <1>2
  <1> QED BY <1>1, <1>3, <1>4, <1>5

(* The greatest of one number.                                             *)
LEMMA GreatestOfOne ==
  ASSUME NEW x \in Int
  PROVE  Text!MaxOf({x}) = x
PROOF
  <1> DEFINE P(k) == \A l \in {x} : l <= k
  <1>1. P(x)
    OBVIOUS
  <1>2. Text!MaxOf({x}) = CHOOSE k \in {x} : P(k)
    BY DEF Text!MaxOf
  <1> HIDE DEF P
  <1>3. (CHOOSE k \in {x} : P(k)) \in {x}
    BY <1>1
  <1> QED BY <1>2, <1>3

(* Every trim of the run cuts at both ends what it was given, and no more. *)
LEMMA TrimHandles ==
  ASSUME Memory(mem), Text!Trim, mem' = mem
  PROVE  Text!TextIsHandled'
PROOF
  <1>1. PICK m : m = mem
    OBVIOUS
  <1>2. PICK u \in 0..Size, e \in 0..Size, C \in SUBSET {Text!Space, Text!LowerA} :
          /\ u <= e
          /\ call' = [kind |-> "trim", chars |-> C, before |-> Text!StrRef_init(u, e),
                      after |-> Text!StrParser_trim(m, Text!StrParser_init(u, e), C)]
    BY <1>1 DEF Text!Trim
  <1>3. u \in Nat /\ e \in Nat /\ Size \in Nat
    BY TextAssumption
  <1>4. PICK P : P = Text!StrParser_init(u, e)
    OBVIOUS
  <1>5. P = [str |-> [begin |-> u, end |-> e], it |-> [begin |-> Text!NULL, end |-> u]]
    BY <1>4 DEF Text!StrParser_init, Text!StrParser_reset, Text!StrRef_init
  <1>6. P.str.begin = u /\ P.str.end = e
    BY <1>5
  <1>7. PICK T : T = {e} \cup {a \in u..(e - 1) : Text!At(m, a) \notin C}
    OBVIOUS
  <1>8. PICK x : x = Text!MinOf(T)
    OBVIOUS
  <1>9. x \in T /\ \A l \in T : x <= l
    <2>1. T \subseteq Nat /\ T # {}
      BY <1>3, <1>7
    <2> QED BY <1>8, <2>1, MinOfIs
  <1>10. x \in Nat /\ u <= x /\ x <= e
    BY <1>2, <1>3, <1>7, <1>9
  <1>11. ASSUME NEW a \in u..(x - 1) PROVE Text!At(m, a) \in C
    <2>1. a \notin T /\ a \in u..(e - 1)
      BY <1>3, <1>9, <1>10
    <2> QED BY <1>7, <2>1
  <1>12. PICK low : low = Text!MinOf({x, e - 1})
    OBVIOUS
  <1>13. PICK U : U = {low} \cup {a \in (x + 1)..(e - 1) : Text!At(m, a) \notin C}
    OBVIOUS
  <1>14. PICK z : z = Text!MaxOf(U)
    OBVIOUS
  <1>15. PICK Q : Q = Text!StrParser_trim(m, P, C)
    OBVIOUS
  <1>16. Q = Text!StrParser_reset([P EXCEPT !.str = Text!StrRef_init(x, z + 1)])
    BY <1>6, <1>7, <1>8, <1>12, <1>13, <1>14, <1>15 DEF Text!StrParser_trim
  <1>17. Q.str.begin = x /\ Q.str.end = z + 1 /\ Q.it = Text!StrRef_init(Text!NULL, x)
    BY <1>5, <1>16 DEF Text!StrParser_reset, Text!StrRef_init
  <1>18. ASSUME z \in Int, x <= z + 1, z + 1 <= e, \A a \in (z + 1)..(e - 1) : Text!At(m, a) \in C,
                x < z + 1 => Text!At(m, x) \notin C /\ Text!At(m, z) \notin C
         PROVE  Text!TextIsHandled'
    <2>1. call'.kind = "trim" /\ call'.chars = C /\ call'.before.begin = u /\ call'.before.end = e /\ call'.after = Q
      BY <1>2, <1>4, <1>15 DEF Text!StrRef_init
    <2>2. PICK v : v = z + 1
      OBVIOUS
    <2>3. v \in Int /\ v - 1 = z /\ x <= v /\ v <= e
      BY <1>18, <2>2
    <2>4. \A a \in (u..(x - 1)) \cup (v..(e - 1)) : Text!At(m, a) \in C
      BY <1>11, <1>18, <2>2
    <2>5. x < v => Text!At(m, x) \notin C /\ Text!At(m, v - 1) \notin C
      BY <1>18, <2>2, <2>3
    <2>6. Q.str.begin = x /\ Q.str.end = v /\ Q.it = Text!StrRef_init(Text!NULL, Q.str.begin)
      BY <1>17, <2>2
    <2>7. Text!TrimsBothEnds'
      BY <1>1, <1>10, <2>1, <2>3, <2>4, <2>5, <2>6 DEF Text!TrimsBothEnds, Text!At
    <2> QED BY <2>1, <2>7 DEF Text!TextIsHandled, Text!OverlapIsCopied, Text!AnswersAreRight
  <1>19. CASE x = e
    <2>1. PICK y : y = e - 1
      OBVIOUS
    <2>2. y \in Int /\ x \in Int /\ ~(x <= y) /\ y + 1 = e
      BY <1>3, <1>19, <2>1
    <2>3. low = y
      BY <1>12, <2>1, <2>2, LeastOfTwo
    <2>4. (x + 1)..(e - 1) = {}
      BY <1>3, <1>19
    <2>5. U = {y}
      BY <1>13, <2>3, <2>4
    <2>6. z = y
      BY <1>14, <2>2, <2>5, GreatestOfOne
    <2>7. z \in Int /\ z + 1 = e
      BY <2>2, <2>6
    <2>8. (z + 1)..(e - 1) = {} /\ x <= z + 1 /\ z + 1 <= e /\ ~(x < z + 1)
      BY <1>3, <1>19, <2>7
    <2> QED BY <1>18, <2>7, <2>8
  <1>20. CASE x # e
    <2>1. x < e /\ x \in Int /\ e - 1 \in Int /\ x <= e - 1
      BY <1>3, <1>10, <1>20
    <2>2. Text!At(m, x) \notin C
      BY <1>7, <1>9, <1>20
    <2>3. low = x
      <3>1. PICK y : y = e - 1
        OBVIOUS
      <3>2. Text!MinOf({x, y}) = x
        BY <2>1, <3>1, LeastOfTwo
      <3> QED BY <1>12, <3>1, <3>2
    <2>4. U \subseteq 0..e /\ U # {}
      BY <1>3, <1>10, <1>13, <2>3
    <2>5. z \in U /\ \A l \in U : l <= z
      BY <1>3, <1>14, <2>4, MaxOfIs
    <2>6. z \in Int /\ x <= z /\ z < e /\ Text!At(m, z) \notin C
      BY <1>3, <1>10, <1>13, <2>1, <2>2, <2>3, <2>5
    <2>7. ASSUME NEW a \in (z + 1)..(e - 1) PROVE Text!At(m, a) \in C
      <3>1. a \in (x + 1)..(e - 1) /\ ~(a <= z)
        BY <1>3, <1>10, <2>6
      <3>2. a \notin U
        BY <2>5, <3>1
      <3> QED BY <1>13, <3>1, <3>2
    <2>8. x <= z + 1 /\ z + 1 <= e
      BY <1>3, <1>10, <2>6
    <2> QED BY <1>18, <2>2, <2>6, <2>7, <2>8
  <1> QED BY <1>19, <1>20

-----------------------------------------------------------------------------
(* The invariant: the memory a call is made on is a terminated text, and   *)
(* the call that was made did what it should.                              *)
TextInv == (part = "call" => Memory(mem)) /\ TextIsHandled

(* The memory is a terminated text at first.                               *)
LEMMA TextStarts ==
  ASSUME Init
  PROVE  TextInv
PROOF
  <1>1. call = Text!Nothing
    BY DEF Init, Text!Init
  <1>2. TextIsHandled
    BY <1>1 DEF TextIsHandled, Text!TextIsHandled, Text!OverlapIsCopied, Text!AnswersAreRight, Text!TrimsBothEnds, Text!Nothing
  <1>3. ASSUME part = "call" PROVE Memory(mem)
    <2>1. PICK x \in [1..(Size - 1) -> Text!Symbol] : mem = Append(x, Text!NUL)
      BY <1>3 DEF Init, Text!Init
    <2>2. PICK k : k = Size - 1
      OBVIOUS
    <2>3. k \in Nat /\ Size = k + 1
      BY <2>2, TextAssumption
    <2>4. Text!NUL \in Text!Symbol
      BY DEF Text!Symbol
    <2>5. x \in Seq(Text!Symbol) /\ Len(x) = k
      BY <2>1, <2>2, <2>3
    <2>6. mem \in Seq(Text!Symbol) /\ Len(mem) = k + 1 /\ mem[k + 1] = Text!NUL
      BY <2>1, <2>4, <2>5, AppendProperties
    <2> QED BY <2>3, <2>6 DEF Memory
  <1> QED BY <1>2, <1>3 DEF TextInv

(* Every step keeps the invariant.                                         *)
LEMMA TextSteps ==
  ASSUME TextInv, [Next]_allVars
  PROVE  TextInv'
PROOF
  <1>1. UNCHANGED <<part, callVars>> \/ (part = "call" /\ Text!Next /\ UNCHANGED part)
    BY DEF Next, On, allVars
  <1>2. CASE UNCHANGED <<part, callVars>>
    <2>1. mem' = mem /\ call' = call /\ part' = part
      BY <1>2 DEF callVars
    <2> QED BY <2>1 DEF TextInv, Memory, TextIsHandled, Text!TextIsHandled, Text!OverlapIsCopied, Text!AnswersAreRight, Text!TrimsBothEnds
  <1>3. CASE part = "call" /\ Text!Next /\ UNCHANGED part
    <2>1. Memory(mem) /\ mem' = mem /\ part' = part /\ (Text!Copy \/ Text!Search \/ Text!Compare \/ Text!Trim)
      BY <1>3 DEF TextInv, Text!Next
    <2>2. Text!TextIsHandled'
      <3>1. CASE Text!Copy
        BY <2>1, <3>1, CopyHandles
      <3>2. CASE Text!Search
        BY <2>1, <3>2, SearchHandles
      <3>3. CASE Text!Compare
        BY <2>1, <3>3, CompareHandles
      <3>4. CASE Text!Trim
        BY <2>1, <3>4, TrimHandles
      <3> QED BY <2>1, <3>1, <3>2, <3>3, <3>4
    <2> QED BY <2>1, <2>2 DEF TextInv, TextIsHandled, Memory
  <1> QED BY <1>1, <1>2, <1>3

(* alib_string.c, alib_types.c and StrParser.c, for memory of every size   *)
(* and words of any length: a copy between overlapping places moves what   *)
(* was there, whichever way its loop runs; searches and tests answer for   *)
(* the text before the terminator; a comparison by words and bytes is zero *)
(* for equal texts only and turns round with its arguments; and trimming   *)
(* cuts at both ends all that it was given and nothing else.  A copy that  *)
(* runs backwards moves one byte more than it was asked to, which the      *)
(* property counts in.  The calls that contradict their comments are left  *)
(* out: a find_last_char_count that meets its character before the string, *)
(* a str_match_no_case across a terminator, and get_string_type's doubles  *)
(* and bools.                                                              *)
THEOREM TextCallsDoAsTold == Spec => []TextIsHandled
PROOF
  <1>1. Init => TextInv
    BY TextStarts
  <1>2. TextInv /\ [Next]_allVars => TextInv'
    BY TextSteps
  <1>3. TextInv => TextIsHandled
    BY DEF TextInv
  <1> QED BY <1>1, <1>2, <1>3, PTL DEF Spec

-----------------------------------------------------------------------------
(* Buffers.                                                                *)

(* What a place of the memory may hold, and a buffer.                      *)
Cell == Byte \cup {Buffer!Unset}
Rec == [mem : Seq(Cell), len : Int, min_cap : Int, max_expand : Int, fault : BOOLEAN]

(* Two buffers that differ in memory and length only.                      *)
Alter(r, z) == r.min_cap = z.min_cap /\ r.max_expand = z.max_expand /\ r.fault = z.fault

(* z is y with the bytes d written behind the first n.                     *)
Written(y, n, d, z) ==
  /\ z \in Seq(Cell) /\ Len(z) = Len(y)
  /\ \A i \in 1..Len(y) : z[i] = IF i \in (n + 1)..(n + Len(d)) THEN d[i - n] ELSE y[i]

(* z is u, v and w one behind the other.                                   *)
Three(T, u, v, w, z) ==
  /\ z \in Seq(T) /\ Len(z) = Len(u) + Len(v) + Len(w)
  /\ \A i \in 1..Len(u) : z[i] = u[i]
  /\ \A i \in 1..Len(v) : z[Len(u) + i] = v[i]
  /\ \A i \in 1..Len(w) : z[Len(u) + Len(v) + i] = w[i]

(* The beginning of a sequence.                                            *)
LEMMA TakeIs ==
  ASSUME NEW T, NEW y \in Seq(T), NEW n \in Nat, n <= Len(y)
  PROVE  Buffer!Take(y, n) \in Seq(T) /\ Len(Buffer!Take(y, n)) = n /\ \A i \in 1..n : Buffer!Take(y, n)[i] = y[i]
PROOF
  <1>1. PICK k : k = Len(y)
    OBVIOUS
  <1>2. k \in Nat
    BY <1>1
  <1>3. Buffer!Least(n, k) = n
    BY <1>1, <1>2 DEF Buffer!Least
  <1>4. Buffer!Take(y, n) = SubSeq(y, 1, n)
    BY <1>1, <1>3 DEF Buffer!Take
  <1>5. SubSeq(y, 1, n) \in Seq(T) /\ Len(SubSeq(y, 1, n)) = n /\ \A i \in 1..n : SubSeq(y, 1, n)[i] = y[i]
    BY <1>1, <1>2
  <1> QED BY <1>4, <1>5

(* And the rest.                                                           *)
LEMMA DropIs ==
  ASSUME NEW T, NEW y \in Seq(T), NEW n \in Nat, n <= Len(y)
  PROVE  /\ Buffer!Drop(y, n) \in Seq(T) /\ Len(Buffer!Drop(y, n)) = Len(y) - n
         /\ \A i \in 1..(Len(y) - n) : Buffer!Drop(y, n)[i] = y[n + i]
PROOF
  <1>1. PICK k : k = Len(y)
    OBVIOUS
  <1>2. k \in Nat
    BY <1>1
  <1>3. PICK z : z = SubSeq(y, n + 1, k)
    OBVIOUS
  <1>4. z = [i \in 1..(k - (n + 1) + 1) |-> y[i + (n + 1) - 1]]
    BY <1>1, <1>2, <1>3
  <1>5. k - (n + 1) + 1 = k - n /\ k - n \in Nat
    BY <1>1, <1>2
  <1>6. \A i \in 1..(k - n) : i + (n + 1) - 1 = n + i /\ n + i \in 1..k
    BY <1>1, <1>2
  <1>7. \A i \in 1..k : y[i] \in T
    BY <1>1
  <1>8. z \in [1..(k - n) -> T] /\ \A i \in 1..(k - n) : z[i] = y[n + i]
    BY <1>4, <1>5, <1>6, <1>7
  <1>9. z \in Seq(T) /\ Len(z) = k - n
    BY <1>5, <1>8
  <1> QED BY <1>1, <1>3, <1>8, <1>9 DEF Buffer!Drop

(* Three pieces one behind the other.                                      *)
LEMMA ThreePieces ==
  ASSUME NEW T, NEW u \in Seq(T), NEW v \in Seq(T), NEW w \in Seq(T)
  PROVE  Three(T, u, v, w, u \o v \o w)
PROOF
  <1>1. PICK k, l, n, z : k = Len(u) /\ l = Len(v) /\ n = Len(w) /\ z = u \o v \o w
    OBVIOUS
  <1>2. k \in Nat /\ l \in Nat /\ n \in Nat
    BY <1>1
  <1>3. PICK t : t = u \o v
    OBVIOUS
  <1>4. PICK h : h = k + l
    OBVIOUS
  <1>5. t \in Seq(T) /\ Len(t) = k + l
    <2>1. u \o v \in Seq(T)
      OBVIOUS
    <2>2. Len(u \o v) = Len(u) + Len(v)
      OBVIOUS
    <2> QED BY <1>1, <1>2, <1>3, <2>1, <2>2
  <1>6. z = t \o w /\ h \in Nat /\ Len(t) = h
    BY <1>1, <1>2, <1>3, <1>4, <1>5
  <1>7. z \in Seq(T) /\ Len(z) = h + n
    <2>1. t \o w \in Seq(T)
      BY <1>1, <1>2, <1>5
    <2>2. Len(t \o w) = Len(t) + Len(w)
      BY <1>1, <1>2, <1>5
    <2> QED BY <1>1, <1>2, <1>6, <2>1, <2>2
  <1>8. ASSUME NEW i \in 1..h PROVE z[i] = t[i]
    BY <1>1, <1>2, <1>5, <1>6
  <1>9. ASSUME NEW i \in 1..n PROVE z[h + i] = w[i]
    <2>1. PICK j : j = h + i
      OBVIOUS
    <2>2. j \in 1..(Len(t) + Len(w)) /\ ~(j <= Len(t)) /\ j - Len(t) = i
      BY <1>1, <1>2, <1>6, <2>1
    <2>3. z[j] = w[j - Len(t)]
      BY <1>1, <1>2, <1>5, <1>6, <2>2
    <2> QED BY <1>1, <1>2, <2>1, <2>2, <2>3
  <1>10. ASSUME NEW i \in 1..k PROVE z[i] = u[i]
    <2>1. i \in 1..h
      BY <1>1, <1>2, <1>4
    <2>2. t[i] = u[i]
      BY <1>1, <1>2, <1>3
    <2> QED BY <1>1, <1>2, <1>8, <2>1, <2>2
  <1>11. ASSUME NEW i \in 1..l PROVE z[k + i] = v[i]
    <2>1. PICK j : j = k + i
      OBVIOUS
    <2>2. j \in 1..h /\ j \in 1..(Len(u) + Len(v)) /\ ~(j <= Len(u)) /\ j - Len(u) = i
      BY <1>1, <1>2, <1>4, <2>1
    <2>3. t[j] = v[j - Len(u)]
      BY <1>1, <1>2, <1>3, <2>2
    <2> QED BY <1>1, <1>2, <1>8, <2>1, <2>2, <2>3
  <1> QED BY <1>1, <1>2, <1>4, <1>7, <1>9, <1>10, <1>11 DEF Three

(* Write writes inside the memory.                                         *)
LEMMA WriteIs ==
  ASSUME NEW r \in Rec, NEW n \in Nat, NEW d \in Seq(Cell), n + Len(d) <= Len(r.mem)
  PROVE  /\ Buffer!Write(r, n, d) \in Rec
         /\ Buffer!Write(r, n, d).len = r.len
         /\ Alter(Buffer!Write(r, n, d), r)
         /\ Written(r.mem, n, d, Buffer!Write(r, n, d).mem)
PROOF
  <1>1. PICK y : y = r.mem
    OBVIOUS
  <1>2. PICK k : k = Len(y)
    OBVIOUS
  <1>3. PICK l : l = Len(d)
    OBVIOUS
  <1>4. y \in Seq(Cell) /\ k \in Nat /\ l \in Nat /\ n + l <= k /\ n <= k /\ n + l \in Nat
    BY <1>1, <1>2, <1>3 DEF Rec
  <1>5. PICK u : u = Buffer!Take(y, n)
    OBVIOUS
  <1>6. PICK w : w = Buffer!Drop(y, n + l)
    OBVIOUS
  <1>7. PICK z : z = u \o d \o w
    OBVIOUS
  <1>8. Buffer!Write(r, n, d) = [r EXCEPT !.mem = z]
    BY <1>1, <1>2, <1>3, <1>4, <1>5, <1>6, <1>7 DEF Buffer!Write, Buffer!capacity
  <1>9. u \in Seq(Cell) /\ Len(u) = n /\ \A i \in 1..n : u[i] = y[i]
    BY <1>2, <1>4, <1>5, TakeIs
  <1>10. PICK p : p = n + l
    OBVIOUS
  <1>11. w \in Seq(Cell) /\ Len(w) = k - p /\ \A i \in 1..(k - p) : w[i] = y[p + i]
    BY <1>2, <1>4, <1>6, <1>10, DropIs, ZenonT(60)
  <1>12. PICK q : q = k - p
    OBVIOUS
  <1>13. q \in Nat /\ n + l + q = k /\ p \in Nat
    BY <1>4, <1>10, <1>12
  <1>14. /\ z \in Seq(Cell) /\ Len(z) = n + l + q
         /\ \A i \in 1..n : z[i] = u[i]
         /\ \A i \in 1..l : z[n + i] = d[i]
         /\ \A i \in 1..q : z[n + l + i] = w[i]
    <2>1. Three(Cell, u, d, w, z)
      BY <1>7, <1>9, <1>11, ThreePieces
    <2> QED BY <1>3, <1>4, <1>9, <1>11, <1>12, <1>13, <2>1 DEF Three
  <1>15. ASSUME NEW i \in 1..k PROVE z[i] = IF i \in (n + 1)..(n + l) THEN d[i - n] ELSE y[i]
    <2>1. CASE i <= n
      <3>1. i \in 1..n /\ i \notin (n + 1)..(n + l)
        BY <1>4, <2>1
      <3> QED BY <1>9, <1>14, <3>1
    <2>2. CASE i > n /\ i <= n + l
      <3>1. PICK j : j = i - n
        OBVIOUS
      <3>2. j \in 1..l /\ n + j = i /\ i \in (n + 1)..(n + l)
        BY <1>4, <2>2, <3>1
      <3> QED BY <1>14, <3>1, <3>2
    <2>3. CASE i > n + l
      <3>1. PICK j : j = i - p
        OBVIOUS
      <3>2. j \in 1..q /\ n + l + j = i /\ p + j = i /\ i \notin (n + 1)..(n + l)
        BY <1>4, <1>10, <1>12, <1>13, <2>3, <3>1
      <3> QED BY <1>11, <1>12, <1>14, <3>2
    <2> QED BY <1>4, <2>1, <2>2, <2>3
  <1>16. Written(y, n, d, z)
    BY <1>2, <1>3, <1>13, <1>14, <1>15 DEF Written
  <1>17. /\ [r EXCEPT !.mem = z] \in Rec /\ [r EXCEPT !.mem = z].mem = z /\ [r EXCEPT !.mem = z].len = r.len /\ Alter([r EXCEPT !.mem = z], r)
    BY <1>14 DEF Rec, Alter
  <1> QED BY <1>1, <1>8, <1>16, <1>17

(* A buffer in order: its length is inside its memory.                     *)
Good(r) ==
  /\ r \in Rec /\ r.fault = FALSE
  /\ r.len \in Nat /\ r.len <= Len(r.mem) /\ Len(r.mem) <= Buffer!ULONG_MAX
  /\ r.min_cap \in 0..2 /\ r.max_expand \in Nat \ {0}

(* It holds the bytes t.                                                   *)
Holds(r, t) ==
  Good(r) /\ t \in Seq(Byte) /\ Len(t) = r.len /\ \A i \in 1..r.len : r.mem[i] = t[i]

(* z is r with memory for n bytes.                                         *)
Resized(r, n, z) ==
  /\ z \in Rec /\ Alter(z, r) /\ Len(z.mem) = n
  /\ z.len = (IF r.len > n THEN n ELSE r.len)
  /\ \A i \in 1..n : i <= Len(r.mem) => z.mem[i] = r.mem[i]

(* The room is a number, and not too small.                                *)
LEMMA RoomIs == Buffer!ULONG_MAX \in Nat /\ BufferRoom \in Nat /\ BufferRoom >= 1 /\ 4 <= Buffer!ULONG_MAX /\ 2 * BufferRoom <= Buffer!ULONG_MAX
PROOF
  BY BufferAssumption DEF Buffer!ULONG_MAX

(* BinaryBuffer_hard_resize resizes.                                       *)
LEMMA HardResizeIs ==
  ASSUME NEW r, Good(r), NEW n \in Nat
  PROVE  Resized(r, n, Buffer!BinaryBuffer_hard_resize(r, n))
PROOF
  <1>1. PICK y, k : y = r.mem /\ k = Len(y)
    OBVIOUS
  <1>2. y \in Seq(Cell) /\ k \in Nat /\ r \in Rec /\ r.len \in Nat
    BY <1>1 DEF Good, Rec
  <1>3. PICK x : x = [i \in 1..n |-> IF i <= k THEN y[i] ELSE Buffer!Unset]
    OBVIOUS
  <1>4. \A i \in 1..n : x[i] \in Cell
    <2>1. \A i \in 1..k : y[i] \in Cell
      BY <1>1, <1>2
    <2>2. \A i \in 1..n : i <= k => i \in 1..k
      BY <1>2
    <2>3. Buffer!Unset \in Cell
      BY DEF Cell
    <2> QED BY <1>3, <2>1, <2>2, <2>3
  <1>5. x \in Seq(Cell) /\ Len(x) = n
    <2>1. x = [i \in 1..n |-> x[i]]
      BY <1>3
    <2> QED BY <1>4, <2>1
  <1>6. PICK m : m = IF r.len > n THEN n ELSE r.len
    OBVIOUS
  <1>7. m \in Int
    BY <1>2, <1>6
  <1>8. Buffer!BinaryBuffer_hard_resize(r, n) = [r EXCEPT !.mem = x, !.len = m]
    BY <1>1, <1>2, <1>3, <1>6 DEF Buffer!BinaryBuffer_hard_resize, Buffer!capacity, Rec
  <1>9. PICK z : z = [r EXCEPT !.mem = x, !.len = m]
    OBVIOUS
  <1>10. z \in Rec /\ z.mem = x /\ z.len = m /\ Alter(z, r)
    BY <1>2, <1>5, <1>7, <1>9 DEF Rec, Alter
  <1>11. \A i \in 1..n : i <= Len(r.mem) => z.mem[i] = r.mem[i]
    BY <1>1, <1>3, <1>10
  <1>12. Resized(r, n, z)
    BY <1>5, <1>6, <1>10, <1>11 DEF Resized
  <1> QED BY <1>8, <1>9, <1>12

(* It stays in order.                                                      *)
LEMMA ResizedGood ==
  ASSUME NEW r, Good(r), NEW n \in Nat, n <= Buffer!ULONG_MAX, NEW z, Resized(r, n, z)
  PROVE  Good(z)
PROOF
  <1>1. z \in Rec /\ z.min_cap = r.min_cap /\ z.max_expand = r.max_expand /\ z.fault = r.fault /\ Len(z.mem) = n
    BY DEF Resized, Alter
  <1>2. z.len = (IF r.len > n THEN n ELSE r.len) /\ r.len \in Nat
    BY DEF Resized, Good
  <1>3. z.len \in Nat /\ z.len <= n
    BY <1>2
  <1> QED BY <1>1, <1>3 DEF Good

(* BinaryBuffer_resize resizes, to no less than the least capacity.        *)
LEMMA ResizeIs ==
  ASSUME NEW r, Good(r), NEW n \in Nat, n <= Buffer!ULONG_MAX
  PROVE  \E m \in Nat : /\ m = (IF n < r.min_cap THEN r.min_cap ELSE n) /\ m >= n /\ m <= Buffer!ULONG_MAX
                        /\ Resized(r, m, Buffer!BinaryBuffer_resize(r, n))
                        /\ Good(Buffer!BinaryBuffer_resize(r, n))
PROOF
  <1>1. PICK m : m = IF n < r.min_cap THEN r.min_cap ELSE n
    OBVIOUS
  <1>2. r.min_cap \in 0..2
    BY DEF Good
  <1>3. m \in Nat /\ m >= n /\ m <= Buffer!ULONG_MAX
    BY <1>1, <1>2, RoomIs
  <1>4. Buffer!BinaryBuffer_resize(r, n) = Buffer!BinaryBuffer_hard_resize(r, m)
    BY <1>1 DEF Buffer!BinaryBuffer_resize
  <1>5. PICK z : z = Buffer!BinaryBuffer_hard_resize(r, m)
    OBVIOUS
  <1>6. Resized(r, m, z)
    BY <1>3, <1>5, HardResizeIs
  <1>7. Good(z)
    BY <1>3, <1>6, ResizedGood
  <1> QED BY <1>1, <1>3, <1>4, <1>5, <1>6, <1>7

(* Memory that is not shorter than the bytes keeps them.                   *)
LEMMA ResizedHolds ==
  ASSUME NEW r, NEW t, Holds(r, t), NEW n \in Nat, n <= Buffer!ULONG_MAX, NEW z, Resized(r, n, z), r.len <= n
  PROVE  Holds(z, t) /\ z.len = r.len
PROOF
  <1>1. Good(r) /\ r.len \in Nat /\ r.len <= Len(r.mem) /\ r \in Rec /\ Len(r.mem) \in Nat
    BY DEF Holds, Good, Rec
  <1>2. Good(z)
    BY <1>1, ResizedGood
  <1>3. z.len = r.len
    BY <1>1 DEF Resized
  <1>4. \A i \in 1..r.len : i \in 1..n /\ i <= Len(r.mem)
    BY <1>1
  <1>5. \A i \in 1..r.len : z.mem[i] = r.mem[i]
    BY <1>4 DEF Resized
  <1> QED BY <1>2, <1>3, <1>5 DEF Holds

(* Shorter memory keeps the bytes it has room for.                         *)
LEMMA ResizedShorter ==
  ASSUME NEW r, NEW t, Holds(r, t), NEW n \in Nat, n <= r.len, n <= Buffer!ULONG_MAX, NEW z, Resized(r, n, z)
  PROVE  Holds(z, Buffer!Take(t, n))
PROOF
  <1>1. Good(r) /\ r.len \in Nat /\ r.len <= Len(r.mem) /\ r \in Rec /\ Len(r.mem) \in Nat
    BY DEF Holds, Good, Rec
  <1>2. Good(z)
    BY <1>1, ResizedGood
  <1>3. z.len = n
    BY <1>1 DEF Resized
  <1>4. \A i \in 1..n : i \in 1..r.len /\ i <= Len(r.mem)
    BY <1>1
  <1>5. \A i \in 1..n : z.mem[i] = r.mem[i]
    BY <1>4 DEF Resized
  <1>6. t \in Seq(Byte) /\ Len(t) = r.len /\ \A i \in 1..r.len : r.mem[i] = t[i]
    BY DEF Holds
  <1>7. PICK x : x = Buffer!Take(t, n)
    OBVIOUS
  <1>8. x \in Seq(Byte) /\ Len(x) = n /\ \A i \in 1..n : x[i] = t[i]
    BY <1>6, <1>7, TakeIs
  <1>9. \A i \in 1..n : z.mem[i] = x[i]
    BY <1>4, <1>5, <1>6, <1>8
  <1> QED BY <1>2, <1>3, <1>7, <1>8, <1>9 DEF Holds

(* The capacities that the loop goes through, as a function.               *)
Growth(r, target, f) ==
  f = [n \in 0..Buffer!ULONG_MAX |-> IF n < target THEN f[Buffer!Expansion(r, n)] ELSE n]

(* The next capacity is a larger one.                                      *)
LEMMA ExpansionIs ==
  ASSUME NEW r, Good(r), NEW n \in Nat, n < BufferRoom
  PROVE  Buffer!Expansion(r, n) \in Nat /\ Buffer!Expansion(r, n) > n /\ Buffer!Expansion(r, n) <= Buffer!ULONG_MAX
PROOF
  <1>1. r.max_expand \in Nat /\ r.max_expand >= 1
    BY DEF Good
  <1>2. CASE n = 0
    BY <1>2, RoomIs DEF Buffer!Expansion
  <1>3. CASE n # 0 /\ n > r.max_expand
    <2>1. Buffer!Expansion(r, n) = n + r.max_expand
      BY <1>3 DEF Buffer!Expansion
    <2> QED BY <1>1, <1>3, <2>1, RoomIs
  <1>4. CASE n # 0 /\ ~(n > r.max_expand)
    <2>1. Buffer!Expansion(r, n) = 2 * n
      BY <1>4 DEF Buffer!Expansion
    <2> QED BY <1>4, <2>1, RoomIs
  <1> QED BY <1>2, <1>3, <1>4

(* The loop's function from m on.                                          *)
GrowthFrom(r, target, m, f) ==
  f = [n \in m..Buffer!ULONG_MAX |-> IF n < target THEN f[Buffer!Expansion(r, n)] ELSE n]

(* There is such a function: it is built from its end.                     *)
LEMMA SomeGrowth ==
  ASSUME NEW r, Good(r), NEW target \in Nat, target <= BufferRoom
  PROVE  \E f : Growth(r, target, f)
PROOF
  <1> DEFINE T == {m \in 0..Buffer!ULONG_MAX : \E f : GrowthFrom(r, target, m, f)}
  <1>1. PICK M : M = Buffer!ULONG_MAX
    OBVIOUS
  <1>2. M \in Nat /\ 2 * BufferRoom <= M /\ BufferRoom \in Nat /\ BufferRoom >= 1
    BY <1>1, RoomIs
  <1>3. T # {}
    <2>1. PICK f : f = [n \in M..M |-> n]
      OBVIOUS
    <2>2. \A n \in M..M : ~(n < target)
      BY <1>2
    <2>3. f = [n \in M..M |-> IF n < target THEN f[Buffer!Expansion(r, n)] ELSE n]
      BY <2>1, <2>2
    <2>4. GrowthFrom(r, target, M, f)
      BY <1>1, <2>3 DEF GrowthFrom
    <2>5. M \in 0..Buffer!ULONG_MAX
      BY <1>1, <1>2
    <2> QED BY <2>4, <2>5
  <1>4. T \subseteq Nat
    BY <1>1, <1>2
  <1>5. PICK m \in T : \A l \in T : m <= l
    <2> HIDE DEF T
    <2> QED BY <1>3, <1>4, LeastOf
  <1>6. PICK f : GrowthFrom(r, target, m, f)
    BY <1>5
  <1>7. m \in 0..M
    BY <1>1, <1>5
  <1>8. ASSUME m # 0 PROVE FALSE
    <2>1. PICK k : k = m - 1
      OBVIOUS
    <2>2. k \in Nat /\ k \in 0..M /\ m = k + 1 /\ ~(m <= k)
      BY <1>2, <1>7, <1>8, <2>1
    <2>3. PICK e : e = Buffer!Expansion(r, k)
      OBVIOUS
    <2>4. PICK g : g = [n \in k..M |-> IF n = k THEN (IF k < target THEN f[e] ELSE k) ELSE f[n]]
      OBVIOUS
    <2>5. ASSUME NEW n \in k..M PROVE g[n] = IF n < target THEN g[Buffer!Expansion(r, n)] ELSE n
      <3>1. n \in Nat
        BY <2>2
      <3>2. PICK d : d = Buffer!Expansion(r, n)
        OBVIOUS
      <3>3. n < target => d \in Nat /\ d > n /\ d <= M
        <4>1. n < target => n < BufferRoom
          BY <1>2, <3>1
        <4> QED BY <1>1, <3>1, <3>2, <4>1, ExpansionIs
      <3>4. n < target => d \in k..M /\ d # k /\ g[d] = f[d]
        <4>1. n < target => d \in k..M /\ d # k
          BY <1>2, <2>2, <3>1, <3>3
        <4> QED BY <2>4, <4>1
      <3>5. CASE n = k
        BY <2>3, <2>4, <3>2, <3>4, <3>5
      <3>6. CASE n # k
        <4>1. n \in m..M
          BY <2>2, <3>1, <3>6
        <4>2. f[n] = IF n < target THEN f[d] ELSE n
          BY <1>1, <1>6, <3>2, <4>1 DEF GrowthFrom
        <4>3. g[n] = f[n]
          BY <2>4, <3>6
        <4> QED BY <3>2, <3>4, <4>2, <4>3
      <3> QED BY <3>5, <3>6
    <2>6. g = [n \in k..M |-> g[n]]
      BY <2>4
    <2>7. g = [n \in k..M |-> IF n < target THEN g[Buffer!Expansion(r, n)] ELSE n]
      BY <2>5, <2>6
    <2>8. GrowthFrom(r, target, k, g)
      BY <1>1, <2>7 DEF GrowthFrom
    <2>9. k \in T
      BY <1>1, <2>2, <2>8
    <2> QED BY <1>5, <2>2, <2>9
  <1> QED BY <1>6, <1>8 DEF GrowthFrom, Growth

(* The loop ends with enough.                                              *)
LEMMA GrowthIs ==
  ASSUME NEW r, Good(r), NEW target \in Nat, target <= BufferRoom, NEW f, Growth(r, target, f), NEW c \in 0..Buffer!ULONG_MAX
  PROVE  f[c] \in Nat /\ f[c] >= c /\ f[c] >= target /\ f[c] <= Buffer!ULONG_MAX
PROOF
  <1> DEFINE P(n) == f[n] \in Nat /\ f[n] >= n /\ f[n] >= target /\ f[n] <= Buffer!ULONG_MAX
  <1>1. PICK M : M = Buffer!ULONG_MAX
    OBVIOUS
  <1>2. M \in Nat /\ BufferRoom \in Nat
    BY <1>1, RoomIs
  <1> DEFINE T == {k \in 0..M : ~P(M - k)}
  <1>3. ASSUME T # {} PROVE FALSE
    <2>1. T \subseteq Nat
      BY <1>2
    <2>2. PICK k \in T : \A l \in T : k <= l
      <3> HIDE DEF T
      <3> QED BY <1>3, <2>1, LeastOf
    <2>3. PICK n : n = M - k
      OBVIOUS
    <2>4. n \in 0..M /\ n \in Nat /\ ~P(n) /\ k = M - n
      BY <1>2, <2>2, <2>3
    <2>5. f[n] = IF n < target THEN f[Buffer!Expansion(r, n)] ELSE n
      BY <1>1, <2>4 DEF Growth
    <2>6. CASE ~(n < target)
      <3>1. f[n] = n
        BY <2>5, <2>6
      <3> QED BY <1>1, <1>2, <2>4, <2>6, <3>1
    <2>7. CASE n < target
      <3>1. PICK d : d = Buffer!Expansion(r, n)
        OBVIOUS
      <3>2. n < BufferRoom
        BY <1>2, <2>4, <2>7
      <3>3. d \in Nat /\ d > n /\ d <= M
        BY <1>1, <2>4, <3>1, <3>2, ExpansionIs
      <3>4. PICK l : l = M - d
        OBVIOUS
      <3>5. l \in 0..M /\ M - l = d /\ ~(k <= l)
        BY <1>2, <2>4, <3>3, <3>4
      <3>6. P(d)
        BY <2>2, <3>5
      <3>7. f[n] = f[d]
        BY <2>5, <2>7, <3>1
      <3>8. P(n)
        BY <2>4, <3>3, <3>6, <3>7
      <3> QED BY <2>4, <3>8
    <2> QED BY <2>6, <2>7
  <1>4. PICK k : k = M - c
    OBVIOUS
  <1>5. k \in 0..M /\ M - k = c
    BY <1>1, <1>2, <1>4
  <1>6. P(c)
    BY <1>3, <1>5
  <1> QED BY <1>6

(* BinaryBuffer_expand_to_target keeps the bytes and makes room.           *)
LEMMA ExpandIs ==
  ASSUME NEW r, NEW t, Holds(r, t), NEW target \in Nat, target <= BufferRoom
  PROVE  LET z == Buffer!BinaryBuffer_expand_to_target(r, target)
         IN Holds(z, t) /\ z.len = r.len /\ target <= Len(z.mem)
PROOF
  <1>1. PICK c : c = Buffer!capacity(r)
    OBVIOUS
  <1>2. Good(r) /\ c = Len(r.mem) /\ c \in Nat /\ c <= Buffer!ULONG_MAX /\ r.len \in Nat /\ r.len <= c
    BY <1>1 DEF Holds, Good, Buffer!capacity, Rec
  <1>3. PICK f : f = CHOOSE g : Growth(r, target, g)
    OBVIOUS
  <1>4. Growth(r, target, f)
    BY <1>2, <1>3, SomeGrowth
  <1>5. PICK z : z = Buffer!BinaryBuffer_expand_to_target(r, target)
    OBVIOUS
  <1>6. z = Buffer!BinaryBuffer_resize(r, f[c])
    BY <1>1, <1>3, <1>5 DEF Buffer!BinaryBuffer_expand_to_target, Growth
  <1>7. PICK n : n = f[c]
    OBVIOUS
  <1>8. c \in 0..Buffer!ULONG_MAX
    BY <1>2, RoomIs
  <1>9. n \in Nat /\ n >= c /\ n >= target /\ n <= Buffer!ULONG_MAX
    BY <1>2, <1>4, <1>7, <1>8, GrowthIs
  <1>10. PICK m \in Nat : m >= n /\ m <= Buffer!ULONG_MAX /\ Resized(r, m, z)
    BY <1>2, <1>6, <1>7, <1>9, ResizeIs
  <1>11. r.len <= m /\ target <= m
    BY <1>2, <1>9, <1>10
  <1>12. Holds(z, t) /\ z.len = r.len
    BY <1>10, <1>11, ResizedHolds
  <1>13. Len(z.mem) = m
    BY <1>10 DEF Resized
  <1> QED BY <1>5, <1>11, <1>12, <1>13

(* Bytes can be in memory.                                                 *)
LEMMA BytesFit ==
  ASSUME NEW d \in Seq(Byte)
  PROVE  d \in Seq(Cell)
PROOF
  <1>1. PICK n : n = Len(d)
    OBVIOUS
  <1>2. n \in Nat /\ d = [i \in 1..n |-> d[i]] /\ \A i \in 1..n : d[i] \in Byte
    BY <1>1
  <1>3. \A i \in 1..n : d[i] \in Cell
    BY <1>2 DEF Cell
  <1> QED BY <1>2, <1>3

(* What callers give are bytes.                                            *)
LEMMA DataIs ==
  ASSUME NEW d \in Buffer!Data
  PROVE  d \in Seq(Byte) /\ Len(d) \in Nat /\ Len(d) <= 2
PROOF
  <1>1. PICK n \in 0..2 : d \in [1..n -> Byte]
    BY DEF Buffer!Data, Buffer!SeqOf
  <1> QED BY <1>1

(* Write leaves the buffer in order.                                       *)
LEMMA WriteGood ==
  ASSUME NEW r, Good(r), NEW n \in Nat, NEW d \in Seq(Cell), n + Len(d) <= Len(r.mem), NEW z, z = Buffer!Write(r, n, d)
  PROVE  Good(z) /\ z.len = r.len /\ Len(z.mem) = Len(r.mem) /\ Written(r.mem, n, d, z.mem)
PROOF
  <1>1. r \in Rec
    BY DEF Good
  <1>2. z \in Rec /\ z.len = r.len /\ Alter(z, r) /\ Written(r.mem, n, d, z.mem)
    BY <1>1, WriteIs
  <1>3. Len(z.mem) = Len(r.mem)
    BY <1>2 DEF Written
  <1> QED BY <1>2, <1>3 DEF Good, Alter

(* A length inside the memory is set.                                      *)
LEMMA LenSet ==
  ASSUME NEW r, Good(r), NEW n \in Nat, n <= Len(r.mem), NEW x \in Seq(Byte), Len(x) = n, \A i \in 1..n : r.mem[i] = x[i]
  PROVE  Holds([r EXCEPT !.len = n], x)
PROOF
  <1>1. PICK z : z = [r EXCEPT !.len = n]
    OBVIOUS
  <1>2. r \in Rec
    BY DEF Good
  <1>3. z \in Rec /\ z.len = n /\ z.mem = r.mem /\ z.fault = r.fault /\ z.min_cap = r.min_cap /\ z.max_expand = r.max_expand
    BY <1>1, <1>2 DEF Rec
  <1>4. Good(z)
    BY <1>3 DEF Good
  <1>5. Holds(z, x)
    BY <1>3, <1>4 DEF Holds
  <1> QED BY <1>1, <1>5

(* z is u and v one behind the other.                                      *)
Two(T, u, v, k, l, z) ==
  /\ z \in Seq(T) /\ Len(z) = k + l
  /\ \A i \in 1..k : z[i] = u[i]
  /\ \A i \in 1..(k + l) : i > k => z[i] = v[i - k]

(* Two pieces one behind the other.                                        *)
LEMMA TwoPieces ==
  ASSUME NEW T, NEW u \in Seq(T), NEW v \in Seq(T), NEW k \in Nat, k = Len(u), NEW l \in Nat, l = Len(v), NEW z, z = u \o v
  PROVE  Two(T, u, v, k, l, z)
PROOF
  <1>1. z \in Seq(T)
    OBVIOUS
  <1>2. Len(u \o v) = Len(u) + Len(v)
    OBVIOUS
  <1>3. Len(z) = k + l
    BY <1>2
  <1>4. \A i \in 1..(Len(u) + Len(v)) : (u \o v)[i] = IF i <= Len(u) THEN u[i] ELSE v[i - Len(u)]
    OBVIOUS
  <1>5. \A i \in 1..(k + l) : z[i] = IF i <= k THEN u[i] ELSE v[i - k]
    BY <1>4
  <1>6. \A i \in 1..k : i \in 1..(k + l) /\ i <= k
    OBVIOUS
  <1> QED BY <1>1, <1>3, <1>5, <1>6 DEF Two

(* Bytes are written behind those there are.                               *)
LEMMA WriteBehind ==
  ASSUME NEW r, NEW t, Holds(r, t), NEW n, n = r.len, NEW d \in Seq(Byte), n + Len(d) <= Len(r.mem),
         NEW z, z = Buffer!Write(r, n, d)
  PROVE  /\ Holds(z, t) /\ z.len = n
         /\ Holds([z EXCEPT !.len = n + Len(d)], t \o d)
PROOF
  <1>1. Good(r) /\ n \in Nat /\ t \in Seq(Byte) /\ Len(t) = n /\ \A i \in 1..n : r.mem[i] = t[i]
    BY DEF Holds, Good
  <1>2. PICK l, k : l = Len(d) /\ k = Len(r.mem)
    OBVIOUS
  <1>3. l \in Nat /\ k \in Nat /\ n + l <= k /\ n + l \in Nat
    BY <1>1, <1>2 DEF Good, Rec
  <1>4. d \in Seq(Cell)
    BY BytesFit
  <1>5. Good(z) /\ z.len = n /\ Len(z.mem) = k /\ Written(r.mem, n, d, z.mem)
    BY <1>1, <1>2, <1>3, <1>4, WriteGood
  <1>6. \A i \in 1..k : z.mem[i] = IF i \in (n + 1)..(n + l) THEN d[i - n] ELSE r.mem[i]
    BY <1>2, <1>5 DEF Written
  <1>7. \A i \in 1..n : i \in 1..k /\ i \notin (n + 1)..(n + l)
    BY <1>1, <1>3
  <1>8. \A i \in 1..n : z.mem[i] = t[i]
    BY <1>1, <1>6, <1>7
  <1>9. PICK x : x = t \o d
    OBVIOUS
  <1>10. /\ x \in Seq(Byte) /\ Len(x) = n + l
         /\ \A i \in 1..n : x[i] = t[i]
         /\ \A i \in 1..(n + l) : i > n => x[i] = d[i - n]
    <2>1. Two(Byte, t, d, n, l, x)
      BY <1>1, <1>2, <1>3, <1>9, TwoPieces
    <2> QED BY <2>1 DEF Two
  <1>11. \A i \in 1..(n + l) : i \in 1..k /\ (i \in 1..n \/ (i > n /\ i \in (n + 1)..(n + l)))
    BY <1>1, <1>3
  <1>12. \A i \in 1..(n + l) : z.mem[i] = x[i]
    BY <1>6, <1>8, <1>10, <1>11
  <1>13. Holds(z, t)
    BY <1>1, <1>5, <1>8 DEF Holds
  <1>14. PICK m : m = n + l
    OBVIOUS
  <1>15. Holds([z EXCEPT !.len = m], x)
    BY <1>3, <1>5, <1>10, <1>12, <1>14, LenSet, SMTT(40)
  <1> QED BY <1>2, <1>5, <1>9, <1>13, <1>14, <1>15

(* Fitted makes room.                                                      *)
LEMMA FittedIs ==
  ASSUME NEW r, NEW t, Holds(r, t), NEW n \in Nat, n <= BufferRoom, NEW z, z = Buffer!Fitted(r, n)
  PROVE  Holds(z, t) /\ z.len = r.len /\ n <= Len(z.mem)
PROOF
  <1>1. PICK c : c = Len(r.mem)
    OBVIOUS
  <1>2. c \in Nat
    BY <1>1 DEF Holds, Good, Rec
  <1>3. CASE c < n
    <2>1. z = Buffer!BinaryBuffer_expand_to_target(r, n)
      BY <1>1, <1>3 DEF Buffer!Fitted, Buffer!capacity
    <2> QED BY <2>1, ExpandIs
  <1>4. CASE ~(c < n)
    <2>1. z = r
      BY <1>1, <1>4 DEF Buffer!Fitted, Buffer!capacity
    <2> QED BY <1>1, <1>2, <1>4, <2>1
  <1> QED BY <1>3, <1>4

(* Setting the length of what was written.                                 *)
LEMMA AddLen ==
  ASSUME NEW z, Good(z), NEW n, z.len = n, NEW k \in Int
  PROVE  [z EXCEPT !.len = @ + k] = [z EXCEPT !.len = n + k]
PROOF
  OBVIOUS

(* BinaryBuffer_append appends.                                            *)
LEMMA AppendKeeps ==
  ASSUME Holds(b, bytes), Buffer!AppendBytes
  PROVE  Holds(b', bytes')
PROOF
  <1>1. PICK d \in Buffer!Data : b.len + Len(d) <= BufferRoom /\ b' = Buffer!BinaryBuffer_append(b, d) /\ bytes' = bytes \o d
    BY DEF Buffer!AppendBytes
  <1>2. d \in Seq(Byte) /\ Len(d) \in Nat
    BY <1>1, DataIs
  <1>3. PICK k, n, m : k = Len(d) /\ n = b.len /\ m = n + k
    OBVIOUS
  <1>4. n \in Nat /\ m \in Nat /\ m <= BufferRoom
    BY <1>1, <1>2, <1>3 DEF Holds, Good
  <1>5. PICK f : f = Buffer!Fitted(b, m)
    OBVIOUS
  <1>6. Holds(f, bytes) /\ f.len = n /\ m <= Len(f.mem)
    BY <1>3, <1>4, <1>5, FittedIs
  <1>7. PICK z : z = Buffer!Write(f, n, d)
    OBVIOUS
  <1>8. Holds(z, bytes) /\ z.len = n /\ Holds([z EXCEPT !.len = n + Len(d)], bytes \o d)
    BY <1>2, <1>3, <1>6, <1>7, WriteBehind
  <1>9. b' = [z EXCEPT !.len = @ + k]
    BY <1>1, <1>3, <1>5, <1>6, <1>7 DEF Buffer!BinaryBuffer_append
  <1>10. [z EXCEPT !.len = @ + k] = [z EXCEPT !.len = n + k]
    BY <1>2, <1>3, <1>8, AddLen DEF Holds
  <1> QED BY <1>1, <1>3, <1>8, <1>9, <1>10

(* BinaryBuffer_append_file appends all of the file, or nothing.           *)
LEMMA AppendFileKeeps ==
  ASSUME Holds(b, bytes), Buffer!AppendFile
  PROVE  Holds(b', bytes')
PROOF
  <1>1. PICK d \in Buffer!Data, h \in 0..2 :
          /\ b.len + Len(d) <= BufferRoom /\ h <= Len(d)
          /\ b' = Buffer!BinaryBuffer_append_file(b, d, Len(d) - h)
          /\ bytes' = IF h = 0 THEN bytes \o d ELSE bytes
    BY DEF Buffer!AppendFile
  <1>2. d \in Seq(Byte) /\ Len(d) \in Nat
    BY <1>1, DataIs
  <1>3. PICK k, n, m, g : k = Len(d) /\ n = b.len /\ m = n + k /\ g = k - h
    OBVIOUS
  <1>4. n \in Nat /\ m \in Nat /\ m <= BufferRoom /\ g \in Nat /\ g <= k
    BY <1>1, <1>2, <1>3 DEF Holds, Good
  <1>5. PICK f : f = Buffer!BinaryBuffer_expand_to_target(b, m)
    OBVIOUS
  <1>6. Holds(f, bytes) /\ f.len = n /\ m <= Len(f.mem)
    BY <1>3, <1>4, <1>5, ExpandIs
  <1>7. PICK e : e = Buffer!Take(d, g)
    OBVIOUS
  <1>8. e \in Seq(Byte) /\ Len(e) = g /\ \A i \in 1..g : e[i] = d[i]
    BY <1>2, <1>3, <1>4, <1>7, TakeIs, ZenonT(60)
  <1>9. PICK z : z = Buffer!Write(f, n, e)
    OBVIOUS
  <1>10. Holds(z, bytes) /\ z.len = n /\ Holds([z EXCEPT !.len = n + Len(e)], bytes \o e)
    <2>1. Len(f.mem) \in Nat
      BY <1>6 DEF Holds, Good, Rec
    <2>2. n + Len(e) <= Len(f.mem)
      BY <1>2, <1>3, <1>4, <1>6, <1>8, <2>1, SMTT(40)
    <2> QED BY <1>6, <1>8, <1>9, <2>2, WriteBehind
  <1>11. b' = IF g < k THEN z ELSE [z EXCEPT !.len = @ + k]
    BY <1>1, <1>3, <1>5, <1>6, <1>7, <1>9 DEF Buffer!BinaryBuffer_append_file
  <1>12. CASE h = 0
    <2>1. g = k /\ ~(g < k)
      BY <1>2, <1>3, <1>12
    <2>2. e = d
      BY <1>2, <1>3, <1>8, <2>1
    <2>3. [z EXCEPT !.len = @ + k] = [z EXCEPT !.len = n + k]
      BY <1>2, <1>3, <1>10, AddLen DEF Holds
    <2> QED BY <1>1, <1>3, <1>10, <1>11, <1>12, <2>1, <2>2, <2>3
  <1>13. CASE h # 0
    <2>1. g < k
      BY <1>1, <1>2, <1>3, <1>13
    <2> QED BY <1>1, <1>10, <1>11, <1>13, <2>1
  <1> QED BY <1>12, <1>13

(* The memory begins with the bytes up to p, new ones and those behind q:  *)
(* n in all.                                                               *)
Splice(r, t, p, q, d, n) ==
  /\ Good(r) /\ t \in Seq(Byte) /\ d \in Seq(Byte) /\ p \in Nat /\ q \in Nat /\ p <= q /\ q <= Len(t)
  /\ n = p + Len(d) + (Len(t) - q) /\ n <= Len(r.mem)
  /\ \A i \in 1..p : r.mem[i] = t[i]
  /\ \A i \in 1..Len(d) : r.mem[p + i] = d[i]
  /\ \A i \in 1..(Len(t) - q) : r.mem[p + Len(d) + i] = t[q + i]

(* It holds these when its length is set.                                  *)
LEMMA SplicedHolds ==
  ASSUME NEW r, NEW t, NEW p, NEW q, NEW d, NEW n, Splice(r, t, p, q, d, n)
  PROVE  Holds([r EXCEPT !.len = n], Buffer!Take(t, p) \o d \o Buffer!Drop(t, q))
PROOF
  <1>1. /\ Good(r) /\ t \in Seq(Byte) /\ d \in Seq(Byte) /\ p \in Nat /\ q \in Nat /\ p <= q /\ q <= Len(t)
        /\ n = p + Len(d) + (Len(t) - q) /\ n <= Len(r.mem)
    BY DEF Splice
  <1>2. PICK k, l, e : k = Len(t) /\ l = Len(d) /\ e = k - q
    OBVIOUS
  <1>3. k \in Nat /\ l \in Nat /\ e \in Nat /\ n = p + l + e /\ p <= k /\ n \in Nat
    BY <1>1, <1>2
  <1>4. /\ \A i \in 1..p : r.mem[i] = t[i]
        /\ \A i \in 1..l : r.mem[p + i] = d[i]
        /\ \A i \in 1..e : r.mem[p + l + i] = t[q + i]
    BY <1>2 DEF Splice
  <1>5. PICK u, w : u = Buffer!Take(t, p) /\ w = Buffer!Drop(t, q)
    OBVIOUS
  <1>6. u \in Seq(Byte) /\ Len(u) = p /\ \A i \in 1..p : u[i] = t[i]
    BY <1>1, <1>2, <1>3, <1>5, TakeIs
  <1>7. w \in Seq(Byte) /\ Len(w) = e /\ \A i \in 1..e : w[i] = t[q + i]
    <2>1. /\ Buffer!Drop(t, q) \in Seq(Byte) /\ Len(Buffer!Drop(t, q)) = Len(t) - q
          /\ \A i \in 1..(Len(t) - q) : Buffer!Drop(t, q)[i] = t[q + i]
      BY <1>1, DropIs
    <2> QED BY <1>2, <1>5, <2>1
  <1>8. PICK x : x = u \o d \o w
    OBVIOUS
  <1>9. Three(Byte, u, d, w, x)
    BY <1>1, <1>6, <1>7, <1>8, ThreePieces
  <1>10. /\ x \in Seq(Byte) /\ Len(x) = n
         /\ \A i \in 1..p : x[i] = u[i]
         /\ \A i \in 1..l : x[p + i] = d[i]
         /\ \A i \in 1..e : x[p + l + i] = w[i]
    BY <1>2, <1>3, <1>6, <1>7, <1>9 DEF Three
  <1>11. ASSUME NEW i \in 1..n PROVE r.mem[i] = x[i]
    <2>1. CASE i <= p
      BY <1>1, <1>4, <1>6, <1>10, <2>1
    <2>2. CASE i > p /\ i <= p + l
      <3>1. PICK j : j = i - p
        OBVIOUS
      <3>2. j \in 1..l
        BY <1>1, <1>3, <2>2, <3>1
      <3>3. p + j = i
        BY <1>1, <1>3, <2>2, <3>1
      <3>4. r.mem[p + j] = d[j]
        BY <1>4, <3>2, Zenon
      <3>5. x[p + j] = d[j]
        BY <1>10, <3>2, Zenon
      <3> QED BY <3>3, <3>4, <3>5, Zenon
    <2>3. CASE i > p + l
      <3>1. PICK j : j = i - (p + l)
        OBVIOUS
      <3>2. j \in 1..e
        BY <1>1, <1>3, <2>3, <3>1
      <3>3. p + l + j = i
        BY <1>1, <1>3, <2>3, <3>1
      <3>4. r.mem[p + l + j] = t[q + j]
        BY <1>4, <3>2, Zenon
      <3>5. x[p + l + j] = w[j] /\ w[j] = t[q + j]
        BY <1>7, <1>10, <3>2, Zenon
      <3> QED BY <3>3, <3>4, <3>5, Zenon
    <2> QED BY <1>1, <1>3, <2>1, <2>2, <2>3
  <1>12. Holds([r EXCEPT !.len = n], x)
    BY <1>1, <1>3, <1>10, <1>11, LenSet
  <1> QED BY <1>5, <1>8, <1>12

(* The bytes from q on, moved to the place behind p and l more.            *)
Moved(r, p, l, q, z) ==
  /\ Good(z) /\ z.len = r.len /\ Len(z.mem) = Len(r.mem)
  /\ \A i \in 1..(p + l) : z.mem[i] = r.mem[i]
  /\ \A i \in 1..(r.len - q) : z.mem[p + l + i] = r.mem[q + i]

(* Write moves them.                                                       *)
LEMMA MovedIs ==
  ASSUME NEW r, Good(r), NEW p \in Nat, NEW l \in Nat, NEW q \in Nat, q <= r.len, p + l + (r.len - q) <= Len(r.mem),
         NEW z, z = Buffer!Write(r, p + l, SubSeq(r.mem, q + 1, r.len))
  PROVE  Moved(r, p, l, q, z)
PROOF
  <1>1. PICK y, k, n, h, e : y = r.mem /\ k = Len(y) /\ n = r.len /\ h = p + l /\ e = n - q
    OBVIOUS
  <1>2. y \in Seq(Cell) /\ k \in Nat /\ n \in Nat /\ h \in Nat /\ e \in Nat /\ h + e <= k /\ n <= k /\ q + e = n
    BY <1>1 DEF Good, Rec
  <1>3. PICK d : d = SubSeq(y, q + 1, n)
    OBVIOUS
  <1>4. k = Len(y) /\ e = n - q /\ n - (q + 1) + 1 = n - q /\ q + 1 \in Nat
    <2>1. k = Len(y) /\ e = n - q
      BY <1>1, Zenon
    <2>2. n - (q + 1) + 1 = n - q /\ q + 1 \in Nat
      BY <1>2
    <2> QED BY <2>1, <2>2, Zenon
  <1>5. d \in Seq(Cell) /\ Len(d) = e /\ \A i \in 1..e : d[i] = y[q + i]
    <2>1. d = [i \in 1..(n - (q + 1) + 1) |-> y[i + (q + 1) - 1]]
      BY <1>4, <1>2, <1>3
    <2>2. n - (q + 1) + 1 = e
      BY <1>4
    <2>3. \A i \in 1..e : i + (q + 1) - 1 = q + i /\ q + i \in 1..k
      BY <1>1, <1>2, SMTT(40)
    <2>4. \A i \in 1..k : y[i] \in Cell
      BY <1>1, <1>2
    <2>5. d \in [1..e -> Cell] /\ \A i \in 1..e : d[i] = y[q + i]
      BY <2>1, <2>2, <2>3, <2>4
    <2> QED BY <1>2, <2>5
  <1>6. z = Buffer!Write(r, h, d) /\ h + Len(d) <= Len(r.mem)
    BY <1>1, <1>2, <1>3, <1>5
  <1>7. Good(z) /\ z.len = r.len /\ Len(z.mem) = Len(r.mem) /\ Written(r.mem, h, d, z.mem)
    BY <1>2, <1>5, <1>6, WriteGood
  <1>8. \A i \in 1..k : z.mem[i] = IF i \in (h + 1)..(h + e) THEN d[i - h] ELSE y[i]
    BY <1>1, <1>5, <1>7 DEF Written
  <1>9. \A i \in 1..h : i \in 1..k /\ i \notin (h + 1)..(h + e)
    BY <1>2
  <1>10. \A i \in 1..e : h + i \in 1..k /\ h + i \in (h + 1)..(h + e) /\ (h + i) - h = i
    BY <1>2
  <1>11. \A i \in 1..h : z.mem[i] = y[i]
    BY <1>8, <1>9
  <1>12. \A i \in 1..e : z.mem[h + i] = y[q + i]
    BY <1>5, <1>8, <1>10
  <1> QED BY <1>1, <1>7, <1>11, <1>12 DEF Moved

(* The empty sequence, in front, behind and between.                       *)
LEMMA NoBytes ==
  ASSUME NEW t \in Seq(Byte)
  PROVE  <<>> \in Seq(Byte) /\ Len(<<>>) = 0 /\ <<>> \o t = t /\ t \o <<>> = t /\ Buffer!Take(t, 0) = <<>>
PROOF
  <1>1. PICK u : u = Buffer!Take(t, 0)
    OBVIOUS
  <1>2. u \in Seq(Byte) /\ Len(u) = 0
    BY <1>1, TakeIs
  <1>3. u = <<>>
    BY <1>2
  <1>4. <<>> \o t = t /\ t \o <<>> = t
    BY ConcatEmptySeq, SMT
  <1> QED BY <1>1, <1>3, <1>4

(* RemoveRange removes, where the code gets it right.                      *)
LEMMA RangeKeeps ==
  ASSUME NEW r, NEW t, Holds(r, t), NEW p \in Nat, NEW q \in Nat, p <= q, p <= r.len, q # r.len - 1, r.len = 0 => q = 0,
         NEW m, m = Buffer!Least(q, r.len)
  PROVE  Holds(Buffer!RemoveRange(r, p, q), Buffer!Without(t, p, m))
PROOF
  <1>1. PICK n, k : n = r.len /\ k = Len(r.mem)
    OBVIOUS
  <1>2. Good(r) /\ n \in Nat /\ k \in Nat /\ n <= k /\ t \in Seq(Byte) /\ Len(t) = n /\ \A i \in 1..n : r.mem[i] = t[i]
    BY <1>1 DEF Holds, Good, Rec
  <1>3. PICK d : d = <<>>
    OBVIOUS
  <1>4. d \in Seq(Byte) /\ Len(d) = 0
    BY <1>3
  <1>5. \A j \in Nat : Buffer!Take(t, p) \o d \o Buffer!Drop(t, j) = Buffer!Without(t, p, j)
    <2>1. PICK u : u = Buffer!Take(t, p)
      OBVIOUS
    <2>2. u \in Seq(Byte)
      BY <1>1, <1>2, <2>1, TakeIs
    <2>3. u \o d = u
      BY <1>3, <2>2, NoBytes
    <2> QED BY <2>1, <2>3 DEF Buffer!Without
  <1>6. CASE n > 0 /\ q >= n - 1
    <2>1. q >= n /\ m = n
      BY <1>1, <1>2, <1>6 DEF Buffer!Least
    <2>2. Buffer!RemoveRange(r, p, q) = [r EXCEPT !.len = p]
      BY <1>1, <1>6 DEF Buffer!RemoveRange
    <2>3. p = p + Len(d) + (Len(t) - n) /\ p <= Len(r.mem)
      BY <1>1, <1>2, <1>4
    <2>4. \A i \in 1..p : r.mem[i] = t[i]
      BY <1>1, <1>2
    <2>5. \A i \in 1..Len(d) : r.mem[p + i] = d[i]
      BY <1>4
    <2>6. \A i \in 1..(Len(t) - n) : r.mem[p + Len(d) + i] = t[n + i]
      BY <1>2
    <2>7. Splice(r, t, p, n, d, p)
      BY <1>1, <1>2, <1>4, <2>3, <2>4, <2>5, <2>6 DEF Splice
    <2>8. Holds([r EXCEPT !.len = p], Buffer!Take(t, p) \o d \o Buffer!Drop(t, n))
      BY <2>7, SplicedHolds
    <2> QED BY <1>2, <1>5, <2>1, <2>2, <2>8
  <1>7. CASE ~(n > 0 /\ q >= n - 1)
    <2>1. q <= n /\ ~(q > n) /\ m = q
      BY <1>1, <1>2, <1>7 DEF Buffer!Least
    <2>2. PICK z, h : z = Buffer!Write(r, p + 0, SubSeq(r.mem, q + 1, r.len)) /\ h = n - (q - p)
      OBVIOUS
    <2>3. h \in Nat /\ h = p + 0 + (n - q) /\ h <= k /\ p + 0 = p
      BY <1>1, <1>2, <2>1, <2>2, SMTT(40)
    <2>4. Moved(r, p, 0, q, z)
      BY <1>1, <1>2, <2>1, <2>2, <2>3, MovedIs
    <2>5. /\ Good(z) /\ z.len = n /\ Len(z.mem) = k
          /\ \A i \in 1..(p + 0) : z.mem[i] = r.mem[i]
          /\ \A i \in 1..(n - q) : z.mem[p + 0 + i] = r.mem[q + i]
      BY <1>1, <2>4 DEF Moved
    <2>6. Buffer!RemoveRange(r, p, q) = [z EXCEPT !.len = @ - (q - p)]
      BY <1>1, <1>7, <2>1, <2>2, <2>3 DEF Buffer!RemoveRange
    <2>7. [z EXCEPT !.len = @ - (q - p)] = [z EXCEPT !.len = h]
      BY <2>2, <2>5
    <2>8. \A i \in 1..p : z.mem[i] = t[i]
      <3>1. \A i \in 1..p : i \in 1..n
        BY <1>1, <1>2
      <3> QED BY <1>2, <2>3, <2>5, <3>1
    <2>9. \A i \in 1..Len(d) : z.mem[p + i] = d[i]
      BY <1>4
    <2>10. \A i \in 1..(Len(t) - q) : z.mem[p + Len(d) + i] = t[q + i]
      <3>1. \A i \in 1..(n - q) : q + i \in 1..n
        BY <1>2
      <3> QED BY <1>2, <1>4, <2>5, <3>1
    <2>11. Splice(z, t, p, q, d, h)
      BY <1>2, <1>4, <2>1, <2>3, <2>5, <2>8, <2>9, <2>10 DEF Splice
    <2>12. Holds([z EXCEPT !.len = h], Buffer!Take(t, p) \o d \o Buffer!Drop(t, q))
      BY <2>11, SplicedHolds
    <2> QED BY <1>5, <2>1, <2>6, <2>7, <2>12
  <1> QED BY <1>6, <1>7

(* BinaryBuffer_insert of an index that is refused.                        *)
LEMMA InsertKeeps ==
  ASSUME Holds(b, bytes), Careful, Buffer!Insert
  PROVE  Holds(b', bytes')
PROOF
  <1>1. PICK d \in Buffer!Data, index \in Buffer!Index :
          /\ index > b.len
          /\ b' = Buffer!BinaryBuffer_insert(b, index, d)
          /\ bytes' = bytes
    BY DEF Buffer!Insert
  <1>2. index \in Nat /\ b.len \in Nat
    BY <1>1, RoomIs DEF Buffer!Index, Holds, Good
  <1>3. index # b.len
    BY <1>1, <1>2
  <1>4. b' = b
    BY <1>1, <1>3 DEF Buffer!BinaryBuffer_insert
  <1> QED BY <1>1, <1>4

(* BinaryBuffer_remove.                                                    *)
LEMMA RemoveKeeps ==
  ASSUME Holds(b, bytes), Careful, Buffer!RemoveBytes
  PROVE  Holds(b', bytes')
PROOF
  <1>1. PICK p \in Buffer!Index, q \in Buffer!Index :
          /\ p <= q /\ Buffer!SafeRemove(p, q)
          /\ b' = Buffer!BinaryBuffer_remove(b, p, q)
          /\ bytes' = Buffer!Without(bytes, Buffer!Least(p, b.len), Buffer!Least(q, b.len))
    BY DEF Buffer!RemoveBytes
  <1>2. p \in Nat /\ q \in Nat /\ b.len \in Nat
    BY RoomIs DEF Buffer!Index, Holds, Good
  <1>3. q # b.len - 1 /\ (b.len = 0 => q = 0) /\ p <= b.len
    BY <1>1 DEF Buffer!SafeRemove
  <1>4. Buffer!Least(p, b.len) = p
    BY <1>2, <1>3 DEF Buffer!Least
  <1>5. b' = Buffer!RemoveRange(b, p, q)
    BY <1>1, <1>2 DEF Buffer!BinaryBuffer_remove
  <1>6. PICK m : m = Buffer!Least(q, b.len)
    OBVIOUS
  <1>7. Holds(Buffer!RemoveRange(b, p, q), Buffer!Without(bytes, p, m))
    BY <1>1, <1>2, <1>3, <1>6, RangeKeeps
  <1> QED BY <1>1, <1>4, <1>5, <1>6, <1>7

(* BinaryBuffer_copy_and_drain removes what it copied.                     *)
LEMMA DrainKeeps ==
  ASSUME Holds(b, bytes), Careful, Buffer!CopyAndDrain
  PROVE  Holds(b', bytes')
PROOF
  <1>1. PICK count \in Buffer!Index :
          /\ Buffer!SafeRemove(0, Buffer!Least(count, b.len))
          /\ b' = Buffer!BinaryBuffer_copy_and_drain(b, count)
          /\ bytes' = Buffer!Drop(bytes, Buffer!Least(count, b.len))
    BY DEF Buffer!CopyAndDrain
  <1>2. PICK q : q = Buffer!Least(count, b.len)
    OBVIOUS
  <1>3. b.len \in Nat /\ count \in Nat /\ bytes \in Seq(Byte) /\ Len(bytes) = b.len
    BY RoomIs DEF Buffer!Index, Holds, Good
  <1>4. q \in Nat /\ q <= b.len /\ 0 <= q /\ ~(0 > q)
    BY <1>2, <1>3 DEF Buffer!Least
  <1>5. q # b.len - 1 /\ (b.len = 0 => q = 0) /\ 0 <= b.len
    BY <1>1, <1>2 DEF Buffer!SafeRemove
  <1>6. Buffer!Least(q, b.len) = q
    BY <1>3, <1>4 DEF Buffer!Least
  <1>7. b' = Buffer!RemoveRange(b, 0, q)
    BY <1>1, <1>2, <1>4 DEF Buffer!BinaryBuffer_copy_and_drain, Buffer!BinaryBuffer_remove
  <1>8. Holds(Buffer!RemoveRange(b, 0, q), Buffer!Without(bytes, 0, q))
    BY <1>3, <1>4, <1>5, <1>6, RangeKeeps
  <1>9. Buffer!Without(bytes, 0, q) = Buffer!Drop(bytes, q)
    <2>1. PICK w : w = Buffer!Drop(bytes, q)
      OBVIOUS
    <2>2. w \in Seq(Byte)
      BY <1>3, <1>4, <2>1, DropIs
    <2>3. <<>> \o w = w /\ Buffer!Take(bytes, 0) = <<>>
      BY <1>3, <2>2, NoBytes
    <2> QED BY <2>1, <2>3 DEF Buffer!Without
  <1> QED BY <1>1, <1>2, <1>7, <1>8, <1>9

(* BinaryBuffer_copy_block_and_drain too.                                  *)
LEMMA BlockKeeps ==
  ASSUME Holds(b, bytes), Careful, Buffer!CopyBlockAndDrain
  PROVE  Holds(b', bytes')
PROOF
  <1>1. PICK p \in Buffer!Index, e \in Buffer!Index, count \in Buffer!Index :
          /\ p <= e /\ Buffer!SafeRemove(p, p + Buffer!Least(count, e - p))
          /\ b' = Buffer!BinaryBuffer_copy_block_and_drain(b, p, e, count)
          /\ bytes' = IF e < b.len THEN Buffer!Without(bytes, p, p + Buffer!Least(count, e - p)) ELSE bytes
    BY DEF Buffer!CopyBlockAndDrain
  <1>2. PICK h, q : h = Buffer!Least(count, e - p) /\ q = p + h
    OBVIOUS
  <1>3. p \in Nat /\ e \in Nat /\ count \in Nat /\ b.len \in Nat
    BY RoomIs DEF Buffer!Index, Holds, Good
  <1>4. h \in Nat /\ q \in Nat /\ p <= q /\ q <= e /\ e >= p /\ ~(p > q)
    BY <1>1, <1>2, <1>3 DEF Buffer!Least
  <1>5. q # b.len - 1 /\ (b.len = 0 => q = 0) /\ p <= b.len
    BY <1>1, <1>2 DEF Buffer!SafeRemove
  <1>6. b' = IF Buffer!BadIndex(b, p, e) THEN b ELSE Buffer!BinaryBuffer_remove(b, p, q)
    BY <1>1, <1>2, <1>4 DEF Buffer!BinaryBuffer_copy_block_and_drain
  <1>7. CASE e < b.len
    <2>1. ~Buffer!BadIndex(b, p, e)
      BY <1>1, <1>3, <1>7 DEF Buffer!BadIndex
    <2>2. b' = Buffer!RemoveRange(b, p, q)
      BY <1>4, <1>6, <2>1 DEF Buffer!BinaryBuffer_remove
    <2>3. q = Buffer!Least(q, b.len)
      BY <1>3, <1>4, <1>7 DEF Buffer!Least
    <2>4. Holds(Buffer!RemoveRange(b, p, q), Buffer!Without(bytes, p, q))
      BY <1>3, <1>4, <1>5, <2>3, RangeKeeps
    <2> QED BY <1>1, <1>2, <1>7, <2>2, <2>4
  <1>8. CASE ~(e < b.len)
    <2>1. Buffer!BadIndex(b, p, e)
      BY <1>3, <1>8 DEF Buffer!BadIndex
    <2> QED BY <1>1, <1>6, <1>8, <2>1
  <1> QED BY <1>7, <1>8

(* A buffer is cleared.                                                    *)
LEMMA ClearKeeps ==
  ASSUME Holds(b, bytes), Buffer!Clear
  PROVE  Holds(b', bytes')
PROOF
  <1>1. PICK d : d = <<>>
    OBVIOUS
  <1>2. Good(b) /\ b \in Rec /\ b.len \in Nat /\ bytes \in Seq(Byte) /\ Len(b.mem) \in Nat
    BY DEF Holds, Good, Rec
  <1>3. d \in Seq(Byte) /\ Len(d) = 0 /\ Buffer!Take(bytes, 0) = d
    BY <1>1, <1>2, NoBytes
  <1>4. bytes' = d
    BY <1>1 DEF Buffer!Clear
  <1>5. Holds([b EXCEPT !.len = 0], d)
    <2>1. PICK n : n = 0
      OBVIOUS
    <2>2. n \in Nat /\ n <= Len(b.mem) /\ Len(d) = n /\ \A i \in 1..n : b.mem[i] = d[i]
      BY <1>2, <1>3, <2>1
    <2>3. Holds([b EXCEPT !.len = n], d)
      BY <1>2, <1>3, <2>2, LenSet
    <2> QED BY <2>1, <2>3
  <1>6. Holds(Buffer!BinaryBuffer_hard_resize(b, 0), d)
    <2>1. PICK z : z = Buffer!BinaryBuffer_hard_resize(b, 0)
      OBVIOUS
    <2>2. Resized(b, 0, z)
      BY <1>2, <2>1, HardResizeIs
    <2>3. 0 <= b.len /\ 0 <= Buffer!ULONG_MAX
      BY <1>2, RoomIs
    <2>4. Holds(z, Buffer!Take(bytes, 0))
      BY <2>2, <2>3, ResizedShorter
    <2> QED BY <1>3, <2>1, <2>4
  <1>7. Holds([b EXCEPT !.mem = <<>>, !.len = 0], d)
    <2>1. PICK e : e = <<>>
      OBVIOUS
    <2>2. e \in Seq(Cell) /\ Len(e) = 0
      BY <2>1
    <2>3. PICK o : o = 0
      OBVIOUS
    <2>4. o \in Int
      BY <2>3
    <2>5. PICK z : z = [b EXCEPT !.mem = e, !.len = o]
      OBVIOUS
    <2>6. b \in Rec
      BY <1>2
    <2>7. z \in Rec /\ z.mem = e /\ z.len = o /\ z.fault = b.fault /\ z.min_cap = b.min_cap /\ z.max_expand = b.max_expand
      BY <2>4, <2>5, <2>6, <2>2 DEF Rec
    <2>8. Good(z)
      BY <1>2, <2>3, <2>2, <2>7, RoomIs DEF Good
    <2>9. Holds(z, d)
      BY <1>3, <2>3, <2>7, <2>8 DEF Holds
    <2> QED BY <2>1, <2>3, <2>5, <2>9
  <1>8. b' \in {Buffer!BinaryBuffer_clear(b), Buffer!BinaryBuffer_clear_no_resize(b), Buffer!BinaryBuffer_extract_buffer(b)}
    BY DEF Buffer!Clear
  <1>9. b' \in {[b EXCEPT !.len = 0], Buffer!BinaryBuffer_hard_resize(b, 0), [b EXCEPT !.mem = <<>>, !.len = 0]}
    BY <1>8 DEF Buffer!BinaryBuffer_clear, Buffer!BinaryBuffer_clear_no_resize, Buffer!BinaryBuffer_extract_buffer
  <1> QED BY <1>4, <1>5, <1>6, <1>7, <1>9

(* The memory is made longer or shorter.                                   *)
LEMMA ResizeKeeps ==
  ASSUME Holds(b, bytes), Careful, Buffer!Resize
  PROVE  Holds(b', bytes')
PROOF
  <1>1. Good(b) /\ b.len \in Nat /\ bytes \in Seq(Byte) /\ Len(bytes) = b.len /\ b.min_cap \in Nat /\ b.len <= Buffer!ULONG_MAX
    BY RoomIs DEF Holds, Good, Rec
  <1>2. CASE b' = Buffer!BinaryBuffer_shrink_to_fit(b) /\ UNCHANGED bytes
    <2>1. PICK n, z : n = b.len /\ z = b'
      OBVIOUS
    <2>2. z = Buffer!BinaryBuffer_hard_resize(b, n)
      BY <1>2, <2>1 DEF Buffer!BinaryBuffer_shrink_to_fit
    <2>3. Resized(b, n, z)
      BY <1>1, <2>1, <2>2, HardResizeIs
    <2>4. n \in Nat /\ n <= Buffer!ULONG_MAX /\ b.len <= n
      BY <1>1, <2>1
    <2>5. Holds(z, bytes)
      BY <2>3, <2>4, ResizedHolds
    <2> QED BY <1>2, <2>1, <2>5
  <1>3. ASSUME NEW n \in Buffer!Index, b' = Buffer!BinaryBuffer_resize(b, n),
               bytes' = Buffer!Take(bytes, Buffer!Least(b.len, -Buffer!Least(-n, -b.min_cap)))
        PROVE  Holds(b', bytes')
    <2>1. n \in Nat /\ n <= Buffer!ULONG_MAX
      BY RoomIs DEF Buffer!Index
    <2>2. PICK z : z = b'
      OBVIOUS
    <2>3. PICK m \in Nat : m = (IF n < b.min_cap THEN b.min_cap ELSE n) /\ m <= Buffer!ULONG_MAX /\ Resized(b, m, z)
      BY <1>1, <1>3, <2>1, <2>2, ResizeIs
    <2>4. -Buffer!Least(-n, -b.min_cap) = m
      BY <1>1, <2>1, <2>3 DEF Buffer!Least
    <2>5. CASE b.len <= m
      <3>1. Buffer!Least(b.len, m) = b.len
        BY <1>1, <2>3, <2>5 DEF Buffer!Least
      <3>2. Buffer!Take(bytes, b.len) = bytes
        <4>1. PICK u, k : u = Buffer!Take(bytes, k) /\ k = b.len
          OBVIOUS
        <4>2. k \in Nat /\ k <= Len(bytes)
          BY <1>1, <4>1
        <4>3. u \in Seq(Byte) /\ Len(u) = k /\ \A i \in 1..k : u[i] = bytes[i]
          BY <1>1, <4>1, <4>2, TakeIs
        <4>4. u = bytes
          BY <1>1, <4>1, <4>3
        <4> QED BY <4>1, <4>4
      <3>3. Holds(z, bytes)
        BY <2>3, <2>5, ResizedHolds
      <3> QED BY <1>3, <2>2, <2>4, <3>1, <3>2, <3>3
    <2>6. CASE ~(b.len <= m)
      <3>1. Buffer!Least(b.len, m) = m /\ m <= b.len
        BY <1>1, <2>3, <2>6 DEF Buffer!Least
      <3>2. Holds(z, Buffer!Take(bytes, m))
        BY <2>3, <3>1, ResizedShorter
      <3> QED BY <1>3, <2>2, <2>4, <3>1, <3>2
    <2> QED BY <2>5, <2>6
  <1>4. ASSUME NEW n \in 1..BufferRoom, n >= b.len, b' = Buffer!BinaryBuffer_resize(b, n), bytes' = bytes
        PROVE  Holds(b', bytes')
    <2>1. n \in Nat /\ n <= Buffer!ULONG_MAX
      BY RoomIs
    <2>2. PICK z : z = b'
      OBVIOUS
    <2>3. PICK m \in Nat : m >= n /\ m <= Buffer!ULONG_MAX /\ Resized(b, m, z)
      BY <1>1, <1>4, <2>1, <2>2, ResizeIs
    <2>4. b.len <= m
      BY <1>1, <1>4, <2>1, <2>3
    <2>5. Holds(z, bytes)
      BY <2>3, <2>4, ResizedHolds
    <2> QED BY <1>4, <2>2, <2>5
  <1> QED BY <1>2, <1>3, <1>4 DEF Buffer!Resize

(* BinaryBuffer_replace of a range that is there, in memory that is enough.*)
LEMMA ReplaceKeeps ==
  ASSUME Holds(b, bytes), Careful, Buffer!Replace
  PROVE  Holds(b', bytes')
PROOF
  <1>1. PICK p \in Buffer!Index, o \in 0..2, d \in Buffer!Data :
          /\ p > b.len \/ Buffer!SafeReplace(p, o, Len(d))
          /\ b' = Buffer!BinaryBuffer_replace(b, p, o, d)
          /\ bytes' = IF p > b.len THEN bytes ELSE Buffer!Take(bytes, p) \o d \o Buffer!Drop(bytes, p + o)
    BY DEF Buffer!Replace
  <1>2. PICK n, k, l, q, h : n = b.len /\ k = Len(b.mem) /\ l = Len(d) /\ q = p + o /\ h = n + l - o
    OBVIOUS
  <1>3. Good(b) /\ n \in Nat /\ k \in Nat /\ bytes \in Seq(Byte) /\ Len(bytes) = n /\ \A i \in 1..n : b.mem[i] = bytes[i]
    BY <1>2 DEF Holds, Good, Rec
  <1>4. p \in Nat /\ o \in Nat /\ q \in Nat
    BY <1>2, RoomIs DEF Buffer!Index
  <1>5. d \in Seq(Byte) /\ l \in Nat
    BY <1>1, <1>2, DataIs
  <1>6. CASE p > n
    <2>1. b' = b
      <3>1. p > b.len /\ ~(p <= b.len)
        BY <1>2, <1>3, <1>4, <1>6, SMTT(40)
      <3> QED BY <1>1, <3>1 DEF Buffer!BinaryBuffer_replace
    <2> QED BY <1>1, <1>2, <1>6, <2>1
  <1>7. CASE ~(p > n)
    <2>1. q <= n /\ h <= k /\ p <= n
      BY <1>1, <1>2, <1>3, <1>4, <1>7 DEF Buffer!SafeReplace, Buffer!capacity
    <2>2. h \in Nat /\ h = p + l + (n - q) /\ p + l \in Nat /\ p + l <= h /\ p <= q
      BY <1>2, <1>3, <1>4, <1>5, <2>1
    <2>3. PICK y : y = Buffer!Write(b, p + l, SubSeq(b.mem, q + 1, b.len))
      OBVIOUS
    <2>4. Moved(b, p, l, q, y)
      BY <1>2, <1>3, <1>4, <1>5, <2>1, <2>2, <2>3, MovedIs
    <2>5. /\ Good(y) /\ y.len = n /\ Len(y.mem) = k
          /\ \A i \in 1..(p + l) : y.mem[i] = b.mem[i]
          /\ \A i \in 1..(n - q) : y.mem[p + l + i] = b.mem[q + i]
      BY <1>2, <2>4 DEF Moved
    <2>6. PICK z : z = Buffer!Write(y, p, d)
      OBVIOUS
    <2>7. d \in Seq(Cell)
      BY <1>5, BytesFit
    <2>8. p + Len(d) <= Len(y.mem)
      BY <1>2, <1>3, <1>4, <1>5, <2>1, <2>2, <2>5
    <2>9. Good(z) /\ Len(z.mem) = k /\ Written(y.mem, p, d, z.mem)
      BY <1>4, <2>5, <2>6, <2>7, <2>8, WriteGood
    <2>10. \A i \in 1..k : z.mem[i] = IF i \in (p + 1)..(p + l) THEN d[i - p] ELSE y.mem[i]
      BY <1>2, <2>5, <2>9 DEF Written
    <2>11. \A i \in 1..p : z.mem[i] = bytes[i]
      <3>1. \A i \in 1..p : i \in 1..k /\ i \notin (p + 1)..(p + l) /\ i \in 1..(p + l) /\ i \in 1..n
        BY <1>3, <1>4, <1>5, <2>1, <2>2
      <3> QED BY <1>3, <2>5, <2>10, <3>1
    <2>12. \A i \in 1..l : z.mem[p + i] = d[i]
      <3>1. \A i \in 1..l : p + i \in 1..k /\ p + i \in (p + 1)..(p + l) /\ (p + i) - p = i
        BY <1>3, <1>4, <1>5, <2>1, <2>2
      <3> QED BY <2>10, <3>1
    <2>13. \A i \in 1..(n - q) : z.mem[p + l + i] = bytes[q + i]
      <3>1. \A i \in 1..(n - q) : p + l + i \in 1..k /\ p + l + i \notin (p + 1)..(p + l) /\ q + i \in 1..n
        BY <1>3, <1>4, <1>5, <2>1, <2>2, SMTT(40)
      <3> QED BY <1>3, <2>5, <2>10, <3>1
    <2>14. Splice(z, bytes, p, q, d, h)
      BY <1>2, <1>3, <1>4, <1>5, <2>1, <2>2, <2>9, <2>11, <2>12, <2>13 DEF Splice
    <2>15. Holds([z EXCEPT !.len = h], Buffer!Take(bytes, p) \o d \o Buffer!Drop(bytes, q))
      BY <2>14, SplicedHolds
    <2>16. b' = [z EXCEPT !.len = h]
      <3>1. ~(p > n) /\ ~(k < h) /\ ~(q > n)
        BY <1>3, <1>4, <1>7, <2>1, <2>2
      <3>2. Buffer!capacity(b) = k
        BY <1>2 DEF Buffer!capacity
      <3>3. ~(p > b.len) /\ ~(Buffer!capacity(b) < b.len + Len(d) - o) /\ ~(p + o > b.len)
        BY <1>2, <3>1, <3>2
      <3>4. Buffer!BinaryBuffer_replace(b, p, o, d) 
                = [Buffer!Write(Buffer!Write(b, p + Len(d), SubSeq(b.mem, p + o + 1, b.len)), p, d) EXCEPT !.len = b.len + Len(d) - o]
        BY <3>3 DEF Buffer!BinaryBuffer_replace
      <3> QED BY <1>1, <1>2, <2>3, <2>6, <3>4
    <2> QED BY <1>1, <1>2, <1>7, <2>15, <2>16
  <1> QED BY <1>6, <1>7

(* The sizes that a buffer grows by.                                       *)
LEMMA ConfigureKeeps ==
  ASSUME Holds(b, bytes), Buffer!Configure
  PROVE  Holds(b', bytes')
PROOF
  <1>1. b \in Rec /\ bytes' = bytes
    BY DEF Holds, Good, Buffer!Configure
  <1>2. ASSUME NEW n \in 0..2, b' = [b EXCEPT !.min_cap = n] PROVE Holds(b', bytes)
    <2>1. PICK z : z = b'
      OBVIOUS
    <2>2. z \in Rec /\ z.mem = b.mem /\ z.len = b.len /\ z.fault = b.fault /\ z.min_cap = n /\ z.max_expand = b.max_expand
      BY <1>1, <1>2, <2>1 DEF Rec
    <2>3. Holds(z, bytes)
      BY <2>2 DEF Holds, Good
    <2> QED BY <2>1, <2>3
  <1>3. ASSUME NEW n \in 0..2, b' = Buffer!BinaryBuffer_set_max_expand_size(b, n) PROVE Holds(b', bytes)
    <2>1. PICK z, m : z = b' /\ m = IF n = 0 THEN Buffer!ULONG_MAX ELSE n
      OBVIOUS
    <2>2. m \in Nat /\ m # 0
      BY <2>1, RoomIs
    <2>3. z = [b EXCEPT !.max_expand = m]
      BY <1>3, <2>1 DEF Buffer!BinaryBuffer_set_max_expand_size
    <2>4. z \in Rec /\ z.mem = b.mem /\ z.len = b.len /\ z.fault = b.fault /\ z.min_cap = b.min_cap /\ z.max_expand = m
      BY <1>1, <2>2, <2>3 DEF Rec
    <2>5. Holds(z, bytes)
      BY <2>2, <2>4 DEF Holds, Good
    <2> QED BY <2>1, <2>5
  <1> QED BY <1>1, <1>2, <1>3 DEF Buffer!Configure

(* A new buffer.                                                           *)
LEMMA NewHolds ==
  ASSUME NEW d \in Seq(Byte), Len(d) <= 2, NEW s0 \in 0..2, NEW m0 \in 0..2
  PROVE  Holds(Buffer!newBinaryBuffer_ex(d, s0, m0, 2), d)
PROOF
  <1>1. PICK l, k : l = Len(d) /\ k = -Buffer!Least(-Len(d), Buffer!Least(-s0, -m0))
    OBVIOUS
  <1>2. l \in Nat /\ k \in Nat /\ l <= k /\ k <= 2
    BY <1>1 DEF Buffer!Least
  <1>3. PICK y : y = [i \in 1..k |-> Buffer!Unset]
    OBVIOUS
  <1>4. y \in Seq(Cell) /\ Len(y) = k
    <2>1. Buffer!Unset \in Cell
      BY DEF Cell
    <2> QED BY <1>2, <1>3, <2>1
  <1>5. PICK r : r = [mem |-> y, len |-> l, min_cap |-> m0, max_expand |-> 2, fault |-> FALSE]
    OBVIOUS
  <1>6. r \in Rec /\ r.mem = y /\ r.len = l /\ r.min_cap = m0 /\ r.max_expand = 2 /\ r.fault = FALSE
    BY <1>2, <1>4, <1>5 DEF Rec
  <1>7. Good(r)
    BY <1>2, <1>4, <1>6, RoomIs DEF Good
  <1>8. PICK z : z = Buffer!Write(r, 0, d)
    OBVIOUS
  <1>9. Buffer!newBinaryBuffer_ex(d, s0, m0, 2) = z
    BY <1>1, <1>3, <1>5, <1>8 DEF Buffer!newBinaryBuffer_ex
  <1>10. d \in Seq(Cell)
    BY BytesFit
  <1>11. 0 + Len(d) <= Len(r.mem)
    BY <1>1, <1>2, <1>4, <1>6
  <1>12. Good(z) /\ z.len = l /\ Written(y, 0, d, z.mem)
    BY <1>6, <1>7, <1>8, <1>10, <1>11, WriteGood
  <1>13. \A i \in 1..k : z.mem[i] = IF i \in (0 + 1)..(0 + l) THEN d[i - 0] ELSE y[i]
    BY <1>1, <1>4, <1>12 DEF Written
  <1>14. \A i \in 1..l : i \in 1..k /\ i \in (0 + 1)..(0 + l) /\ i - 0 = i
    BY <1>2
  <1>15. \A i \in 1..l : z.mem[i] = d[i]
    BY <1>13, <1>14
  <1>16. Holds(z, d)
    BY <1>1, <1>12, <1>15 DEF Holds
  <1> QED BY <1>9, <1>16

(* It takes the place of the old one.                                      *)
LEMMA RenewKeeps ==
  ASSUME Buffer!Renew
  PROVE  Holds(b', bytes')
PROOF
  <1>1. PICK d \in Buffer!Data, s0 \in 0..2, m0 \in 0..2 : b' = Buffer!newBinaryBuffer_ex(d, s0, m0, 2) /\ bytes' = d
    BY DEF Buffer!Renew
  <1>2. d \in Seq(Byte) /\ Len(d) <= 2
    BY DataIs
  <1> QED BY <1>1, <1>2, NewHolds

(* A buffer that holds the bytes is as promised.                           *)
LEMMA HoldsPromised ==
  ASSUME Holds(b, bytes)
  PROVE  HoldsItsBytes
PROOF
  <1>1. PICK k, n, x : k = Len(b.mem) /\ n = b.len /\ x = Buffer!Take(b.mem, b.len)
    OBVIOUS
  <1>2. b.mem \in Seq(Cell) /\ n \in Nat /\ k \in Nat /\ n <= k /\ b.fault = FALSE
    BY <1>1 DEF Holds, Good, Rec
  <1>3. x \in Seq(Cell) /\ Len(x) = n /\ \A i \in 1..n : x[i] = b.mem[i]
    BY <1>1, <1>2, TakeIs
  <1>4. bytes \in Seq(Byte) /\ Len(bytes) = n /\ \A i \in 1..n : b.mem[i] = bytes[i]
    BY <1>1 DEF Holds
  <1>5. x = bytes
    BY <1>2, <1>3, <1>4
  <1> QED BY <1>1, <1>2, <1>5 DEF HoldsItsBytes, Buffer!HoldsItsBytes, Buffer!capacity, Buffer!Contents

(* Every step of a caller who keeps away from the calls the code gets      *)
(* wrong keeps the bytes.                                                  *)
LEMMA BufferSteps ==
  ASSUME Holds(b, bytes), Careful, [Next]_allVars
  PROVE  Holds(b, bytes)'
PROOF
  <1>1. UNCHANGED bufferVars \/ Buffer!Next
    BY DEF Next, On, allVars
  <1>2. CASE UNCHANGED bufferVars
    BY <1>2 DEF bufferVars, Holds, Good
  <1>3. CASE Buffer!Next
    BY <1>3, AppendKeeps, AppendFileKeeps, InsertKeeps, RemoveKeeps, ClearKeeps, ResizeKeeps, DrainKeeps, BlockKeeps,
       ReplaceKeeps, ConfigureKeeps, RenewKeeps DEF Buffer!Next
  <1> QED BY <1>1, <1>2, <1>3

(* BinaryBuffer.c, for any bytes and lengths up to any bound: whatever     *)
(* sequence of appending, removing, draining, replacing, growing and       *)
(* shrinking calls is made on a buffer, but for those the code is known to *)
(* get wrong, its length stays inside its memory, no call reads or writes  *)
(* outside of it, and the bytes in use are the ones promised.              *)
THEOREM BuffersHoldTheirBytes ==
  ASSUME Careful
  PROVE  Spec => []HoldsItsBytes
PROOF
  <1>1. Init => Holds(b, bytes)
    <2>1. PICK d : d = <<>>
      OBVIOUS
    <2>2. d \in Seq(Byte) /\ Len(d) <= 2 /\ 0 \in 0..2 /\ 1 \in 0..2
      BY <2>1
    <2>3. Holds(Buffer!newBinaryBuffer_ex(d, 0, 1, 2), d)
      BY <2>2, NewHolds
    <2> QED BY <2>1, <2>3 DEF Init, Buffer!Init
  <1>2. Holds(b, bytes) /\ [Next]_allVars => Holds(b, bytes)'
    BY BufferSteps
  <1>3. Holds(b, bytes) => HoldsItsBytes
    BY HoldsPromised
  <1> QED BY <1>1, <1>2, <1>3, PTL DEF Spec

=============================================================================
