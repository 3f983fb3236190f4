---------------------------- MODULE ComDataCheck ----------------------------
(***************************************************************************)
(* Framing of messages on a stream, source/ComDataCheck.c: a sender        *)
(* composes a message in an object in output mode and sends its length and *)
(* its data; a receiver appends what recv returns, cut anywhere, to an     *)
(* object in input mode.                                                   *)
(*                                                                         *)
(* The two BinaryBuffers of an object are sequences of bytes.  Byte k of   *)
(* message i is <<i, k>>; its header has the bytes up to <<i, 0>>.         *)
(***************************************************************************)
EXTENDS Integers, SequencesExt

CONSTANTS
  Header,     \* sizeof(cdc->data_len)
  Longest,    \* the longest message sent
  Messages    \* how many are sent

VARIABLES
  out,      \* the sender's object: the data of the message it composes
  sent,     \* the messages sent
  wire,     \* the bytes that have not been received
  in,       \* the receiver's object and the value its last call returned
  got,      \* the messages the receiver took
  broken,   \* a send was short or failed: the sender gives the connection up
  crashed   \* a copy ran out of every buffer

vars == <<out, sent, wire, in, got, broken, crashed>>

Take(s, n) == SubSeq(s, 1, n)
Drop(s, n) == SubSeq(s, n + 1, Len(s))

CDC_WAITING == "waiting"
CDC_COMPLETE == "complete"
CDC_DATA_REMAINING == "remaining"
Unasked == "unasked"

(* The length in network order, and back; bytes that are no header read as *)
(* a length no message has.                                                *)
htonl(i) == [k \in 1..Header |-> <<i, k - Header>>]
ntohl(bytes) ==
  IF \E i \in DOMAIN sent : bytes = htonl(i)
  THEN Len(sent[CHOOSE i \in DOMAIN sent : bytes = htonl(i)]) ELSE Longest + Header + 1

(* Mutant: the surplus is cut off and not kept.                            *)
ComDataCheck_check_drops(c) ==
  CASE Len(c.buff) < c.data_len -> [c EXCEPT !.rval = CDC_WAITING]
    [] Len(c.buff) = c.data_len -> [c EXCEPT !.rval = CDC_COMPLETE]
    [] OTHER -> [c EXCEPT !.buff = Take(@, c.data_len), !.rval = CDC_COMPLETE]

(* The surplus over the expected length goes to the end of unread_buff.    *)
ComDataCheck_check(c) ==
  CASE Len(c.buff) < c.data_len -> [c EXCEPT !.rval = CDC_WAITING]
    [] Len(c.buff) = c.data_len -> [c EXCEPT !.rval = CDC_COMPLETE]
    [] OTHER -> [c EXCEPT !.buff = Take(@, c.data_len),
                          !.unread_buff = @ \o Drop(c.buff, c.data_len),
                          !.rval = CDC_DATA_REMAINING]

(* ComDataCheck_append once there is no unread data.  While data_len is 0  *)
(* the buffer holds a part of the header, and the header is read when it   *)
(* is followed by something.                                               *)
AppendInput(c, data) ==
  LET all == c.buff \o data
  IN CASE data = <<>> -> ComDataCheck_check(c)
       [] data # <<>> /\ c.data_len # 0 -> ComDataCheck_check([c EXCEPT !.buff = all])
       [] data # <<>> /\ c.data_len = 0 /\ Len(all) <= Header ->
            [c EXCEPT !.buff = all, !.rval = CDC_WAITING]
       [] OTHER -> ComDataCheck_check([c EXCEPT !.data_len = ntohl(Take(all, Header)),
                                                !.buff = Drop(all, Header)])

ComDataCheck_process_buffered_data(c) ==
  AppendInput([c EXCEPT !.unread_buff = <<>>], c.unread_buff)

(* Unread data comes first; if that makes a message, the new data waits.   *)
ComDataCheck_append(c, data) ==
  LET p == ComDataCheck_process_buffered_data(c)
  IN IF c.unread_buff = <<>> THEN AppendInput(c, data)
     ELSE IF p.rval = CDC_WAITING THEN AppendInput(p, data)
     ELSE [p EXCEPT !.unread_buff = @ \o data, !.rval = IF data = <<>> THEN @ ELSE CDC_DATA_REMAINING]

ComDataCheck_clear(c) == [c EXCEPT !.data_len = 0, !.buff = <<>>]

-----------------------------------------------------------------------------
(* The sender: ComDataCheck_append and ComDataCheck_clear in output mode.  *)
Compose ==
  /\ Len(sent) < Messages /\ Len(out) < Longest
  /\ out' = Append(out, <<Len(sent) + 1, Len(out) + 1>>)
  /\ UNCHANGED <<sent, wire, in, got, broken, crashed>>

ClearOutput ==
  /\ out # <<>>
  /\ out' = <<>>
  /\ UNCHANGED <<sent, wire, in, got, broken, crashed>>

(* The length and then the data are sent; either send may be short or      *)
(* fail, which leaves the first bytes of them on the wire.  The object     *)
(* keeps its data, and may be sent again.                                  *)
ComDataCheck_send ==
  /\ Len(sent) < Messages /\ ~broken
  /\ sent' = Append(sent, out)
  /\ LET whole == wire \o htonl(Len(sent) + 1) \o out
     IN \/ wire' = whole /\ broken' = FALSE
        \/ \E n \in Len(wire)..Len(whole) :
             /\ n < Len(whole) \/ out = <<>>
             /\ wire' = Take(whole, n) /\ broken' = TRUE
  /\ UNCHANGED <<out, in, got, crashed>>

(* The receiver takes a message as soon as it is told of one.              *)
Due == in.rval \in {CDC_COMPLETE, CDC_DATA_REMAINING}

(* A turn of ComDataCheck_recv: recv returns what has come so far.         *)
ComDataCheck_recv ==
  /\ ~Due
  /\ \E n \in 1..Len(wire) :
       /\ in' = ComDataCheck_append(in, Take(wire, n))
       /\ wire' = Drop(wire, n)
  /\ UNCHANGED <<out, sent, got, broken, crashed>>

(* It fails or times out: -1 is the largest size_t, and that many bytes    *)
(* are appended.                                                           *)
ComDataCheck_recv_timeout ==
  /\ ~Due /\ wire = <<>>
  /\ crashed' = TRUE
  /\ UNCHANGED <<out, sent, wire, in, got, broken>>

(* The message is read and cleared; if data remains, it is processed now,  *)
(* or with the next that comes.                                            *)
TakeMessage ==
  /\ Due
  /\ got' = Append(got, in.buff)
  /\ LET c == ComDataCheck_clear(in)
     IN \/ in' = [c EXCEPT !.rval = Unasked]
        \/ in.rval = CDC_DATA_REMAINING /\ in' = ComDataCheck_process_buffered_data(c)
  /\ UNCHANGED <<out, sent, wire, broken, crashed>>

(* newComDataCheck.                                                        *)
Init ==
  /\ out = <<>> /\ sent = <<>> /\ wire = <<>> /\ got = <<>>
  /\ broken = FALSE /\ crashed = FALSE
  /\ in = [data_len |-> 0, buff |-> <<>>, unread_buff |-> <<>>, rval |-> Unasked]

Next ==
  /\ ~crashed
  /\ \/ Compose \/ ClearOutput \/ ComDataCheck_send
     \/ ComDataCheck_recv \/ ComDataCheck_recv_timeout \/ TakeMessage

Spec == Init /\ [][Next]_vars

-----------------------------------------------------------------------------
(* However the stream is cut, the receiver takes the messages that were    *)
(* sent, whole and in order: one whose send was short is never taken in    *)
(* part.  Unless that happened it has taken them all when nothing is left  *)
(* to be read; only an empty one waits for the next to follow it.          *)
FramesSurvive ==
  /\ IsPrefix(got, sent)
  /\ ~broken /\ wire = <<>> /\ in.unread_buff = <<>> /\ ~Due => sent \in {got, Append(got, <<>>)}

=============================================================================
