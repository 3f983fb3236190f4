----------------------------- MODULE TcpClient -----------------------------
(***************************************************************************)
(* The client of source/TcpClient.c: a thread that connects, disconnects,  *)
(* sends and starts and stops the reading ("ctl"), the reading threads it  *)
(* creates, and a host that sends and hangs up.  Sockets are the numbers   *)
(* socket() returns, and are used again after a close.                     *)
(***************************************************************************)
EXTENDS Naturals, Sequences, FiniteSets

CONSTANTS
  Reader,   \* reading threads, one per pthread_create; names are used again
  Sock,     \* socket numbers
  Patient   \* TRUE: a call is made while the reader is in its loop or has
            \* returned, and a client is deleted after its reader has returned

Thread == Reader \cup {"ctl"}
None == "none"

VARIABLES
  sock,      \* client->sock, or None
  open,      \* the sockets of this process that are open
  hung,      \* the open ones whose host has hung up
  timed,     \* the sockets with a receive timeout
  hears,     \* data_in_cb is set
  flags,     \* flag_pole
  reg,       \* per thread: the flags it loaded to modify
  reader,    \* read_thread, the thread created last
  asleep,    \* ctl is blocked on read_cond
  told,      \* the disconnect callbacks made for the current connection
  raced,     \* two threads were closing it at the same time (history)
  freed,
  pc, ret    \* where the threads are, and return to

socks == <<sock, open, hung, timed, told, raced>>
flagVars == <<flags, reg>>
vars == <<socks, hears, flagVars, reader, asleep, freed, pc, ret>>

Goto(t, to) == pc' = [pc EXCEPT ![t] = to]
Return(t) == Goto(t, Head(ret[t])) /\ ret' = [ret EXCEPT ![t] = Tail(@)]
Call(t, sub, after) == Goto(t, sub) /\ ret' = [ret EXCEPT ![t] = <<after>> \o @]
Same == UNCHANGED <<socks, hears, flagVars, reader, asleep, freed>>
Step(t, at, to) == pc[t] = at /\ Goto(t, to) /\ UNCHANGED ret /\ Same

(* flag_raise and flag_lower are a load and a store, and another thread's  *)
(* update in between is lost.                                              *)
Update(t, at, mid, raised, lowered, to) ==
  /\ \/ /\ pc[t] = at /\ Goto(t, mid)
        /\ reg' = [reg EXCEPT ![t] = flags] /\ UNCHANGED flags
     \/ /\ pc[t] = mid /\ Goto(t, to)
        /\ flags' = (reg[t] \cup raised) \ lowered
        /\ reg' = [reg EXCEPT ![t] = {None}]
  /\ UNCHANGED <<socks, hears, reader, asleep, freed, ret>>

Broadcast(t, at, to) ==
  /\ pc[t] = at /\ Goto(t, to) /\ asleep' = FALSE
  /\ UNCHANGED <<socks, hears, flagVars, reader, freed, ret>>

Live(r) == pc[r] \notin {"unborn", "done"}

-----------------------------------------------------------------------------
(* Disconnecting, by ctl or by the reader, or by both at a time: the       *)
(* socket is tested, closed and forgotten in three steps.                  *)

Closing(t) == pc[t] \in {"close", "hangup"}

TestSocket(t) ==
  /\ pc[t] = "disconnect" /\ Goto(t, IF sock # None THEN "close" ELSE "async")
  /\ raced' = (raced \/ (sock # None /\ \E u \in Thread \ {t} : Closing(u)))
  /\ UNCHANGED <<sock, open, hung, timed, told, hears, flagVars, reader, asleep, freed, ret>>

(* Mutant: the socket is forgotten and not closed.                         *)
TcpClient_disconnect_leaks(t) ==
  \/ TestSocket(t)
  \/ pc[t] = "close" /\ Goto(t, "hangup") /\ UNCHANGED ret /\ Same
  \/ /\ pc[t] = "hangup" /\ Goto(t, "async")
     /\ sock' = None /\ told' = told + 1
     /\ UNCHANGED <<open, hung, timed, raced, hears, flagVars, reader, asleep, freed, ret>>

TcpClient_disconnect(t) ==
  \/ TestSocket(t)
  \/ /\ pc[t] = "close" /\ Goto(t, "hangup")
     /\ open' = open \ {sock} /\ hung' = hung \ {sock} /\ timed' = timed \ {sock}
     /\ UNCHANGED <<sock, told, raced, hears, flagVars, reader, asleep, freed, ret>>
  \/ /\ pc[t] = "hangup" /\ Goto(t, "async")
     /\ sock' = None /\ told' = told + 1
     /\ UNCHANGED <<open, hung, timed, raced, hears, flagVars, reader, asleep, freed, ret>>

TcpClient_read_stop_async(t) ==
  \/ Update(t, "async", "async1", {"STOP"}, {}, "async2")
  \/ IF {"CREATED", "RUNNING"} \subseteq flags
     THEN Step(t, "async2", "async3")
     ELSE pc[t] = "async2" /\ Return(t) /\ Same
  \/ Update(t, "async3", "async4", {}, {"CREATED"}, "async5")   \* pthread_detach
  \/ pc[t] = "async5" /\ Return(t) /\ Same

-----------------------------------------------------------------------------
(* read_loop_proc.                                                         *)

ThreadFrame(r) ==
  \/ Update(r, "born", "born1", {"RUNNING"}, {}, "born2")
  \/ Broadcast(r, "born2", "sockopt")
  \/ Update(r, "quit", "quit1", {}, {"RUNNING"}, "quit2")
  \/ Broadcast(r, "quit2", "done")

(* Mutant: recv is left without a timeout.                                 *)
SetTimeout_none(r) ==
  \/ Step(r, "sockopt", "quit")
  \/ sock # None /\ Step(r, "sockopt", "loop")

(* getsockopt and setsockopt fail, or the socket has a timeout from here   *)
(* on.                                                                     *)
SetTimeout(r) ==
  \/ Step(r, "sockopt", "quit")
  \/ /\ pc[r] = "sockopt" /\ sock # None /\ Goto(r, "loop")
     /\ timed' = timed \cup {sock}
     /\ UNCHANGED <<sock, open, hung, told, raced, hears, flagVars, reader, asleep, freed, ret>>

LoopHead(r) == Step(r, "loop", IF "STOP" \in flags \/ sock = None \/ ~hears THEN "quit" ELSE "recv")

(* recv returns what the host has sent.                                    *)
ReceiveData(r) == sock \in open /\ Step(r, "recv", "data")

(* It returns at the timeout, or because the host hung up or the socket    *)
(* was closed meanwhile.                                                   *)
Receive(r) ==
  \/ sock \notin open \ timed /\ Step(r, "recv", "loop")
  \/ /\ pc[r] = "recv" /\ (sock \in hung \/ sock \notin open)
     /\ IF "DELETE" \in flags THEN Goto(r, "quit") /\ UNCHANGED ret ELSE Call(r, "disconnect", "quit")
     /\ Same

(* data_in_cb, which may ask for the connection to be closed.              *)
DataIn(r) ==
  \/ Step(r, "data", "loop")
  \/ pc[r] = "data" /\ Call(r, "disconnect", "loop") /\ Same

-----------------------------------------------------------------------------
(* Starting and stopping the reader.                                       *)

(* TcpClient_read_stop.                                                    *)
TcpClient_read_stop ==
  \/ /\ pc["ctl"] = "stop" /\ Same
     /\ IF "CREATED" \in flags THEN Goto("ctl", "stop1") /\ UNCHANGED ret
        ELSE IF "RUNNING" \in flags THEN Goto("ctl", "await") /\ UNCHANGED ret
        ELSE Return("ctl")
  \/ Update("ctl", "stop1", "stop2", {"STOP"}, {}, "join")
  \/ ~Live(reader) /\ Step("ctl", "join", "stop3")
  \/ Update("ctl", "stop3", "stop4", {}, {"CREATED"}, "stop5")
  \/ pc["ctl"] = "stop5" /\ Return("ctl") /\ Same

(* TcpClient_read_thread_wait: the flag is written without the mutex.      *)
TcpClient_read_thread_wait ==
  \/ /\ pc["ctl"] = "await" /\ Same
     /\ IF "RUNNING" \in flags THEN Goto("ctl", "block") /\ UNCHANGED ret ELSE Return("ctl")
  \/ /\ pc["ctl"] = "block" /\ Goto("ctl", "blocked") /\ asleep' = TRUE
     /\ UNCHANGED <<socks, hears, flagVars, reader, freed, ret>>
  \/ ~asleep /\ Step("ctl", "blocked", "await")

(* Mutant: a reader that was told to stop is not waited for.               *)
TcpClient_read_start_atOnce ==
  \/ /\ pc["ctl"] = "start" /\ Same
     /\ IF "RUNNING" \in flags /\ "STOP" \notin flags THEN Return("ctl")
                                                      ELSE Goto("ctl", "start1") /\ UNCHANGED ret
  \/ /\ pc["ctl"] = "start1" /\ Same
     /\ IF hears /\ sock # None THEN Goto("ctl", "lower") /\ UNCHANGED ret ELSE Return("ctl")
  \/ Update("ctl", "lower", "lower1", {}, {"STOP"}, "raise")
  \/ Update("ctl", "raise", "raise1", {"CREATED"}, {}, "create")
  \/ /\ pc["ctl"] = "create"
     /\ \E r \in Reader :
          /\ ~Live(r) /\ reader' = r
          /\ pc' = [pc EXCEPT ![r] = "born", !["ctl"] = Head(ret["ctl"])]
     /\ ret' = [ret EXCEPT !["ctl"] = Tail(@)]
     /\ UNCHANGED <<socks, hears, flagVars, asleep, freed>>

(* TcpClient_read_start; pthread_create may fail.                          *)
TcpClient_read_start ==
  \/ /\ pc["ctl"] = "start" /\ Same
     /\ IF "RUNNING" \in flags /\ "STOP" \notin flags THEN Return("ctl")
                                                      ELSE Call("ctl", "stop", "start1")
  \/ /\ pc["ctl"] = "start1" /\ Same
     /\ IF hears /\ sock # None THEN Goto("ctl", "lower") /\ UNCHANGED ret ELSE Return("ctl")
  \/ Update("ctl", "lower", "lower1", {}, {"STOP"}, "raise")
  \/ Update("ctl", "raise", "raise1", {"CREATED"}, {}, "create")
  \/ /\ pc["ctl"] = "create"
     /\ \E r \in Reader :
          /\ ~Live(r) /\ reader' = r
          /\ pc' = [pc EXCEPT ![r] = "born", !["ctl"] = Head(ret["ctl"])]
     /\ ret' = [ret EXCEPT !["ctl"] = Tail(@)]
     /\ UNCHANGED <<socks, hears, flagVars, asleep, freed>>
  \/ Update("ctl", "create", "create1", {}, {"CREATED"}, "create2")
  \/ pc["ctl"] = "create2" /\ Return("ctl") /\ Same
-----------------------------------------------------------------------------
(* The calls.                                                              *)

(* socket, sockopt_cb and connect, each of which may fail; then the reader *)
(* is started.                                                             *)
TcpClient_connect ==
  \/ /\ pc["ctl"] = "connect" /\ sock # None /\ Return("ctl") /\ Same
  \/ /\ pc["ctl"] = "connect" /\ sock = None
     /\ \/ Return("ctl") /\ Same
        \/ \E s \in Sock \ open :
             /\ sock' = s /\ open' = open \cup {s} /\ told' = 0 /\ raced' = FALSE
             /\ Goto("ctl", "connect1")
             /\ UNCHANGED <<hung, timed, hears, flagVars, reader, asleep, freed, ret>>
  \/ /\ pc["ctl"] = "connect1" /\ Return("ctl")
     /\ open' = open \ {sock} /\ hung' = hung \ {sock} /\ sock' = None
     /\ UNCHANGED <<timed, told, raced, hears, flagVars, reader, asleep, freed>>
  \/ /\ pc["ctl"] = "connect1" /\ Same
     /\ IF hears THEN Goto("ctl", "start") /\ UNCHANGED ret ELSE Return("ctl")

(* A patient caller leaves a new reader the time to reach its loop, and    *)
(* one that disconnects or returns the time to do so.  The reader goes on  *)
(* while the call is under way, and may disconnect beside it.              *)
MayCall ==
  /\ pc["ctl"] = "idle" /\ ~freed
  /\ Patient => \A r \in Reader : pc[r] \in {"unborn", "done", "loop", "recv", "data", "quit2"}

(* TcpClient_connect, TcpClient_disconnect, TcpClient_read_start,          *)
(* TcpClient_read_stop and TcpClient_read_stop_async; TcpClient_send       *)
(* connects first.                                                         *)
Calls ==
  /\ MayCall /\ Same
  /\ \E sub \in {"connect", "disconnect", "start", "stop", "async"} : Call("ctl", sub, "idle")

(* The callback is set while there is no reader, and the reader started,   *)
(* or it is cleared and the reader stopped.                                *)
TcpClient_set_data_in_cb ==
  /\ MayCall
  /\ \/ /\ hears' = TRUE /\ "RUNNING" \notin flags
        /\ Goto("ctl", "await") /\ ret' = [ret EXCEPT !["ctl"] = <<"start", "idle">>]
     \/ /\ hears' = FALSE /\ Call("ctl", "async", "idle")
  /\ UNCHANGED <<socks, flagVars, reader, asleep, freed>>

(* newTcpClient_from_socket takes a connected socket over.                 *)
newTcpClient_from_socket ==
  /\ freed /\ freed' = FALSE
  /\ \E s \in Sock \ open : sock' = s /\ open' = open \cup {s}
  /\ told' = 0 /\ raced' = FALSE /\ flags' = {} /\ hears' = FALSE
  /\ UNCHANGED <<hung, timed, reg, reader, asleep, pc, ret>>

delTcpClient ==
  \/ /\ MayCall /\ (Patient => \A r \in Reader : ~Live(r))
     /\ Goto("ctl", "delete") /\ Same /\ UNCHANGED ret
  \/ Update("ctl", "delete", "delete1", {"DELETE"}, {}, "delete2")
  \/ pc["ctl"] = "delete2" /\ Call("ctl", "disconnect", "free") /\ Same
  \/ /\ pc["ctl"] = "free" /\ Goto("ctl", "idle") /\ freed' = TRUE
     /\ UNCHANGED <<socks, hears, flagVars, reader, asleep, ret>>

(* The host hangs up.                                                      *)
HangUp ==
  /\ \E s \in open \ hung : s = sock /\ pc["ctl"] # "connect1" /\ hung' = hung \cup {s}
  /\ UNCHANGED <<sock, open, timed, told, raced, hears, flagVars, reader, asleep, freed, pc, ret>>

Init ==
  /\ sock = None /\ open = {} /\ hung = {} /\ timed = {} /\ told = 0 /\ raced = FALSE
  /\ hears = FALSE /\ flags = {} /\ reg = [t \in Thread |-> {None}]
  /\ reader \in Reader /\ asleep = FALSE /\ freed = FALSE
  /\ pc = [t \in Thread |-> IF t \in Reader THEN "unborn" ELSE "idle"]
  /\ ret = [t \in Thread |-> <<>>]

ReaderStep(r) ==
  \/ ThreadFrame(r) \/ SetTimeout(r) \/ LoopHead(r) \/ Receive(r) \/ DataIn(r)
  \/ TcpClient_disconnect(r) \/ TcpClient_read_stop_async(r)

ControlStep ==
  \/ TcpClient_disconnect("ctl") \/ TcpClient_read_stop_async("ctl")
  \/ TcpClient_read_stop \/ TcpClient_read_thread_wait \/ TcpClient_read_start
  \/ TcpClient_connect \/ (pc["ctl"] # "idle" /\ delTcpClient)

Next ==
  \/ \E r \in Reader : ReaderStep(r) \/ ReceiveData(r)
  \/ ControlStep \/ Calls \/ TcpClient_set_data_in_cb
  \/ newTcpClient_from_socket \/ delTcpClient \/ HangUp

(* The threads run, and a receive with a timeout returns.  Nothing says    *)
(* that the host ever sends.                                               *)
Fairness == (\A r \in Reader : SF_vars(ReaderStep(r))) /\ SF_vars(ControlStep)

Spec == Init /\ [][Next]_vars /\ Fairness

-----------------------------------------------------------------------------
(* The verdict SCB_RVAL_DELETE of data_in_cb or of disconnect_cb: the      *)
(* thread that made the callback deletes the client, unless a deletion is  *)
(* under way, and returns into the loop or the call it came from.          *)
DeleteVerdict(t) ==
  \/ t \in Reader /\ pc[t] = "data" /\ Call(t, "verdict", "loop") /\ Same    \* pthread_detach
  \/ Update(t, "verdict", "verdict1", {}, {"CREATED"}, "delete")
  \/ /\ pc[t] = "hangup" /\ sock' = None /\ told' = told + 1
     /\ IF "DELETE" \in flags THEN Return(t) ELSE Goto(t, "delete") /\ UNCHANGED ret
     /\ UNCHANGED <<open, hung, timed, raced, hears, flagVars, reader, asleep, freed>>
  \/ ret[t] # <<>> /\ Update(t, "delete", "delete1", {"DELETE"}, {}, "delete2")
  \/ ret[t] # <<>> /\ pc[t] = "delete2" /\ Call(t, "disconnect", "free") /\ Same
  \/ /\ ret[t] # <<>> /\ pc[t] = "free" /\ Return(t) /\ freed' = TRUE
     /\ UNCHANGED <<socks, hears, flagVars, reader, asleep>>

AnySpec == Init /\ [][Next \/ \E t \in Thread : DeleteVerdict(t)]_vars

-----------------------------------------------------------------------------
(* Over starts, stops of both kinds, hang-ups and new connections, one     *)
(* thread at a time reads the client's socket: a reader that was told to   *)
(* stop without being waited for cannot take bytes of the next connection. *)
OneReader == Cardinality({r \in Reader : pc[r] \in {"sockopt", "loop", "recv", "data"}}) <= 1

(* Whoever disconnects, the host that hung up, the callback or the caller, *)
(* also two of them at a time, the only open socket is the client's, and   *)
(* a connection's end is told once, or twice when two threads found the    *)
(* socket open before either had forgotten it.                             *)
SocketAccounted ==
  /\ open \subseteq {sock} /\ told <= (IF raced THEN 2 ELSE 1)
  /\ sock = None \/ sock \in open \/ \E t \in Thread : pc[t] = "hangup"

Joining == pc["ctl"] = "join"

(* TcpClient_read_stop returns: the receive timeout lets the reader see    *)
(* the flag.                                                               *)
ReadStopReturns == Joining ~> ~Joining

(* "We can't call 'TcpClient_disconnect()' if the object is in a delete    *)
(* state because it has already been called": the reader never closes the  *)
(* connection of a client that is being deleted.                           *)
NotInDeleteState == "DELETE" \in flags => \A r \in Reader : pc[r] # "disconnect" /\ ~Closing(r)

(* "Requests that the server be safely cleaned up" (SCB_RVAL_DELETE): when *)
(* the client is freed, no reading thread goes on with it.                 *)
SafelyCleanedUp == freed => \A r \in Reader : ~Live(r)
=============================================================================
