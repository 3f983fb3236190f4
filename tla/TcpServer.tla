----------------------------- MODULE TcpServer -----------------------------
(***************************************************************************)
(* The server of source/TcpServer.c: a controlling thread that starts,     *)
(* stops and deletes it, and a worker thread that accepts clients, serves  *)
(* them through callbacks and clears up when it ends; with the packages of *)
(* server_structs.c and EpollPack.c, of which there is one per worker.     *)
(*                                                                         *)
(* A client stands for its connection and for the descriptor accept gives  *)
(* it.  The mutex of wait_for_thread_return is held by none but waiters    *)
(* and is left out; the broadcasts are made without it, as in the code.    *)
(***************************************************************************)
EXTENDS Integers, FiniteSets

CONSTANT Client   \* connections that come and go

Thread == {"ctl", "worker"}
Rval == {"default", "close", "stop", "handled"}

VARIABLES
  sock,     \* TRUE while server->sock is open
  flags,    \* server->flag_pole
  reg,      \* the value a thread loaded from flag_pole to modify it
  waiting,  \* threads blocked on event_cond
  pc,       \* where each thread is
  ret,      \* where the subroutine a thread is in returns to
  epoll,    \* the descriptors of the worker's EpollPack ("srv" or clients)
  batch,    \* the events of triggered_events still to be handled
  cur,      \* the client the worker handles
  cb,       \* the callback it is in, and what that returned
  list,     \* the clients of server->client_list
  open,     \* clients whose descriptor is open in this process
  lost,     \* open descriptors that a failure left with no owner
  theirs,   \* open descriptors that only a callback knows of
  peer,     \* what the other side of each connection does
  usesReady,\* client_data_ready is set
  mayFail,  \* the registration and the listing of a client may fail
  freed     \* the server was freed

mem == <<list, open, lost, theirs>>
ctlVars == <<sock, flags, reg, waiting>>
vars == <<ctlVars, pc, ret, epoll, batch, cur, cb, mem, peer, usesReady, mayFail, freed>>

Goto(t, to) == pc' = [pc EXCEPT ![t] = to]
Rest == <<epoll, batch, cur, cb, mem, peer, usesReady, mayFail, freed>>

Branch(t, to) == Goto(t, to) /\ UNCHANGED <<ctlVars, ret, Rest>>

(* flag_raise and flag_lower: a load and a store.                          *)
Load(t, at, to) ==
  /\ pc[t] = at
  /\ reg' = [reg EXCEPT ![t] = flags]
  /\ Goto(t, to)
  /\ UNCHANGED <<sock, flags, waiting, ret, Rest>>

Store(t, at, value, to) ==
  /\ pc[t] = at
  /\ flags' = value
  /\ reg' = [reg EXCEPT ![t] = {}]
  /\ Goto(t, to)
  /\ UNCHANGED <<sock, waiting, ret, Rest>>

Broadcast(t, at, to) ==
  /\ pc[t] = at
  /\ waiting' = {}
  /\ Goto(t, to)
  /\ UNCHANGED <<sock, flags, reg, ret, Rest>>

-----------------------------------------------------------------------------
(* Subroutines of both threads.  A caller sets ret to <<then, after stop>>. *)

(* TcpServer_stop_async.                                                   *)
CloseSock(t) ==
  /\ pc[t] = "stop"
  /\ sock' = FALSE
  /\ epoll' = epoll \ {"srv"}
  /\ Goto(t, "stop1")
  /\ UNCHANGED <<flags, reg, waiting, ret, batch, cur, cb, mem, peer, usesReady, mayFail, freed>>

TcpServer_stop_async(t) ==
  \/ CloseSock(t)
  \/ Load(t, "stop1", "stop2")
  \/ Store(t, "stop2", reg[t] \cup {"STOP"}, "stop3")
  \/ Broadcast(t, "stop3", "stop4")
  \/ pc[t] = "stop4" /\ Branch(t, IF "CREATED" \in flags THEN "stop5" ELSE ret[t][1])
  \/ Load(t, "stop5", "stop6")
  \/ Store(t, "stop6", reg[t] \ {"CREATED"}, ret[t][1])

(* TcpServer_wait_for_thread_return: the flag is tested, then waited for.  *)
TcpServer_wait_for_thread_return(t) ==
  \/ pc[t] = "wait" /\ Branch(t, IF "CALLBACK" \in flags THEN ret[t][2] ELSE "wait1")
  \/ pc[t] = "wait1" /\ Branch(t, IF "RUNNING" \in flags THEN "wait2" ELSE ret[t][2])
  \/ /\ pc[t] = "wait2"
     /\ waiting' = waiting \cup {t}
     /\ Goto(t, "wait3")
     /\ UNCHANGED <<sock, flags, reg, ret, Rest>>
  \/ pc[t] = "wait3" /\ t \notin waiting /\ Branch(t, "wait1")

(* A call of TcpServer_stop and of TcpServer_stop_async.                   *)
CallStop(t, after) == Goto(t, "stop") /\ ret' = [ret EXCEPT ![t] = <<"wait", after>>]
CallStopAsync(t, after) == Goto(t, "stop") /\ ret' = [ret EXCEPT ![t] = <<after, after>>]

-----------------------------------------------------------------------------
(* listen_loop.                                                            *)

Events ==
  (IF "srv" \in epoll /\ \E c \in Client : peer[c] = "calls" THEN {"srv"} ELSE {})
    \cup {c \in epoll \cap Client : peer[c] \in {"sent", "hung_up"}}

LoopHead ==
  /\ pc["worker"] = "loop"
  /\ Branch("worker", IF "STOP" \notin flags /\ sock THEN "epoll" ELSE "clear")

(* epoll_wait times out, is interrupted, or returns what is ready.         *)
EpollWait ==
  /\ pc["worker"] = "epoll"
  /\ \/ Events = {} /\ Branch("worker", "loop")
     \/ Branch("worker", IF "STOP" \in flags \/ ~sock THEN "clear" ELSE "loop")
     \/ /\ Events # {}
        /\ batch' = Events
        /\ Goto("worker", "batch")
        /\ UNCHANGED <<ctlVars, ret, epoll, cur, cb, mem, peer, usesReady, mayFail, freed>>

(* The worker's locals hold nothing between two events.                    *)
NoCallback == [name |-> "none", rval |-> "none"]
Forget == cur' = "none" /\ cb' = NoCallback

BatchDone ==
  /\ pc["worker"] = "batch" /\ batch = {}
  /\ Forget /\ Goto("worker", "loop")
  /\ UNCHANGED <<ctlVars, ret, epoll, batch, mem, peer, usesReady, mayFail, freed>>

(* The worker goes on with the next event, or ends its loop.               *)
Then(to) == Goto("worker", to)
Callback(name) == cb' = [name |-> name, rval |-> "none"] /\ Then("raise")

(* An event of the listening socket: accept may find nobody, and the       *)
(* package may not be had.                                                 *)
Accept ==
  /\ pc["worker"] = "batch" /\ "srv" \in batch /\ sock
  /\ batch' = batch \ {"srv"}
  /\ \/ /\ \A c \in Client : peer[c] # "calls"
        /\ UNCHANGED <<pc, cb, cur, open, peer>>
     \/ \E c \in Client :
          /\ peer[c] = "calls"
          /\ peer' = [peer EXCEPT ![c] = "up"]
          /\ \/ cur' = c /\ open' = open \cup {c} /\ Callback("connected")
             \/ Then("clear") /\ UNCHANGED <<cur, open, cb>>
  /\ UNCHANGED <<ctlVars, ret, epoll, list, lost, theirs, usesReady, mayFail, freed>>

(* An event of a descriptor that is not on the list, or of the listening   *)
(* socket once that is closed: the descriptor is closed.                   *)
Unknown ==
  /\ pc["worker"] = "batch"
  /\ \E e \in batch :
       /\ IF e = "srv" THEN ~sock ELSE e \notin list
       /\ batch' = batch \ {e}
       /\ open' = open \ {e} /\ epoll' = epoll \ {e}
       /\ theirs' = theirs \ {e}
  /\ UNCHANGED <<ctlVars, pc, ret, cur, cb, list, lost, peer, usesReady, mayFail, freed>>

(* An event of a client: client_data_ready, or recv.                       *)
Serve ==
  /\ pc["worker"] = "batch"
  /\ \E c \in batch \cap list :
       /\ batch' = batch \ {c} /\ cur' = c
       /\ IF usesReady THEN Callback("ready") ELSE Then("data") /\ UNCHANGED cb
  /\ UNCHANGED <<ctlVars, ret, epoll, mem, peer, usesReady, mayFail, freed>>

(* Nothing more to read ends the client, else client_data_in gets the data.*)
Data ==
  /\ pc["worker"] = "data"
  /\ peer' = [peer EXCEPT ![cur] = IF @ = "sent" THEN "up" ELSE @]
  /\ IF peer[cur] = "sent" THEN Callback("in") ELSE Then("remove") /\ UNCHANGED cb
  /\ UNCHANGED <<ctlVars, ret, epoll, batch, cur, mem, usesReady, mayFail, freed>>

(* OBJECT_CALLBACK_STATE goes up, the callback runs, the flag goes down.   *)
(* The callback may stop or delete the server first.                       *)
RunCallback ==
  \/ Load("worker", "raise", "raised")
  \/ Store("worker", "raised", reg["worker"] \cup {"CALLBACK"}, "called")
  \/ /\ pc["worker"] = "called"
     /\ \E r \in Rval : cb' = [cb EXCEPT !.rval = r]
     /\ \/ Goto("worker", "lower") /\ UNCHANGED ret
        \/ CallStop("worker", "lower")
        \/ /\ pc["ctl"] = "idle" /\ "DELETE" \notin flags
           /\ CallStop("worker", "del")
     /\ UNCHANGED <<ctlVars, epoll, batch, cur, mem, peer, usesReady, mayFail, freed>>
  \/ Load("worker", "lower", "lowered")
  \/ Store("worker", "lowered", reg["worker"] \ {"CALLBACK"}, "returned")

(* delTcpServer in a callback: the thread runs, so that it is freed later. *)
DeleteInCallback ==
  \/ Load("worker", "del", "del1")
  \/ Store("worker", "del1", reg["worker"] \cup {"DELETE"}, "lower")

(* What an EpollPack watches.                                              *)
newEpollPack == {}
EpollPack_add_sock(ep, fd) == ep \cup {fd}

(* What follows client_connected.  A server that the callback has deleted  *)
(* forgets the client it has just accepted, and only the callback knows of *)
(* it.  A registration or a listing that fails frees the package and       *)
(* leaves the descriptor open.                                             *)
Connected ==
  /\ pc["worker"] = "returned" /\ cb.name = "connected"
  /\ LET over == "DELETE" \in flags
     IN \/ over /\ theirs' = theirs \cup {cur} /\ Then("clear") /\ UNCHANGED <<open, lost, epoll, list>>
        \/ /\ ~over /\ cb.rval \in {"close", "stop"}
           /\ open' = open \ {cur}
           /\ Then(IF cb.rval = "stop" THEN "clear" ELSE "batch")
           /\ UNCHANGED <<lost, theirs, epoll, list>>
        \/ /\ ~over /\ cb.rval = "handled"
           /\ theirs' = theirs \cup {cur} /\ Then("batch")
           /\ UNCHANGED <<open, lost, epoll, list>>
        \/ /\ ~over /\ cb.rval = "default"
           /\ \/ epoll' = EpollPack_add_sock(epoll, cur) /\ list' = list \cup {cur} /\ Then("batch") /\ UNCHANGED lost
              \/ mayFail /\ lost' = lost \cup {cur} /\ Then("batch") /\ UNCHANGED <<epoll, list>>
              \/ /\ mayFail /\ epoll' = EpollPack_add_sock(epoll, cur)
                 /\ lost' = lost \cup {cur} /\ Then("clear")
                 /\ UNCHANGED list
           /\ UNCHANGED <<open, theirs>>
  /\ Forget
  /\ UNCHANGED <<ctlVars, ret, batch, peer, usesReady, mayFail, freed>>

(* What follows client_data_ready and client_data_in.  A client that is to *)
(* be closed leaves the list first.                                        *)
Served ==
  /\ pc["worker"] = "returned" /\ cb.name \in {"ready", "in"}
  /\ Then(CASE "DELETE" \in flags -> "clear"
            [] "DELETE" \notin flags /\ cb.rval = "close" -> "remove"
            [] "DELETE" \notin flags /\ cb.rval = "stop" -> "clear"
            [] "DELETE" \notin flags /\ cb.rval = "handled" -> "batch"
            [] OTHER -> IF cb.name = "ready" THEN "data" ELSE "batch")
  /\ cb' = NoCallback
  /\ UNCHANGED <<ctlVars, ret, epoll, batch, cur, mem, peer, usesReady, mayFail, freed>>

(* Mutant: the package is freed and the descriptor left open.              *)
Gone_noClose(c) == list' = list \ {c} /\ UNCHANGED open

(* The package leaves the list; close_and_free_socket_package.             *)
Gone(c) == list' = list \ {c} /\ open' = open \ {c}

(* remove_client_cb: client_disconnected may ask for an end, which closes  *)
(* the listening socket.  (No flag says that this is a callback: one that  *)
(* calls TcpServer_stop would wait for itself, and does not here.)         *)
Disconnect(c, to) ==
  /\ Gone(c)
  /\ \/ epoll' = epoll \ {c} /\ UNCHANGED sock
     \/ epoll' = epoll \ {c, "srv"} /\ sock' = FALSE
  /\ Then(to) /\ Forget
  /\ UNCHANGED <<ret, flags, reg, waiting, batch, lost, theirs, peer, usesReady, mayFail, freed>>

RemoveClient == pc["worker"] = "remove" /\ Disconnect(cur, "batch")

(* ArrayList_clear_tsafe at the end of the loop.                           *)
ClearClients ==
  /\ pc["worker"] = "clear"
  /\ \/ \E c \in list : Disconnect(c, "clear")
     \/ list = {} /\ Branch("worker", "ended")

-----------------------------------------------------------------------------
(* start_thread.                                                           *)

ThreadBegins ==
  \/ Load("worker", "born", "born1")
  \/ Store("worker", "born1", reg["worker"] \cup {"RUNNING"}, "born2")
  \/ Broadcast("worker", "born2", "loop")

(* A deleted server is freed by its own thread, else thread_returning is   *)
(* called.                                                                 *)
ThreadEnds ==
  \/ /\ pc["worker"] = "ended"
     /\ IF "DELETE" \in flags THEN Then("gone") /\ UNCHANGED cb ELSE Callback("returning")
     /\ UNCHANGED <<ctlVars, ret, epoll, batch, cur, mem, peer, usesReady, mayFail, freed>>
  \/ /\ pc["worker"] = "returned" /\ cb.name = "returning"
     /\ IF "DELETE" \in flags THEN Then("gone") /\ UNCHANGED ret ELSE CallStopAsync("worker", "quit")
     /\ cb' = NoCallback
     /\ UNCHANGED <<ctlVars, epoll, batch, cur, mem, peer, usesReady, mayFail, freed>>
  \/ Load("worker", "quit", "quit1")
  \/ Store("worker", "quit1", reg["worker"] \ {"RUNNING"}, "quit2")
  \/ Broadcast("worker", "quit2", "epdel")

(* Mutant: the thread of a deleted server just returns.                    *)
FreeItself_forgets ==
  \/ Load("worker", "gone", "gone1")
  \/ Store("worker", "gone1", reg["worker"] \ {"RUNNING"}, "epdel")

(* freeTcpServer by the worker: RUNNING is low, so that it goes through.   *)
FreeItself ==
  \/ Load("worker", "gone", "gone1")
  \/ Store("worker", "gone1", reg["worker"] \ {"RUNNING"}, "gone2")
  \/ /\ pc["worker"] = "gone2"
     /\ freed' = TRUE
     /\ sock' = FALSE
     /\ Then("epdel")
     /\ UNCHANGED <<flags, reg, waiting, ret, epoll, batch, cur, cb, mem, peer, usesReady, mayFail>>

delEpollPack ==
  /\ pc["worker"] = "epdel"
  /\ epoll' = {} /\ batch' = {} /\ Forget
  /\ Then("done")
  /\ UNCHANGED <<ctlVars, ret, mem, peer, usesReady, mayFail, freed>>

WorkerStep ==
  \/ ThreadBegins \/ LoopHead \/ EpollWait \/ BatchDone \/ Accept \/ Unknown \/ Serve \/ Data
  \/ RunCallback \/ DeleteInCallback \/ Connected \/ Served \/ RemoveClient \/ ClearClients
  \/ ThreadEnds \/ FreeItself \/ delEpollPack
  \/ TcpServer_stop_async("worker") \/ TcpServer_wait_for_thread_return("worker")

-----------------------------------------------------------------------------
(* The controlling thread.  It calls nothing once the server is deleted.   *)

MayCall == pc["ctl"] = "idle" /\ "DELETE" \notin flags /\ pc["worker"] \notin {"del", "del1"}
Deleting == pc["worker"] \in {"stop", "stop1", "stop2", "stop3", "stop4", "stop5", "stop6", "wait"} /\ ret["worker"][2] = "del"

(* The test for a running server is never true.                            *)
TcpServer_start_async ==
  /\ MayCall /\ ~Deleting
  /\ ret' = [ret EXCEPT !["ctl"] = <<"bind", "bind">>]
  /\ Goto("ctl", IF {"STOP", "RUNNING"} \subseteq flags THEN "wait" ELSE "bind")
  /\ UNCHANGED <<ctlVars, Rest>>

(* Bound: the old thread is through with its own EpollPack by now.         *)
BindAndListen ==
  /\ pc["ctl"] = "bind"
  /\ pc["worker"] \in {"none", "done"}
  /\ \/ sock' = TRUE /\ Goto("ctl", "newep")
     \/ sock' = FALSE /\ ~sock /\ Goto("ctl", "idle")
  /\ UNCHANGED <<flags, reg, waiting, ret, Rest>>

(* Both steps may fail.                                                    *)
NewEpoll ==
  /\ pc["ctl"] = "newep"
  /\ \/ epoll' = EpollPack_add_sock(newEpollPack, "srv") /\ Goto("ctl", "unstop") /\ UNCHANGED ret
     \/ CallStopAsync("ctl", "idle") /\ UNCHANGED epoll
  /\ UNCHANGED <<ctlVars, batch, cur, cb, mem, peer, usesReady, mayFail, freed>>

StartThread ==
  \/ Load("ctl", "unstop", "unstop1")
  \/ Store("ctl", "unstop1", reg["ctl"] \ {"STOP"}, "create")
  \/ Load("ctl", "create", "create1")
  \/ Store("ctl", "create1", reg["ctl"] \cup {"CREATED", "RUNNING"}, "pthread")
  \/ /\ pc["ctl"] = "pthread"
     /\ pc' = [ctl |-> "idle", worker |-> "born"]
     /\ UNCHANGED <<ctlVars, ret, Rest>>
  \/ /\ pc["ctl"] = "pthread"
     /\ flags' = flags \ {"CREATED", "RUNNING"}
     /\ epoll' = {}
     /\ CallStopAsync("ctl", "idle")
     /\ UNCHANGED <<sock, reg, waiting, batch, cur, cb, mem, peer, usesReady, mayFail, freed>>

TcpServer_stop ==
  /\ MayCall /\ ~Deleting
  /\ CallStop("ctl", "idle")
  /\ UNCHANGED <<ctlVars, Rest>>

(* delTcpServer.  Bound: it is called when the thread has returned, whose  *)
(* last broadcast may otherwise find the server freed.                     *)
delTcpServer ==
  \/ /\ MayCall /\ pc["worker"] \in {"none", "done"} /\ ~freed
     /\ CallStop("ctl", "delete")
     /\ UNCHANGED <<ctlVars, Rest>>
  \/ Load("ctl", "delete", "delete1")
  \/ Store("ctl", "delete1", reg["ctl"] \cup {"DELETE"}, "free")
  \/ /\ pc["ctl"] = "free"
     /\ freed' = ("RUNNING" \notin flags /\ "CALLBACK" \notin flags)
     /\ Goto("ctl", "idle")
     /\ UNCHANGED <<ctlVars, ret, epoll, batch, cur, cb, mem, peer, usesReady, mayFail>>

ControlStep ==
  \/ BindAndListen \/ NewEpoll \/ StartThread \/ delTcpServer
  \/ TcpServer_stop_async("ctl") \/ TcpServer_wait_for_thread_return("ctl")

(* The other sides: they call a listening socket, send, and hang up.       *)
Peers ==
  \E c \in Client :
    /\ \/ peer[c] = "away" /\ sock /\ pc["worker"] \notin {"none", "done"} /\ peer' = [peer EXCEPT ![c] = "calls"]
       \/ peer[c] = "calls" /\ ~sock /\ peer' = [peer EXCEPT ![c] = "away"]
       \/ peer[c] = "up" /\ c \in list /\ peer' = [peer EXCEPT ![c] = "sent"]
       \/ peer[c] \in {"up", "sent"} /\ c \in open /\ peer' = [peer EXCEPT ![c] = "hung_up"]
       \/ peer[c] \in {"up", "sent", "hung_up"} /\ c \notin open /\ peer' = [peer EXCEPT ![c] = "away"]
    /\ UNCHANGED <<ctlVars, pc, ret, epoll, batch, cur, cb, mem, usesReady, mayFail, freed>>

-----------------------------------------------------------------------------
(* newTcpServer; client_data_ready is set before the server is started.    *)
Init ==
  /\ sock = FALSE /\ flags = {} /\ reg = [t \in Thread |-> {}] /\ waiting = {}
  /\ pc = [ctl |-> "idle", worker |-> "none"]
  /\ ret = [t \in Thread |-> <<"idle", "idle">>]
  /\ epoll = {} /\ batch = {} /\ cur = "none" /\ cb = NoCallback
  /\ list = {} /\ open = {} /\ lost = {} /\ theirs = {}
  /\ peer = [c \in Client |-> "away"]
  /\ usesReady \in BOOLEAN /\ mayFail \in BOOLEAN
  /\ freed = FALSE

(* Bound: a caller starts the server when its thread has returned or was   *)
(* told to; there would be a second thread otherwise (StartLeavesRunning). *)
MayStart == pc["worker"] \in {"none", "done"} \/ {"STOP", "RUNNING"} \subseteq flags
Calls == (MayStart /\ TcpServer_start_async) \/ TcpServer_stop

Next == Calls \/ ControlStep \/ WorkerStep \/ Peers

(* A caller who starts a server whatever it is doing.                      *)
AnySpec == Init /\ [][Next \/ TcpServer_start_async]_vars

(* Both threads run; epoll_wait ends by its timeout at the latest.         *)
Fairness == WF_vars(ControlStep) /\ WF_vars(WorkerStep)

Spec == Init /\ [][Next]_vars /\ Fairness

-----------------------------------------------------------------------------
(* Unless the registration or the listing of a client fails, which leaves  *)
(* its descriptor open with no owner (TcpServer.c:161-175), every open     *)
(* descriptor has exactly one: the list, a callback (that took it, or      *)
(* deleted the server while it was accepted), or the worker that is just   *)
(* accepting it.  A thread that has ended leaves none on the list or in    *)
(* its epoll object, whichever of the callbacks ended it and in which      *)
(* order.                                                                  *)
SocketsAccounted ==
  /\ list \subseteq open \ (lost \cup theirs)
  /\ open \ (list \cup lost \cup theirs) \subseteq {cur}
  /\ ~mayFail => lost = {}
  /\ pc["worker"] \in {"none", "done"} => list = {} /\ epoll \cap Client = {}

(* TcpServer_start_async's comment: "If the server is already running,     *)
(* ALIB_OK is returned." (TcpServer.c:354): a start binds no socket while  *)
(* the thread serves one.                                                  *)
StartLeavesRunning ==
  pc["ctl"] = "bind" /\ sock => "STOP" \in flags \/ pc["worker"] \in {"none", "done"}

Told == pc["worker"] \notin {"none", "done"} /\ ~sock
Ended == pc["worker"] \in {"done", "wait3"} \/ sock

(* The listening thread of a server that was told to stop ends, although   *)
(* flag_pole is written by both threads without a lock and THREAD_STOP may *)
(* be lost: the socket is closed, too.  A server that is started again     *)
(* goes on, and a callback whose own OBJECT_CALLBACK_STATE was lost in     *)
(* such a race waits for itself when it calls TcpServer_stop.              *)
StopEndsThread == Told ~> Ended

(* A server that one of its callbacks deletes is freed when its thread     *)
(* returns.                                                                *)
DeletedIsFreed == pc["worker"] = "del" ~> freed

=============================================================================
