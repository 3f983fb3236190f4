------------------------------ MODULE FdServer ------------------------------
(***************************************************************************)
(* The server of source/FdServer.c, which receives file descriptors over   *)
(* an AF_UNIX socket: a controlling thread that runs, stops and deletes    *)
(* it, and a worker thread in run_loop.  FdServer_stop closes sockets and  *)
(* frees client packages in whichever thread calls it.                     *)
(*                                                                         *)
(* A client is the number of a descriptor, with the connection and the     *)
(* fds_package it stands for; once it is closed another connection may get *)
(* the number.  Using a package that was freed is undefined: the behaviour *)
(* ends there.                                                             *)
(***************************************************************************)
EXTENDS Sequences

CONSTANT Client   \* connections that come and go

Thread == {"ctl", "worker"}

VARIABLES
  sock,      \* server->sock > -1
  listening, \* the listening descriptor is open
  efd,       \* server->ep.efd > -1
  flags,     \* server->flag_pole
  reg,       \* the value a thread loaded from flag_pole to modify it
  pc,        \* where each thread is
  ret,       \* where the subroutines a thread is in return to
  watched,   \* what the epoll object watches
  first,     \* the descriptor in server->ep.events[0]
  batch,     \* the events still to be handled
  cur,       \* the package the worker handles
  list,      \* the packages of server->clients
  open,      \* clients whose descriptor is open here
  peer,      \* what the other side of each connection does
  crashed,   \* a freed package was used
  deleted    \* the server was freed

serverVars == <<sock, listening, efd, flags, reg, watched>>
clientVars == <<list, open>>
vars == <<serverVars, pc, ret, first, batch, cur, clientVars, peer, crashed, deleted>>

Goto(t, to) == pc' = [pc EXCEPT ![t] = to]
Call(t, sub, after) == Goto(t, sub) /\ ret' = [ret EXCEPT ![t] = <<after>> \o @]
Return(t) == Goto(t, Head(ret[t])) /\ ret' = [ret EXCEPT ![t] = Tail(@)]
Branch(t, to) ==
  Goto(t, to) /\ UNCHANGED <<serverVars, ret, first, batch, cur, clientVars, peer, crashed, deleted>>

(* flag_raise and flag_lower: a load and a store.                          *)
Load(t, at, to) ==
  /\ pc[t] = at
  /\ reg' = [reg EXCEPT ![t] = flags]
  /\ Goto(t, to)
  /\ UNCHANGED <<sock, listening, efd, flags, watched, ret, first, batch, cur, clientVars, peer, crashed, deleted>>

Store(t, at, value, to) ==
  /\ pc[t] = at
  /\ flags' = value
  /\ reg' = [reg EXCEPT ![t] = {}]
  /\ Goto(t, to)
  /\ UNCHANGED <<sock, listening, efd, watched, ret, first, batch, cur, clientVars, peer, crashed, deleted>>

-----------------------------------------------------------------------------
(* FdServer_stop, in the thread that calls it.                             *)

CloseFds(t) ==
  \/ /\ pc[t] = "stop2"
     /\ sock' = FALSE /\ listening' = (listening /\ ~sock)
     /\ watched' = watched \ {"srv"}
     /\ Goto(t, "stop3") /\ UNCHANGED efd
  \/ /\ pc[t] = "stop3"
     /\ efd' = FALSE /\ watched' = {}
     /\ Goto(t, "stop4") /\ UNCHANGED <<sock, listening>>

(* Freeing a package closes its descriptor.                                *)
free_fds_package(s) == open' = open \ s

(* ArrayList_clear_tsafe frees each package.                               *)
ClearClients(t) ==
  /\ pc[t] = "stop4"
  /\ list' = {} /\ free_fds_package(list)
  /\ Return(t)

FdServer_stop(t) ==
  \/ Load(t, "stop", "stop1")
  \/ Store(t, "stop1", reg[t] \cup {"STOP"}, "stop2")
  \/ /\ CloseFds(t)
     /\ UNCHANGED <<flags, reg, ret, first, batch, cur, clientVars, peer, crashed, deleted>>
  \/ /\ ClearClients(t)
     /\ UNCHANGED <<serverVars, first, batch, cur, peer, crashed, deleted>>

-----------------------------------------------------------------------------
(* run_loop.                                                               *)

Ready ==
  (IF "srv" \in watched /\ \E c \in Client : peer[c] = "calls" THEN {"srv"} ELSE {})
    \cup {c \in watched \cap Client : peer[c] \in {"sent", "hung_up"}}

(* Mutant: only the flag ends the loop.                                    *)
LoopHead_flagOnly == pc["worker"] = "loop" /\ Branch("worker", IF "STOP" \notin flags THEN "epoll" ELSE "end")

LoopHead == pc["worker"] = "loop" /\ Branch("worker", IF sock /\ efd THEN "epoll" ELSE "end")

(* epoll_wait times out, fails, or returns what is ready.                  *)
EpollWait ==
  /\ pc["worker"] = "epoll"
  /\ \/ Ready = {} /\ Branch("worker", "loop")
     \/ Branch("worker", IF "STOP" \notin flags /\ sock /\ efd THEN "loop" ELSE "end")
     \/ /\ efd /\ batch' = Ready
        /\ first' \in Ready
        /\ Goto("worker", "batch")
        /\ UNCHANGED <<serverVars, ret, cur, clientVars, peer, crashed, deleted>>

BatchDone ==
  /\ pc["worker"] = "batch" /\ batch = {}
  /\ first' = "none" /\ cur' = "none" /\ Goto("worker", "loop")
  /\ UNCHANGED <<serverVars, ret, batch, clientVars, peer, crashed, deleted>>

(* The events come in the order of the array.                              *)
TakeEvent(e) ==
  /\ pc["worker"] = "batch"
  /\ e \in batch /\ (first \in batch => e = first)
  /\ batch' = batch \ {e}

new_fds_package(c) == cur' = c /\ open' = open \cup {c}

(* An event of the server's socket: accept finds nobody, the package may   *)
(* not be had, the socket may have failed, or on_connect is next.          *)
Accept ==
  /\ sock /\ TakeEvent("srv")
  /\ \/ /\ ~listening \/ \A c \in Client : peer[c] # "calls"
        /\ UNCHANGED <<pc, cur, open, peer>>
     \/ Goto("worker", "end") /\ UNCHANGED <<cur, open, peer>>
     \/ /\ listening
        /\ \E c \in Client :
             /\ peer[c] = "calls" /\ peer' = [peer EXCEPT ![c] = "up"]
             /\ new_fds_package(c)
             /\ Goto("worker", "connect")
  /\ UNCHANGED <<serverVars, ret, first, list, crashed, deleted>>

(* on_connect returns, or calls FdServer_stop first.                       *)
OnConnect ==
  /\ pc["worker"] = "connect"
  /\ \/ Goto("worker", "connected") /\ UNCHANGED ret
     \/ Call("worker", "stop", "connected")
  /\ UNCHANGED <<serverVars, first, batch, cur, clientVars, peer, crashed, deleted>>

(* The new client is refused, cannot be watched or listed, or is added.    *)
Connected ==
  /\ pc["worker"] = "connected"
  /\ \/ /\ free_fds_package({cur}) /\ \E to \in {"batch", "end"} : Goto("worker", to)
        /\ UNCHANGED <<watched, list>>
     \/ /\ efd /\ list' = list \cup {cur} /\ watched' = watched \cup {cur}
        /\ Goto("worker", "batch") /\ UNCHANGED open
  /\ cur' = "none"
  /\ UNCHANGED <<sock, listening, efd, flags, reg, ret, first, batch, peer, crashed, deleted>>

(* Any other event is served with the descriptor of the array's first      *)
(* event.  If no package has it, it is closed: no client has the number    *)
(* then, but any other part of the process, which is not modelled, may.    *)
CloseUnknown ==
  /\ \E e \in batch :
       /\ TakeEvent(e) /\ (e = "srv" => ~sock)
       /\ first \notin list
       /\ open' = open \ {first} /\ listening' = (listening /\ first # "srv")
       /\ watched' = watched \ {first}
  /\ UNCHANGED <<sock, efd, flags, reg, pc, ret, first, cur, list, peer, crashed, deleted>>

(* An error of the event closes the client found, else it is read from.    *)
FindClient ==
  /\ \E e \in batch :
       /\ TakeEvent(e) /\ (e = "srv" => ~sock)
       /\ first \in list
       /\ cur' = first
       /\ IF e # "srv" /\ peer[e] = "hung_up" THEN Call("worker", "discon", "batch")
                                              ELSE Goto("worker", "recv") /\ UNCHANGED ret
  /\ UNCHANGED <<serverVars, first, clientVars, peer, crashed, deleted>>

(* ancil_recv_fd waits for the client, or fails.                           *)
Receive ==
  /\ pc["worker"] = "recv"
  /\ \/ peer[cur] = "sent" /\ Goto("worker", "receive") /\ UNCHANGED ret
        /\ peer' = [peer EXCEPT ![cur] = "up"]
     \/ /\ peer[cur] # "up" \/ cur \notin open
        /\ Call("worker", "discon", "batch") /\ UNCHANGED peer
  /\ UNCHANGED <<serverVars, first, batch, cur, clientVars, crashed, deleted>>

(* on_receive gets the package: the server goes on, the client is closed   *)
(* or the server is stopped.  It may call FdServer_stop itself.            *)
OnReceive ==
  \/ /\ pc["worker"] = "receive"
     /\ crashed' = (cur \notin open)
     /\ \/ Goto("worker", "received") /\ UNCHANGED ret
        \/ Call("worker", "stop", "received")
     /\ UNCHANGED <<serverVars, first, batch, cur, clientVars, peer, deleted>>
  \/ /\ pc["worker"] = "received"
     /\ \/ Goto("worker", "batch") /\ UNCHANGED ret
        \/ \E to \in {"batch", "end"} : Call("worker", "discon", to)
     /\ UNCHANGED <<serverVars, first, batch, cur, clientVars, peer, crashed, deleted>>

(* FdServer_close_client: on_disconnect, which may stop the server, then   *)
(* ArrayList_remove_tsafe.                                                 *)
OnDisconnect ==
  /\ pc["worker"] = "discon"
  /\ crashed' = (cur \notin open)
  /\ \/ Goto("worker", "remove") /\ UNCHANGED ret
     \/ Call("worker", "stop", "remove")
  /\ UNCHANGED <<serverVars, first, batch, cur, clientVars, peer, deleted>>

Remove ==
  /\ pc["worker"] = "remove"
  /\ list' = list \ {cur}
  /\ free_fds_package(list \cap {cur})
  /\ watched' = IF cur \in list THEN watched \ {cur} ELSE watched
  /\ cur' = "none" /\ Return("worker")
  /\ UNCHANGED <<sock, listening, efd, flags, reg, first, batch, peer, crashed, deleted>>

(* start_thread; run_loop ends by stopping the server.                     *)
ThreadFrame ==
  \/ Load("worker", "born", "born1")
  \/ Store("worker", "born1", reg["worker"] \cup {"RUNNING"}, "loop")
  \/ /\ pc["worker"] = "end"
     /\ Call("worker", "stop", "quit")
     /\ batch' = {} /\ first' = "none" /\ cur' = "none"
     /\ UNCHANGED <<serverVars, clientVars, peer, crashed, deleted>>
  \/ Load("worker", "quit", "quit1")
  \/ Store("worker", "quit1", reg["worker"] \ {"RUNNING"}, "done")

WorkerStep ==
  /\ ~crashed
  /\ \/ ThreadFrame \/ LoopHead \/ EpollWait \/ BatchDone \/ Accept \/ OnConnect \/ Connected
     \/ CloseUnknown \/ FindClient \/ Receive \/ OnReceive
     \/ OnDisconnect \/ Remove \/ FdServer_stop("worker")

-----------------------------------------------------------------------------
(* The controlling thread.                                                 *)

MayCall == pc["ctl"] = "idle" /\ ~deleted

(* The steps that may fail leave the server as it was.                     *)
FdServer_bind == sock' = TRUE /\ listening' = TRUE
run_init == FdServer_bind /\ efd' = TRUE /\ watched' = {"srv"}

(* Bound: it is called when the previous thread has returned, which the    *)
(* code does not wait for; the socket's file was removed by the caller.    *)
FdServer_run_on_thread ==
  /\ MayCall /\ pc["worker"] \in {"none", "done"}
  /\ ~sock
  /\ \/ UNCHANGED <<sock, listening, efd, watched, pc>>
     \/ run_init /\ Goto("ctl", "unstop")
  /\ UNCHANGED <<flags, reg, ret, first, batch, cur, clientVars, peer, crashed, deleted>>

StartThread ==
  \/ Load("ctl", "unstop", "unstop1")
  \/ Store("ctl", "unstop1", (reg["ctl"] \ {"STOP"}) \cup {"CREATED"}, "pthread")
  \/ /\ pc["ctl"] = "pthread"
     /\ pc' = [ctl |-> "idle", worker |-> "born"]
     /\ UNCHANGED <<serverVars, ret, first, batch, cur, clientVars, peer, crashed, deleted>>
  \/ Store("ctl", "pthread", flags \ {"CREATED"}, "idle")

(* FdServer_stop, FdServer_stop_with_join and delFdServer begin alike.     *)
StopCalls ==
  /\ MayCall
  /\ \E after \in {"idle", "join", "delete"} : Call("ctl", "stop", after)
  /\ UNCHANGED <<serverVars, first, batch, cur, clientVars, peer, crashed, deleted>>

Joined ==
  /\ "CREATED" \in flags => pc["worker"] \in {"none", "done"}
  /\ flags' = flags \ {"CREATED"}
  /\ Goto("ctl", "idle")
  /\ UNCHANGED <<sock, listening, efd, watched, reg, ret, first, batch, cur, clientVars, peer, crashed>>

FdServer_stop_with_join == pc["ctl"] = "join" /\ Joined /\ UNCHANGED deleted
delFdServer == pc["ctl"] = "delete" /\ Joined /\ deleted' = TRUE

Calls == ~crashed /\ (FdServer_run_on_thread \/ StopCalls)
ControlStep == ~crashed /\ (StartThread \/ FdServer_stop_with_join \/ delFdServer \/ FdServer_stop("ctl"))

(* The other sides: they connect, send a descriptor and hang up.           *)
Peers ==
  /\ ~crashed
  /\ \E c \in Client :
       \/ peer[c] = "away" /\ listening /\ peer' = [peer EXCEPT ![c] = "calls"]
       \/ peer[c] = "calls" /\ ~listening /\ peer' = [peer EXCEPT ![c] = "away"]
       \/ peer[c] = "up" /\ c \in list /\ peer' = [peer EXCEPT ![c] = "sent"]
       \/ peer[c] \in {"up", "sent"} /\ c \in list /\ peer' = [peer EXCEPT ![c] = "hung_up"]
       \/ peer[c] \in {"up", "sent", "hung_up"} /\ c \notin open /\ peer' = [peer EXCEPT ![c] = "away"]
  /\ UNCHANGED <<serverVars, pc, ret, first, batch, cur, clientVars, crashed, deleted>>

-----------------------------------------------------------------------------
(* newFdServer.                                                            *)
Init ==
  /\ sock = FALSE /\ listening = FALSE /\ efd = FALSE /\ watched = {}
  /\ flags = {} /\ reg = [t \in Thread |-> {}]
  /\ pc = [ctl |-> "idle", worker |-> "none"]
  /\ ret = [t \in Thread |-> <<>>]
  /\ first = "none" /\ batch = {} /\ cur = "none"
  /\ list = {} /\ open = {} /\ peer = [c \in Client |-> "away"]
  /\ crashed = FALSE /\ deleted = FALSE

Next == Calls \/ ControlStep \/ WorkerStep \/ Peers

(* Both threads run; epoll_wait ends by its timeout at the latest.         *)
Fairness == WF_vars(ControlStep) /\ WF_vars(WorkerStep)

Spec == Init /\ [][Next]_vars /\ Fairness

-----------------------------------------------------------------------------
(* Until a freed package is used (crashed): a package is listed exactly    *)
(* while its descriptor is open, apart from the client that is being       *)
(* accepted, also when the number belongs to a later connection than the   *)
(* event that is handled; and when the listening thread has returned no    *)
(* client is left: whoever called FdServer_stop, and however often,        *)
(* run_loop's own last call clears what was added meanwhile.               *)
ClientsAccounted ==
  ~crashed =>
    /\ list \subseteq open
    /\ open \ list \subseteq {cur}
    /\ pc["worker"] \in {"none", "done"} => open = {}

(* run_loop: "Error occurred on the socket, most likely disconnected."     *)
(* (FdServer.c:227): the client that is closed for an error of the event   *)
(* is the one that hung up.                                                *)
ClosesTheFailed ==
  [][FindClient /\ pc'["worker"] = "discon" => peer[cur'] = "hung_up"]_vars

Told == pc["worker"] \notin {"none", "done"} /\ ~sock
Ended == pc["worker"] \in {"done", "recv"} \/ crashed

(* The thread of a stopped server ends, unless it waits for a client to    *)
(* send the descriptor that another client's event announced.              *)
StopEndsLoop == Told ~> Ended

=============================================================================
