--------------------------- MODULE ClientListener ---------------------------
(***************************************************************************)
(* The client listener of source/ClientListener.c: a worker thread that    *)
(* serves the sockets of a client list through epoll, and the thread that  *)
(* adds clients and starts and stops the worker.  The two share flag_pole  *)
(* without a lock: flag_raise and flag_lower are a load and a store (|=    *)
(* and &= on a plain integer), and are modelled as the two steps they are. *)
(* The client list is an ArrayList used through its _tsafe functions, so   *)
(* one call on it is one step.                                             *)
(***************************************************************************)
EXTENDS Integers, FiniteSets, SequencesExt

CONSTANTS
  Client,      \* the sockets that are added, each once
  Patient,     \* TRUE: the caller lets the worker reach listen_loop first
  SelfStops,   \* TRUE: callbacks may return SCB_RVAL_STOP_SERVER
  UserRemoves  \* TRUE: ClientListener_remove_socket_package is called, too

ASSUME ModeAssumption ==
  /\ IsFiniteSet(Client)
  /\ {Patient, SelfStops, UserRemoves} \subseteq BOOLEAN

Thread == {"ctl", "worker"}
Flag == {"CREATED", "RUNNING", "STOP"}

VARIABLES
  clients,   \* the sockets in client_list
  closed,    \* the sockets that were closed
  freed,     \* the sockets whose package was freed
  efd,       \* TRUE while ep.efd > -1
  watched,   \* the sockets registered with that epoll instance
  flags,     \* flag_pole
  reg,       \* the value a thread loaded from flag_pole to modify it
  mutex,     \* the owner of listener->mutex, or "none"
  waiting,   \* threads blocked in pthread_cond_wait on t_cond
  pc,        \* where each thread is; the worker is at "none" if there is no
             \* thread to join and at "done" when it has returned
  after,     \* where ClientListener_stop returns to
  arg,       \* the socket an add or a remove is about, {} if there is none
  async,     \* the run_async argument of the add
  batch,     \* the events of epoll_wait from event_it on, by their sockets
  first,     \* {triggered_events->data.fd}
  verdict    \* where the worker goes once it has removed a client

epoll == <<efd, watched>>
sets  == <<clients, closed, freed>>
call  == <<after, arg, async>>
event == <<batch, first, verdict>>
vars  == <<sets, epoll, flags, reg, mutex, waiting, pc, call, event>>

Goto(t, to) == pc' = [pc EXCEPT ![t] = to]

(* *pole |= f and *pole &= ~f, at -O0: a load, then a store.               *)
Load(t, to) ==
  /\ reg' = [reg EXCEPT ![t] = flags]
  /\ Goto(t, to)
  /\ UNCHANGED <<sets, epoll, flags, mutex, waiting, call, event>>

Store(t, value, to) ==
  /\ flags' = value
  /\ reg' = [reg EXCEPT ![t] = {}]
  /\ Goto(t, to)
  /\ UNCHANGED <<sets, epoll, mutex, waiting, call, event>>

(* A step that only looks at the shared state.                             *)
Branch(t, to) ==
  /\ Goto(t, to)
  /\ UNCHANGED <<sets, epoll, flags, reg, mutex, waiting, call, event>>

Free(m) == m = "none"

(* pthread_cond_broadcast.                                                 *)
Broadcast == waiting' = {}

(* pthread_cond_wait: the mutex is released and the thread blocks, in one  *)
(* step.                                                                   *)
CondWait(t, to) ==
  /\ mutex' = "none"
  /\ waiting' = waiting \cup {t}
  /\ Goto(t, to)
  /\ UNCHANGED <<sets, epoll, flags, reg, call, event>>

(* pthread_join waits for the worker to return, and takes the thread away. *)
Join(to) ==
  /\ pc["worker"] = "done"
  /\ pc' = [pc EXCEPT !["ctl"] = to, !["worker"] = "none"]
  /\ UNCHANGED <<sets, epoll, flags, reg, mutex, waiting, call, event>>

(* close(ep.efd); ep.efd = -1.                                             *)
CloseEpoll == efd' = FALSE /\ watched' = {}

-----------------------------------------------------------------------------
(* threaded_run and listen_loop.                                           *)

WorkerStarts ==
  \/ pc["worker"] = "born"    /\ Load("worker", "running")
  \/ pc["worker"] = "running" /\ Store("worker", reg["worker"] \cup {"RUNNING"}, "unstop")
  \/ pc["worker"] = "unstop"  /\ Load("worker", "unstopped")
  \/ pc["worker"] = "unstopped" /\ Store("worker", reg["worker"] \ {"STOP"}, "loop")

(* The head of the loop, the test for an empty list, and its callback.     *)
LoopHead ==
  \/ /\ pc["worker"] = "loop"
     /\ Branch("worker", IF "STOP" \in flags THEN "quit" ELSE "count")
  \/ /\ pc["worker"] = "count"
     /\ \/ clients # {} /\ Branch("worker", "epoll")
        \/ clients = {} /\ Branch("worker", "lock")
        \/ clients = {} /\ SelfStops /\ Branch("worker", "quit")

(* Mutant: one test instead of a loop around pthread_cond_wait, made       *)
(* before the mutex is taken.                                              *)
WaitForClients_noRetest ==
  \/ /\ pc["worker"] = "lock"
     /\ pc' = [pc EXCEPT !["worker"] = "asleep"] /\ waiting' = waiting \cup {"worker"}
     /\ UNCHANGED <<sets, epoll, flags, reg, mutex, call, event>>
  \/ /\ pc["worker"] = "asleep" /\ "worker" \notin waiting
     /\ Branch("worker", "loop")

(* while(!count && !STOP) pthread_cond_wait: tested with the mutex held,   *)
(* which is given up by the wait and taken again after it.                 *)
WaitForClients ==
  \/ /\ pc["worker"] = "lock" \/ (pc["worker"] = "asleep" /\ "worker" \notin waiting)
     /\ Free(mutex)
     /\ mutex' = "worker"
     /\ Goto("worker", "awake")
     /\ UNCHANGED <<sets, epoll, flags, reg, waiting, call, event>>
  \/ /\ pc["worker"] = "awake"
     /\ IF clients = {} /\ "STOP" \notin flags
        THEN Goto("worker", "wait") /\ UNCHANGED mutex
        ELSE Goto("worker", "loop") /\ mutex' = "none"
     /\ UNCHANGED <<sets, epoll, flags, reg, waiting, call, event>>
  \/ pc["worker"] = "wait" /\ CondWait("worker", "asleep")

(* epoll_wait on ep.efd as it is when the call is made: a batch of events, *)
(* in any order, or the 1000 ms timeout, which is also how a wait ends     *)
(* whose epoll was closed meanwhile.  A call on a closed one fails.        *)
EpollWait ==
  \/ pc["worker"] = "epoll" /\ Branch("worker", IF efd THEN "inEpoll" ELSE "epollErr")
  \/ /\ pc["worker"] = "inEpoll"
     /\ \E s \in SUBSET watched \ {{}} : \E order \in SetToSeqs(s) :
          batch' = order /\ first' = {order[1]}
     /\ Goto("worker", "lockEvent")
     /\ UNCHANGED <<sets, epoll, flags, reg, mutex, waiting, call, verdict>>
  \/ pc["worker"] = "inEpoll" /\ Branch("worker", "loop")
  \/ /\ pc["worker"] = "epollErr"
     /\ Branch("worker", IF "STOP" \notin flags /\ efd THEN "loop" ELSE "quit")

LockEvent ==
  /\ pc["worker"] = "lockEvent"
  /\ Free(mutex)
  /\ mutex' = "worker"
  /\ Goto("worker", "find")
  /\ UNCHANGED <<sets, epoll, flags, reg, waiting, call, event>>

(* Mutant: waiters are not told that a client left.                        *)
Disconnect_silent(sock) ==
  /\ sock \subseteq clients
  /\ clients' = clients \ sock
  /\ closed' = closed \cup sock
  /\ freed' = freed \cup sock
  /\ watched' = watched \ sock
  /\ UNCHANGED waiting

(* ArrayList_remove and remove_client_cb, when 'disconnected' does not ask *)
(* to stop: the socket leaves the list and is closed, which takes it out   *)
(* of the epoll, its package is freed, and waiters are told.               *)
Disconnect(sock) ==
  /\ sock \subseteq clients
  /\ clients' = clients \ sock
  /\ closed' = closed \cup sock
  /\ freed' = freed \cup sock
  /\ watched' = watched \ sock
  /\ Broadcast

(* The same when it does: THREAD_STOP is raised and the epoll closed       *)
(* between the removal from the list and the close of the socket.          *)
DisconnectStops(t, sock, to) ==
  \/ pc[t] = "discStop" /\ Load(t, "discStopped")
  \/ pc[t] = "discStopped" /\ Store(t, reg[t] \cup {"STOP"}, "discClose")
  \/ /\ pc[t] = "discClose"
     /\ CloseEpoll
     /\ closed' = closed \cup sock /\ freed' = freed \cup sock
     /\ Broadcast
     /\ Goto(t, to)
     /\ UNCHANGED <<clients, flags, reg, mutex, call, event>>

(* The head of the event loop: ArrayList_find_item_by_value_tsafe, or the  *)
(* end of the batch.  For a socket that is not on the list, the socket of  *)
(* the first event is closed, whichever that is.                           *)
FindClient ==
  /\ pc["worker"] = "find"
  /\ \/ /\ batch = <<>>
        /\ mutex' = "none"
        /\ Goto("worker", "loop")
        /\ UNCHANGED <<closed, watched, batch>>
     \/ /\ batch # <<>> /\ Head(batch) \in clients
        /\ Goto("worker", "serve")
        /\ UNCHANGED <<closed, watched, mutex, batch>>
     \/ /\ batch # <<>> /\ Head(batch) \notin clients
        /\ closed' = closed \cup first /\ watched' = watched \ first
        /\ batch' = Tail(batch)
        /\ UNCHANGED <<mutex, pc>>
  /\ UNCHANGED <<clients, freed, efd, flags, reg, waiting, call, first, verdict>>

(* What the callbacks and the socket make of the event: the client stays   *)
(* or is removed, and the loop goes on to the next event, or data_ready    *)
(* or data_in ask to stop.  A client no longer listed is not removed.      *)
ServeClient ==
  /\ pc["worker"] = "serve"
  /\ \E to \in {"next"} \cup (IF SelfStops THEN {"dataStop", "readyStop"} ELSE {}) :
       /\ verdict' = to
       /\ \/ Goto("worker", to) /\ UNCHANGED <<sets, epoll, waiting>>
          \/ Disconnect({Head(batch)}) /\ Goto("worker", to) /\ UNCHANGED efd
          \/ /\ SelfStops /\ Head(batch) \in clients
             /\ clients' = clients \ {Head(batch)}
             /\ Goto("worker", "discStop")
             /\ UNCHANGED <<closed, freed, epoll, waiting>>
  /\ UNCHANGED <<flags, reg, mutex, call, batch, first>>

(* The next event, or the end of listen_loop with the mutex released.      *)
(* Only data_ready's wish to stop raises THREAD_STOP.                      *)
EventDone ==
  \/ /\ pc["worker"] = "next"
     /\ batch' = Tail(batch)
     /\ Goto("worker", "find")
     /\ UNCHANGED <<sets, epoll, flags, reg, mutex, waiting, call, first, verdict>>
  \/ pc["worker"] = "readyStop" /\ Load("worker", "readyStopped")
  \/ /\ pc["worker"] = "readyStopped"
     /\ Store("worker", reg["worker"] \cup {"STOP"}, "dataStop")
  \/ /\ pc["worker"] = "dataStop"
     /\ mutex' = "none"
     /\ batch' = <<>>
     /\ Goto("worker", "quit")
     /\ UNCHANGED <<sets, epoll, flags, reg, waiting, call, first, verdict>>

(* The end of threaded_run: RUNNING goes down before the epoll is closed.  *)
WorkerEnds ==
  \/ pc["worker"] = "quit"    /\ Load("worker", "quitted")
  \/ pc["worker"] = "quitted" /\ Store("worker", reg["worker"] \ {"RUNNING"}, "close")
  \/ /\ pc["worker"] = "close"
     /\ Free(mutex)
     /\ CloseEpoll
     /\ Broadcast
     /\ Goto("worker", "done")
     /\ UNCHANGED <<sets, flags, reg, mutex, call, event>>

WorkerStep ==
  \/ WorkerStarts \/ LoopHead \/ WaitForClients \/ EpollWait \/ LockEvent
  \/ FindClient \/ ServeClient \/ EventDone \/ WorkerEnds
  \/ batch # <<>> /\ DisconnectStops("worker", {Head(batch)}, verdict)

-----------------------------------------------------------------------------
(* The controlling thread.  A call starts at "idle" and ends there.        *)

(* The worker holds the list's own mutex while 'disconnected' runs.        *)
ListFree == pc["worker"] \notin {"discStop", "discStopped", "discClose"}

StartingUp == pc["worker"] \in {"born", "running", "unstop", "unstopped"}

(* The caller waits, or does not, until a worker it started is in          *)
(* listen_loop.  The interface has no way to ask for that.                 *)
MayCall == pc["ctl"] = "idle" /\ (Patient => ~StartingUp)

(* ClientListener_add: the socket goes on the list first.                  *)
ClientListener_add(c, run_async) ==
  /\ MayCall
  /\ c \notin clients \cup closed \cup freed
  /\ ListFree
  /\ clients' = clients \cup {c}
  /\ arg' = {c} /\ async' = run_async
  /\ Goto("ctl", "added")
  /\ UNCHANGED <<closed, freed, epoll, flags, reg, mutex, waiting, after, event>>

(* Mutant: the socket is only put on the list.                             *)
AddToEpoll_never ==
  /\ pc["ctl"] = "added"
  /\ Branch("ctl", "addCast")

(* Then it is registered, if the listener looks as if it is running, which *)
(* fails when the epoll was closed meanwhile.                              *)
AddToEpoll ==
  \/ /\ pc["ctl"] = "added"
     /\ Branch("ctl", IF "RUNNING" \in flags /\ efd THEN "addEpoll" ELSE "addCast")
  \/ /\ pc["ctl"] = "addEpoll"
     /\ Free(mutex)
     /\ IF efd THEN watched' = watched \cup arg /\ Goto("ctl", "addCast")
        ELSE Goto("ctl", "failed") /\ UNCHANGED watched
     /\ UNCHANGED <<sets, efd, flags, reg, mutex, waiting, call, event>>

AddCast ==
  /\ pc["ctl"] = "addCast"
  /\ Broadcast
  /\ Goto("ctl", IF async THEN "sa" ELSE "idle")
  /\ UNCHANGED <<sets, epoll, flags, reg, mutex, call, event>>

(* Whatever failed, ClientListener_add frees the package and leaves it on  *)
(* the list.  A ClientListener_start_async of its own just returns.        *)
AddFailed ==
  /\ pc["ctl"] = "failed"
  /\ freed' = freed \cup arg
  /\ Goto("ctl", "idle")
  /\ UNCHANGED <<clients, closed, epoll, flags, reg, mutex, waiting, call, event>>

(* ArrayList_remove, without the list's mutex or the listener's.           *)
ClientListener_remove_socket_package(c) ==
  /\ UserRemoves
  /\ MayCall
  /\ \/ Disconnect({c}) /\ UNCHANGED <<efd, pc>>
     \/ /\ SelfStops /\ c \in clients
        /\ clients' = clients \ {c}
        /\ Goto("ctl", "discStop")
        /\ UNCHANGED <<closed, freed, epoll, waiting>>
  /\ arg' = {c}
  /\ UNCHANGED <<flags, reg, mutex, after, async, event>>

ClientListener_start_async ==
  /\ MayCall
  /\ arg' = {}
  /\ Goto("ctl", "sa")
  /\ UNCHANGED <<sets, epoll, flags, reg, mutex, waiting, after, async, event>>

(* Already running, or still stopping: the latter is stopped first.        *)
StartCheck ==
  \/ /\ pc["ctl"] = "sa"
     /\ Branch("ctl", IF "RUNNING" \in flags THEN "saStop" ELSE "saLower")
  \/ /\ pc["ctl"] = "saStop"
     /\ IF "STOP" \in flags
        THEN after' = "saLower" /\ Goto("ctl", "st") /\ UNCHANGED <<arg, async>>
        ELSE Goto("ctl", "idle") /\ UNCHANGED call
     /\ UNCHANGED <<sets, epoll, flags, reg, mutex, waiting, event>>
  \/ pc["ctl"] = "saLower"   /\ Load("ctl", "saLowered")
  \/ pc["ctl"] = "saLowered" /\ Store("ctl", reg["ctl"] \ {"STOP"}, "saInit")

(* init_epoll_tsafe and add_clients_to_epoll_tsafe.  An epoll that is      *)
(* still open is overwritten; one that was closed between the two, or a    *)
(* closed socket on the list, makes the start fail.                        *)
StartEpoll ==
  \/ /\ pc["ctl"] = "saInit"
     /\ Free(mutex)
     /\ \E opened \in BOOLEAN :
          /\ efd' = opened
          /\ Goto("ctl", IF opened THEN "saClients" ELSE "failed")
     /\ watched' = {}
     /\ UNCHANGED <<sets, flags, reg, mutex, waiting, call, event>>
  \/ /\ pc["ctl"] = "saClients"
     /\ Free(mutex)
     /\ \/ /\ efd /\ clients \cap closed = {}
           /\ watched' = clients
           /\ Broadcast
           /\ Goto("ctl", "saCreated")
           /\ UNCHANGED after
        \/ /\ ~efd \/ clients \cap closed # {}
           /\ watched' \in IF efd THEN SUBSET (clients \ closed) ELSE {{}}
           /\ after' = "failed" /\ Goto("ctl", "st")
           /\ UNCHANGED waiting
     /\ UNCHANGED <<sets, efd, flags, reg, mutex, arg, async, event>>

(* Mutant: the earlier thread is forgotten, not joined.                    *)
StartThread_noJoin ==
  \/ pc["ctl"] = "saCreated" /\ Branch("ctl", IF "CREATED" \in flags THEN "create" ELSE "saRaise")
  \/ pc["ctl"] = "saRaise"  /\ Load("ctl", "saRaised")
  \/ pc["ctl"] = "saRaised" /\ Store("ctl", reg["ctl"] \cup {"CREATED"}, "create")

(* An earlier thread is joined before the new one is created.              *)
StartThread ==
  \/ pc["ctl"] = "saCreated" /\ Branch("ctl", IF "CREATED" \in flags THEN "saJoin" ELSE "saRaise")
  \/ pc["ctl"] = "saJoin" /\ Join("create")
  \/ pc["ctl"] = "saRaise"  /\ Load("ctl", "saRaised")
  \/ pc["ctl"] = "saRaised" /\ Store("ctl", reg["ctl"] \cup {"CREATED"}, "create")

(* pthread_create, which may fail.                                         *)
pthread_create ==
  \/ /\ pc["ctl"] = "create"
     /\ pc' = [pc EXCEPT !["ctl"] = "idle", !["worker"] = "born"]
     /\ UNCHANGED <<sets, epoll, flags, reg, mutex, waiting, call, event>>
  \/ pc["ctl"] = "create" /\ Branch("ctl", "uncreate")
  \/ pc["ctl"] = "uncreate" /\ Load("ctl", "uncreated")
  \/ /\ pc["ctl"] = "uncreated"
     /\ flags' = reg["ctl"] \ {"CREATED"}
     /\ reg' = [reg EXCEPT !["ctl"] = {}]
     /\ after' = "failed" /\ Goto("ctl", "st")
     /\ UNCHANGED <<sets, epoll, mutex, waiting, arg, async, event>>

ClientListener_stop ==
  /\ MayCall
  /\ after' = "idle"
  /\ Goto("ctl", "st")
  /\ UNCHANGED <<sets, epoll, flags, reg, mutex, waiting, arg, async, event>>

(* THREAD_STOP is raised if the worker said that it is running.            *)
StopFlag ==
  \/ pc["ctl"] = "st" /\ Branch("ctl", IF "RUNNING" \in flags THEN "stRaise" ELSE "stClose")
  \/ pc["ctl"] = "stRaise"  /\ Load("ctl", "stRaised")
  \/ pc["ctl"] = "stRaised" /\ Store("ctl", reg["ctl"] \cup {"STOP"}, "stClose")

(* Mutant: THREAD_CREATED stays up after the join.                         *)
StopJoin_keepsCreated ==
  \/ /\ pc["ctl"] = "stClose"
     /\ Free(mutex)
     /\ CloseEpoll
     /\ Broadcast
     /\ Goto("ctl", "stCreated")
     /\ UNCHANGED <<sets, flags, reg, mutex, call, event>>
  \/ /\ pc["ctl"] = "stCreated"
     /\ IF "CREATED" \in flags THEN Broadcast /\ Goto("ctl", "stJoin")
        ELSE Goto("ctl", after) /\ UNCHANGED waiting
     /\ UNCHANGED <<sets, epoll, flags, reg, mutex, call, event>>
  \/ pc["ctl"] = "stJoin" /\ Join(after)

(* close_epoll_tsafe, which also wakes the worker, and the join.           *)
StopJoin ==
  \/ /\ pc["ctl"] = "stClose"
     /\ Free(mutex)
     /\ CloseEpoll
     /\ Broadcast
     /\ Goto("ctl", "stCreated")
     /\ UNCHANGED <<sets, flags, reg, mutex, call, event>>
  \/ /\ pc["ctl"] = "stCreated"
     /\ IF "CREATED" \in flags THEN Broadcast /\ Goto("ctl", "stJoin")
        ELSE Goto("ctl", after) /\ UNCHANGED waiting
     /\ UNCHANGED <<sets, epoll, flags, reg, mutex, call, event>>
  \/ pc["ctl"] = "stJoin" /\ Join("stLower")
  \/ pc["ctl"] = "stLower"   /\ Load("ctl", "stLowered")
  \/ pc["ctl"] = "stLowered" /\ Store("ctl", reg["ctl"] \ {"CREATED"}, after)

(* The count is tested once without the mutex.                             *)
ClientListener_stop_when_empty ==
  /\ MayCall
  /\ after' = "idle"
  /\ Goto("ctl", IF clients # {} THEN "weLock" ELSE "st")
  /\ UNCHANGED <<sets, epoll, flags, reg, mutex, waiting, arg, async, event>>

WaitUntilEmpty ==
  \/ /\ pc["ctl"] = "weLock" \/ (pc["ctl"] = "weAsleep" /\ "ctl" \notin waiting)
     /\ Free(mutex)
     /\ mutex' = "ctl"
     /\ Goto("ctl", "weAwake")
     /\ UNCHANGED <<sets, epoll, flags, reg, waiting, call, event>>
  \/ /\ pc["ctl"] = "weAwake"
     /\ IF clients # {} THEN Goto("ctl", "weWait") /\ UNCHANGED mutex
        ELSE Goto("ctl", "st") /\ mutex' = "none"
     /\ UNCHANGED <<sets, epoll, flags, reg, waiting, call, event>>
  \/ pc["ctl"] = "weWait" /\ CondWait("ctl", "weAsleep")

ControlStep ==
  \/ AddToEpoll \/ AddCast \/ AddFailed \/ DisconnectStops("ctl", arg, "idle")
  \/ StartCheck \/ StartEpoll \/ StartThread \/ pthread_create \/ StopFlag \/ StopJoin \/ WaitUntilEmpty

-----------------------------------------------------------------------------
Init ==
  /\ clients = {} /\ closed = {} /\ freed = {}
  /\ efd = FALSE /\ watched = {}
  /\ flags = {} /\ reg = [t \in Thread |-> {}]
  /\ mutex = "none" /\ waiting = {}
  /\ pc = [ctl |-> "idle", worker |-> "none"]
  /\ after = "idle" /\ arg = {} /\ async = FALSE
  /\ batch = <<>> /\ first = {} /\ verdict = "next"

Calls ==
  \/ \E c \in Client, run_async \in BOOLEAN : ClientListener_add(c, run_async)
  \/ \E c \in Client : ClientListener_remove_socket_package(c)
  \/ ClientListener_start_async
  \/ ClientListener_stop
  \/ ClientListener_stop_when_empty

Next == Calls \/ ControlStep \/ WorkerStep

(* A thread that can run runs.  Nothing makes the caller call.             *)
Fairness == WF_vars(ControlStep) /\ WF_vars(WorkerStep)

Spec == Init /\ [][Next]_vars /\ Fairness

-----------------------------------------------------------------------------
InLoop == pc["worker"] \in {"loop", "count", "lock", "awake", "wait", "asleep", "epoll",
                            "inEpoll", "lockEvent", "find", "serve", "next"}

(* A second worker is never created beside a live one, although the test   *)
(* for the first one reads a flag word that two threads write: the thread  *)
(* that pthread_create is about to replace was joined, or never existed.   *)
OneWorker == pc["ctl"] = "create" => pc["worker"] = "none"

(* pthread_join is only called for a thread that exists and was not joined *)
(* before: "If this is not set, pthread_join is not safe to call on the    *)
(* related thread" (flags.h, of THREAD_CREATED), and if it is set it is,   *)
(* whatever the worker's stores to the flag word undo.                     *)
JoinsAThread == pc["ctl"] \in {"saJoin", "stJoin"} => pc["worker"] # "none"

(* Between calls, every open socket on the list is registered with the     *)
(* epoll a running worker waits on: none is accepted and then ignored.     *)
(* The add decides by a flag that the worker raises and lowers on its own. *)
NoClientForgotten == pc["ctl"] = "idle" /\ InLoop /\ efd => clients \ closed \subseteq watched

(* ClientListener_stop returns: the worker sees THREAD_STOP wherever it    *)
(* is - in epoll_wait, between its test and pthread_cond_wait, in a        *)
(* callback - although the flag is raised without the mutex.               *)
StopReturns == pc["ctl"] = "st" ~> pc["ctl"] \in {"idle", "saLower", "failed"}

(* A worker that went to sleep over an empty list gets going again once a  *)
(* client was added to it, although the broadcast that wakes it is made    *)
(* without the mutex.  (Once a callback has stopped the listener the add   *)
(* does not touch the mutex at all, and the wake-up can be lost.)          *)
AddWakesWorker ==
  []<>(pc["worker"] = "asleep" /\ clients # {} => ~efd)

(* And a caller that waits in ClientListener_stop_when_empty gets going    *)
(* once the last client is gone, whoever removed it.                       *)
EmptyWakesCaller ==
  pc["ctl"] = "weAsleep" /\ clients = {} ~> pc["ctl"] # "weAsleep" \/ clients # {}

(* Neither the worker nor the caller sleeps on when the list has what it   *)
(* waits for: no wake-up through the condition variable is lost.           *)
NoLostWakeUp == AddWakesWorker /\ EmptyWakesCaller

=============================================================================
