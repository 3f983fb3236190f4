------------------------ MODULE ClientListener_proof ------------------------
(***************************************************************************)
(* ClientListener.c keeps at most one worker thread and joins each of them *)
(* once, whatever callbacks do and whenever the caller calls: proofs for   *)
(* every set of clients and every mode.                                    *)
(***************************************************************************)
EXTENDS ClientListener, TLAPS

Created == "CREATED" \in flags
NoThread == pc["worker"] = "none"

(* Where a thread has loaded flag_pole and not yet stored it.              *)
WorkerStores == {"running", "unstopped", "quitted", "discStopped", "readyStopped"}
ControlStores ==
  {"saLowered", "saRaised", "stRaised", "stLowered", "uncreated", "discStopped"}

(* Where the caller has joined the worker, or not yet created it, with the *)
(* flag raised.                                                            *)
JustJoined == {"create", "uncreate", "uncreated", "stLower", "stLowered"}

ThreadTypes ==
  /\ pc = [t \in Thread |-> pc[t]]
  /\ reg = [t \in Thread |-> reg[t]]
  /\ after \in {"idle", "saLower", "failed"}
  /\ verdict \in {"next", "dataStop", "readyStop"}

(* THREAD_CREATED says whether there is a thread to join, except between   *)
(* pthread_join or pthread_create and the change of the flag.              *)
Fits(p) ==
  /\ p \in {"saRaise", "saRaised"} => ~Created /\ NoThread
  /\ p \in JustJoined => Created /\ NoThread
  /\ p \notin {"saRaise", "saRaised"} \cup JustJoined => (Created <=> ~NoThread)
  /\ p \in {"saJoin", "stJoin"} => Created

FlagMatchesThread == Fits(pc["ctl"])

(* No store in flight undoes a change of THREAD_CREATED.                   *)
NoLostCreated ==
  /\ pc["worker"] \in WorkerStores => ("CREATED" \in reg["worker"] <=> Created)
  /\ pc["ctl"] \in ControlStores => ("CREATED" \in reg["ctl"] <=> Created)

(* The inductive invariant.                                                *)
ThreadInv == ThreadTypes /\ FlagMatchesThread /\ NoLostCreated

(* What every step of the worker does to the state the invariant is about. *)
WorkerFrame ==
  /\ pc["worker"] # "none" /\ pc'["worker"] # "none"
  /\ pc'["ctl"] = pc["ctl"]
  /\ reg'["ctl"] = reg["ctl"]
  /\ Created' <=> Created
  /\ pc'["worker"] \in WorkerStores => ("CREATED" \in reg'["worker"] <=> Created)

(* A step of the worker that keeps THREAD_CREATED keeps the invariant.     *)
LEMMA FrameKeepsInv ==
  ASSUME ThreadInv, WorkerFrame PROVE FlagMatchesThread' /\ NoLostCreated'
<1>1. FlagMatchesThread'
  BY DEF ThreadInv, WorkerFrame, FlagMatchesThread, Fits, NoThread
<1>2. NoLostCreated'
  BY DEF ThreadInv, WorkerFrame, NoLostCreated
<1> QED BY <1>1, <1>2

(* Every step of threaded_run and listen_loop keeps the invariant.         *)
LEMMA WorkerKeepsInv == ASSUME ThreadInv, WorkerStep PROVE ThreadInv'
<1>0. ThreadTypes /\ NoLostCreated
  BY DEF ThreadInv
<1> SUFFICES ThreadTypes' /\ WorkerFrame
  BY FrameKeepsInv DEF ThreadInv
<1> USE <1>0 DEF ThreadTypes, NoLostCreated, WorkerFrame, WorkerStores, Created, Thread,
                 Goto, call, event
<1>1. CASE WorkerStarts
  BY <1>1 DEF WorkerStarts, Load, Store
<1>2. CASE LoopHead
  BY <1>2 DEF LoopHead, Branch
<1>3. CASE WaitForClients
  BY <1>3 DEF WaitForClients, CondWait
<1>4. CASE EpollWait
  BY <1>4 DEF EpollWait, Branch
<1>5. CASE LockEvent
  BY <1>5 DEF LockEvent
<1>6. CASE FindClient
  BY <1>6 DEF FindClient
<1>7. CASE ServeClient
  BY <1>7 DEF ServeClient, Disconnect
<1>8. CASE EventDone
  BY <1>8 DEF EventDone, Load, Store
<1>9. CASE WorkerEnds
  BY <1>9 DEF WorkerEnds, Load, Store
<1>10. CASE DisconnectStops("worker", {Head(batch)}, verdict)
  BY <1>10 DEF DisconnectStops, Load, Store
<1> QED BY <1>1, <1>2, <1>3, <1>4, <1>5, <1>6, <1>7, <1>8, <1>9, <1>10 DEF WorkerStep

(* Every step of the caller's functions keeps it, whether THREAD_CREATED   *)
(* is changed, relied upon or carried along.                               *)
LEMMA ControlKeepsInv == ASSUME ThreadInv, ControlStep PROVE ThreadInv'
<1> USE DEF ThreadInv, ThreadTypes, FlagMatchesThread, Fits, JustJoined, NoLostCreated,
            WorkerStores, ControlStores, Created, NoThread, Thread, Goto, call, event
<1>1. CASE AddToEpoll
  BY <1>1 DEF AddToEpoll, Branch
<1>2. CASE AddCast
  BY <1>2 DEF AddCast
<1>3. CASE AddFailed
  BY <1>3 DEF AddFailed
<1>4. CASE DisconnectStops("ctl", arg, "idle")
  BY <1>4 DEF DisconnectStops, Load, Store
<1>5. CASE StartCheck
  BY <1>5 DEF StartCheck, Branch, Load, Store
<1>6. CASE StartEpoll
  BY <1>6 DEF StartEpoll
<1>7. CASE StartThread
  BY <1>7 DEF StartThread, Branch, Join, Load, Store
<1>8. CASE pthread_create
  BY <1>8 DEF pthread_create, Branch, Load
<1>9. CASE StopFlag
  BY <1>9 DEF StopFlag, Branch, Load, Store
<1>10. CASE StopJoin
  BY <1>10 DEF StopJoin, Join, Load, Store
<1>11. CASE WaitUntilEmpty
  BY <1>11 DEF WaitUntilEmpty, CondWait
<1> QED BY <1>1, <1>2, <1>3, <1>4, <1>5, <1>6, <1>7, <1>8, <1>9, <1>10, <1>11
        DEF ControlStep

(* And so does every call.                                                 *)
LEMMA CallsKeepInv == ASSUME ThreadInv, Calls PROVE ThreadInv'
<1> USE DEF ThreadInv, ThreadTypes, FlagMatchesThread, Fits, JustJoined, NoLostCreated,
            WorkerStores, ControlStores, Created, NoThread, Thread, Goto, call, event, MayCall
<1>1. ASSUME NEW c \in Client, NEW run_async \in BOOLEAN, ClientListener_add(c, run_async)
      PROVE  ThreadInv'
  BY <1>1 DEF ClientListener_add
<1>2. ASSUME NEW c \in Client, ClientListener_remove_socket_package(c) PROVE ThreadInv'
  BY <1>2 DEF ClientListener_remove_socket_package
<1>3. CASE ClientListener_start_async
  BY <1>3 DEF ClientListener_start_async
<1>4. CASE ClientListener_stop
  BY <1>4 DEF ClientListener_stop
<1>5. CASE ClientListener_stop_when_empty
  BY <1>5 DEF ClientListener_stop_when_empty
<1> QED BY <1>1, <1>2, <1>3, <1>4, <1>5 DEF Calls

(* A stuttering step keeps it.                                             *)
LEMMA StutterKeepsInv == ASSUME ThreadInv, UNCHANGED vars PROVE ThreadInv'
  BY DEF ThreadInv, ThreadTypes, FlagMatchesThread, Fits, JustJoined, NoLostCreated,
         WorkerStores, ControlStores, Created, NoThread, vars, call, event

(* The specification keeps the invariant.                                  *)
THEOREM ThreadInvariant == Spec => []ThreadInv
<1>1. Init => ThreadInv
  BY DEF Init, ThreadInv, ThreadTypes, FlagMatchesThread, Fits, JustJoined, NoLostCreated,
         WorkerStores, ControlStores, Created, NoThread, Thread
<1>2. ThreadInv /\ [Next]_vars => ThreadInv'
  BY WorkerKeepsInv, ControlKeepsInv, CallsKeepInv, StutterKeepsInv DEF Next
<1> QED BY <1>1, <1>2, PTL DEF Spec

(* A second worker is never created beside one that was not joined, for    *)
(* any number of clients, even if callbacks stop the listener and the      *)
(* caller does not wait for the worker to get going.                       *)
THEOREM AtMostOneWorker == Spec => []OneWorker
<1>1. ThreadInv => OneWorker
  BY DEF ThreadInv, FlagMatchesThread, Fits, JustJoined, NoThread, OneWorker
<1> QED BY <1>1, ThreadInvariant, PTL

(* Every pthread_join of ClientListener_stop and                           *)
(* ClientListener_start_async is of a thread that exists and was not       *)
(* joined before.                                                          *)
THEOREM JoinedOnce == Spec => []JoinsAThread
<1>1. ThreadInv => JoinsAThread
  BY DEF ThreadInv, FlagMatchesThread, Fits, JustJoined, NoThread, JoinsAThread
<1> QED BY <1>1, ThreadInvariant, PTL

-----------------------------------------------------------------------------
(* No client is forgotten.  The add registers a socket only if the flag    *)
(* THREAD_RUNNING is up and the epoll open; the others are registered by   *)
(* the start.  So what is needed is that the flag is up from the worker's  *)
(* own store on for as long as it serves - no store of the caller's undoes *)
(* it - and that nobody opens an epoll meanwhile.                          *)

(* The worker has raised THREAD_RUNNING, and not lowered it.               *)
Serving ==
  {"unstop", "unstopped", "loop", "count", "lock", "awake", "wait", "asleep", "epoll", "inEpoll",
   "epollErr", "lockEvent", "find", "serve", "next", "discStop", "discStopped", "discClose",
   "readyStop", "readyStopped", "dataStop", "quit", "quitted"}

(* ClientListener_start_async from its decision to start on, and the part  *)
(* of it that follows the registration of the listed clients.              *)
Registered == {"saCreated", "saJoin", "saRaise", "saRaised", "create"}
Opening == {"saLower", "saLowered", "saInit", "saClients", "uncreate", "uncreated"} \cup Registered

(* The socket an add has listed and not yet registered.                    *)
Pending == IF pc["ctl"] \in {"added", "addEpoll"} THEN arg ELSE {}

(* A patient caller leaves a worker alone while it starts.                 *)
StartsAlone == StartingUp => pc["ctl"] = "idle"

RunningIsUp ==
  pc["worker"] \in Serving =>
    /\ "RUNNING" \in flags
    /\ pc["worker"] \in WorkerStores => "RUNNING" \in reg["worker"]
    /\ pc["ctl"] \in ControlStores => "RUNNING" \in reg["ctl"]
    /\ pc["ctl"] \notin Opening

OpenAreWatched ==
  efd => /\ StartingUp \/ pc["worker"] \in Serving => clients \ closed \subseteq watched \cup Pending
         /\ pc["ctl"] \in Registered => clients \ closed \subseteq watched

ListenInv == ThreadInv /\ StartsAlone /\ RunningIsUp /\ OpenAreWatched

(* The worker's steps.                                                     *)
LEMMA WorkerListens ==
  ASSUME Patient, ListenInv, WorkerStep PROVE StartsAlone' /\ RunningIsUp' /\ OpenAreWatched'
<1>0. ThreadTypes /\ StartsAlone /\ RunningIsUp /\ OpenAreWatched
  BY DEF ListenInv, ThreadInv
<1> USE <1>0 DEF ThreadTypes, StartsAlone, RunningIsUp, OpenAreWatched, Serving, Registered, Opening, Pending,
                 WorkerStores, ControlStores, StartingUp, Thread, Goto, call, event, sets, epoll
<1>1. CASE WorkerStarts
  BY <1>1 DEF WorkerStarts, Load, Store
<1>2. CASE LoopHead
  BY <1>2 DEF LoopHead, Branch
<1>3. CASE WaitForClients
  BY <1>3 DEF WaitForClients, CondWait
<1>4. CASE EpollWait
  BY <1>4 DEF EpollWait, Branch
<1>5. CASE LockEvent
  BY <1>5 DEF LockEvent
<1>6. CASE FindClient
  BY <1>6 DEF FindClient
<1>7. CASE ServeClient
  BY <1>7 DEF ServeClient, Disconnect
<1>8. CASE EventDone
  BY <1>8 DEF EventDone, Load, Store
<1>9. CASE WorkerEnds
  BY <1>9 DEF WorkerEnds, Load, Store, CloseEpoll
<1>10. CASE DisconnectStops("worker", {Head(batch)}, verdict)
  BY <1>10 DEF DisconnectStops, Load, Store, CloseEpoll
<1> QED BY <1>1, <1>2, <1>3, <1>4, <1>5, <1>6, <1>7, <1>8, <1>9, <1>10 DEF WorkerStep

(* The steps of the caller's functions.                                    *)
LEMMA ControlListens ==
  ASSUME Patient, ListenInv, ControlStep PROVE StartsAlone' /\ RunningIsUp' /\ OpenAreWatched'
<1>0. ThreadTypes /\ StartsAlone /\ RunningIsUp /\ OpenAreWatched /\ FlagMatchesThread
  BY DEF ListenInv, ThreadInv
<1> USE <1>0 DEF ThreadTypes, StartsAlone, RunningIsUp, OpenAreWatched, Serving, Registered, Opening, Pending,
                 WorkerStores, ControlStores, StartingUp, Thread, Goto, call, event, sets, epoll
<1>1. CASE AddToEpoll
  BY <1>1 DEF AddToEpoll, Branch
<1>2. CASE AddCast
  BY <1>2 DEF AddCast
<1>3. CASE AddFailed
  BY <1>3 DEF AddFailed
<1>4. CASE DisconnectStops("ctl", arg, "idle")
  BY <1>4 DEF DisconnectStops, Load, Store, CloseEpoll
<1>5. CASE StartCheck
  BY <1>5 DEF StartCheck, Branch, Load, Store
<1>6. CASE StartEpoll
  BY <1>6 DEF StartEpoll
<1>7. CASE StartThread
  BY <1>7 DEF StartThread, Branch, Join, Load, Store
<1>8. CASE pthread_create
  BY <1>8 DEF pthread_create, Branch, Load
<1>9. CASE StopFlag
  BY <1>9 DEF StopFlag, Branch, Load, Store
<1>10. CASE StopJoin
  BY <1>10 DEF StopJoin, Join, Load, Store, CloseEpoll, FlagMatchesThread, Fits, JustJoined, Created, NoThread
<1>11. CASE WaitUntilEmpty
  BY <1>11 DEF WaitUntilEmpty, CondWait
<1> QED BY <1>1, <1>2, <1>3, <1>4, <1>5, <1>6, <1>7, <1>8, <1>9, <1>10, <1>11
        DEF ControlStep

(* The calls.                                                              *)
LEMMA CallsListen ==
  ASSUME Patient, ListenInv, Calls PROVE StartsAlone' /\ RunningIsUp' /\ OpenAreWatched'
<1>0. ThreadTypes /\ StartsAlone /\ RunningIsUp /\ OpenAreWatched
  BY DEF ListenInv, ThreadInv
<1> USE <1>0 DEF ThreadTypes, StartsAlone, RunningIsUp, OpenAreWatched, Serving, Registered, Opening, Pending,
                 WorkerStores, ControlStores, StartingUp, Thread, Goto, call, event, sets, epoll, MayCall
<1>1. ASSUME NEW c \in Client, NEW run_async \in BOOLEAN, ClientListener_add(c, run_async)
      PROVE  StartsAlone' /\ RunningIsUp' /\ OpenAreWatched'
  BY <1>1 DEF ClientListener_add
<1>2. ASSUME NEW c \in Client, ClientListener_remove_socket_package(c)
      PROVE  StartsAlone' /\ RunningIsUp' /\ OpenAreWatched'
  BY <1>2 DEF ClientListener_remove_socket_package, Disconnect
<1>3. CASE ClientListener_start_async
  BY <1>3 DEF ClientListener_start_async
<1>4. CASE ClientListener_stop
  BY <1>4 DEF ClientListener_stop
<1>5. CASE ClientListener_stop_when_empty
  BY <1>5 DEF ClientListener_stop_when_empty
<1> QED BY <1>1, <1>2, <1>3, <1>4, <1>5 DEF Calls

(* Between calls, every open socket on the list is registered with the     *)
(* epoll that a serving worker waits on, for any number of clients,        *)
(* callbacks that stop the listener and callers that remove sockets        *)
(* themselves; the caller waits, as it must, for a worker to get going.    *)
THEOREM EveryClientWatched ==
  ASSUME Patient PROVE Spec => []NoClientForgotten
<1>1. Init => ListenInv
  <2>1. Init => ThreadInv
    BY DEF Init, ThreadInv, ThreadTypes, FlagMatchesThread, Fits, JustJoined, NoLostCreated,
           WorkerStores, ControlStores, Created, NoThread, Thread
  <2>2. Init => StartsAlone /\ RunningIsUp /\ OpenAreWatched
    BY DEF Init, StartsAlone, RunningIsUp, OpenAreWatched, StartingUp, Serving
  <2> QED BY <2>1, <2>2 DEF ListenInv
<1>2. ListenInv /\ [Next]_vars => ListenInv'
  <2> SUFFICES ASSUME ListenInv, [Next]_vars PROVE ListenInv'
    OBVIOUS
  <2>1. ThreadInv /\ ThreadInv'
    BY WorkerKeepsInv, ControlKeepsInv, CallsKeepInv, StutterKeepsInv DEF Next, ListenInv
  <2>2. CASE UNCHANGED vars
    <3>1. StartsAlone' /\ RunningIsUp' /\ OpenAreWatched'
      BY <2>2 DEF ListenInv, StartsAlone, RunningIsUp, OpenAreWatched, StartingUp, Pending,
                  vars, call, event, sets, epoll
    <3> QED BY <2>1, <3>1 DEF ListenInv
  <2>3. CASE Next
    BY <2>1, <2>3, WorkerListens, ControlListens, CallsListen DEF Next, ListenInv
  <2> QED BY <2>2, <2>3
<1>3. ListenInv => NoClientForgotten
  BY DEF ListenInv, OpenAreWatched, NoClientForgotten, InLoop, Serving, Pending
<1> QED BY <1>1, <1>2, <1>3, PTL DEF Spec
=============================================================================
