------------------------------ MODULE FdClient ------------------------------
(***************************************************************************)
(* The client of source/FdClient.c, which sends file descriptors to a host *)
(* and listens for the ones it sends: a thread that makes the calls        *)
(* ("ctl"), the listening threads it creates, and the host.                *)
(***************************************************************************)
EXTENDS Naturals, FiniteSets

CONSTANTS
  Listener,   \* listening threads, one per pthread_create; names are used again
  Sock,       \* socket numbers
  Careful     \* TRUE: a client whose THREAD_CREATED an earlier join lowered is
              \* started again and deleted after its listening thread has returned

None == "none"

VARIABLES
  sock,      \* client->sock, or None
  open,      \* the sockets of this process that are open
  hung,      \* the open ones whose host has hung up
  flags,     \* flag_pole; only one thread at a time writes a flag
  thread,    \* client->thread
  watched,   \* per listener: the socket its epoll watches
  ended,     \* per listener: it reports the end of its connection
  freed,
  pc         \* where the threads are

vars == <<sock, open, hung, flags, thread, watched, ended, freed, pc>>

Thread == Listener \cup {"ctl"}
Live(l) == pc[l] \notin {"unborn", "done"}
Goto(t, to) == pc' = [pc EXCEPT ![t] = to]
Step(t, at, to) == pc[t] = at /\ Goto(t, to) /\ UNCHANGED <<sock, open, hung, flags, thread, watched, ended, freed>>

-----------------------------------------------------------------------------
(* FdClient_close and FdClient_connect, by either thread.                  *)

FdClient_close == open' = open \ {sock} /\ hung' = hung \ {sock} /\ sock' = None

(* socket and connect.                                                     *)
Connected(ok) ==
  \E s \in Sock \ open :
    /\ sock' = IF ok THEN s ELSE None
    /\ open' = IF ok THEN open \cup {s} ELSE open
    /\ UNCHANGED hung

-----------------------------------------------------------------------------
(* threaded_listen, around FdClient_listen.                                *)

ListenBegins(l) ==
  /\ pc[l] = "born" /\ Goto(l, "connect") /\ flags' = flags \cup {"RUNNING"}
  /\ UNCHANGED <<sock, open, hung, thread, watched, ended, freed>>

(* The connection was closed since: connect anew, or give up.              *)
ListenConnects(l) ==
  /\ pc[l] = "connect"
  /\ \/ sock # None /\ Goto(l, "epoll") /\ UNCHANGED <<sock, open, hung>>
     \/ sock = None /\ Connected(TRUE) /\ Goto(l, "epoll")
     \/ sock = None /\ Connected(FALSE) /\ Goto(l, "quit")
  /\ UNCHANGED <<flags, thread, watched, ended, freed>>

(* epoll_create and EPOLL_CTL_ADD, which may fail.                         *)
ListenEpoll(l) ==
  \/ Step(l, "epoll", "quit")
  \/ /\ pc[l] = "epoll" /\ sock \in open /\ Goto(l, "loop")
     /\ watched' = [watched EXCEPT ![l] = sock]
     /\ UNCHANGED <<sock, open, hung, flags, thread, ended, freed>>

LoopHead(l) == Step(l, "loop", IF sock = None THEN "quit" ELSE "wait")

(* epoll_wait returns because the host has sent.                           *)
EpollData(l) == watched[l] \in open /\ Step(l, "wait", "event")

(* It returns because the host hung up, or after a second.                 *)
EpollWait(l) ==
  \/ Step(l, "wait", "loop")
  \/ watched[l] \in hung /\ Step(l, "wait", "event")

(* A descriptor is received and handed on; without one the client closes.  *)
Receive(l) ==
  \/ sock \in open \ hung /\ Step(l, "event", "loop")
  \/ /\ pc[l] = "event" /\ (sock \in hung \/ sock \notin open)
     /\ FdClient_close /\ Goto(l, "loop")
     /\ UNCHANGED <<flags, thread, watched, ended, freed>>

(* The flag is lowered, fd_disconnected called if there is no connection,  *)
(* and the thread returns.                                                 *)
ListenEnds(l) ==
  \/ /\ pc[l] = "quit" /\ Goto(l, "quit1") /\ flags' = flags \ {"RUNNING"}
     /\ watched' = [watched EXCEPT ![l] = None]
     /\ UNCHANGED <<sock, open, hung, thread, ended, freed>>
  \/ /\ pc[l] = "quit1" /\ Goto(l, "quit2")
     /\ ended' = [ended EXCEPT ![l] = (sock = None)]
     /\ UNCHANGED <<sock, open, hung, flags, thread, watched, freed>>
  \/ /\ pc[l] = "quit2" /\ Goto(l, "done")
     /\ ended' = [ended EXCEPT ![l] = FALSE]
     /\ UNCHANGED <<sock, open, hung, flags, thread, watched, freed>>

-----------------------------------------------------------------------------
(* The calls.                                                              *)

MayCall == pc["ctl"] = "idle" /\ ~freed /\ \A l \in Listener : pc[l] # "born"

Settled == MayCall /\ (Careful => ("CREATED" \in flags \/ ~Live(thread)))

(* FdClient_connect and FdClient_send, which connects if need be.          *)
FdClient_connect ==
  /\ MayCall /\ sock = None /\ \E ok \in BOOLEAN : Connected(ok)
  /\ UNCHANGED <<flags, thread, watched, ended, freed, pc>>

CloseCall ==
  /\ MayCall /\ sock # None /\ FdClient_close
  /\ UNCHANGED <<flags, thread, watched, ended, freed, pc>>

(* FdClient_listen_async: nothing if the thread runs; connect if need be;  *)
(* an earlier thread is joined.                                            *)
FdClient_listen_async ==
  /\ Settled /\ "RUNNING" \notin flags
  /\ \/ sock # None /\ Goto("ctl", "join") /\ UNCHANGED <<sock, open, hung>>
     \/ sock = None /\ Connected(TRUE) /\ Goto("ctl", "join")
     \/ sock = None /\ Connected(FALSE) /\ UNCHANGED pc
  /\ UNCHANGED <<flags, thread, watched, ended, freed>>

(* The join lowers THREAD_CREATED, which is raised only without one.       *)
StartListener ==
  /\ pc["ctl"] = "join"
  /\ "CREATED" \in flags => ~Live(thread)
  /\ flags' = IF "CREATED" \in flags THEN flags \ {"CREATED"} ELSE flags \cup {"CREATED"}
  /\ \E l \in Listener : ~Live(l) /\ thread' = l /\ pc' = [pc EXCEPT !["ctl"] = "idle", ![l] = "born"]
  /\ UNCHANGED <<sock, open, hung, watched, ended, freed>>

(* delFdClient closes the connection and joins the thread.                 *)
delFdClient ==
  \/ /\ Settled /\ Goto("ctl", "delete") /\ FdClient_close
     /\ UNCHANGED <<flags, thread, watched, ended, freed>>
  \/ /\ pc["ctl"] = "delete" /\ ("CREATED" \in flags => ~Live(thread))
     /\ freed' = TRUE /\ Goto("ctl", "idle")
     /\ UNCHANGED <<sock, open, hung, flags, thread, watched, ended>>

newFdClient ==
  /\ freed /\ \A l \in Listener : ~Live(l)
  /\ freed' = FALSE /\ flags' = {} /\ sock' = None
  /\ UNCHANGED <<open, hung, thread, watched, ended, pc>>

HangUp ==
  /\ sock \in open \ hung /\ hung' = hung \cup {sock}
  /\ UNCHANGED <<sock, open, flags, thread, watched, ended, freed, pc>>

Init ==
  /\ sock = None /\ open = {} /\ hung = {} /\ flags = {} /\ freed = FALSE
  /\ thread \in Listener
  /\ watched = [l \in Listener |-> None] /\ ended = [l \in Listener |-> FALSE]
  /\ pc = [t \in Thread |-> IF t \in Listener THEN "unborn" ELSE "idle"]

ListenerStep(l) ==
  \/ ListenBegins(l) \/ ListenConnects(l) \/ ListenEpoll(l) \/ LoopHead(l)
  \/ EpollWait(l) \/ Receive(l) \/ ListenEnds(l)

ControlStep == StartListener \/ (pc["ctl"] = "delete" /\ delFdClient)

Next ==
  \/ \E l \in Listener : ListenerStep(l) \/ EpollData(l)
  \/ FdClient_connect \/ CloseCall \/ FdClient_listen_async \/ StartListener
  \/ delFdClient \/ newFdClient \/ HangUp

(* The threads run; an epoll_wait returns after a second.                  *)
Fairness == (\A l \in Listener : WF_vars(ListenerStep(l))) /\ WF_vars(ControlStep)

Spec == Init /\ [][Next]_vars /\ Fairness

-----------------------------------------------------------------------------
(* A client is freed after its listening thread has returned, however the  *)
(* connection ended.                                                       *)
FreedAfterListener == freed => \A l \in Listener : ~Live(l)

Joining == pc["ctl"] = "delete"

(* delFdClient and a restart return: the listener notices within a second  *)
(* that the caller closed the connection it waits on, unless it has just   *)
(* made a new one or lost sight of the socket it watches.                  *)
DeleteReturns == Joining ~> ~Joining \/ sock # None
=============================================================================
