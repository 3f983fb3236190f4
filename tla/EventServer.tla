---------------------------- MODULE EventServer ----------------------------
(***************************************************************************)
(* The single-threaded server of source/EventServer.c on a loop of         *)
(* libevent, which calls listener_cb, conn_readcb, conn_eventcb and        *)
(* signal_cb one at a time.  The user's callbacks answer with a set of     *)
(* requests and may change the callbacks.  A client is one connection,     *)
(* with its bufferevent, its escb_package and the user's data.             *)
(***************************************************************************)
EXTENDS Naturals

CONSTANTS
  Client,    \* connections
  Careful    \* TRUE: client_con_cb is set, and sets the data and its free
             \* function, if only to NULL

Callback == {"client_con", "data_in", "client_discon", "sig"}
Request == {"CLIENT_CLOSE", "SERVER_SHUTDOWN"}

VARIABLES
  callbacks,   \* the callbacks that are not NULL
  quits,       \* server->handle_quit_command
  is_running,  \* server->is_running
  loop,        \* event_base_dispatch was called and has not returned
  exiting,     \* event_base_loopexit or event_base_loopbreak was called
  came,        \* connections so far
  bev,         \* clients whose bufferevent is live
  reads,       \* of these, the ones with conn_readcb
  packages,    \* server->callback_packages
  proc,        \* free_data_proc of each package: "null", "user" or "garbage"
  held,        \* clients with data that waits for its free function
  crashed,     \* garbage was called, or data freed twice or used after that
  deleted      \* the server was freed

loopVars == <<is_running, loop, exiting>>
clientVars == <<bev, reads, packages, proc, held, crashed>>
vars == <<callbacks, quits, loopVars, came, clientVars, deleted>>

Serving == loop /\ ~crashed

EventServer_stop == exiting' = TRUE /\ is_running' = FALSE /\ UNCHANGED loop

(* event_base_loopexit alone.                                              *)
Exit == exiting' = TRUE /\ UNCHANGED <<is_running, loop>>

(* The data of the packages in s is freed, by their free_data_proc.        *)
free_callback_package(s) ==
  /\ held' = held \ s
  /\ crashed' = \E c \in s : proc[c] = "garbage" \/ (proc[c] = "user" /\ c \notin held)

(* What a callback of a client asks for.  ArrayList_remove frees the       *)
(* package if it is in the list.                                           *)
Heed(c, r) ==
  /\ IF "CLIENT_CLOSE" \in r
     THEN /\ packages' = packages \ {c} /\ free_callback_package(packages \cap {c})
          /\ bev' = bev \ {c} /\ reads' = reads \ {c}
     ELSE UNCHANGED <<packages, held, bev, reads, crashed>>
  /\ IF "SERVER_SHUTDOWN" \in r THEN EventServer_stop ELSE UNCHANGED loopVars
  /\ UNCHANGED proc

(* A callback is given the data of its client.                             *)
Use(c) == proc[c] = "user" => c \in held

-----------------------------------------------------------------------------
(* A client that is refused keeps nothing, and a CLIENT_CLOSE hides a      *)
(* SERVER_SHUTDOWN.                                                        *)
Refuse(r) ==
  /\ r # {}
  /\ IF "CLIENT_CLOSE" \in r THEN UNCHANGED loopVars ELSE EventServer_stop
  /\ UNCHANGED clientVars

Welcome(c, p) ==
  /\ bev' = bev \cup {c}
  /\ reads' = IF "data_in" \in callbacks \/ quits THEN reads \cup {c} ELSE reads
  /\ proc' = [proc EXCEPT ![c] = p]
  /\ held' = IF p = "user" THEN held \cup {c} ELSE held
  /\ packages' = IF p # "null" THEN packages \cup {c} ELSE packages
  /\ UNCHANGED <<loopVars, crashed>>

(* Without client_con_cb, free_data_proc is what malloc left there.  The   *)
(* loop is broken when there is no bufferevent for the client.             *)
listener_cb(c) ==
  /\ Serving /\ c \notin came
  /\ came' = came \cup {c}
  /\ \/ Exit /\ UNCHANGED clientVars
     \/ "client_con" \in callbacks /\ \E r \in SUBSET Request : Refuse(r)
     \/ \E p \in IF "client_con" \in callbacks THEN {"null", "user"} ELSE {"null", "garbage"} :
          Welcome(c, p)
  /\ UNCHANGED <<callbacks, quits, deleted>>

(* The quit command ends the loop, and leaves is_running.                  *)
conn_readcb(c) ==
  /\ Serving /\ c \in reads
  /\ \/ quits /\ Exit /\ UNCHANGED clientVars
     \/ /\ "data_in" \in callbacks
        /\ IF Use(c) THEN \E r \in SUBSET Request : Heed(c, r)
           ELSE crashed' = TRUE /\ UNCHANGED <<loopVars, bev, reads, packages, proc, held>>
  /\ UNCHANGED <<callbacks, quits, came, deleted>>

(* Without client_discon_cb the package stays in the list.                 *)
conn_eventcb(c) ==
  /\ Serving /\ c \in bev
  /\ IF "client_discon" \notin callbacks
     THEN /\ bev' = bev \ {c} /\ reads' = reads \ {c}
          /\ UNCHANGED <<loopVars, packages, proc, held, crashed>>
     ELSE IF Use(c) THEN \E r \in SUBSET Request : Heed(c, r)
     ELSE crashed' = TRUE /\ UNCHANGED <<loopVars, bev, reads, packages, proc, held>>
  /\ UNCHANGED <<callbacks, quits, came, deleted>>

signal_cb ==
  /\ Serving
  /\ \/ "sig" \in callbacks /\ UNCHANGED loopVars
     \/ EventServer_stop
  /\ UNCHANGED <<callbacks, quits, came, clientVars, deleted>>

-----------------------------------------------------------------------------
(* The program's calls.                                                    *)
EventServer_start ==
  /\ ~loop /\ ~deleted /\ ~crashed
  /\ is_running' = TRUE /\ loop' = TRUE
  /\ UNCHANGED <<callbacks, quits, exiting, came, clientVars, deleted>>

(* libevent: the dispatch returns after a loopexit.                        *)
LoopReturns ==
  /\ loop /\ exiting
  /\ loop' = FALSE /\ exiting' = FALSE
  /\ UNCHANGED <<callbacks, quits, is_running, came, clientVars, deleted>>

(* Bound: the callbacks change one at a time.                              *)
EventServer_set_cb ==
  /\ ~deleted
  /\ \/ UNCHANGED quits /\ \E cb \in Callback : callbacks' \in {callbacks \cup {cb}, callbacks \ {cb}}
     \/ quits' \in BOOLEAN /\ UNCHANGED callbacks
  /\ Careful => "client_con" \in callbacks'
  /\ UNCHANGED <<loopVars, came, clientVars, deleted>>

(* The list of packages is freed; the bufferevents are not.                *)
delEventServer ==
  /\ ~loop /\ ~deleted /\ ~crashed
  /\ deleted' = TRUE
  /\ packages' = {} /\ free_callback_package(packages)
  /\ UNCHANGED <<callbacks, quits, loopVars, came, bev, reads, proc>>

newEventServer ==
  /\ callbacks \in SUBSET Callback /\ quits \in BOOLEAN
  /\ Careful => "client_con" \in callbacks
  /\ is_running = FALSE /\ loop = FALSE /\ exiting = FALSE
  /\ came = {} /\ bev = {} /\ reads = {} /\ packages = {}
  /\ proc = [c \in Client |-> "null"] /\ held = {}
  /\ crashed = FALSE /\ deleted = FALSE

Next ==
  \/ \E c \in Client : listener_cb(c) \/ conn_readcb(c) \/ conn_eventcb(c)
  \/ signal_cb \/ LoopReturns
  \/ EventServer_start \/ EventServer_set_cb \/ delEventServer

Spec == newEventServer /\ [][Next]_vars

-----------------------------------------------------------------------------
(* The user's data is there in every callback of its client, is freed once *)
(* however the client is closed, and none is left when the server is       *)
(* deleted, after any order of connections, closes, hang-ups, shutdowns,   *)
(* restarts and changes of the callbacks.                                  *)
DataIsOwned ==
  /\ ~crashed
  /\ \A c \in bev : Use(c) \/ deleted
  /\ deleted => held = {}
=============================================================================
