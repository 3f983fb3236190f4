---------------------------- MODULE UvTcpServer ----------------------------
(***************************************************************************)
(* The libuv server of source/UvTcpServer.c and the writes of              *)
(* source/UvTcp.c.  Everything happens on the thread of the loop, so an    *)
(* action is one callback with all it calls, and libuv is modelled by the  *)
(* callbacks it makes: a handle that is closed has its close callback made *)
(* in a later turn, and uv_run returns when no handle is left.             *)
(***************************************************************************)
EXTENDS Naturals

CONSTANTS
  Client,      \* connections
  MaxWrites    \* bound: writes pending on a connection

VARIABLES
  server,      \* the server, its handles and its clients, see ServerType
  writes,      \* per client: the writes whose buffers libuv holds
  running      \* a thread is in uv_run

vars == <<server, writes, running>>

ServerType ==
  [handle : {"none", "listening", "closing"},   \* server->handle
   signal : BOOLEAN,                            \* sig_handle is started
   wake   : BOOLEAN,                            \* wake handles wait for their close
   client : [Client -> {"none", "open", "closing", "freed"}], \* freed: before its close callback
   listed : SUBSET Client,                      \* client_list
   pack   : SUBSET Client,                      \* the clients with a uscb_package
   block  : SUBSET Client]                      \* the packages with a memory block

-----------------------------------------------------------------------------
(* What the functions do to the server.                                    *)

UvTcpServer_stop(s) ==
  [s EXCEPT !.handle = IF @ = "none" THEN "none" ELSE "closing", !.signal = FALSE, !.wake = TRUE]

free_callback_package(s, c) == [s EXCEPT !.block = @ \ {c}, !.pack = @ \ {c}]

(* remove_client_cb: the disconnect callback may ask for a shutdown.       *)
remove_client_cb(s, c, shutdown) ==
  [free_callback_package(IF shutdown THEN UvTcpServer_stop(s) ELSE s, c) EXCEPT !.client[c] = "closing"]

(* ArrayList_remove_tsafe on the client list.                              *)
ListRemove(s, c, shutdown) ==
  IF c \in s.listed THEN [remove_client_cb(s, c, shutdown) EXCEPT !.listed = @ \ {c}] ELSE s

(* close_server_cb: ArrayList_clear_tsafe removes every client.            *)
close_server_cb(s, shutdown) ==
  [(IF shutdown /\ s.listed # {} THEN UvTcpServer_stop(s) ELSE s) EXCEPT
     !.client = [c \in Client |-> IF c \in s.listed THEN "closing" ELSE @[c]],
     !.pack = @ \ s.listed, !.block = @ \ s.listed, !.listed = {},
     !.handle = "none", !.signal = FALSE]

client_buff_init(s, c) == [s EXCEPT !.block = @ \cup {c}]

(* client_data_in_cb unreserves the block of a package, which it reads     *)
(* also when the package was freed on the way (RemovalIsSafe).  What it    *)
(* finds there is the NULL that free_callback_package left: free keeps     *)
(* that word of the package, and nothing is allocated in between.          *)
Unreserved(s, c) == [s EXCEPT !.block = @ \ {c}]

-----------------------------------------------------------------------------
(* The callbacks libuv makes.                                              *)

Turn == running
Idle == UNCHANGED <<writes, running>>

(* A client is put on the list; a read that cannot be started takes it off *)
(* again.                                                                  *)
Enlist ==
  /\ Turn /\ server.handle = "listening"
  /\ \E c \in Client, started, shutdown \in BOOLEAN :
       /\ server.client[c] = "none"
       /\ LET s == [server EXCEPT !.client[c] = "open", !.listed = @ \cup {c}, !.pack = @ \cup {c}]
          IN server' = IF started THEN s ELSE ListRemove(s, c, shutdown)
  /\ Idle

(* A client is accepted.                                                   *)
client_connection_cb == Enlist

(* A callback adds a socket that is open, while the server listens.        *)
UvTcpServer_add_client == Enlist

(* What a client sent, or its end, in a block of the pool.  The quit       *)
(* command stops the server unless its callback says otherwise; the data   *)
(* callback may ask for the client or the server to be closed, or remove   *)
(* the client itself (UvTcpServer_remove_client).                          *)
client_data_in_cb ==
  /\ Turn
  /\ \E c \in Client, shutdown \in BOOLEAN :
       /\ server.client[c] = "open"
       /\ LET s == client_buff_init(server, c)
              gone == ListRemove(s, c, shutdown)
          IN \E after \in {s, gone, UvTcpServer_stop(s), UvTcpServer_stop(gone)} :
               server' = Unreserved(after, c)
  /\ Idle

(* UvTcp_write and UvTcp_write_free from a callback: libuv takes the       *)
(* buffer.                                                                 *)
UvTcp_write ==
  /\ Turn
  /\ \E c \in Client :
       /\ server.client[c] = "open" /\ writes[c] < MaxWrites
       /\ writes' = [writes EXCEPT ![c] = @ + 1]
  /\ UNCHANGED <<server, running>>

(* A write is done, or failed because its handle was closed; the buffer is *)
(* freed.                                                                  *)
default_write_cb ==
  /\ Turn
  /\ \E c \in Client :
       /\ writes[c] > 0
       /\ writes' = [writes EXCEPT ![c] = @ - 1]
  /\ UNCHANGED <<server, running>>

(* The close callback of a client frees the handle; libuv has ended its    *)
(* writes.                                                                 *)
free_client_handle ==
  /\ Turn
  /\ \E c \in Client :
       /\ server.client[c] = "closing" /\ writes[c] = 0
       /\ server' = [server EXCEPT !.client[c] = "none"]
  /\ Idle

ServerClosed ==
  /\ Turn /\ server.handle = "closing"
  /\ \E shutdown \in BOOLEAN : server' = close_server_cb(server, shutdown)
  /\ Idle

free_wake_handle == Turn /\ server.wake /\ server' = [server EXCEPT !.wake = FALSE] /\ Idle

(* SIGINT stops the server, unless the callback for it says otherwise.     *)
signal_interrupt_cb == Turn /\ server.signal /\ server' = UvTcpServer_stop(server) /\ Idle

LoopReturns ==
  /\ Turn
  /\ server.handle = "none" /\ ~server.signal /\ ~server.wake
  /\ \A c \in Client : server.client[c] = "none"
  /\ running' = FALSE
  /\ UNCHANGED <<server, writes>>

(* UvTcpServer_start stops the server first, then listens and runs.        *)
UvTcpServer_start ==
  /\ ~running /\ running' = TRUE
  /\ server' = [UvTcpServer_stop(server) EXCEPT !.handle = "listening", !.signal = TRUE]
  /\ UNCHANGED writes

Init ==
  /\ server = [handle |-> "none", signal |-> FALSE, wake |-> FALSE,
               client |-> [c \in Client |-> "none"], listed |-> {}, pack |-> {}, block |-> {}]
  /\ writes = [c \in Client |-> 0]
  /\ running = FALSE

CloseStep == free_client_handle \/ ServerClosed \/ free_wake_handle \/ default_write_cb \/ LoopReturns

Next ==
  \/ client_connection_cb \/ UvTcpServer_add_client \/ client_data_in_cb \/ UvTcp_write \/ CloseStep
  \/ signal_interrupt_cb \/ UvTcpServer_start

(* libuv ends writes, makes the close callbacks it owes and returns.       *)
Fairness ==
  /\ WF_vars(free_wake_handle) /\ WF_vars(ServerClosed) /\ WF_vars(LoopReturns)
  /\ SF_vars(default_write_cb) /\ SF_vars(free_client_handle)

Spec == Init /\ [][Next]_vars /\ Fairness

(* A connection callback that asks for the client or the server to be      *)
(* closed: uv_close is called for the handle, which is then freed at once. *)
RejectClient ==
  /\ Turn /\ server.handle = "listening"
  /\ \E c \in Client, shutdown \in BOOLEAN :
       /\ server.client[c] = "none"
       /\ LET s == [server EXCEPT !.client[c] = "freed"]
          IN server' = IF shutdown THEN UvTcpServer_stop(s) ELSE s
  /\ Idle

AnySpec == Init /\ [][Next \/ RejectClient]_vars

-----------------------------------------------------------------------------
(* Whatever the callbacks of clients that were not turned away ask for,    *)
(* alone or together, the list holds the clients that are open, each with  *)
(* its package, a handle that is freed was taken off, and between          *)
(* callbacks every block is back in the pool and every buffer of a closed  *)
(* handle freed.                                                           *)
ListedIsOpen ==
  /\ server \in ServerType
  /\ server.listed = {c \in Client : server.client[c] = "open"}
  /\ server.pack = server.listed /\ server.block = {}
  /\ \A c \in Client : server.client[c] = "none" => writes[c] = 0

Stopping == server.handle = "closing"

(* A server that is told to stop gets UvTcpServer_start to return: every   *)
(* handle the loop holds for it is closed, with a client in the middle of  *)
(* a read, of a write or of its own removal, and stops asked for again     *)
(* while the clients are disconnected.                                     *)
StopEndsLoop == Stopping ~> ~running

(* "This will ensure the client is properly removed from the server's      *)
(* client list and that all memory is freed" (close_client_cb): a handle   *)
(* is there until libuv has made its close callback.                       *)
FreedByItsCallback == \A c \in Client : server.client[c] # "freed"

(* "This is safe to call within the callback functions": a package whose   *)
(* memory client_data_in_cb reads last is still there, also when the       *)
(* callback removed or closed its client.                                  *)
RemovalIsSafe == [][client_data_in_cb => server.pack \subseteq server'.pack]_vars
=============================================================================
