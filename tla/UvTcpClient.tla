---------------------------- MODULE UvTcpClient ----------------------------
(***************************************************************************)
(* The libuv client of source/UvTcpClient.c, connected with a thread of    *)
(* its own that runs the loop, a thread that makes the calls, and a host.  *)
(* A loop that waits in the kernel is woken by the host only.              *)
(***************************************************************************)

VARIABLES
  connected,   \* client->connected
  handle,      \* "none", "connecting", "reading", "closing" or "inactive"
  buff,        \* recv_buff is allocated
  thread,      \* "none", "polling" in the kernel, "turning" or "ended"
  user,        \* "idle", or "joining" the thread
  freed

vars == <<connected, handle, buff, thread, user, freed>>

-----------------------------------------------------------------------------
(* The loop's thread.                                                      *)

(* UvTcpClient_disconnect in a callback: the join of the calling thread    *)
(* fails at once.                                                          *)
LoopDisconnect == thread' = "turning" /\ handle' = "closing" /\ UNCHANGED <<connected, buff, user, freed>>

(* connected_cb: without memory for the buffer the first read fails; a     *)
(* connection that failed is not closed.                                   *)
connected_cb ==
  /\ thread = "polling" /\ handle = "connecting"
  /\ thread' = "turning"
  /\ \/ connected' = FALSE /\ handle' = "inactive" /\ UNCHANGED buff
     \/ /\ handle' = "reading" /\ UNCHANGED connected
        /\ buff' \in {TRUE, buff}
  /\ UNCHANGED <<user, freed>>

(* alloc_cb and read_cb: the user's callback may disconnect; an error, and *)
(* a missing buffer, do.                                                   *)
read_cb ==
  /\ thread = "polling" /\ handle = "reading"
  /\ \/ buff /\ thread' = "turning" /\ UNCHANGED <<connected, handle, buff, user, freed>>
     \/ LoopDisconnect

close_cb ==
  /\ thread = "turning" /\ handle = "closing"
  /\ connected' = FALSE /\ handle' = "none" /\ buff' = FALSE
  /\ UNCHANGED <<thread, user, freed>>

(* The loop waits again, or returns when no handle is active.              *)
run_loop_proc ==
  /\ thread = "turning" /\ handle # "closing"
  /\ thread' = IF handle \in {"connecting", "reading"} THEN "polling" ELSE "ended"
  /\ UNCHANGED <<connected, handle, buff, user, freed>>

-----------------------------------------------------------------------------
(* The calls.                                                              *)

MayCall == user = "idle" /\ ~freed
Settled == thread \in {"none", "ended"}   \* the caller waits for the thread

(* UvTcpClient_connect_threaded; a step of it that fails changes nothing.  *)
UvTcpClient_connect_threaded ==
  /\ MayCall /\ Settled /\ ~connected
  /\ handle' = "connecting" /\ connected' = TRUE /\ thread' = "turning"
  /\ UNCHANGED <<buff, user, freed>>

(* UvTcpClient_disconnect by another thread: uv_close does not wake the    *)
(* loop.                                                                   *)
UvTcpClient_disconnect ==
  \/ /\ MayCall /\ connected
     /\ handle' = "closing" /\ user' = "joining"
     /\ UNCHANGED <<connected, buff, thread, freed>>
  \/ /\ user = "joining" /\ thread = "ended" /\ user' = "idle"
     /\ UNCHANGED <<connected, handle, buff, thread, freed>>

(* A buffer is resized in place while there is no connection.              *)
UvTcpClient_set_recv_buff_size ==
  /\ MayCall /\ (~connected \/ ~buff)
  /\ UNCHANGED vars

delUvTcpClient ==
  /\ MayCall /\ Settled /\ ~connected
  /\ freed' = TRUE /\ buff' = FALSE /\ thread' = "none" /\ handle' = "none"
  /\ UNCHANGED <<connected, user>>

newUvTcpClient == freed /\ freed' = FALSE /\ UNCHANGED <<connected, handle, buff, thread, user>>

Init ==
  /\ connected = FALSE /\ handle = "none" /\ buff = FALSE
  /\ thread = "none" /\ user = "idle" /\ freed = FALSE

LoopStep == connected_cb \/ read_cb \/ close_cb \/ run_loop_proc

Next ==
  \/ LoopStep \/ UvTcpClient_connect_threaded \/ UvTcpClient_disconnect
  \/ UvTcpClient_set_recv_buff_size \/ delUvTcpClient \/ newUvTcpClient

(* The loop makes the callbacks it owes; nothing says that the host        *)
(* answers, sends or hangs up.                                             *)
JoinStep == user = "joining" /\ UvTcpClient_disconnect

Fairness == WF_vars(close_cb) /\ WF_vars(run_loop_proc) /\ WF_vars(JoinStep)

Spec == Init /\ [][Next]_vars /\ Fairness

-----------------------------------------------------------------------------
Closing == handle = "closing" /\ thread # "polling"
Closed == thread = "ended" /\ ~connected

(* A connection that ends, closed by the host, by the client's callback or *)
(* by another thread while the loop is at work, takes the loop's thread    *)
(* with it and leaves the client ready to connect: neither the join within *)
(* its own callback nor a handle that is left active keeps the loop.       *)
CloseEndsThread == Closing ~> Closed
=============================================================================
