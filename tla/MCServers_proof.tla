-------------------------- MODULE MCServers_proof --------------------------
(***************************************************************************)
(* Proofs about the servers of MCServers: in every state each open client  *)
(* of a TcpServer and of an FdServer has exactly one owner, and the data   *)
(* of an EventServer's client is freed once.                               *)
(*                                                                         *)
(* Both threaded servers write their flags without a lock, and an update   *)
(* may be lost, so that no flag is evidence of anything: the invariants    *)
(* speak of where the two threads are and of nothing in flag_pole.         *)
(***************************************************************************)
EXTENDS MCServers, Sequences, SequenceTheorems, TLAPS

(* What a thread returns to, as a stack.                                   *)
LEMMA Stacks ==
  \A a, b :
    /\ <<a>> \o <<>> = <<a>> /\ <<a>> \o <<b>> = <<a, b>>
    /\ Head(<<a>>) = a /\ Tail(<<a>>) = <<>> /\ Head(<<a, b>>) = a /\ Tail(<<a, b>>) = <<b>>
<1>1. ASSUME NEW a, NEW b PROVE <<a>> \o <<b>> = <<a, b>>
  <2> DEFINE S == {a, b}
             s == <<a>> \o <<b>>
             p == <<a, b>>
  <2>1. <<a>> \in Seq(S) /\ <<b>> \in Seq(S) /\ p \in Seq(S)
    OBVIOUS
  <2>2. s \in Seq(S) /\ Len(s) = 2 /\ s[1] = a /\ s[2] = b
    BY <2>1, ConcatProperties
  <2>3. Len(p) = 2 /\ p[1] = a /\ p[2] = b
    OBVIOUS
  <2> HIDE DEF S, s, p
  <2>4. Len(s) = Len(p) /\ \A i \in 1 .. Len(s) : s[i] = p[i]
    BY <2>2, <2>3
  <2>5. s = p
    BY <2>1, <2>2, <2>4, SeqEqual
  <2> QED BY <2>5 DEF s, p
<1>2. \A a, b : <<a>> \o <<>> = <<a>> /\ Head(<<a>>) = a /\ Tail(<<a>>) = <<>>
  OBVIOUS
<1>3. \A a, b : Head(<<a, b>>) = a /\ Tail(<<a, b>>) = <<b>>
  OBVIOUS
<1> QED BY <1>1, <1>2, <1>3

-----------------------------------------------------------------------------
(* EventServer.                                                            *)

(* The data that waits for its free function is that of the packages on    *)
(* the list, and a live client with data is on it.                         *)
EvInv ==
  /\ "client_con" \in callbacks /\ ~crashed
  /\ proc \in [EventPeer -> {"null", "user"}]
  /\ bev \subseteq came /\ packages \subseteq came /\ reads \subseteq bev /\ came \subseteq EventPeer
  /\ held = packages
  /\ deleted => packages = {} /\ ~loop
  /\ ~deleted => \A c \in bev : proc[c] = "user" => c \in packages

(* A new server has no client.                                             *)
LEMMA EvInit == Careful /\ Event!newEventServer => EvInv
BY DEF Event!newEventServer, EvInv

(* A callback of a client that was given its data: what it asks for.       *)
LEMMA EvHeed ==
  ASSUME EvInv, ~deleted, NEW c \in bev, NEW r, Event!Heed(c, r),
         UNCHANGED <<callbacks, quits, came, deleted>>
  PROVE  EvInv'
<1>1. CASE "CLIENT_CLOSE" \in r
  <2>1. /\ packages' = packages \ {c} /\ held' = held \ (packages \cap {c}) /\ proc' = proc
        /\ bev' = bev \ {c} /\ reads' = reads \ {c}
    BY <1>1 DEF Event!Heed, Event!free_callback_package
  <2>2. ~crashed'
    BY <1>1 DEF Event!Heed, Event!free_callback_package, EvInv
  <2> QED BY <2>1, <2>2 DEF EvInv
<1>2. CASE "CLIENT_CLOSE" \notin r
  BY <1>2 DEF Event!Heed, EvInv
<1> QED BY <1>1, <1>2

(* Every callback of the loop and every call of the program keeps EvInv.   *)
LEMMA EvNextKeepsInv == EvInv /\ Careful /\ Event!Next => EvInv'
<1> SUFFICES ASSUME EvInv, Careful, Event!Next PROVE EvInv'
  OBVIOUS
<1>0. \A c \in bev : ~deleted => Event!Use(c)
  BY DEF EvInv, Event!Use
<1>1. ASSUME NEW c \in EventPeer, Event!listener_cb(c) PROVE EvInv'
  <2>1. c \notin came /\ came' = came \cup {c} /\ ~deleted /\ UNCHANGED <<callbacks, deleted>>
    BY <1>1 DEF Event!listener_cb, Event!Serving, EvInv
  <2>2. CASE UNCHANGED Event!clientVars
    BY <2>1, <2>2 DEF EvInv, Event!clientVars
  <2>3. ASSUME NEW p \in {"null", "user"}, Event!Welcome(c, p) PROVE EvInv'
    BY <2>1, <2>3 DEF EvInv, Event!Welcome
  <2>4. UNCHANGED Event!clientVars \/ \E p \in {"null", "user"} : Event!Welcome(c, p)
    BY <1>1 DEF Event!listener_cb, Event!Refuse, EvInv
  <2> QED BY <2>2, <2>3, <2>4
<1>2. ASSUME NEW c \in EventPeer, Event!conn_readcb(c) PROVE EvInv'
  <2>1. c \in bev /\ ~deleted /\ UNCHANGED <<callbacks, quits, came, deleted>>
    BY <1>2 DEF Event!conn_readcb, Event!Serving, EvInv
  <2>2. UNCHANGED Event!clientVars \/ \E r \in SUBSET Event!Request : Event!Heed(c, r)
    BY <1>0, <1>2, <2>1 DEF Event!conn_readcb
  <2> QED BY <2>1, <2>2, EvHeed DEF EvInv, Event!clientVars
<1>3. ASSUME NEW c \in EventPeer, Event!conn_eventcb(c) PROVE EvInv'
  <2>1. c \in bev /\ ~deleted /\ UNCHANGED <<callbacks, quits, came, deleted>>
    BY <1>3 DEF Event!conn_eventcb, Event!Serving, EvInv
  <2>2. CASE "client_discon" \notin callbacks
    BY <1>3, <2>1, <2>2 DEF Event!conn_eventcb, EvInv
  <2>3. CASE "client_discon" \in callbacks
    BY <1>0, <1>3, <2>1, <2>3, EvHeed DEF Event!conn_eventcb
  <2> QED BY <2>2, <2>3
<1>4. CASE Event!signal_cb \/ Event!LoopReturns \/ Event!EventServer_start
  BY <1>4 DEF Event!signal_cb, Event!LoopReturns, Event!EventServer_start, Event!EventServer_stop,
              Event!Serving, Event!clientVars, Event!loopVars, EvInv
<1>5. CASE Event!EventServer_set_cb
  BY <1>5 DEF Event!EventServer_set_cb, Event!clientVars, Event!loopVars, EvInv
<1>6. CASE Event!delEventServer
  BY <1>6 DEF Event!delEventServer, Event!free_callback_package, Event!loopVars, EvInv
<1> QED BY <1>1, <1>2, <1>3, <1>4, <1>5, <1>6 DEF Event!Next

(* A step of another server.                                               *)
LEMMA EvStutter == EvInv /\ UNCHANGED eventVars => EvInv'
BY DEF EvInv, eventVars

(* What EventServer promises follows.                                      *)
LEMMA EvOwned == EvInv => Event!DataIsOwned
BY DEF EvInv, Event!DataIsOwned, Event!Use

-----------------------------------------------------------------------------
(* FdServer.                                                               *)

(* Where a thread is in FdServer_stop.                                     *)
FdStop == {"stop", "stop1", "stop2", "stop3", "stop4"}

(* Where the worker is, and what it returns to from there.                 *)
FdWorkerAt(p, back) ==
  \/ /\ p \in {"none", "born", "born1", "loop", "epoll", "batch", "connect", "connected", "recv", "receive",
               "received", "end", "quit", "quit1", "done"}
     /\ back = <<>>
  \/ p \in {"discon", "remove"} /\ back \in {<<"batch">>, <<"end">>}
  \/ /\ p \in FdStop
     /\ back \in {<<"connected">>, <<"received">>, <<"remove", "batch">>, <<"remove", "end">>, <<"quit">>}

(* The same for ctl.                                                       *)
FdControlAt(p, back) ==
  \/ p \in {"idle", "unstop", "unstop1", "pthread", "join", "delete"} /\ back = <<>>
  \/ p \in FdStop /\ back \in {<<"idle">>, <<"join">>, <<"delete">>}

(* Types, and each thread is where its calls took it.                      *)
FdType ==
  /\ fdPc = [t \in Fd!Thread |-> fdPc[t]] /\ fdRet = [t \in Fd!Thread |-> fdRet[t]]
  /\ fdPeer = [c \in FdPeer |-> fdPeer[c]]
  /\ FdWorkerAt(fdPc["worker"], fdRet["worker"]) /\ FdControlAt(fdPc["ctl"], fdRet["ctl"])
  /\ fdOpen \subseteq FdPeer

(* From accept until the client is listed or refused.                      *)
FdAccepting(p, back) == p \in {"connect", "connected"} \/ (p \in FdStop /\ back = <<"connected">>)

(* After run_loop's last FdServer_stop, and before its first accept.       *)
FdIdle == {"none", "born", "born1", "quit", "quit1", "done"}

(* The open clients are the listed ones, and the one that is accepted,     *)
(* whose connection was new.                                               *)
FdBooks ==
  /\ IF FdAccepting(fdPc["worker"], fdRet["worker"])
     THEN fdCur \in FdPeer /\ fdCur \notin fdList /\ fdOpen = fdList \cup {fdCur}
     ELSE fdOpen = fdList
  /\ fdPc["worker"] \in FdIdle => fdList = {}
  /\ \A c \in fdOpen : fdPeer[c] \notin {"away", "calls"}
  /\ fdPc["ctl"] \in {"unstop", "unstop1", "pthread"} => fdPc["worker"] \in {"none", "done"}

(* The invariant of FdServer.                                              *)
FdInv == FdType /\ FdBooks

(* A new server has no thread and no client.                               *)
LEMMA FdInit == Fd!Init => FdInv
<1> SUFFICES ASSUME Fd!Init PROVE FdInv
  OBVIOUS
<1>1. fdPc = [t \in Fd!Thread |-> fdPc[t]] /\ fdPc["ctl"] = "idle" /\ fdPc["worker"] = "none"
  BY DEF Fd!Init, Fd!Thread
<1> QED BY <1>1 DEF Fd!Init, Fd!Thread, FdInv, FdType, FdBooks, FdWorkerAt, FdControlAt, FdAccepting, FdStop, FdIdle

(* A step of thread t alone: where it goes, and what it returns to.        *)
FdGoes(t, to, back) ==
  /\ fdPc' = [u \in Fd!Thread |-> fdPc'[u]] /\ fdRet' = [u \in Fd!Thread |-> fdRet'[u]]
  /\ fdPc'[t] = to /\ fdRet'[t] = back
  /\ \A u \in Fd!Thread : u # t => fdPc'[u] = fdPc[u] /\ fdRet'[u] = fdRet[u]

(* Moving on, calling and returning are such steps.                        *)
LEMMA FdSteps ==
  ASSUME FdInv, NEW t \in Fd!Thread, NEW to
  PROVE  /\ Fd!Goto(t, to) /\ UNCHANGED fdRet => FdGoes(t, to, fdRet[t])
         /\ \A after : Fd!Call(t, to, after) => FdGoes(t, to, <<after>> \o fdRet[t])
         /\ Fd!Return(t) => FdGoes(t, Head(fdRet[t]), Tail(fdRet[t]))
BY DEF FdInv, FdType, FdGoes, Fd!Goto, Fd!Call, Fd!Return

(* A step of the worker that neither opens nor closes a client, nor lists  *)
(* one.                                                                    *)
LEMMA FdWorkerMoves ==
  ASSUME FdInv, NEW to, NEW back, FdGoes("worker", to, back), UNCHANGED <<fdList, fdOpen>>,
         FdWorkerAt(to, back), fdPc["worker"] \notin {"none", "done"},
         to \in FdIdle => fdPc["worker"] \in FdIdle,
         FdAccepting(to, back) <=> FdAccepting(fdPc["worker"], fdRet["worker"]),
         FdAccepting(to, back) => fdCur' = fdCur,
         fdPeer' = [c \in FdPeer |-> fdPeer'[c]],
         \A c \in FdPeer : fdPeer'[c] \in {"away", "calls"} => fdPeer[c] \in {"away", "calls"}
  PROVE  FdInv'
<1>1. fdPc'["worker"] = to /\ fdRet'["worker"] = back /\ fdPc'["ctl"] = fdPc["ctl"] /\ fdRet'["ctl"] = fdRet["ctl"]
  BY DEF FdGoes, Fd!Thread
<1>2. FdType'
  BY <1>1 DEF FdInv, FdType, FdGoes, Fd!Thread
<1>3. FdBooks'
  BY <1>1 DEF FdInv, FdType, FdBooks
<1> QED BY <1>2, <1>3 DEF FdInv

(* A step of ctl that clears the list or leaves it alone.                  *)
LEMMA FdControlMoves ==
  ASSUME FdInv, NEW to, NEW back, FdGoes("ctl", to, back), FdControlAt(to, back),
         \/ UNCHANGED <<fdList, fdOpen>>
         \/ fdList' = {} /\ fdOpen' = fdOpen \ fdList,
         to \in {"unstop", "unstop1", "pthread"} => fdPc["worker"] \in {"none", "done"},
         UNCHANGED <<fdCur, fdPeer>>
  PROVE  FdInv'
<1>1. fdPc'["ctl"] = to /\ fdRet'["ctl"] = back
      /\ fdPc'["worker"] = fdPc["worker"] /\ fdRet'["worker"] = fdRet["worker"]
  BY DEF FdGoes, Fd!Thread
<1>2. FdType'
  BY <1>1 DEF FdInv, FdType, FdGoes, Fd!Thread
<1>3. FdBooks'
  BY <1>1 DEF FdInv, FdType, FdBooks
<1> QED BY <1>2, <1>3 DEF FdInv

(* FdServer_stop in the worker.                                            *)
LEMMA FdWorkerStops == FdInv /\ Fd!FdServer_stop("worker") => FdInv'
<1> SUFFICES ASSUME FdInv, Fd!FdServer_stop("worker") PROVE FdInv'
  OBVIOUS
<1>0. "worker" \in Fd!Thread
  BY DEF Fd!Thread
<1>1. ASSUME NEW to \in FdStop, fdPc["worker"] \in FdStop, Fd!Goto("worker", to),
             UNCHANGED <<fdRet, fdCur, fdList, fdOpen, fdPeer>>
      PROVE  FdInv'
  <2>1. FdGoes("worker", to, fdRet["worker"])
    BY <1>0, <1>1, FdSteps
  <2> QED BY <1>1, <2>1, FdWorkerMoves DEF FdInv, FdType, FdWorkerAt, FdAccepting, FdStop, FdIdle
<1>2. ASSUME fdPc["worker"] = "stop4", fdList' = {}, fdOpen' = fdOpen \ fdList, Fd!Return("worker"),
             UNCHANGED <<fdCur, fdPeer>>
      PROVE  FdInv'
  <2> DEFINE to == Head(fdRet["worker"])
             back == Tail(fdRet["worker"])
  <2>1. FdGoes("worker", to, back)
    BY <1>0, <1>2, FdSteps
  <2>2. \/ fdRet["worker"] = <<"connected">> /\ to = "connected" /\ back = <<>>
        \/ fdRet["worker"] = <<"received">> /\ to = "received" /\ back = <<>>
        \/ fdRet["worker"] = <<"remove", "batch">> /\ to = "remove" /\ back = <<"batch">>
        \/ fdRet["worker"] = <<"remove", "end">> /\ to = "remove" /\ back = <<"end">>
        \/ fdRet["worker"] = <<"quit">> /\ to = "quit" /\ back = <<>>
    BY <1>2, Stacks DEF FdInv, FdType, FdWorkerAt, FdStop
  <2> HIDE DEF to, back
  <2>3. /\ fdPc'["worker"] = to /\ fdRet'["worker"] = back
        /\ fdPc'["ctl"] = fdPc["ctl"] /\ fdRet'["ctl"] = fdRet["ctl"]
    BY <2>1 DEF FdGoes, Fd!Thread
  <2>4. FdWorkerAt(to, back)
    BY <2>2 DEF FdWorkerAt
  <2>5. FdType'
    BY <1>2, <2>1, <2>3, <2>4 DEF FdInv, FdType, FdGoes, Fd!Thread
  <2>6. FdAccepting(to, back) <=> FdAccepting(fdPc["worker"], fdRet["worker"])
    BY <1>2, <2>2, Stacks DEF FdAccepting, FdStop
  <2>7. FdBooks'
    BY <1>2, <2>3, <2>6 DEF FdInv, FdType, FdBooks
  <2> QED BY <2>5, <2>7 DEF FdInv
<1> QED
  BY <1>1, <1>2 DEF Fd!FdServer_stop, Fd!Load, Fd!Store, Fd!CloseFds, Fd!ClearClients, Fd!free_fds_package,
     Fd!clientVars, FdStop

(* FdServer_stop in ctl, whatever the worker does meanwhile.               *)
LEMMA FdControlStops == FdInv /\ Fd!FdServer_stop("ctl") => FdInv'
<1> SUFFICES ASSUME FdInv, Fd!FdServer_stop("ctl") PROVE FdInv'
  OBVIOUS
<1>0. "ctl" \in Fd!Thread
  BY DEF Fd!Thread
<1>1. ASSUME NEW to \in FdStop, fdPc["ctl"] \in FdStop, Fd!Goto("ctl", to),
             UNCHANGED <<fdRet, fdCur, fdList, fdOpen, fdPeer>>
      PROVE  FdInv'
  <2>1. FdGoes("ctl", to, fdRet["ctl"])
    BY <1>0, <1>1, FdSteps
  <2> QED BY <1>1, <2>1, FdControlMoves DEF FdInv, FdType, FdControlAt, FdStop
<1>2. ASSUME fdPc["ctl"] = "stop4", fdList' = {}, fdOpen' = fdOpen \ fdList, Fd!Return("ctl"),
             UNCHANGED <<fdCur, fdPeer>>
      PROVE  FdInv'
  <2> DEFINE to == Head(fdRet["ctl"])
             back == Tail(fdRet["ctl"])
  <2>1. FdGoes("ctl", to, back)
    BY <1>0, <1>2, FdSteps
  <2>2. fdRet["ctl"] \in {<<"idle">>, <<"join">>, <<"delete">>}
    BY <1>2 DEF FdInv, FdType, FdControlAt, FdStop
  <2>3. to \in {"idle", "join", "delete"} /\ back = <<>>
    BY <2>2, Stacks
  <2> HIDE DEF to, back
  <2> QED BY <1>2, <2>1, <2>3, FdControlMoves DEF FdControlAt
<1> QED
  BY <1>1, <1>2 DEF Fd!FdServer_stop, Fd!Load, Fd!Store, Fd!CloseFds, Fd!ClearClients, Fd!free_fds_package,
     Fd!clientVars, FdStop

(* The frame of the thread, its loop, and the callbacks of a listed client,*)
(* which only move the worker on.                                          *)
LEMMA FdServes ==
  /\ FdInv
  /\ Fd!ThreadFrame \/ Fd!LoopHead \/ Fd!EpollWait \/ Fd!BatchDone \/ Fd!OnConnect \/ Fd!Receive \/ Fd!OnReceive
     \/ Fd!OnDisconnect \/ Fd!FindClient
  => FdInv'
<1> SUFFICES ASSUME FdInv,
                    Fd!ThreadFrame \/ Fd!LoopHead \/ Fd!EpollWait \/ Fd!BatchDone \/ Fd!OnConnect \/ Fd!Receive
                    \/ Fd!OnReceive \/ Fd!OnDisconnect \/ Fd!FindClient
             PROVE  FdInv'
  OBVIOUS
<1>0. "worker" \in Fd!Thread
  BY DEF Fd!Thread
<1>1. UNCHANGED <<fdList, fdOpen>>
  BY DEF Fd!ThreadFrame, Fd!LoopHead, Fd!EpollWait, Fd!BatchDone, Fd!OnConnect, Fd!Receive, Fd!OnReceive,
         Fd!OnDisconnect, Fd!FindClient, Fd!Load, Fd!Store, Fd!Branch, Fd!clientVars
<1>2. /\ fdPeer' = [c \in FdPeer |-> fdPeer'[c]]
      /\ \A c \in FdPeer : fdPeer'[c] \in {"away", "calls"} => fdPeer[c] \in {"away", "calls"}
  <2>1. UNCHANGED fdPeer \/ fdPeer' = [fdPeer EXCEPT ![fdCur] = "up"]
    BY DEF Fd!ThreadFrame, Fd!LoopHead, Fd!EpollWait, Fd!BatchDone, Fd!OnConnect, Fd!Receive, Fd!OnReceive,
           Fd!OnDisconnect, Fd!FindClient, Fd!Load, Fd!Store, Fd!Branch
  <2> QED BY <2>1 DEF FdInv, FdType
(* A step that stays in the frame of run_loop, or of start_thread.         *)
<1>3. ASSUME NEW at, NEW to, fdPc["worker"] = at, Fd!Goto("worker", to), UNCHANGED fdRet,
             \/ at = "born" /\ to = "born1"
             \/ at = "born1" /\ to = "loop"
             \/ at \in {"loop", "epoll", "batch"} /\ to \in {"loop", "epoll", "end", "batch"}
             \/ at = "quit" /\ to = "quit1"
             \/ at = "quit1" /\ to = "done"
             \/ at \in {"batch", "recv", "receive", "received"} /\ to \in {"batch", "recv", "receive", "received"}
             \/ at = "discon" /\ to = "remove"
             \/ at = "connect" /\ to = "connected" /\ fdCur' = fdCur
      PROVE  FdInv'
  <2>1. FdGoes("worker", to, fdRet["worker"])
    BY <1>0, <1>3, FdSteps
  <2> QED BY <1>1, <1>2, <1>3, <2>1, FdWorkerMoves DEF FdInv, FdType, FdWorkerAt, FdAccepting, FdStop, FdIdle
(* A call of FdServer_stop or FdServer_close_client.                       *)
<1>4. ASSUME NEW at, NEW to, NEW after, fdPc["worker"] = at, Fd!Call("worker", to, after),
             \/ at = "end" /\ to = "stop" /\ after = "quit"
             \/ at = "connect" /\ to = "stop" /\ after = "connected" /\ fdCur' = fdCur
             \/ at = "receive" /\ to = "stop" /\ after = "received"
             \/ at = "discon" /\ to = "stop" /\ after = "remove"
             \/ at \in {"batch", "recv", "received"} /\ to = "discon" /\ after \in {"batch", "end"}
      PROVE  FdInv'
  <2> DEFINE back == <<after>> \o fdRet["worker"]
  <2>1. FdGoes("worker", to, back)
    BY <1>0, <1>4, FdSteps
  <2>2. \/ at # "discon" /\ back = <<after>>
        \/ at = "discon" /\ back \in {<<"remove", "batch">>, <<"remove", "end">>}
    BY <1>4, Stacks DEF FdInv, FdType, FdWorkerAt, FdStop
  <2> HIDE DEF back
  <2>3. FdWorkerAt(to, back)
    BY <1>4, <2>2 DEF FdWorkerAt, FdStop
  <2>4. FdAccepting(to, back) <=> at = "connect"
    BY <1>4, <2>2, Stacks DEF FdAccepting, FdStop
  <2>5. FdAccepting(fdPc["worker"], fdRet["worker"]) <=> at = "connect"
    BY <1>4 DEF FdAccepting, FdStop
  <2>6. to \notin FdIdle /\ fdPc["worker"] \notin {"none", "done"}
    BY <1>4 DEF FdIdle
  <2> QED BY <1>1, <1>2, <1>4, <2>1, <2>3, <2>4, <2>5, <2>6, FdWorkerMoves
<1>5. CASE Fd!ThreadFrame
  BY <1>3, <1>4, <1>5 DEF Fd!ThreadFrame, Fd!Load, Fd!Store
<1>6. CASE Fd!LoopHead \/ Fd!EpollWait \/ Fd!BatchDone
  BY <1>3, <1>6 DEF Fd!LoopHead, Fd!EpollWait, Fd!BatchDone, Fd!Branch
<1>7. CASE Fd!OnConnect \/ Fd!OnDisconnect
  BY <1>3, <1>4, <1>7 DEF Fd!OnConnect, Fd!OnDisconnect
<1>8. CASE Fd!Receive \/ Fd!OnReceive
  BY <1>3, <1>4, <1>8 DEF Fd!Receive, Fd!OnReceive
<1>9. CASE Fd!FindClient
  BY <1>3, <1>4, <1>9 DEF Fd!FindClient, Fd!TakeEvent
<1> QED BY <1>5, <1>6, <1>7, <1>8, <1>9

(* The steps that open, list and close clients.                            *)
LEMMA FdOpens ==
  FdInv /\ (Fd!Accept \/ Fd!Connected \/ Fd!CloseUnknown \/ Fd!Remove) => FdInv'
<1> SUFFICES ASSUME FdInv, Fd!Accept \/ Fd!Connected \/ Fd!CloseUnknown \/ Fd!Remove PROVE FdInv'
  OBVIOUS
<1>0. "worker" \in Fd!Thread /\ "ctl" \in Fd!Thread
  BY DEF Fd!Thread
<1>1. ASSUME NEW at, NEW to, NEW back, at \in {"batch", "connected", "remove"}, to \in {"batch", "connect", "end"},
             fdPc["worker"] = at, back = <<>>, FdGoes("worker", to, back),
             fdPeer' = [c \in FdPeer |-> fdPeer'[c]], fdOpen' \subseteq FdPeer, FdBooks'
      PROVE  FdInv'
  <2>1. FdWorkerAt(to, back)
    BY <1>1 DEF FdWorkerAt
  <2> QED BY <1>0, <1>1, <2>1 DEF FdInv, FdType, FdGoes, Fd!Thread
<1>2. ASSUME fdPc["worker"] \in {"batch", "connected"} PROVE fdRet["worker"] = <<>>
  BY <1>2 DEF FdInv, FdType, FdWorkerAt, FdStop
<1>3. CASE Fd!Accept
  <2>1. fdPc["worker"] = "batch" /\ fdRet' = fdRet /\ fdList' = fdList /\ fdOpen = fdList
    BY <1>3 DEF Fd!Accept, Fd!TakeEvent, FdInv, FdBooks, FdAccepting, FdStop
  <2>2. CASE UNCHANGED <<fdPc, fdCur, fdOpen, fdPeer>>
    BY <2>1, <2>2 DEF FdInv, FdType, FdBooks, Fd!Thread
  <2>3. CASE Fd!Goto("worker", "end") /\ UNCHANGED <<fdCur, fdOpen, fdPeer>>
    <3>1. FdGoes("worker", "end", <<>>)
      BY <1>0, <1>2, <2>1, <2>3, FdSteps
    <3> QED BY <2>1, <2>3, <3>1, FdWorkerMoves DEF FdInv, FdType, FdWorkerAt, FdAccepting, FdStop, FdIdle
  <2>4. ASSUME NEW c \in FdPeer, fdPeer[c] = "calls", fdPeer' = [fdPeer EXCEPT ![c] = "up"],
               fdCur' = c, fdOpen' = fdOpen \cup {c}, Fd!Goto("worker", "connect")
        PROVE  FdInv'
    <3>1. FdGoes("worker", "connect", <<>>)
      BY <1>0, <1>2, <2>1, <2>4, FdSteps
    <3>2. /\ fdPc'["worker"] = "connect" /\ fdPc'["ctl"] = fdPc["ctl"]
          /\ fdPeer' = [d \in FdPeer |-> fdPeer'[d]] /\ fdOpen' \subseteq FdPeer
      BY <1>0, <2>4, <3>1 DEF FdGoes, FdInv, FdType
    <3>3. \A d \in fdOpen' : fdPeer'[d] \notin {"away", "calls"}
      BY <2>1, <2>4 DEF FdInv, FdType, FdBooks
    <3>4. FdBooks'
      BY <2>1, <2>4, <3>2, <3>3 DEF FdInv, FdType, FdBooks, FdAccepting, FdIdle
    <3> QED BY <1>1, <2>1, <3>1, <3>2, <3>4
  <2> QED BY <1>3, <2>2, <2>3, <2>4 DEF Fd!Accept, Fd!new_fds_package
<1>4. CASE Fd!Connected
  <2>1. /\ fdPc["worker"] = "connected" /\ fdRet' = fdRet /\ UNCHANGED fdPeer
        /\ fdCur \notin fdList /\ fdOpen = fdList \cup {fdCur}
        /\ \E to \in {"batch", "end"} : Fd!Goto("worker", to)
        /\ \/ fdOpen' = fdOpen \ {fdCur} /\ fdList' = fdList
           \/ fdList' = fdList \cup {fdCur} /\ fdOpen' = fdOpen
    BY <1>4 DEF Fd!Connected, Fd!free_fds_package, FdInv, FdBooks, FdAccepting
  <2>2. PICK to \in {"batch", "end"} : FdGoes("worker", to, <<>>)
    BY <1>0, <1>2, <2>1, FdSteps
  <2>3. fdPc'["worker"] = to /\ fdPc'["ctl"] = fdPc["ctl"]
    BY <1>0, <2>2 DEF FdGoes
  <2>4. fdOpen' = fdList' /\ fdOpen' \subseteq fdOpen
    BY <2>1
  <2>5. FdBooks'
    BY <2>1, <2>3, <2>4 DEF FdInv, FdBooks, FdAccepting, FdStop, FdIdle
  <2> QED BY <1>1, <2>1, <2>2, <2>4, <2>5 DEF FdInv, FdType
<1>5. CASE Fd!CloseUnknown
  <2>1. /\ fdPc["worker"] = "batch" /\ UNCHANGED <<fdPc, fdRet, fdCur, fdList, fdPeer>>
        /\ fdFirst \notin fdList /\ fdOpen' = fdOpen \ {fdFirst}
    BY <1>5 DEF Fd!CloseUnknown, Fd!TakeEvent
  <2>2. fdOpen' = fdOpen
    BY <2>1 DEF FdInv, FdBooks, FdAccepting, FdStop
  <2> QED BY <2>1, <2>2 DEF FdInv, FdType, FdBooks, Fd!Thread
<1>6. CASE Fd!Remove
  <2>1. /\ fdPc["worker"] = "remove" /\ fdOpen = fdList /\ UNCHANGED fdPeer /\ Fd!Return("worker")
        /\ fdList' = fdList \ {fdCur} /\ fdOpen' = fdOpen \ (fdList \cap {fdCur})
    BY <1>6 DEF Fd!Remove, Fd!free_fds_package, FdInv, FdBooks, FdAccepting, FdStop
  <2>2. fdRet["worker"] \in {<<"batch">>, <<"end">>}
    BY <2>1 DEF FdInv, FdType, FdWorkerAt, FdStop
  <2>3. Head(fdRet["worker"]) \in {"batch", "end"} /\ Tail(fdRet["worker"]) = <<>>
    BY <2>2, Stacks
  <2>4. PICK to \in {"batch", "end"} : FdGoes("worker", to, <<>>)
    BY <1>0, <2>1, <2>3, FdSteps
  <2>5. fdPc'["worker"] = to /\ fdPc'["ctl"] = fdPc["ctl"]
    BY <1>0, <2>4 DEF FdGoes
  <2>6. FdBooks'
    BY <2>1, <2>5 DEF FdInv, FdBooks, FdAccepting, FdStop, FdIdle
  <2> QED BY <1>1, <2>1, <2>4, <2>6 DEF FdInv, FdType
<1> QED BY <1>3, <1>4, <1>5, <1>6

(* The calls of ctl, and its way through them.                             *)
LEMMA FdControls == FdInv /\ (Fd!Calls \/ Fd!ControlStep) => FdInv'
<1> SUFFICES ASSUME FdInv, Fd!Calls \/ Fd!ControlStep PROVE FdInv'
  OBVIOUS
<1>0. "worker" \in Fd!Thread /\ "ctl" \in Fd!Thread
  BY DEF Fd!Thread
<1>1. ASSUME NEW at, NEW to, fdPc["ctl"] = at, Fd!Goto("ctl", to), at \notin FdStop,
             UNCHANGED <<fdRet, fdCur, fdList, fdOpen, fdPeer>>,
             \/ to = "idle"
             \/ at = "idle" /\ to = "unstop" /\ fdPc["worker"] \in {"none", "done"}
             \/ at \in {"unstop", "unstop1"} /\ to \in {"unstop1", "pthread"}
      PROVE  FdInv'
  <2>1. FdGoes("ctl", to, fdRet["ctl"])
    BY <1>0, <1>1, FdSteps
  <2> QED BY <1>1, <2>1, FdControlMoves DEF FdInv, FdType, FdControlAt, FdBooks
<1>2. CASE Fd!FdServer_run_on_thread
  <2>1. CASE UNCHANGED fdPc
    BY <1>2, <2>1 DEF Fd!FdServer_run_on_thread, Fd!clientVars, FdInv, FdType, FdBooks, Fd!Thread
  <2>2. CASE Fd!Goto("ctl", "unstop")
    BY <1>1, <1>2, <2>2 DEF Fd!FdServer_run_on_thread, Fd!MayCall, Fd!clientVars, FdStop
  <2> QED BY <1>2, <2>1, <2>2 DEF Fd!FdServer_run_on_thread
<1>3. CASE Fd!StopCalls
  <2>1. PICK after \in {"idle", "join", "delete"} : Fd!Call("ctl", "stop", after)
    BY <1>3 DEF Fd!StopCalls
  <2>2. fdPc["ctl"] = "idle" /\ fdRet["ctl"] = <<>> /\ UNCHANGED <<fdCur, fdList, fdOpen, fdPeer>>
    BY <1>3 DEF Fd!StopCalls, Fd!MayCall, Fd!clientVars, FdInv, FdType, FdControlAt, FdStop
  <2>3. <<after>> \o fdRet["ctl"] = <<after>>
    BY <2>2, Stacks
  <2>4. FdGoes("ctl", "stop", <<after>>)
    BY <1>0, <2>1, <2>3, FdSteps
  <2> QED BY <2>2, <2>4, FdControlMoves DEF FdControlAt, FdStop
<1>4. CASE Fd!StartThread
  <2>1. CASE fdPc["ctl"] = "pthread" /\ fdPc' = [ctl |-> "idle", worker |-> "born"]
    <3>1. /\ fdPc' = [t \in Fd!Thread |-> fdPc'[t]] /\ fdPc'["ctl"] = "idle" /\ fdPc'["worker"] = "born"
      BY <2>1 DEF Fd!Thread
    <3>2. UNCHANGED <<fdRet, fdList, fdOpen, fdPeer>>
      BY <1>4, <2>1, <3>1 DEF Fd!StartThread, Fd!Load, Fd!Store, Fd!clientVars
    <3>3. fdPc["worker"] \in {"none", "done"} /\ fdRet["worker"] = <<>> /\ fdRet["ctl"] = <<>>
      BY <2>1 DEF FdInv, FdType, FdBooks, FdWorkerAt, FdControlAt, FdStop
    <3>4. FdType'
      BY <3>1, <3>2, <3>3 DEF FdInv, FdType, Fd!Thread, FdWorkerAt, FdControlAt
    <3>5. fdOpen = {} /\ fdList = {}
      BY <3>3 DEF FdInv, FdBooks, FdIdle, FdAccepting, FdStop
    <3>6. FdBooks'
      BY <3>1, <3>2, <3>5 DEF FdInv, FdBooks, FdAccepting, FdStop
    <3> QED BY <3>4, <3>6 DEF FdInv
  <2>2. CASE ~(fdPc["ctl"] = "pthread" /\ fdPc' = [ctl |-> "idle", worker |-> "born"])
    BY <1>1, <1>4, <2>2 DEF Fd!StartThread, Fd!Load, Fd!Store, Fd!clientVars, FdStop
  <2> QED BY <2>1, <2>2
<1>5. CASE Fd!FdServer_stop_with_join \/ Fd!delFdServer
  BY <1>1, <1>5 DEF Fd!FdServer_stop_with_join, Fd!delFdServer, Fd!Joined, Fd!clientVars, FdStop
<1> QED BY <1>2, <1>3, <1>4, <1>5, FdControlStops DEF Fd!Calls, Fd!ControlStep

(* The other sides: a connection that is open is not called again.         *)
LEMMA FdPeers == FdInv /\ Fd!Peers => FdInv'
<1> SUFFICES ASSUME FdInv, Fd!Peers PROVE FdInv'
  OBVIOUS
<1>1. UNCHANGED <<fdPc, fdRet, fdCur, fdList, fdOpen>>
  BY DEF Fd!Peers, Fd!clientVars
<1>2. PICK c \in FdPeer :
        \E v : /\ fdPeer' = [fdPeer EXCEPT ![c] = v]
               /\ v \in {"away", "calls"} => c \notin fdOpen
  BY DEF Fd!Peers, FdInv, FdBooks
<1>3. fdPeer' = [d \in FdPeer |-> fdPeer'[d]] /\ \A d \in fdOpen : fdPeer'[d] \notin {"away", "calls"}
  BY <1>2 DEF FdInv, FdType, FdBooks
<1> QED BY <1>1, <1>3 DEF FdInv, FdType, FdBooks, Fd!Thread

(* Every step of an FdServer keeps FdInv.                                  *)
LEMMA FdNextKeepsInv == FdInv /\ Fd!Next => FdInv'
BY FdControls, FdServes, FdOpens, FdWorkerStops, FdPeers DEF Fd!Next, Fd!WorkerStep

(* A step of another server.                                               *)
LEMMA FdStutter == FdInv /\ UNCHANGED fdVars => FdInv'
BY DEF FdInv, FdType, FdBooks, Fd!Thread, fdVars

(* What FdServer promises follows.                                         *)
LEMMA FdAccounted == FdInv => Fd!ClientsAccounted
<1> SUFFICES ASSUME FdInv PROVE fdList \subseteq fdOpen /\ fdOpen \ fdList \subseteq {fdCur}
                                /\ (fdPc["worker"] \in {"none", "done"} => fdOpen = {})
  BY DEF Fd!ClientsAccounted
<1> QED BY DEF FdInv, FdBooks, FdAccepting, FdIdle, FdStop

-----------------------------------------------------------------------------
(* TcpServer.                                                              *)

(* Where a thread is in the subroutines, and the worker in a callback.     *)
TsStop == {"stop", "stop1", "stop2", "stop3", "stop4", "stop5", "stop6"}
TsWait == {"wait", "wait1", "wait2", "wait3"}
TsCalls == {"raise", "raised", "called", "lower", "lowered", "returned", "del", "del1"}
TsIdle == {"none", "born", "born1", "born2", "done"}
TsStarting == {"newep", "unstop", "unstop1", "create", "create1", "pthread"}
TsInCallback == {<<"wait", "lower">>, <<"wait", "del">>}

(* The worker is in a callback, or in a TcpServer_stop that the callback   *)
(* called.                                                                 *)
TsCalling(p, back) == p \in TsCalls \/ (p \in TsStop \cup TsWait /\ back \in TsInCallback)

(* It accepts a client, serves one that is listed, is in its loop, or has  *)
(* no client on the list any more.                                         *)
TsAccepting(p, back, name) == TsCalling(p, back) /\ name = "connected"
TsAttending(p, back, name) == p \in {"data", "remove"} \/ (TsCalling(p, back) /\ name \in {"ready", "in"})
TsServing(p, back, name) ==
  p \in {"loop", "epoll", "batch"} \/ TsAccepting(p, back, name) \/ TsAttending(p, back, name)
TsEmpty(p, back, name) ==
  \/ p \in TsIdle \cup {"ended", "quit", "quit1", "quit2", "gone", "gone1", "gone2", "epdel"}
  \/ TsCalling(p, back) /\ name = "returning"
  \/ p \in TsStop /\ back = <<"quit", "quit">>

(* Types, and the worker is in one of these phases or closes its clients.  *)
TsType ==
  /\ tcpPc = [t \in Tcp!Thread |-> tcpPc[t]] /\ tcpRet = [t \in Tcp!Thread |-> tcpRet[t]]
  /\ tcpPeer = [c \in TcpPeer |-> tcpPeer[c]]
  /\ tcpRet["ctl"] \in {<<"idle", "idle">>, <<"bind", "bind">>, <<"wait", "idle">>, <<"wait", "delete">>}
  /\ \/ tcpPc["worker"] = "clear"
     \/ TsServing(tcpPc["worker"], tcpRet["worker"], tcpCb.name)
     \/ TsEmpty(tcpPc["worker"], tcpRet["worker"], tcpCb.name)
  /\ tcpOpen \subseteq TcpPeer /\ tcpEpoll \subseteq {"srv"} \cup TcpPeer /\ tcpBatch \subseteq {"srv"} \cup TcpPeer
  /\ tcpCb = [name |-> tcpCb.name, rval |-> tcpCb.rval]

(* Every open client is on the list, lost or a callback's, and not two of  *)
(* these, apart from the one that is accepted; epoll and its events know   *)
(* only listed clients, so that a descriptor is never closed under another *)
(* owner's feet; and a connection that is open is not accepted again.      *)
TsBooks ==
  LET p == tcpPc["worker"]
      back == tcpRet["worker"]
      name == tcpCb.name
  IN /\ tcpList \cup tcpLost \cup tcpTheirs \subseteq tcpOpen
     /\ tcpList \cap (tcpLost \cup tcpTheirs) = {}
     /\ tcpOpen \ (tcpList \cup tcpLost \cup tcpTheirs) = IF TsAccepting(p, back, name) THEN {tcpCur} ELSE {}
     /\ TsAttending(p, back, name) => tcpCur \in tcpList \ tcpBatch
     /\ TsServing(p, back, name) => tcpEpoll \cap TcpPeer \subseteq tcpList /\ tcpBatch \cap TcpPeer \subseteq tcpList
     /\ TsEmpty(p, back, name) => tcpList = {}
     /\ p \in TsIdle => tcpEpoll \cap TcpPeer = {} /\ tcpBatch = {}
     /\ tcpPc["ctl"] \in TsStarting => p \in {"none", "done"}
     /\ \A c \in tcpOpen : tcpPeer[c] \notin {"away", "calls"}

(* The invariant of TcpServer.                                             *)
TsInv == TsType /\ TsBooks

(* A new server has no thread and no client.                               *)
LEMMA TsInit == Tcp!Init => TsInv
<1> SUFFICES ASSUME Tcp!Init PROVE TsInv
  OBVIOUS
<1>1. tcpPc = [t \in Tcp!Thread |-> tcpPc[t]] /\ tcpPc["ctl"] = "idle" /\ tcpPc["worker"] = "none"
  BY DEF Tcp!Init, Tcp!Thread
<1>2. TsType
  BY <1>1 DEF Tcp!Init, Tcp!Thread, Tcp!NoCallback, TsType, TsEmpty, TsIdle
<1>3. TsBooks
  BY <1>1 DEF Tcp!Init, TsBooks, TsAccepting, TsAttending, TsServing, TsCalling, TsCalls, TsStop, TsWait, TsStarting
<1> QED BY <1>2, <1>3 DEF TsInv

(* A step of thread t alone: where it goes, and what it returns to.        *)
TsGoes(t, to, back) ==
  /\ tcpPc' = [u \in Tcp!Thread |-> tcpPc'[u]] /\ tcpRet' = [u \in Tcp!Thread |-> tcpRet'[u]]
  /\ tcpPc'[t] = to /\ tcpRet'[t] = back
  /\ \A u \in Tcp!Thread : u # t => tcpPc'[u] = tcpPc[u] /\ tcpRet'[u] = tcpRet[u]

(* Moving on and calling are such steps.                                   *)
LEMMA TsSteps ==
  ASSUME TsInv, NEW t \in Tcp!Thread, NEW to
  PROVE  /\ Tcp!Goto(t, to) /\ UNCHANGED tcpRet => TsGoes(t, to, tcpRet[t])
         /\ \A after : Tcp!CallStop(t, after) => TsGoes(t, "stop", <<"wait", after>>)
         /\ \A after : Tcp!CallStopAsync(t, after) => TsGoes(t, "stop", <<after, after>>)
BY DEF TsInv, TsType, TsGoes, Tcp!Goto, Tcp!CallStop, Tcp!CallStopAsync

(* What the phases are outside of callbacks and subroutines, and in them.  *)
LEMMA TsPlaces ==
  ASSUME NEW p, NEW back, NEW name
  PROVE  /\ p \notin TsCalls \cup TsStop \cup TsWait =>
              /\ ~TsAccepting(p, back, name)
              /\ TsAttending(p, back, name) <=> p \in {"data", "remove"}
              /\ TsServing(p, back, name) <=> p \in {"loop", "epoll", "batch", "data", "remove"}
              /\ TsEmpty(p, back, name) <=>
                   p \in TsIdle \cup {"ended", "quit", "quit1", "quit2", "gone", "gone1", "gone2", "epdel"}
         /\ p \in TsCalls =>
              /\ TsAccepting(p, back, name) <=> name = "connected"
              /\ TsAttending(p, back, name) <=> name \in {"ready", "in"}
              /\ TsServing(p, back, name) <=> name \in {"connected", "ready", "in"}
              /\ TsEmpty(p, back, name) <=> name = "returning"
<1>1. CASE p \notin TsCalls \cup TsStop \cup TsWait
  BY <1>1 DEF TsAccepting, TsAttending, TsServing, TsEmpty, TsCalling, TsCalls, TsStop, TsWait, TsIdle
<1>2. CASE p \in TsCalls
  BY <1>2 DEF TsAccepting, TsAttending, TsServing, TsEmpty, TsCalling, TsCalls, TsStop, TsIdle
<1> QED BY <1>1, <1>2

(* A step of the worker that keeps the books.                              *)
LEMMA TsWorkerMoves ==
  ASSUME TsInv, NEW to, NEW back, TsGoes("worker", to, back), tcpPc["worker"] \notin {"none", "done"},
         tcpPeer' = [c \in TcpPeer |-> tcpPeer'[c]], tcpCb' = [name |-> tcpCb'.name, rval |-> tcpCb'.rval],
         tcpOpen' \subseteq TcpPeer, tcpEpoll' \subseteq {"srv"} \cup TcpPeer, tcpBatch' \subseteq {"srv"} \cup TcpPeer,
         to = "clear" \/ TsServing(to, back, tcpCb'.name) \/ TsEmpty(to, back, tcpCb'.name),
         tcpList' \cup tcpLost' \cup tcpTheirs' \subseteq tcpOpen',
         tcpList' \cap (tcpLost' \cup tcpTheirs') = {},
         tcpOpen' \ (tcpList' \cup tcpLost' \cup tcpTheirs')
           = IF TsAccepting(to, back, tcpCb'.name) THEN {tcpCur'} ELSE {},
         TsAttending(to, back, tcpCb'.name) => tcpCur' \in tcpList' \ tcpBatch',
         TsServing(to, back, tcpCb'.name) =>
           tcpEpoll' \cap TcpPeer \subseteq tcpList' /\ tcpBatch' \cap TcpPeer \subseteq tcpList',
         TsEmpty(to, back, tcpCb'.name) => tcpList' = {},
         to \in TsIdle => tcpEpoll' \cap TcpPeer = {} /\ tcpBatch' = {},
         \A c \in tcpOpen' : tcpPeer'[c] \notin {"away", "calls"}
  PROVE  TsInv'
<1>1. /\ tcpPc'["worker"] = to /\ tcpRet'["worker"] = back
      /\ tcpPc'["ctl"] = tcpPc["ctl"] /\ tcpRet'["ctl"] = tcpRet["ctl"]
  BY DEF TsGoes, Tcp!Thread
<1>2. TsType'
  BY <1>1 DEF TsInv, TsType, TsGoes, Tcp!Thread
<1>3. TsBooks'
  BY <1>1 DEF TsInv, TsBooks
<1> QED BY <1>2, <1>3 DEF TsInv

(* In particular one that stays in its phase and touches no client.        *)
LEMMA TsWorkerStays ==
  ASSUME TsInv, NEW to, NEW back, TsGoes("worker", to, back), tcpPc["worker"] \notin {"none", "done"},
         UNCHANGED <<tcpPeer, tcpList, tcpOpen, tcpLost, tcpTheirs, tcpBatch, tcpCur>>,
         tcpCb' = [name |-> tcpCb'.name, rval |-> tcpCb'.rval], tcpCb'.name = tcpCb.name,
         tcpEpoll' = tcpEpoll \/ tcpEpoll' = tcpEpoll \ {"srv"},
         to = "clear" \/ TsServing(to, back, tcpCb.name) \/ TsEmpty(to, back, tcpCb.name),
         TsAccepting(to, back, tcpCb.name) <=> TsAccepting(tcpPc["worker"], tcpRet["worker"], tcpCb.name),
         TsAttending(to, back, tcpCb.name) => TsAttending(tcpPc["worker"], tcpRet["worker"], tcpCb.name),
         TsServing(to, back, tcpCb.name) => TsServing(tcpPc["worker"], tcpRet["worker"], tcpCb.name),
         TsEmpty(to, back, tcpCb.name) => TsEmpty(tcpPc["worker"], tcpRet["worker"], tcpCb.name) \/ tcpList = {},
         to \in TsIdle => tcpPc["worker"] \in TsIdle
  PROVE  TsInv'
<1>1. TsType /\ TsBooks
  BY DEF TsInv
<1>2. /\ tcpOpen' \subseteq TcpPeer /\ tcpEpoll' \subseteq {"srv"} \cup TcpPeer /\ tcpBatch' \subseteq {"srv"} \cup TcpPeer
      /\ tcpPeer' = [c \in TcpPeer |-> tcpPeer'[c]]
  BY <1>1 DEF TsType
<1>3. /\ tcpList' \cup tcpLost' \cup tcpTheirs' \subseteq tcpOpen'
      /\ tcpList' \cap (tcpLost' \cup tcpTheirs') = {}
      /\ tcpOpen' \ (tcpList' \cup tcpLost' \cup tcpTheirs')
           = IF TsAccepting(to, back, tcpCb'.name) THEN {tcpCur'} ELSE {}
      /\ TsAttending(to, back, tcpCb'.name) => tcpCur' \in tcpList' \ tcpBatch'
  BY <1>1 DEF TsBooks
<1>4. /\ TsServing(to, back, tcpCb'.name) =>
           tcpEpoll' \cap TcpPeer \subseteq tcpList' /\ tcpBatch' \cap TcpPeer \subseteq tcpList'
      /\ TsEmpty(to, back, tcpCb'.name) => tcpList' = {}
      /\ to \in TsIdle => tcpEpoll' \cap TcpPeer = {} /\ tcpBatch' = {}
      /\ \A c \in tcpOpen' : tcpPeer'[c] \notin {"away", "calls"}
  BY <1>1 DEF TsBooks
<1> QED BY <1>2, <1>3, <1>4, TsWorkerMoves

(* A step of ctl: it starts a thread only when there is none.              *)
LEMMA TsControlMoves ==
  ASSUME TsInv, NEW to, NEW back, TsGoes("ctl", to, back),
         back \in {<<"idle", "idle">>, <<"bind", "bind">>, <<"wait", "idle">>, <<"wait", "delete">>},
         UNCHANGED <<tcpPeer, tcpList, tcpOpen, tcpLost, tcpTheirs, tcpBatch, tcpCur, tcpCb>>,
         \/ tcpEpoll' = tcpEpoll
         \/ tcpEpoll' = tcpEpoll \ {"srv"}
         \/ tcpPc["worker"] \in {"none", "done"} /\ tcpEpoll' \subseteq {"srv"},
         to \in TsStarting => tcpPc["worker"] \in {"none", "done"}
  PROVE  TsInv'
<1>1. /\ tcpPc'["ctl"] = to /\ tcpRet'["ctl"] = back
      /\ tcpPc'["worker"] = tcpPc["worker"] /\ tcpRet'["worker"] = tcpRet["worker"]
  BY DEF TsGoes, Tcp!Thread
<1>2. TsType'
  BY <1>1 DEF TsInv, TsType, TsGoes, Tcp!Thread
<1>3. CASE tcpEpoll' \subseteq tcpEpoll
  <2>1. TsBooks'
    BY <1>1, <1>3 DEF TsInv, TsBooks
  <2> QED BY <1>2, <2>1 DEF TsInv
<1>4. CASE tcpPc["worker"] \in {"none", "done"} /\ tcpEpoll' \subseteq {"srv"}
  <2>1. TsBooks'
    BY <1>1, <1>4, NamesAssumption DEF TsInv, TsBooks
  <2> QED BY <1>2, <2>1 DEF TsInv
<1> QED BY <1>3, <1>4

(* What the worker returns to from a subroutine.                           *)
LEMMA TsWorkerReturns ==
  ASSUME TsInv, tcpPc["worker"] \in TsStop \cup TsWait
  PROVE  \/ tcpRet["worker"] = <<"wait", "lower">>
         \/ tcpRet["worker"] = <<"wait", "del">>
         \/ tcpRet["worker"] = <<"quit", "quit">> /\ tcpPc["worker"] \in TsStop
BY DEF TsInv, TsType, TsServing, TsAccepting, TsAttending, TsEmpty, TsCalling, TsCalls, TsInCallback, TsStop, TsWait, TsIdle

(* The worker in TcpServer_stop and in its wait for the thread: in the     *)
(* callback that called it, or at its own end.                             *)
LEMMA TsWorkerStops ==
  TsInv /\ (Tcp!TcpServer_stop_async("worker") \/ Tcp!TcpServer_wait_for_thread_return("worker")) => TsInv'
<1> SUFFICES ASSUME TsInv,
                    \/ Tcp!TcpServer_stop_async("worker")
                    \/ Tcp!TcpServer_wait_for_thread_return("worker")
             PROVE  TsInv'
  OBVIOUS
<1> DEFINE back == tcpRet["worker"]
<1>0. "worker" \in Tcp!Thread
  BY DEF Tcp!Thread
<1>1. /\ UNCHANGED <<tcpRet, tcpBatch, tcpCur, tcpCb, tcpList, tcpOpen, tcpLost, tcpTheirs, tcpPeer>>
      /\ tcpEpoll' = tcpEpoll \/ tcpEpoll' = tcpEpoll \ {"srv"}
  BY DEF Tcp!TcpServer_stop_async, Tcp!TcpServer_wait_for_thread_return, Tcp!CloseSock, Tcp!Load, Tcp!Store,
         Tcp!Broadcast, Tcp!Branch, Tcp!Rest, Tcp!mem
<1>2. PICK to : /\ Tcp!Goto("worker", to)
                /\ \/ tcpPc["worker"] \in TsStop /\ to \in TsStop \cup {back[1]}
                   \/ tcpPc["worker"] \in TsWait /\ to \in TsWait \cup {back[2]}
  BY DEF Tcp!TcpServer_stop_async, Tcp!TcpServer_wait_for_thread_return, Tcp!CloseSock, Tcp!Load, Tcp!Store,
         Tcp!Broadcast, Tcp!Branch, TsStop, TsWait
<1>3. TsGoes("worker", to, back)
  BY <1>0, <1>1, <1>2, TsSteps
<1>4. /\ tcpCb' = [name |-> tcpCb'.name, rval |-> tcpCb'.rval] /\ tcpCb'.name = tcpCb.name
      /\ tcpPc["worker"] \notin {"none", "done"}
  BY <1>1, <1>2 DEF TsInv, TsType, TsStop, TsWait
<1>5. CASE back \in {<<"wait", "lower">>, <<"wait", "del">>}
  <2>1. to \in TsStop \cup TsWait \cup {"lower", "del"}
    BY <1>2, <1>5 DEF TsWait
  <2>2. TsCalling(to, back) /\ TsCalling(tcpPc["worker"], back)
    BY <1>2, <1>5, <2>1 DEF TsCalling, TsCalls, TsInCallback
  <2>3. to \notin TsIdle \cup {"clear", "data", "remove", "loop", "epoll", "batch"}
        /\ tcpPc["worker"] \notin TsIdle \cup {"clear", "data", "remove", "loop", "epoll", "batch"}
    BY <1>2, <2>1 DEF TsIdle, TsStop, TsWait
  <2>4. tcpCb.name \in {"connected", "ready", "in", "returning"}
    BY <1>2, <1>5, <2>3
       DEF TsInv, TsType, TsServing, TsAccepting, TsAttending, TsEmpty, TsStop, TsWait, TsIdle
  <2>5. /\ TsAccepting(to, back, tcpCb.name) <=> TsAccepting(tcpPc["worker"], back, tcpCb.name)
        /\ TsAttending(to, back, tcpCb.name) <=> TsAttending(tcpPc["worker"], back, tcpCb.name)
    BY <2>2, <2>3 DEF TsAccepting, TsAttending
  <2>6. TsServing(to, back, tcpCb.name) <=> TsServing(tcpPc["worker"], back, tcpCb.name)
    BY <2>3, <2>5 DEF TsServing
  <2>7. TsEmpty(to, back, tcpCb.name) <=> tcpCb.name = "returning"
    BY <1>5, <2>1, <2>2, <2>3 DEF TsEmpty, TsStop, TsWait
  <2>8. TsEmpty(tcpPc["worker"], back, tcpCb.name) <=> tcpCb.name = "returning"
    BY <1>2, <1>5, <2>2, <2>3 DEF TsEmpty, TsStop, TsWait
  <2>9. TsServing(to, back, tcpCb.name) \/ TsEmpty(to, back, tcpCb.name)
    BY <2>2, <2>4 DEF TsServing, TsAccepting, TsAttending, TsEmpty
  <2> HIDE DEF back
  <2> QED BY <1>1, <1>3, <1>4, <2>3, <2>5, <2>6, <2>7, <2>8, <2>9, TsWorkerStays DEF back
<1>6. CASE back = <<"quit", "quit">> /\ tcpPc["worker"] \in TsStop
  <2>1. to \in TsStop \cup {"quit"}
    BY <1>2, <1>6 DEF TsWait, TsStop
  <2>2. ~TsCalling(to, back) /\ ~TsCalling(tcpPc["worker"], back)
    BY <1>6, <2>1 DEF TsCalling, TsCalls, TsInCallback, TsStop, TsWait
  <2>3. TsEmpty(to, back, tcpCb.name) /\ TsEmpty(tcpPc["worker"], back, tcpCb.name)
    BY <1>6, <2>1 DEF TsEmpty
  <2>4. to \notin TsIdle /\ ~TsServing(to, back, tcpCb.name)
        /\ ~TsAccepting(tcpPc["worker"], back, tcpCb.name)
        /\ ~TsAccepting(to, back, tcpCb.name) /\ ~TsAttending(to, back, tcpCb.name)
    BY <2>1, <2>2 DEF TsIdle, TsServing, TsAccepting, TsAttending, TsStop
  <2> HIDE DEF back
  <2> QED BY <1>1, <1>3, <1>4, <2>3, <2>4, TsWorkerStays DEF back
<1> QED BY <1>2, <1>5, <1>6, TsWorkerReturns

(* A callback: the flag, the user's code, and its calls of TcpServer_stop  *)
(* and delTcpServer.                                                       *)
LEMMA TsCallbacks == TsInv /\ (Tcp!RunCallback \/ Tcp!DeleteInCallback) => TsInv'
<1> SUFFICES ASSUME TsInv, Tcp!RunCallback \/ Tcp!DeleteInCallback PROVE TsInv'
  OBVIOUS
<1>0. "worker" \in Tcp!Thread
  BY DEF Tcp!Thread
<1>1. /\ UNCHANGED <<tcpBatch, tcpCur, tcpList, tcpOpen, tcpLost, tcpTheirs, tcpPeer, tcpEpoll>>
      /\ tcpCb' = tcpCb \/ \E r \in Tcp!Rval : tcpCb' = [tcpCb EXCEPT !.rval = r]
  BY DEF Tcp!RunCallback, Tcp!DeleteInCallback, Tcp!Load, Tcp!Store, Tcp!Rest, Tcp!mem
<1>2. tcpCb' = [name |-> tcpCb'.name, rval |-> tcpCb'.rval] /\ tcpCb'.name = tcpCb.name
  BY <1>1 DEF TsInv, TsType
<1>3. tcpPc["worker"] \in TsCalls /\ tcpPc["worker"] \notin {"none", "done"}
  BY DEF Tcp!RunCallback, Tcp!DeleteInCallback, Tcp!Load, Tcp!Store, TsCalls
<1>4. PICK to, back : /\ TsGoes("worker", to, back)
                      /\ \/ to \in TsCalls
                         \/ to = "stop" /\ back \in TsInCallback
  <2>1. \/ \E to \in TsCalls : Tcp!Goto("worker", to) /\ UNCHANGED tcpRet
        \/ \E after \in {"lower", "del"} : Tcp!CallStop("worker", after)
    BY DEF Tcp!RunCallback, Tcp!DeleteInCallback, Tcp!Load, Tcp!Store, TsCalls
  <2>2. ASSUME NEW to \in TsCalls, Tcp!Goto("worker", to), UNCHANGED tcpRet
        PROVE  TsGoes("worker", to, tcpRet["worker"])
    BY <1>0, <2>2, TsSteps
  <2>3. ASSUME NEW after \in {"lower", "del"}, Tcp!CallStop("worker", after)
        PROVE  TsGoes("worker", "stop", <<"wait", after>>) /\ <<"wait", after>> \in TsInCallback
    BY <1>0, <2>3, TsSteps DEF TsInCallback
  <2> QED BY <2>1, <2>2, <2>3
<1>5. TsCalling(to, back) /\ TsCalling(tcpPc["worker"], tcpRet["worker"])
  BY <1>3, <1>4 DEF TsCalling, TsStop
<1>6. to \notin TsIdle \cup {"clear", "data", "remove", "loop", "epoll", "batch"}
      /\ tcpPc["worker"] \notin TsIdle \cup {"clear", "data", "remove", "loop", "epoll", "batch"}
  BY <1>3, <1>4 DEF TsIdle, TsCalls
<1>7. tcpCb.name \in {"connected", "ready", "in", "returning"}
  BY <1>3, <1>6 DEF TsInv, TsType, TsServing, TsAccepting, TsAttending, TsEmpty, TsCalls, TsStop, TsIdle
<1>8. /\ TsAccepting(to, back, tcpCb.name) <=> TsAccepting(tcpPc["worker"], tcpRet["worker"], tcpCb.name)
      /\ TsAttending(to, back, tcpCb.name) <=> TsAttending(tcpPc["worker"], tcpRet["worker"], tcpCb.name)
  BY <1>5, <1>6 DEF TsAccepting, TsAttending
<1>9. TsServing(to, back, tcpCb.name) <=> TsServing(tcpPc["worker"], tcpRet["worker"], tcpCb.name)
  BY <1>6, <1>8 DEF TsServing
<1>10. TsEmpty(to, back, tcpCb.name) => tcpCb.name = "returning"
  BY <1>4, <1>5, <1>6 DEF TsEmpty, TsStop, TsInCallback, TsCalls
<1>11. tcpCb.name = "returning" => TsEmpty(tcpPc["worker"], tcpRet["worker"], tcpCb.name) /\ TsEmpty(to, back, tcpCb.name)
  BY <1>5 DEF TsEmpty
<1>12. TsServing(to, back, tcpCb.name) \/ TsEmpty(to, back, tcpCb.name)
  BY <1>5, <1>7, <1>11 DEF TsServing, TsAccepting, TsAttending
<1> QED BY <1>1, <1>2, <1>3, <1>4, <1>6, <1>8, <1>9, <1>10, <1>11, <1>12, TsWorkerStays

(* Steps of the worker outside of callbacks that leave every client as it  *)
(* is: the frame of its thread, the head of its loop, and its end.         *)
LEMMA TsFrame ==
  /\ TsInv
  /\ Tcp!ThreadBegins \/ Tcp!LoopHead \/ Tcp!EpollWait \/ Tcp!BatchDone \/ Tcp!ThreadEnds \/ Tcp!FreeItself
     \/ Tcp!delEpollPack
  => TsInv'
<1> SUFFICES ASSUME TsInv,
                    Tcp!ThreadBegins \/ Tcp!LoopHead \/ Tcp!EpollWait \/ Tcp!BatchDone \/ Tcp!ThreadEnds
                    \/ Tcp!FreeItself \/ Tcp!delEpollPack
             PROVE  TsInv'
  OBVIOUS
<1> USE DEF TsInv
<1>0. "worker" \in Tcp!Thread
  BY DEF Tcp!Thread
<1>1. UNCHANGED <<tcpList, tcpOpen, tcpLost, tcpTheirs, tcpPeer>>
  BY DEF Tcp!ThreadBegins, Tcp!LoopHead, Tcp!EpollWait, Tcp!BatchDone, Tcp!ThreadEnds, Tcp!FreeItself,
         Tcp!delEpollPack, Tcp!Load, Tcp!Store, Tcp!Broadcast, Tcp!Branch, Tcp!Rest, Tcp!mem
<1>2. tcpCb' = [name |-> tcpCb'.name, rval |-> tcpCb'.rval]
  <2>1. \/ tcpCb' = tcpCb
        \/ tcpCb' = [name |-> "none", rval |-> "none"]
        \/ tcpCb' = [name |-> "returning", rval |-> "none"]
    BY DEF Tcp!ThreadBegins, Tcp!LoopHead, Tcp!EpollWait, Tcp!BatchDone, Tcp!ThreadEnds, Tcp!FreeItself,
           Tcp!delEpollPack, Tcp!Load, Tcp!Store, Tcp!Broadcast, Tcp!Branch, Tcp!Rest, Tcp!Forget, Tcp!NoCallback,
           Tcp!Callback
  <2> QED BY <2>1 DEF TsType
<1>3. /\ tcpList \cup tcpLost \cup tcpTheirs \subseteq tcpOpen
      /\ tcpList \cap (tcpLost \cup tcpTheirs) = {}
      /\ \A c \in tcpOpen : tcpPeer[c] \notin {"away", "calls"}
      /\ tcpOpen \subseteq TcpPeer /\ tcpPeer = [c \in TcpPeer |-> tcpPeer[c]]
      /\ tcpEpoll \subseteq {"srv"} \cup TcpPeer /\ tcpBatch \subseteq {"srv"} \cup TcpPeer
  BY DEF TsBooks, TsType
(* From one place of a phase without a callback to the next.               *)
<1>4. ASSUME NEW at, NEW to, tcpPc["worker"] = at, Tcp!Goto("worker", to),
             UNCHANGED <<tcpRet, tcpEpoll>>,
             \/ UNCHANGED tcpBatch
             \/ at = "epoll" /\ tcpBatch' \subseteq tcpEpoll,
             \/ at \in {"born", "born1"} /\ to \in {"born1", "born2"}
             \/ at = "born2" /\ to = "loop"
             \/ at \in {"loop", "epoll", "batch"} /\ to \in {"loop", "epoll", "batch", "clear"}
             \/ /\ at \in {"ended", "quit", "quit1", "quit2", "gone", "gone1", "gone2"}
                /\ to \in {"quit1", "quit2", "gone", "gone1", "gone2", "epdel"}
      PROVE  TsInv'
  <2> DEFINE back == tcpRet["worker"]
             loops == {"loop", "epoll", "batch"}
  <2>1. TsGoes("worker", to, back)
    BY <1>0, <1>4, TsSteps
  <2>2. at \notin TsCalls \cup TsStop \cup TsWait /\ to \notin TsCalls \cup TsStop \cup TsWait
    BY <1>4 DEF TsCalls, TsStop, TsWait
  <2>3. \A name : /\ ~TsAccepting(at, back, name) /\ ~TsAccepting(to, back, name) /\ ~TsAttending(to, back, name)
                  /\ TsServing(at, back, name) <=> at \in loops
                  /\ TsServing(to, back, name) <=> to \in loops
                  /\ TsEmpty(at, back, name) <=> at \notin loops
                  /\ TsEmpty(to, back, name) <=> to \notin loops \cup {"clear"}
    BY <1>4, <2>2, TsPlaces DEF TsIdle
  <2>4. /\ at \in {"born", "born1", "born2"} => tcpEpoll \cap TcpPeer = {} /\ tcpBatch = {}
        /\ tcpOpen \ (tcpList \cup tcpLost \cup tcpTheirs) = {}
        /\ at \in loops => tcpEpoll \cap TcpPeer \subseteq tcpList /\ tcpBatch \cap TcpPeer \subseteq tcpList
        /\ at \notin loops => tcpList = {}
    BY <1>4, <2>3 DEF TsBooks, TsIdle
  <2>5. /\ to \in TsIdle => at \in {"born", "born1"}
        /\ at \notin loops => tcpBatch' = tcpBatch
        /\ to \in loops => at \in loops \cup {"born2"}
        /\ to \notin loops \cup {"clear"} => at \notin loops
        /\ at \notin {"none", "done"}
    BY <1>4 DEF TsIdle
  <2>6. tcpBatch' \subseteq {"srv"} \cup TcpPeer /\ (tcpBatch' = tcpBatch \/ tcpBatch' \subseteq tcpEpoll)
    BY <1>3, <1>4
  <2>7. to \in loops => tcpEpoll' \cap TcpPeer \subseteq tcpList /\ tcpBatch' \cap TcpPeer \subseteq tcpList
    BY <1>4, <2>4, <2>5, <2>6
  <2>8. /\ to \in TsIdle => tcpEpoll' \cap TcpPeer = {} /\ tcpBatch' = {}
        /\ to \notin loops \cup {"clear"} => tcpList = {}
    BY <1>4, <2>4, <2>5
  <2> HIDE DEF back, loops
  <2>9. to = "clear" \/ TsServing(to, back, tcpCb'.name) \/ TsEmpty(to, back, tcpCb'.name)
    BY <2>3 DEF loops
  <2> QED BY <1>1, <1>2, <1>3, <1>4, <2>1, <2>3, <2>4, <2>5, <2>6, <2>7, <2>8, <2>9, TsWorkerMoves
<1>5. CASE Tcp!ThreadBegins \/ Tcp!LoopHead \/ Tcp!FreeItself
  BY <1>4, <1>5 DEF Tcp!ThreadBegins, Tcp!LoopHead, Tcp!FreeItself, Tcp!Load, Tcp!Store, Tcp!Broadcast, Tcp!Branch,
     Tcp!Rest, Tcp!Then
<1>6. CASE Tcp!EpollWait \/ Tcp!BatchDone
  <2>1. Tcp!Events \subseteq tcpEpoll
    BY DEF Tcp!Events
  <2> QED BY <1>4, <1>6, <2>1 DEF Tcp!EpollWait, Tcp!BatchDone, Tcp!Branch, Tcp!Rest
<1>7. CASE Tcp!ThreadEnds
  <2> DEFINE at == tcpPc["worker"]
  <2>1. CASE UNCHANGED tcpRet /\ \E to \in {"gone", "quit1", "quit2", "epdel"} : Tcp!Goto("worker", to)
    <3>1. CASE at \in {"ended", "quit", "quit1", "quit2"} /\ UNCHANGED <<tcpEpoll, tcpBatch>>
      BY <1>4, <2>1, <3>1
    <3>2. CASE at = "returned" /\ UNCHANGED <<tcpEpoll, tcpBatch>> /\ tcpCb.name = "returning"
      <4>1. PICK to \in {"gone", "quit1", "quit2", "epdel"} : TsGoes("worker", to, tcpRet["worker"])
        BY <1>0, <2>1, TsSteps
      <4>2. tcpList = {} /\ tcpOpen \ (tcpList \cup tcpLost \cup tcpTheirs) = {}
        BY <3>2, TsPlaces DEF TsBooks, TsCalls
      <4>3. /\ \A name : /\ ~TsAccepting(to, tcpRet["worker"], name) /\ ~TsAttending(to, tcpRet["worker"], name)
                        /\ ~TsServing(to, tcpRet["worker"], name) /\ TsEmpty(to, tcpRet["worker"], name)
            /\ to \notin TsIdle
        BY TsPlaces DEF TsIdle, TsCalls, TsStop, TsWait
      <4> QED BY <1>1, <1>2, <1>3, <3>2, <4>1, <4>2, <4>3, TsWorkerMoves
    <3> QED BY <1>7, <3>1, <3>2 DEF Tcp!ThreadEnds, Tcp!Load, Tcp!Store, Tcp!Broadcast, Tcp!Rest
  <2>2. CASE at = "ended" /\ Tcp!Callback("returning") /\ UNCHANGED <<tcpRet, tcpEpoll, tcpBatch>>
    <3>1. TsGoes("worker", "raise", tcpRet["worker"]) /\ tcpCb'.name = "returning"
      BY <1>0, <2>2, TsSteps DEF Tcp!Callback, Tcp!Then
    <3>2. tcpList = {} /\ tcpOpen \ (tcpList \cup tcpLost \cup tcpTheirs) = {}
      BY <2>2, TsPlaces DEF TsBooks, TsCalls, TsStop, TsWait
    <3>3. /\ ~TsAccepting("raise", tcpRet["worker"], "returning") /\ ~TsAttending("raise", tcpRet["worker"], "returning")
          /\ ~TsServing("raise", tcpRet["worker"], "returning") /\ TsEmpty("raise", tcpRet["worker"], "returning")
          /\ "raise" \notin TsIdle
      BY TsPlaces DEF TsIdle, TsCalls
    <3> QED BY <1>1, <1>2, <1>3, <2>2, <3>1, <3>2, <3>3, TsWorkerMoves
  <2>3. CASE at = "returned" /\ tcpCb.name = "returning" /\ Tcp!CallStopAsync("worker", "quit")
             /\ UNCHANGED <<tcpEpoll, tcpBatch>>
    <3> DEFINE back == <<"quit", "quit">>
    <3>1. TsGoes("worker", "stop", back)
      BY <1>0, <2>3, TsSteps
    <3>2. tcpList = {} /\ tcpOpen \ (tcpList \cup tcpLost \cup tcpTheirs) = {}
      BY <2>3, TsPlaces DEF TsBooks, TsCalls
    <3>3. ~TsCalling("stop", back)
      BY DEF TsCalling, TsCalls, TsInCallback
    <3>4. /\ \A name : ~TsAccepting("stop", back, name) /\ ~TsAttending("stop", back, name)
                       /\ ~TsServing("stop", back, name) /\ TsEmpty("stop", back, name)
          /\ "stop" \notin TsIdle
      BY <3>3 DEF TsAccepting, TsAttending, TsServing, TsEmpty, TsIdle, TsStop
    <3> HIDE DEF back
    <3> QED BY <1>1, <1>2, <1>3, <2>3, <3>1, <3>2, <3>4, TsWorkerMoves
  <2> QED
    BY <1>7, <2>1, <2>2, <2>3 DEF Tcp!ThreadEnds, Tcp!Load, Tcp!Store, Tcp!Broadcast, Tcp!Rest, Tcp!Then
<1>8. CASE Tcp!delEpollPack
  <2>1. /\ tcpPc["worker"] = "epdel" /\ TsGoes("worker", "done", tcpRet["worker"])
        /\ tcpEpoll' = {} /\ tcpBatch' = {}
    BY <1>0, <1>8, TsSteps DEF Tcp!delEpollPack, Tcp!Then
  <2>2. tcpList = {} /\ tcpOpen \ (tcpList \cup tcpLost \cup tcpTheirs) = {}
    BY <2>1, TsPlaces DEF TsBooks, TsCalls, TsStop, TsWait
  <2>3. \A name : /\ ~TsAccepting("done", tcpRet["worker"], name) /\ ~TsAttending("done", tcpRet["worker"], name)
                  /\ ~TsServing("done", tcpRet["worker"], name) /\ TsEmpty("done", tcpRet["worker"], name)
    BY TsPlaces DEF TsIdle, TsCalls, TsStop, TsWait
  <2> QED BY <1>1, <1>2, <1>3, <2>1, <2>2, <2>3, TsWorkerMoves
<1> QED BY <1>5, <1>6, <1>7, <1>8

(* The facts of TsInv that the steps below need, where the worker is in    *)
(* its loop.                                                               *)
LEMMA TsFacts ==
  ASSUME TsInv
  PROVE  /\ tcpList \cup tcpLost \cup tcpTheirs \subseteq tcpOpen
         /\ tcpList \cap (tcpLost \cup tcpTheirs) = {}
         /\ \A c \in tcpOpen : tcpPeer[c] \notin {"away", "calls"}
         /\ tcpOpen \subseteq TcpPeer /\ tcpPeer = [c \in TcpPeer |-> tcpPeer[c]]
         /\ tcpEpoll \subseteq {"srv"} \cup TcpPeer /\ tcpBatch \subseteq {"srv"} \cup TcpPeer
         /\ tcpCb = [name |-> tcpCb.name, rval |-> tcpCb.rval]
         /\ tcpPc["worker"] \in {"batch", "data", "remove", "clear"} =>
              tcpOpen = tcpList \cup tcpLost \cup tcpTheirs
         /\ tcpPc["worker"] \in {"batch", "data", "remove"} =>
              tcpEpoll \cap TcpPeer \subseteq tcpList /\ tcpBatch \cap TcpPeer \subseteq tcpList
         /\ tcpPc["worker"] \in {"data", "remove"} => tcpCur \in tcpList \ tcpBatch
         /\ tcpPc["worker"] = "returned" /\ tcpCb.name = "connected" =>
              /\ tcpCur \in tcpOpen \ (tcpList \cup tcpLost \cup tcpTheirs)
              /\ tcpOpen = tcpList \cup tcpLost \cup tcpTheirs \cup {tcpCur}
         /\ tcpPc["worker"] = "returned" /\ tcpCb.name \in {"ready", "in"} =>
              tcpOpen = tcpList \cup tcpLost \cup tcpTheirs /\ tcpCur \in tcpList \ tcpBatch
         /\ tcpPc["worker"] = "returned" /\ tcpCb.name \in {"connected", "ready", "in"} =>
              tcpEpoll \cap TcpPeer \subseteq tcpList /\ tcpBatch \cap TcpPeer \subseteq tcpList
<1> DEFINE p == tcpPc["worker"]
           back == tcpRet["worker"]
           name == tcpCb.name
<1>1. p \in {"batch", "data", "remove", "clear"} =>
        /\ ~TsAccepting(p, back, name)
        /\ TsServing(p, back, name) <=> p # "clear"
        /\ TsAttending(p, back, name) <=> p \in {"data", "remove"}
  BY TsPlaces DEF TsCalls, TsStop, TsWait
<1>2. p = "returned" =>
        /\ TsAccepting(p, back, name) <=> name = "connected"
        /\ TsAttending(p, back, name) <=> name \in {"ready", "in"}
        /\ TsServing(p, back, name) <=> name \in {"connected", "ready", "in"}
  BY TsPlaces DEF TsCalls
<1>3. TsBooks /\ TsType
  BY DEF TsInv
<1>4. /\ tcpOpen \subseteq TcpPeer /\ tcpPeer = [c \in TcpPeer |-> tcpPeer[c]]
      /\ tcpEpoll \subseteq {"srv"} \cup TcpPeer /\ tcpBatch \subseteq {"srv"} \cup TcpPeer
      /\ tcpCb = [name |-> tcpCb.name, rval |-> tcpCb.rval]
  BY <1>3 DEF TsType
<1>5. /\ tcpList \cup tcpLost \cup tcpTheirs \subseteq tcpOpen
      /\ tcpList \cap (tcpLost \cup tcpTheirs) = {}
      /\ tcpOpen \ (tcpList \cup tcpLost \cup tcpTheirs) = IF TsAccepting(p, back, name) THEN {tcpCur} ELSE {}
      /\ TsAttending(p, back, name) => tcpCur \in tcpList \ tcpBatch
      /\ TsServing(p, back, name) => tcpEpoll \cap TcpPeer \subseteq tcpList /\ tcpBatch \cap TcpPeer \subseteq tcpList
      /\ \A c \in tcpOpen : tcpPeer[c] \notin {"away", "calls"}
  BY <1>3 DEF TsBooks
<1> HIDE DEF p, back, name
<1>6. /\ p \in {"batch", "data", "remove", "clear"} => tcpOpen = tcpList \cup tcpLost \cup tcpTheirs
      /\ p \in {"batch", "data", "remove"} =>
           tcpEpoll \cap TcpPeer \subseteq tcpList /\ tcpBatch \cap TcpPeer \subseteq tcpList
      /\ p \in {"data", "remove"} => tcpCur \in tcpList \ tcpBatch
  BY <1>1, <1>5
<1>7. /\ p = "returned" /\ name = "connected" =>
           /\ tcpCur \in tcpOpen \ (tcpList \cup tcpLost \cup tcpTheirs)
           /\ tcpOpen = tcpList \cup tcpLost \cup tcpTheirs \cup {tcpCur}
      /\ p = "returned" /\ name \in {"ready", "in"} =>
           tcpOpen = tcpList \cup tcpLost \cup tcpTheirs /\ tcpCur \in tcpList \ tcpBatch
      /\ p = "returned" /\ name \in {"connected", "ready", "in"} =>
           tcpEpoll \cap TcpPeer \subseteq tcpList /\ tcpBatch \cap TcpPeer \subseteq tcpList
  BY <1>2, <1>5
<1> QED BY <1>4, <1>5, <1>6, <1>7 DEF p, name

(* A step that leaves the worker in its loop, with a client or with none,  *)
(* or on its way out of it.                                                *)
LEMMA TsTo ==
  ASSUME TsInv, NEW to \in {"batch", "clear", "data", "remove", "ended", "raise"},
         Tcp!Goto("worker", to), UNCHANGED tcpRet, tcpPc["worker"] \notin {"none", "done"},
         tcpPeer' = [c \in TcpPeer |-> tcpPeer'[c]], tcpCb' = [name |-> tcpCb'.name, rval |-> tcpCb'.rval],
         tcpOpen' \subseteq TcpPeer, tcpEpoll' \subseteq {"srv"} \cup TcpPeer, tcpBatch' \subseteq {"srv"} \cup TcpPeer,
         \A c \in tcpOpen' : tcpPeer'[c] \notin {"away", "calls"},
         tcpList' \cup tcpLost' \cup tcpTheirs' \subseteq tcpOpen',
         tcpList' \cap (tcpLost' \cup tcpTheirs') = {},
         tcpOpen' \ (tcpList' \cup tcpLost' \cup tcpTheirs')
           = IF to = "raise" /\ tcpCb'.name = "connected" THEN {tcpCur'} ELSE {},
         to \in {"data", "remove"} \/ (to = "raise" /\ tcpCb'.name \in {"ready", "in"}) =>
           tcpCur' \in tcpList' \ tcpBatch',
         to \in {"batch", "data", "remove", "raise"} =>
           tcpEpoll' \cap TcpPeer \subseteq tcpList' /\ tcpBatch' \cap TcpPeer \subseteq tcpList',
         to = "raise" => tcpCb'.name \in {"connected", "ready", "in"},
         to = "ended" => tcpList' = {}
  PROVE  TsInv'
<1> DEFINE back == tcpRet["worker"]
           name == tcpCb'.name
<1>1. TsGoes("worker", to, back)
  BY TsSteps DEF Tcp!Thread
<1>2. to # "raise" =>
        /\ ~TsAccepting(to, back, name)
        /\ TsAttending(to, back, name) <=> to \in {"data", "remove"}
        /\ TsServing(to, back, name) <=> to \in {"batch", "data", "remove"}
        /\ TsEmpty(to, back, name) <=> to = "ended"
  BY TsPlaces DEF TsCalls, TsStop, TsWait, TsIdle
<1>3. to = "raise" =>
        /\ TsAccepting(to, back, name) <=> name = "connected"
        /\ TsAttending(to, back, name) <=> name \in {"ready", "in"}
        /\ TsServing(to, back, name) /\ ~TsEmpty(to, back, name)
  BY TsPlaces DEF TsCalls
<1>4. to \notin TsIdle
  BY DEF TsIdle
<1> HIDE DEF back
<1> QED BY <1>1, <1>2, <1>3, <1>4, TsWorkerMoves

(* The events of a batch.                                                  *)
LEMMA TsEvents == TsInv /\ (Tcp!Accept \/ Tcp!Unknown \/ Tcp!Serve \/ Tcp!Data) => TsInv'
<1> SUFFICES ASSUME TsInv, Tcp!Accept \/ Tcp!Unknown \/ Tcp!Serve \/ Tcp!Data PROVE TsInv'
  OBVIOUS
<1>0. tcpPc["worker"] = "batch" /\ UNCHANGED tcpPc => Tcp!Goto("worker", "batch")
  BY DEF Tcp!Goto, Tcp!Thread, TsInv, TsType
<1>1. CASE Tcp!Accept
  <2>1. /\ tcpPc["worker"] = "batch" /\ tcpBatch' \subseteq tcpBatch
        /\ UNCHANGED <<tcpRet, tcpEpoll, tcpList, tcpLost, tcpTheirs>>
    BY <1>1 DEF Tcp!Accept
  <2>2. CASE UNCHANGED <<tcpPc, tcpCb, tcpCur, tcpOpen, tcpPeer>>
    BY <1>0, <2>1, <2>2, TsFacts, TsTo
  <2>3. ASSUME NEW c \in TcpPeer, tcpPeer[c] = "calls", tcpPeer' = [tcpPeer EXCEPT ![c] = "up"],
               \/ tcpCur' = c /\ tcpOpen' = tcpOpen \cup {c} /\ Tcp!Callback("connected")
               \/ Tcp!Then("clear") /\ UNCHANGED <<tcpCur, tcpOpen, tcpCb>>
        PROVE  TsInv'
    <3>1. c \notin tcpOpen
      BY <2>3, TsFacts
    <3>2. /\ tcpPeer' = [d \in TcpPeer |-> tcpPeer'[d]] /\ tcpPeer'[c] = "up"
          /\ \A d \in tcpOpen \cup {c} : tcpPeer'[d] \notin {"away", "calls"}
      BY <2>3, TsFacts
    <3>3. CASE tcpCur' = c /\ tcpOpen' = tcpOpen \cup {c} /\ Tcp!Callback("connected")
      <4>1. /\ tcpCb' = [name |-> tcpCb'.name, rval |-> tcpCb'.rval] /\ tcpCb'.name = "connected"
            /\ Tcp!Goto("worker", "raise")
        BY <3>3 DEF Tcp!Callback, Tcp!Then
      <4> QED BY <2>1, <3>1, <3>2, <3>3, <4>1, TsFacts, TsTo
    <3>4. CASE Tcp!Then("clear") /\ UNCHANGED <<tcpCur, tcpOpen, tcpCb>>
      BY <2>1, <3>2, <3>4, TsFacts, TsTo DEF Tcp!Then
    <3> QED BY <2>3, <3>3, <3>4
  <2> QED BY <1>1, <2>2, <2>3 DEF Tcp!Accept
<1>2. CASE Tcp!Unknown
  <2>1. PICK e \in tcpBatch :
          /\ IF e = "srv" THEN ~tcpSock ELSE e \notin tcpList
          /\ tcpBatch' = tcpBatch \ {e} /\ tcpOpen' = tcpOpen \ {e} /\ tcpEpoll' = tcpEpoll \ {e}
          /\ tcpTheirs' = tcpTheirs \ {e}
    BY <1>2 DEF Tcp!Unknown
  <2>2. tcpPc["worker"] = "batch" /\ UNCHANGED <<tcpPc, tcpRet, tcpCur, tcpCb, tcpList, tcpLost, tcpPeer>>
    BY <1>2 DEF Tcp!Unknown
  <2>3. e \notin TcpPeer
    BY <2>1, <2>2, TsFacts, NamesAssumption
  <2>4. tcpOpen' = tcpOpen /\ tcpTheirs' = tcpTheirs
    BY <2>1, <2>3, TsFacts
  <2> QED BY <1>0, <2>1, <2>2, <2>4, TsFacts, TsTo
<1>3. CASE Tcp!Serve
  <2>1. /\ tcpPc["worker"] = "batch"
        /\ UNCHANGED <<tcpRet, tcpEpoll, tcpList, tcpOpen, tcpLost, tcpTheirs, tcpPeer>>
    BY <1>3 DEF Tcp!Serve, Tcp!mem
  <2>2. /\ tcpCur' \in tcpList /\ tcpBatch' = tcpBatch \ {tcpCur'}
        /\ \/ Tcp!Callback("ready")
           \/ Tcp!Then("data") /\ UNCHANGED tcpCb
    BY <1>3 DEF Tcp!Serve
  <2>3. CASE Tcp!Callback("ready")
    <3>1. /\ tcpCb' = [name |-> tcpCb'.name, rval |-> tcpCb'.rval] /\ tcpCb'.name = "ready"
          /\ Tcp!Goto("worker", "raise")
      BY <2>3 DEF Tcp!Callback, Tcp!Then
    <3> QED BY <2>1, <2>2, <3>1, TsFacts, TsTo
  <2>4. CASE Tcp!Then("data") /\ UNCHANGED tcpCb
    BY <2>1, <2>2, <2>4, TsFacts, TsTo DEF Tcp!Then
  <2> QED BY <2>2, <2>3, <2>4
<1>4. CASE Tcp!Data
  <2>1. /\ tcpPc["worker"] = "data"
        /\ UNCHANGED <<tcpRet, tcpEpoll, tcpBatch, tcpCur, tcpList, tcpOpen, tcpLost, tcpTheirs>>
    BY <1>4 DEF Tcp!Data, Tcp!mem
  <2>2. /\ tcpPeer' = [c \in TcpPeer |-> tcpPeer'[c]]
        /\ \A c \in tcpOpen : tcpPeer'[c] \notin {"away", "calls"}
    BY <1>4, TsFacts DEF Tcp!Data
  <2>3. CASE Tcp!Callback("in")
    <3>1. /\ tcpCb' = [name |-> tcpCb'.name, rval |-> tcpCb'.rval] /\ tcpCb'.name = "in"
          /\ Tcp!Goto("worker", "raise")
      BY <2>3 DEF Tcp!Callback, Tcp!Then
    <3> QED BY <2>1, <2>2, <3>1, TsFacts, TsTo
  <2>4. CASE Tcp!Then("remove") /\ UNCHANGED tcpCb
    BY <2>1, <2>2, <2>4, TsFacts, TsTo DEF Tcp!Then
  <2> QED BY <1>4, <2>3, <2>4 DEF Tcp!Data
<1> QED BY <1>1, <1>2, <1>3, <1>4

(* What follows a callback, and the closing of clients.                    *)
LEMMA TsCloses == TsInv /\ (Tcp!Connected \/ Tcp!Served \/ Tcp!RemoveClient \/ Tcp!ClearClients) => TsInv'
<1> SUFFICES ASSUME TsInv, Tcp!Connected \/ Tcp!Served \/ Tcp!RemoveClient \/ Tcp!ClearClients PROVE TsInv'
  OBVIOUS
<1>0. ASSUME tcpCb' = Tcp!NoCallback
      PROVE  tcpCb' = [name |-> tcpCb'.name, rval |-> tcpCb'.rval] /\ tcpCb'.name = "none"
  BY <1>0 DEF Tcp!NoCallback
<1>1. CASE Tcp!Connected
  <2>1. /\ tcpPc["worker"] = "returned" /\ tcpCb.name = "connected" /\ tcpCb' = Tcp!NoCallback
        /\ UNCHANGED <<tcpRet, tcpBatch, tcpPeer>>
    BY <1>1 DEF Tcp!Connected, Tcp!Forget
  <2>2. PICK to \in {"batch", "clear"} :
          /\ Tcp!Goto("worker", to)
          /\ \/ /\ tcpLost' = tcpLost \cup {tcpCur} /\ UNCHANGED <<tcpOpen, tcpTheirs, tcpList>>
                /\ \/ tcpEpoll' = tcpEpoll
                   \/ to = "clear" /\ tcpEpoll' = tcpEpoll \cup {tcpCur}
             \/ tcpOpen' = tcpOpen \ {tcpCur} /\ UNCHANGED <<tcpLost, tcpTheirs, tcpEpoll, tcpList>>
             \/ tcpTheirs' = tcpTheirs \cup {tcpCur} /\ UNCHANGED <<tcpOpen, tcpLost, tcpEpoll, tcpList>>
             \/ /\ tcpEpoll' = tcpEpoll \cup {tcpCur} /\ tcpList' = tcpList \cup {tcpCur}
                /\ UNCHANGED <<tcpOpen, tcpLost, tcpTheirs>>
    BY <1>1 DEF Tcp!Connected, Tcp!Then, Tcp!EpollPack_add_sock
  <2>3. /\ tcpList' \cup tcpLost' \cup tcpTheirs' = tcpOpen' /\ tcpList' \cap (tcpLost' \cup tcpTheirs') = {}
        /\ tcpOpen' \subseteq tcpOpen
    BY <2>1, <2>2, TsFacts
  <2>4. /\ tcpEpoll' \subseteq {"srv"} \cup TcpPeer
        /\ tcpBatch' \cap TcpPeer \subseteq tcpList'
        /\ to = "batch" => tcpEpoll' \cap TcpPeer \subseteq tcpList'
    BY <2>1, <2>2, TsFacts
  <2> QED BY <1>0, <2>1, <2>2, <2>3, <2>4, TsFacts, TsTo
<1>2. CASE Tcp!Served
  <2>1. /\ tcpPc["worker"] = "returned" /\ tcpCb.name \in {"ready", "in"} /\ tcpCb' = Tcp!NoCallback
        /\ UNCHANGED <<tcpRet, tcpEpoll, tcpBatch, tcpCur, tcpList, tcpOpen, tcpLost, tcpTheirs, tcpPeer>>
    BY <1>2 DEF Tcp!Served, Tcp!mem
  <2>2. PICK to \in {"batch", "clear", "data", "remove"} : Tcp!Goto("worker", to)
    BY <1>2 DEF Tcp!Served, Tcp!Then
  <2> QED BY <1>0, <2>1, <2>2, TsFacts, TsTo
<1>3. ASSUME NEW c \in tcpList, NEW to, Tcp!Disconnect(c, to),
             \/ to = "batch" /\ tcpPc["worker"] = "remove" /\ c \notin tcpBatch
             \/ to = "clear" /\ tcpPc["worker"] = "clear"
      PROVE  TsInv'
  <2>1. /\ tcpList' = tcpList \ {c} /\ tcpOpen' = tcpOpen \ {c} /\ Tcp!Goto("worker", to)
        /\ tcpEpoll' \subseteq tcpEpoll \ {c} /\ tcpCb' = Tcp!NoCallback
        /\ UNCHANGED <<tcpRet, tcpBatch, tcpLost, tcpTheirs, tcpPeer>>
    BY <1>3 DEF Tcp!Disconnect, Tcp!Gone, Tcp!Then, Tcp!Forget
  <2>2. /\ tcpList' \cup tcpLost' \cup tcpTheirs' = tcpOpen' /\ tcpList' \cap (tcpLost' \cup tcpTheirs') = {}
        /\ tcpOpen' \subseteq tcpOpen
    BY <1>3, <2>1, TsFacts
  <2> QED BY <1>0, <1>3, <2>1, <2>2, TsFacts, TsTo
<1>4. CASE Tcp!RemoveClient
  BY <1>3, <1>4, TsFacts DEF Tcp!RemoveClient
<1>5. CASE Tcp!ClearClients
  <2>1. CASE tcpPc["worker"] = "clear" /\ tcpList = {} /\ Tcp!Branch("worker", "ended")
    BY <2>1, TsFacts, TsTo DEF Tcp!Branch, Tcp!Rest, Tcp!mem
  <2> QED BY <1>3, <1>5, <2>1 DEF Tcp!ClearClients
<1> QED BY <1>1, <1>2, <1>4, <1>5

(* The calls of ctl and its way through them.                              *)
LEMMA TsControls == TsInv /\ (Tcp!Calls \/ Tcp!ControlStep) => TsInv'
<1> SUFFICES ASSUME TsInv, Tcp!Calls \/ Tcp!ControlStep PROVE TsInv'
  OBVIOUS
<1> DEFINE Same == UNCHANGED <<tcpPeer, tcpList, tcpOpen, tcpLost, tcpTheirs, tcpBatch, tcpCur, tcpCb>>
           Backs == {<<"idle", "idle">>, <<"bind", "bind">>, <<"wait", "idle">>, <<"wait", "delete">>}
           Epoll == \/ tcpEpoll' = tcpEpoll
                    \/ tcpEpoll' = tcpEpoll \ {"srv"}
                    \/ tcpPc["worker"] \in {"none", "done"} /\ tcpEpoll' \subseteq {"srv"}
<1>0. "ctl" \in Tcp!Thread /\ tcpRet["ctl"] \in Backs
  BY DEF Tcp!Thread, TsInv, TsType
<1>1. tcpPc["ctl"] \in TsStarting => tcpPc["worker"] \in {"none", "done"}
  BY DEF TsInv, TsBooks
<1>2. ASSUME NEW to, Tcp!Goto("ctl", to), UNCHANGED tcpRet, Same, Epoll,
             to \in TsStarting => tcpPc["worker"] \in {"none", "done"}
      PROVE  TsInv'
  <2>1. TsGoes("ctl", to, tcpRet["ctl"])
    BY <1>0, <1>2, TsSteps
  <2> HIDE DEF Same, Epoll
  <2> QED BY <1>0, <1>2, <2>1, TsControlMoves DEF Same, Epoll
<1>3. ASSUME NEW to, NEW back \in Backs, TsGoes("ctl", to, back), Same, Epoll, to \notin TsStarting
      PROVE  TsInv'
  BY <1>3, TsControlMoves
<1>4. CASE Tcp!Calls
  <2>1. Same /\ UNCHANGED tcpEpoll
    BY <1>4 DEF Tcp!Calls, Tcp!MayStart, Tcp!TcpServer_start_async, Tcp!TcpServer_stop, Tcp!Rest, Tcp!mem
  <2>2. CASE Tcp!TcpServer_start_async
    <3>1. PICK to \in {"wait", "bind"} : Tcp!Goto("ctl", to)
      BY <2>2 DEF Tcp!TcpServer_start_async
    <3>2. tcpRet' = [tcpRet EXCEPT !["ctl"] = <<"bind", "bind">>]
      BY <2>2 DEF Tcp!TcpServer_start_async
    <3>3. TsGoes("ctl", to, <<"bind", "bind">>)
      BY <1>0, <3>1, <3>2 DEF Tcp!Goto, TsGoes, TsInv, TsType
    <3>4. to \notin TsStarting
      BY DEF TsStarting
    <3> QED BY <1>3, <2>1, <3>3, <3>4
  <2>3. CASE Tcp!TcpServer_stop
    <3>1. TsGoes("ctl", "stop", <<"wait", "idle">>)
      BY <1>0, <2>3, TsSteps DEF Tcp!TcpServer_stop
    <3> QED BY <1>3, <2>1, <3>1 DEF TsStarting
  <2> QED BY <1>4, <2>2, <2>3 DEF Tcp!Calls, Tcp!MayStart
<1>5. CASE Tcp!BindAndListen
  <2>1. Same /\ UNCHANGED <<tcpEpoll, tcpRet>> /\ tcpPc["worker"] \in {"none", "done"}
    BY <1>5 DEF Tcp!BindAndListen, Tcp!Rest, Tcp!mem
  <2>2. PICK to : Tcp!Goto("ctl", to)
    BY <1>5 DEF Tcp!BindAndListen
  <2> QED BY <1>2, <2>1, <2>2
<1>6. CASE Tcp!NewEpoll
  <2>1. Same /\ tcpPc["worker"] \in {"none", "done"}
    BY <1>1, <1>6 DEF Tcp!NewEpoll, Tcp!mem, TsStarting
  <2>2. CASE tcpEpoll' = {"srv"} /\ Tcp!Goto("ctl", "unstop") /\ UNCHANGED tcpRet
    BY <1>2, <2>1, <2>2
  <2>3. CASE Tcp!CallStopAsync("ctl", "idle") /\ UNCHANGED tcpEpoll
    <3>1. TsGoes("ctl", "stop", <<"idle", "idle">>)
      BY <1>0, <2>3, TsSteps
    <3> QED BY <1>3, <2>1, <2>3, <3>1 DEF TsStarting
  <2> QED BY <1>6, <2>2, <2>3 DEF Tcp!NewEpoll, Tcp!EpollPack_add_sock, Tcp!newEpollPack
<1>7. CASE Tcp!StartThread
  <2>1. Same /\ tcpPc["ctl"] \in TsStarting /\ tcpPc["worker"] \in {"none", "done"}
    BY <1>1, <1>7 DEF Tcp!StartThread, Tcp!Load, Tcp!Store, Tcp!Rest, Tcp!mem, TsStarting
  <2>2. CASE UNCHANGED <<tcpEpoll, tcpRet>> /\ \E to : Tcp!Goto("ctl", to)
    BY <1>2, <2>1, <2>2
  <2>3. CASE tcpPc' = [ctl |-> "idle", worker |-> "born"] /\ UNCHANGED <<tcpEpoll, tcpRet>>
    <3>1. /\ tcpPc' = [t \in Tcp!Thread |-> tcpPc'[t]] /\ tcpPc'["ctl"] = "idle" /\ tcpPc'["worker"] = "born"
      BY <2>3 DEF Tcp!Thread
    <3>2. TsType'
      BY <2>1, <2>3, <3>1 DEF TsInv, TsType, Tcp!Thread, TsEmpty, TsIdle
    <3> DEFINE p == tcpPc["worker"]
               back == tcpRet["worker"]
               name == tcpCb.name
    <3>3. /\ ~TsAccepting(p, back, name) /\ TsEmpty(p, back, name) /\ p \in TsIdle
          /\ ~TsAccepting("born", back, name) /\ ~TsAttending("born", back, name)
          /\ ~TsServing("born", back, name)
      BY <2>1, TsPlaces DEF TsCalls, TsStop, TsWait, TsIdle
    <3> HIDE DEF p, back, name
    <3>4. TsBooks'
      BY <2>1, <2>3, <3>1, <3>3 DEF TsInv, TsBooks, TsStarting, p, back, name
    <3> QED BY <3>2, <3>4 DEF TsInv
  <2>4. CASE tcpEpoll' = {} /\ Tcp!CallStopAsync("ctl", "idle")
    <3>1. TsGoes("ctl", "stop", <<"idle", "idle">>)
      BY <1>0, <2>4, TsSteps
    <3> QED BY <1>3, <2>1, <2>4, <3>1 DEF TsStarting
  <2> QED BY <1>7, <2>2, <2>3, <2>4 DEF Tcp!StartThread, Tcp!Load, Tcp!Store, Tcp!Rest
<1>8. CASE Tcp!delTcpServer
  <2>1. Same /\ UNCHANGED tcpEpoll
    BY <1>8 DEF Tcp!delTcpServer, Tcp!Load, Tcp!Store, Tcp!Rest, Tcp!mem
  <2>2. CASE Tcp!CallStop("ctl", "delete")
    <3>1. TsGoes("ctl", "stop", <<"wait", "delete">>)
      BY <1>0, <2>2, TsSteps
    <3> QED BY <1>3, <2>1, <3>1 DEF TsStarting
  <2>3. CASE UNCHANGED tcpRet /\ \E to \in {"delete1", "free", "idle"} : Tcp!Goto("ctl", to)
    BY <1>2, <2>1, <2>3 DEF TsStarting
  <2> QED BY <1>8, <2>2, <2>3 DEF Tcp!delTcpServer, Tcp!Load, Tcp!Store
<1>9. CASE Tcp!TcpServer_stop_async("ctl") \/ Tcp!TcpServer_wait_for_thread_return("ctl")
  <2>1. Same /\ UNCHANGED tcpRet /\ (tcpEpoll' = tcpEpoll \/ tcpEpoll' = tcpEpoll \ {"srv"})
    BY <1>9 DEF Tcp!TcpServer_stop_async, Tcp!TcpServer_wait_for_thread_return, Tcp!CloseSock, Tcp!Load, Tcp!Store,
       Tcp!Broadcast, Tcp!Branch, Tcp!Rest, Tcp!mem
  <2>2. PICK to \in TsStop \cup TsWait \cup {tcpRet["ctl"][1], tcpRet["ctl"][2]} : Tcp!Goto("ctl", to)
    BY <1>9 DEF Tcp!TcpServer_stop_async, Tcp!TcpServer_wait_for_thread_return, Tcp!CloseSock, Tcp!Load, Tcp!Store,
       Tcp!Broadcast, Tcp!Branch, TsStop, TsWait
  <2>3. to \notin TsStarting
    BY <1>0, <2>2 DEF TsStarting, TsStop, TsWait
  <2> QED BY <1>2, <2>1, <2>2, <2>3
<1> QED BY <1>4, <1>5, <1>6, <1>7, <1>8, <1>9 DEF Tcp!ControlStep

(* The other sides: a connection that is open is not called again.         *)
LEMMA TsPeers == TsInv /\ Tcp!Peers => TsInv'
<1> SUFFICES ASSUME TsInv, Tcp!Peers PROVE TsInv'
  OBVIOUS
<1>1. UNCHANGED <<tcpPc, tcpRet, tcpEpoll, tcpBatch, tcpCur, tcpCb, tcpList, tcpOpen, tcpLost, tcpTheirs>>
  BY DEF Tcp!Peers, Tcp!mem
<1>2. PICK c \in TcpPeer :
        \E v : /\ tcpPeer' = [tcpPeer EXCEPT ![c] = v]
               /\ v \in {"away", "calls"} => c \notin tcpOpen
  BY TsFacts DEF Tcp!Peers
<1>3. tcpPeer' = [d \in TcpPeer |-> tcpPeer'[d]] /\ \A d \in tcpOpen : tcpPeer'[d] \notin {"away", "calls"}
  BY <1>2, TsFacts
<1> QED BY <1>1, <1>3 DEF TsInv, TsType, TsBooks, Tcp!Thread

(* Every step of a TcpServer keeps TsInv.                                  *)
LEMMA TsNextKeepsInv == TsInv /\ Tcp!Next => TsInv'
BY TsControls, TsFrame, TsEvents, TsCallbacks, TsCloses, TsWorkerStops, TsPeers DEF Tcp!Next, Tcp!WorkerStep

(* A descriptor is left without an owner only by a step that may fail.     *)
TsLoss == ~tcpMayFail => tcpLost = {}

(* Every step but the one after client_connected leaves the lost alone.    *)
LEMMA TsLossKept == TsLoss /\ Tcp!Next => TsLoss'
<1> SUFFICES ASSUME TsLoss, Tcp!Next PROVE TsLoss'
  OBVIOUS
<1> DEFINE Same == UNCHANGED <<tcpLost, tcpMayFail>>
<1>1. ASSUME NEW t, NEW at, NEW to, NEW v, Tcp!Load(t, at, to) \/ Tcp!Store(t, at, v, to) \/ Tcp!Broadcast(t, at, to)
      PROVE  Same
  BY <1>1 DEF Tcp!Load, Tcp!Store, Tcp!Broadcast, Tcp!Rest, Tcp!mem
<1>2. ASSUME NEW t, NEW to, Tcp!Branch(t, to) PROVE Same
  BY <1>2 DEF Tcp!Branch, Tcp!Rest, Tcp!mem
<1>3. ASSUME NEW t, Tcp!TcpServer_stop_async(t) \/ Tcp!TcpServer_wait_for_thread_return(t) PROVE Same
  <2> HIDE DEF Same
  <2>1. Tcp!CloseSock(t) => Same
    BY DEF Tcp!CloseSock, Tcp!mem, Same
  <2>2. UNCHANGED <<tcpSock, tcpFlags, tcpReg, tcpRet, Tcp!Rest>> => Same
    BY DEF Tcp!Rest, Tcp!mem, Same
  <2> QED BY <1>1, <1>2, <1>3, <2>1, <2>2 DEF Tcp!TcpServer_stop_async, Tcp!TcpServer_wait_for_thread_return
<1>4. Tcp!Calls \/ Tcp!BindAndListen \/ Tcp!NewEpoll \/ Tcp!Peers => Same
  BY DEF Tcp!Calls, Tcp!MayStart, Tcp!TcpServer_start_async, Tcp!TcpServer_stop, Tcp!BindAndListen, Tcp!NewEpoll,
         Tcp!Peers, Tcp!Rest, Tcp!mem
<1>5. Tcp!StartThread \/ Tcp!delTcpServer \/ Tcp!ThreadBegins \/ Tcp!ThreadEnds \/ Tcp!FreeItself \/ Tcp!delEpollPack => Same
  <2> HIDE DEF Same
  <2>1. UNCHANGED <<tcpLost, tcpMayFail>> => Same
    BY DEF Same
  <2> QED BY <1>1, <2>1 DEF Tcp!StartThread, Tcp!delTcpServer, Tcp!ThreadBegins, Tcp!ThreadEnds, Tcp!FreeItself,
            Tcp!delEpollPack, Tcp!Rest, Tcp!mem
<1>6. Tcp!LoopHead \/ Tcp!EpollWait \/ Tcp!BatchDone \/ Tcp!Accept \/ Tcp!Unknown \/ Tcp!Serve \/ Tcp!Data => Same
  <2> HIDE DEF Same
  <2>1. UNCHANGED <<tcpLost, tcpMayFail>> => Same
    BY DEF Same
  <2> QED BY <1>2, <2>1 DEF Tcp!LoopHead, Tcp!EpollWait, Tcp!BatchDone, Tcp!Accept, Tcp!Unknown, Tcp!Serve, Tcp!Data, Tcp!mem
<1>7. Tcp!RunCallback \/ Tcp!DeleteInCallback \/ Tcp!Served \/ Tcp!RemoveClient \/ Tcp!ClearClients => Same
  <2> HIDE DEF Same
  <2>1. UNCHANGED <<tcpLost, tcpMayFail>> => Same
    BY DEF Same
  <2> QED BY <1>1, <1>2, <2>1 DEF Tcp!RunCallback, Tcp!DeleteInCallback, Tcp!Served, Tcp!RemoveClient, Tcp!ClearClients,
            Tcp!Disconnect, Tcp!mem
<1>8. Tcp!Connected => UNCHANGED tcpMayFail /\ (tcpMayFail \/ tcpLost' = tcpLost)
  BY DEF Tcp!Connected
<1>9. Same => TsLoss'
  BY DEF TsLoss
<1> HIDE DEF Same
<1>10. Tcp!ControlStep \/ Tcp!WorkerStep => Same \/ Tcp!Connected
  BY <1>3, <1>4, <1>5, <1>6, <1>7 DEF Tcp!ControlStep, Tcp!WorkerStep
<1>11. Same \/ Tcp!Connected
  BY <1>4, <1>10 DEF Tcp!Next
<1>12. CASE Tcp!Connected
  BY <1>8, <1>12 DEF TsLoss
<1> QED BY <1>9, <1>11, <1>12

(* A step of another server.                                               *)
LEMMA TsStutter == TsInv /\ UNCHANGED tcpVars => TsInv'
BY DEF TsInv, TsType, TsBooks, Tcp!Thread, tcpVars

(* What TcpServer promises follows.                                        *)
LEMMA TsAccounted == TsInv /\ TsLoss => Tcp!SocketsAccounted
<1> SUFFICES ASSUME TsInv, TsLoss PROVE Tcp!SocketsAccounted
  OBVIOUS
<1>1. /\ tcpList \subseteq tcpOpen \ (tcpLost \cup tcpTheirs)
      /\ tcpOpen \ (tcpList \cup tcpLost \cup tcpTheirs) \subseteq {tcpCur}
  BY DEF TsInv, TsBooks
<1>2. tcpPc["worker"] \in {"none", "done"} => tcpList = {} /\ tcpEpoll \cap TcpPeer = {}
  BY TsPlaces DEF TsInv, TsBooks, TsIdle, TsCalls, TsStop, TsWait
<1> QED BY <1>1, <1>2 DEF Tcp!SocketsAccounted, TsLoss

-----------------------------------------------------------------------------
(* The composition: one server moves, the others keep their state.         *)

(* The invariant of MCServers.                                             *)
ServersInv == TsInv /\ TsLoss /\ FdInv /\ EvInv

(* The inductive invariant holds in every state, for any number of         *)
(* connections: with no assumption on the flags of the threaded servers,   *)
(* and for an EventServer whose client_con_cb is set (Careful).            *)
THEOREM ServersInvariant ==
  ASSUME Careful
  PROVE  Spec => []ServersInv
<1>1. Init => ServersInv
  <2>1. Tcp!Init => TsLoss
    BY DEF Tcp!Init, TsLoss
  <2> QED BY <2>1, TsInit, FdInit, EvInit DEF Init, ServersInv
<1>2. ServersInv /\ [Next]_allVars => ServersInv'
  <2> SUFFICES ASSUME ServersInv, [Next]_allVars PROVE ServersInv'
    OBVIOUS
  <2> USE DEF ServersInv
  <2>0. TsLoss /\ UNCHANGED tcpVars => TsLoss'
    BY DEF TsLoss, tcpVars
  <2>1. CASE UNCHANGED allVars
    BY <2>0, <2>1, TsStutter, FdStutter, EvStutter DEF allVars
  <2>2. CASE On("tcp", Tcp!Next)
    BY <2>2, TsNextKeepsInv, TsLossKept, FdStutter, EvStutter DEF On
  <2>3. CASE On("fd", Fd!Next)
    BY <2>0, <2>3, TsStutter, FdNextKeepsInv, EvStutter DEF On
  <2>4. CASE On("event", Event!Next)
    BY <2>0, <2>4, TsStutter, FdStutter, EvNextKeepsInv DEF On
  <2> QED BY <2>1, <2>2, <2>3, <2>4 DEF Next
<1> QED BY <1>1, <1>2, PTL DEF Spec

(* In any order of accepts, callbacks, stops and deletions by either       *)
(* thread, every open descriptor of a TcpServer's client has one owner     *)
(* unless its registration or listing failed (TcpServer.c:161-175), a      *)
(* FdServer lists the open descriptors as long as no freed package was     *)
(* used, both keep none when their thread has ended, and the data of an    *)
(* EventServer's client is freed once (EventServer.c).                     *)
THEOREM EveryClientAccounted ==
  ASSUME Careful
  PROVE  Spec => []ClientsAccounted
<1>1. ServersInv => ClientsAccounted
  BY TsAccounted, FdAccounted, EvOwned DEF ServersInv, ClientsAccounted
<1> QED BY <1>1, ServersInvariant, PTL
=============================================================================
