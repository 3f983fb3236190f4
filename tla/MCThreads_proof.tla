-------------------------- MODULE MCThreads_proof --------------------------
(***************************************************************************)
(* Proofs about the components of MCThreads: ThreadedTimerEvent, TcpClient,*)
(* FdClient, UvTcpServer and SignalHandler.  The flags of the first two are*)
(* updated by a load and a store, so what their threads may assume of each *)
(* other rests on where both are: each invariant below says for every place*)
(* of a thread what the other one cannot be doing.                         *)
(***************************************************************************)
EXTENDS MCThreads, Sequences, SequenceTheorems, FiniteSetTheorems,
        WellFoundedInduction, TLAPS

(* What a thread returns to, as a stack.                                   *)
LEMMA Stacks ==
  \A a, b :
    /\ <<a>> \o <<>> = <<a>> /\ <<a>> \o <<b>> = <<a, b>>
    /\ Head(<<a>>) = a /\ Tail(<<a>>) = <<>> /\ Head(<<a, b>>) = a /\ Tail(<<a, b>>) = <<b>>
<1>1. ASSUME NEW a, NEW b PROVE <<a>> \o <<b>> = <<a, b>>
  <2> DEFINE S == {a, b}
             s == <<a>> \o <<b>>
             p == <<a, b>>
  <2>1. <<a>> \in Seq(S) /\ <<b>> \in Seq(S) /\ p \in Seq(S)
    OBVIOUS
  <2>2. s \in Seq(S) /\ Len(s) = 2 /\ s[1] = a /\ s[2] = b
    BY <2>1, ConcatProperties
  <2>3. Len(p) = 2 /\ p[1] = a /\ p[2] = b
    OBVIOUS
  <2> HIDE DEF S, s, p
  <2>4. Len(s) = Len(p) /\ \A i \in 1 .. Len(s) : s[i] = p[i]
    BY <2>2, <2>3
  <2>5. s = p
    BY <2>1, <2>2, <2>4, SeqEqual
  <2> QED BY <2>5 DEF s, p
<1>2. \A a, b : <<a>> \o <<>> = <<a>> /\ Head(<<a>>) = a /\ Tail(<<a>>) = <<>>
  OBVIOUS
<1>3. \A a, b : Head(<<a, b>>) = a /\ Tail(<<a, b>>) = <<b>>
  OBVIOUS
<1> QED BY <1>1, <1>2, <1>3

(* The invariant of UvTcpServer: ListedIsOpen, and the pending writes are  *)
(* counts.                                                                 *)
UvInv == Uv!ListedIsOpen /\ uvWrites \in [UvPeer -> Nat]

(* The list and the packages of a server are those of its open clients.    *)
UvListed(s) ==
  /\ s \in Uv!ServerType
  /\ s.listed = {c \in UvPeer : s.client[c] = "open"} /\ s.pack = s.listed

(* UvTcpServer_stop leaves the clients and their list alone.               *)
LEMMA UvStop ==
  ASSUME NEW s, UvListed(s)
  PROVE  /\ UvListed(Uv!UvTcpServer_stop(s))
         /\ Uv!UvTcpServer_stop(s).client = s.client
         /\ Uv!UvTcpServer_stop(s).block = s.block
BY DEF UvListed, Uv!ServerType, Uv!UvTcpServer_stop

(* Removing a client from the list closes its handle with it, and no       *)
(* client becomes a fresh one.                                             *)
LEMMA UvListRemove ==
  ASSUME NEW s, UvListed(s), NEW c \in UvPeer, NEW shutdown \in BOOLEAN
  PROVE  LET r == Uv!ListRemove(s, c, shutdown)
         IN  /\ UvListed(r)
             /\ r.block \subseteq s.block
             /\ \A d \in UvPeer : r.client[d] = "none" => s.client[d] = "none"
<1> DEFINE t == IF shutdown THEN Uv!UvTcpServer_stop(s) ELSE s
           u == Uv!free_callback_package(t, c)
           v == [u EXCEPT !.client[c] = "closing"]
           r == Uv!ListRemove(s, c, shutdown)
<1>1. CASE c \notin s.listed
  BY <1>1 DEF Uv!ListRemove
<1>2. CASE c \in s.listed
  <2>1. UvListed(t) /\ t.client = s.client /\ t.block = s.block
    BY UvStop
  <2> HIDE DEF t
  <2>2. /\ u \in Uv!ServerType /\ u.client = t.client /\ u.listed = t.listed
        /\ u.pack = t.pack \ {c} /\ u.block = t.block \ {c}
    BY <2>1 DEF UvListed, Uv!ServerType, Uv!free_callback_package
  <2> HIDE DEF u
  <2>3. /\ v \in Uv!ServerType /\ v.client = [t.client EXCEPT ![c] = "closing"]
        /\ v.listed = t.listed /\ v.pack = t.pack \ {c} /\ v.block = t.block \ {c}
    BY <2>2 DEF Uv!ServerType
  <2>4. r = [v EXCEPT !.listed = v.listed \ {c}]
    BY <1>2 DEF Uv!ListRemove, Uv!remove_client_cb, t, u
  <2> HIDE DEF v, r
  <2>5. /\ r \in Uv!ServerType /\ r.client = [t.client EXCEPT ![c] = "closing"]
        /\ r.listed = t.listed \ {c} /\ r.pack = t.pack \ {c} /\ r.block = t.block \ {c}
    BY <2>3, <2>4 DEF Uv!ServerType
  <2>6. t.client \in [UvPeer -> {"none", "open", "closing", "freed"}]
    BY <2>1 DEF UvListed, Uv!ServerType
  <2> QED BY <2>1, <2>5, <2>6 DEF UvListed, r
<1> QED BY <1>1, <1>2

(* A new server has no client.                                             *)
LEMMA UvInit == Uv!Init => UvInv
BY DEF Uv!Init, UvInv, Uv!ListedIsOpen, Uv!ServerType

(* What a step of the loop must keep: list, packages and open handles in   *)
(* step, no read block left reserved, and a handle freed only when none of *)
(* its writes is pending.                                                  *)
LEMMA UvKeeps ==
  ASSUME UvInv, uvWrites' = uvWrites, UvListed(uvServer'), uvServer'.block = {},
         \A d \in UvPeer : uvServer'.client[d] = "none" => uvServer.client[d] = "none" \/ uvWrites[d] = 0
  PROVE  UvInv'
BY DEF UvInv, UvListed, Uv!ListedIsOpen, Uv!ServerType

(* A connection that is accepted is listed, or closed again when its read  *)
(* cannot start.                                                           *)
LEMMA UvEnlistKeepsInv == UvInv /\ Uv!Enlist => UvInv'
<1> SUFFICES ASSUME UvInv, Uv!Enlist PROVE UvInv'
  OBVIOUS
<1>1. PICK c \in UvPeer, started \in BOOLEAN, shutdown \in BOOLEAN :
        LET s == [uvServer EXCEPT !.client[c] = "open", !.listed = @ \cup {c}, !.pack = @ \cup {c}]
        IN uvServer' = IF started THEN s ELSE Uv!ListRemove(s, c, shutdown)
  BY DEF Uv!Enlist
<1> DEFINE s == [uvServer EXCEPT !.client[c] = "open", !.listed = @ \cup {c}, !.pack = @ \cup {c}]
<1>a. /\ s \in Uv!ServerType /\ s.client = [uvServer.client EXCEPT ![c] = "open"]
      /\ s.listed = uvServer.listed \cup {c} /\ s.pack = uvServer.pack \cup {c} /\ s.block = {}
  BY DEF UvInv, Uv!ListedIsOpen, Uv!ServerType
<1>b. uvServer.client \in [UvPeer -> {"none", "open", "closing", "freed"}]
  BY DEF UvInv, Uv!ListedIsOpen, Uv!ServerType
<1>2. /\ UvListed(s) /\ s.block = {}
      /\ \A d \in UvPeer : s.client[d] = "none" => uvServer.client[d] = "none"
  <2> HIDE DEF s
  <2> QED BY <1>a, <1>b DEF UvInv, UvListed, Uv!ListedIsOpen
<1>3. uvServer' = s \/ uvServer' = Uv!ListRemove(s, c, shutdown)
  BY <1>1
<1> HIDE DEF s
<1>4. uvWrites' = uvWrites
  BY DEF Uv!Enlist, Uv!Idle
<1>5. CASE uvServer' = s
  BY <1>2, <1>4, <1>5, UvKeeps
<1>6. CASE uvServer' = Uv!ListRemove(s, c, shutdown)
  BY <1>2, <1>4, <1>6, UvListRemove, UvKeeps
<1> QED BY <1>3, <1>5, <1>6

(* The allocation and the read callback of one message, as one turn of the *)
(* loop.                                                                   *)
LEMMA UvDataKeepsInv == UvInv /\ Uv!client_data_in_cb => UvInv'
<1> SUFFICES ASSUME UvInv, Uv!client_data_in_cb PROVE UvInv'
  OBVIOUS
<1>1. PICK c \in UvPeer, shutdown \in BOOLEAN :
        LET s == Uv!client_buff_init(uvServer, c)
            gone == Uv!ListRemove(s, c, shutdown)
        IN \E after \in {s, gone, Uv!UvTcpServer_stop(s), Uv!UvTcpServer_stop(gone)} :
             uvServer' = Uv!Unreserved(after, c)
  BY DEF Uv!client_data_in_cb
<1> DEFINE s == Uv!client_buff_init(uvServer, c)
           gone == Uv!ListRemove(s, c, shutdown)
<1>2. PICK after \in {s, gone, Uv!UvTcpServer_stop(s), Uv!UvTcpServer_stop(gone)} :
        uvServer' = Uv!Unreserved(after, c)
  BY <1>1
<1>3. /\ UvListed(s) /\ s.block = {c} /\ s.client = uvServer.client
  BY DEF UvInv, UvListed, Uv!ListedIsOpen, Uv!ServerType, Uv!client_buff_init
<1> HIDE DEF s
<1>4. /\ UvListed(gone) /\ gone.block \subseteq {c}
      /\ \A d \in UvPeer : gone.client[d] = "none" => s.client[d] = "none"
  BY <1>3, UvListRemove
<1> HIDE DEF gone
<1>5. /\ UvListed(after) /\ after.block \subseteq {c}
      /\ \A d \in UvPeer : after.client[d] = "none" => s.client[d] = "none"
  BY <1>2, <1>3, <1>4, UvStop
<1>6. UvListed(uvServer') /\ uvServer'.block = {} /\ uvServer'.client = after.client
  BY <1>2, <1>5 DEF Uv!Unreserved, UvListed, Uv!ServerType
<1>7. uvWrites' = uvWrites
  BY DEF Uv!client_data_in_cb, Uv!Idle
<1> QED BY <1>3, <1>5, <1>6, <1>7, UvKeeps

(* The close callbacks of the server's own handles, and its interrupt.     *)
LEMMA UvClosesKeepInv == UvInv /\ (Uv!ServerClosed \/ Uv!free_wake_handle \/ Uv!signal_interrupt_cb) => UvInv'
<1> SUFFICES ASSUME UvInv, Uv!ServerClosed \/ Uv!free_wake_handle \/ Uv!signal_interrupt_cb PROVE UvInv'
  OBVIOUS
<1>0. UvListed(uvServer) /\ uvServer.block = {}
  BY DEF UvInv, UvListed, Uv!ListedIsOpen
<1>1. CASE Uv!ServerClosed
  <2>1. PICK shutdown \in BOOLEAN : uvServer' = Uv!close_server_cb(uvServer, shutdown)
    BY <1>1 DEF Uv!ServerClosed
  <2> DEFINE s == IF shutdown /\ uvServer.listed # {} THEN Uv!UvTcpServer_stop(uvServer) ELSE uvServer
  <2>2. UvListed(s) /\ s.client = uvServer.client /\ s.block = {}
    BY <1>0, UvStop
  <2>3. uvServer' = [s EXCEPT
            !.client = [c \in UvPeer |-> IF c \in uvServer.listed THEN "closing" ELSE s.client[c]],
            !.pack = s.pack \ uvServer.listed, !.block = s.block \ uvServer.listed, !.listed = {},
            !.handle = "none", !.signal = FALSE]
    BY <2>1 DEF Uv!close_server_cb
  <2> HIDE DEF s
  <2>4. s.listed = uvServer.listed /\ s.pack = s.listed
    BY <1>0, <2>2 DEF UvListed
  <2>a. /\ s \in Uv!ServerType /\ s.client \in [UvPeer -> {"none", "open", "closing", "freed"}]
        /\ s.listed = {c \in UvPeer : s.client[c] = "open"} /\ s.pack = s.listed
    BY <2>2 DEF UvListed, Uv!ServerType
  <2>b. /\ uvServer'.client = [c \in UvPeer |-> IF c \in uvServer.listed THEN "closing" ELSE s.client[c]]
        /\ uvServer'.listed = {} /\ uvServer'.pack = {} /\ uvServer'.block = {}
    BY <2>a, <2>2, <2>3, <2>4 DEF Uv!ServerType
  <2>c. uvServer' \in Uv!ServerType
    BY <2>a, <2>3 DEF Uv!ServerType
  <2>d. \A c \in UvPeer : uvServer'.client[c] # "open"
    BY <2>a, <2>b, <2>4
  <2>5. UvListed(uvServer') /\ uvServer'.block = {}
    BY <2>b, <2>c, <2>d DEF UvListed
  <2>6. \A d \in UvPeer : uvServer'.client[d] = "none" => uvServer.client[d] = "none"
    BY <1>0, <2>2, <2>3 DEF UvListed, Uv!ServerType
  <2> QED BY <1>1, <2>5, <2>6, UvKeeps DEF Uv!ServerClosed, Uv!Idle
<1>2. CASE Uv!free_wake_handle
  <2>1. /\ UvListed(uvServer') /\ uvServer'.client = uvServer.client /\ uvServer'.block = {}
    BY <1>0, <1>2 DEF Uv!free_wake_handle, UvListed, Uv!ServerType
  <2> QED BY <1>2, <2>1, UvKeeps DEF Uv!free_wake_handle, Uv!Idle
<1>3. CASE Uv!signal_interrupt_cb
  BY <1>0, <1>3, UvStop, UvKeeps DEF Uv!signal_interrupt_cb, Uv!Idle
<1> QED BY <1>1, <1>2, <1>3

(* Every callback of the loop keeps the server's books.                    *)
LEMMA UvNextKeepsInv == UvInv /\ Uv!Next => UvInv'
<1> SUFFICES ASSUME UvInv, Uv!Next PROVE UvInv'
  OBVIOUS
<1>0. UvListed(uvServer) /\ uvServer.block = {}
  BY DEF UvInv, UvListed, Uv!ListedIsOpen
<1>1. CASE Uv!client_connection_cb \/ Uv!UvTcpServer_add_client
  BY <1>1, UvEnlistKeepsInv DEF Uv!client_connection_cb, Uv!UvTcpServer_add_client
<1>2. CASE Uv!client_data_in_cb
  BY <1>2, UvDataKeepsInv
<1>3. CASE Uv!UvTcp_write \/ Uv!default_write_cb
  <2>1. PICK c \in UvPeer :
          /\ uvServer.client[c] = "open" \/ uvWrites[c] > 0
          /\ \E n \in Nat : uvWrites' = [uvWrites EXCEPT ![c] = n]
    BY <1>3 DEF Uv!UvTcp_write, Uv!default_write_cb, UvInv
  <2>2. uvServer' = uvServer
    BY <1>3 DEF Uv!UvTcp_write, Uv!default_write_cb
  <2>3. uvServer.client[c] # "none"
    BY <2>1 DEF UvInv, Uv!ListedIsOpen
  <2> QED BY <2>1, <2>2, <2>3 DEF UvInv, Uv!ListedIsOpen, Uv!ServerType
<1>4. CASE Uv!free_client_handle
  <2>1. PICK c \in UvPeer : /\ uvServer.client[c] = "closing" /\ uvWrites[c] = 0
                            /\ uvServer' = [uvServer EXCEPT !.client[c] = "none"]
    BY <1>4 DEF Uv!free_client_handle
  <2>2. /\ uvServer' \in Uv!ServerType /\ uvServer'.client = [uvServer.client EXCEPT ![c] = "none"]
        /\ uvServer'.listed = uvServer.listed /\ uvServer'.pack = uvServer.pack /\ uvServer'.block = {}
    BY <1>0, <2>1 DEF UvListed, Uv!ServerType
  <2>3. uvServer.client \in [UvPeer -> {"none", "open", "closing", "freed"}]
    BY <1>0 DEF UvListed, Uv!ServerType
  <2>4. UvListed(uvServer')
    BY <1>0, <2>1, <2>2, <2>3 DEF UvListed
  <2>5. \A d \in UvPeer : uvServer'.client[d] = "none" => uvServer.client[d] = "none" \/ uvWrites[d] = 0
    BY <2>1, <2>2, <2>3
  <2> QED BY <1>4, <2>2, <2>4, <2>5, UvKeeps DEF Uv!free_client_handle, Uv!Idle
<1>5. CASE Uv!ServerClosed \/ Uv!free_wake_handle \/ Uv!signal_interrupt_cb
  BY <1>5, UvClosesKeepInv
<1>6. CASE Uv!LoopReturns
  BY <1>6 DEF Uv!LoopReturns, UvInv, Uv!ListedIsOpen
<1>7. CASE Uv!UvTcpServer_start
  <2> DEFINE s == Uv!UvTcpServer_stop(uvServer)
  <2>1. UvListed(s) /\ s.client = uvServer.client /\ s.block = {}
    BY <1>0, UvStop
  <2>2. uvServer' = [s EXCEPT !.handle = "listening", !.signal = TRUE] /\ uvWrites' = uvWrites
    BY <1>7 DEF Uv!UvTcpServer_start
  <2> HIDE DEF s
  <2>3. UvListed(uvServer') /\ uvServer'.client = uvServer.client /\ uvServer'.block = {}
    BY <2>1, <2>2 DEF UvListed, Uv!ServerType
  <2> QED BY <2>2, <2>3, UvKeeps
<1> QED BY <1>1, <1>2, <1>3, <1>4, <1>5, <1>6, <1>7 DEF Uv!Next, Uv!CloseStep

(* A step of another component.                                            *)
LEMMA UvStutter == UvInv /\ UNCHANGED uvVars => UvInv'
BY DEF UvInv, Uv!ListedIsOpen, Uv!ServerType, uvVars
-----------------------------------------------------------------------------
(* TcpClient: the reading threads.                                         *)

(* Where a thread is while it closes the connection and stops the reading, *)
(* and between the load and the store of a flag update.                    *)
TcEnding == {"disconnect", "close", "hangup", "async", "async1", "async2", "async3", "async4", "async5"}
TcMid == {"async1", "async4", "born1", "quit1", "stop2", "stop4", "lower1", "raise1", "create1", "delete1"}
TcReading == {"born", "born1", "born2", "sockopt", "loop", "recv", "data", "quit", "quit1"} \cup TcEnding
TcUnderWay == TcReading \ {"born", "born1"}
TcStart == {"start1", "lower", "lower1", "raise", "raise1", "create", "create1", "create2"}
TcDelete == {"delete", "delete1", "delete2", "free"}

(* Where ctl is, and what it returns to from there.                        *)
TcControlAt(p, back) ==
  \/ p \in {"idle"} \cup TcDelete /\ back = <<>>
  \/ p \in {"connect", "connect1", "start"} \cup TcStart /\ back = <<"idle">>
  \/ /\ p \in {"stop", "stop1", "stop2", "join", "stop3", "stop4", "stop5"}
     /\ back \in {<<"idle">>, <<"start1", "idle">>}
  \/ /\ p \in {"await", "block", "blocked"}
     /\ back \in {<<"idle">>, <<"start1", "idle">>, <<"start", "idle">>}
  \/ p \in TcEnding /\ back \in {<<"idle">>, <<"free">>}

(* Types, and what each thread returns to from where it is.                *)
TcType ==
  /\ tcHears \in BOOLEAN /\ tcFreed \in BOOLEAN
  /\ tcReader \in Helper
  /\ tcPc = [t \in Tcp!Thread |-> tcPc[t]]
  /\ tcReg = [t \in Tcp!Thread |-> tcReg[t]] /\ tcRet = [t \in Tcp!Thread |-> tcRet[t]]
  /\ \A r \in Helper :
       \/ tcPc[r] \in {"unborn", "quit2", "done"} \cup (TcReading \ TcEnding) /\ tcRet[r] = <<>>
       \/ tcPc[r] \in TcEnding /\ tcRet[r] \in {<<"quit">>, <<"loop">>}
  /\ TcControlAt(tcPc["ctl"], tcRet["ctl"])

(* Updates of the flags may overlap and be lost, but while a reader is     *)
(* under way no thread holds flags, for its store to come, that lack       *)
(* RUNNING.                                                                *)
TcRegs ==
  \A r \in Helper : tcPc[r] \in TcUnderWay =>
    \A t \in Tcp!Thread : tcPc[t] \in TcMid => "RUNNING" \in tcReg[t]

(* Only the thread created last reads; RUNNING is up while it does, from   *)
(* its first update on, and nothing is started beside it.                  *)
TcOneReads ==
  \A r \in Helper : tcPc[r] \in TcReading =>
    /\ r = tcReader
    /\ tcPc[r] \in TcUnderWay => "RUNNING" \in tcFlags
    /\ tcPc[r] \in {"born", "born1", "born2", "sockopt"} => tcPc["ctl"] = "idle"
    /\ tcPc["ctl"] \notin {"stop3", "stop4", "stop5"} \cup TcStart

(* A client is deleted after its reader has returned.                      *)
TcDeleting ==
  /\ \/ tcPc["ctl"] \in TcDelete
     \/ tcRet["ctl"] = <<"free">>
     \/ tcFreed
     => \A r \in Helper : tcPc[r] \in {"unborn", "done"}
  /\ tcFreed => tcPc["ctl"] = "idle"

TcClosing(t) == tcPc[t] \in {"close", "hangup"}

(* The socket, while ctl and the reader close it, alone or together.       *)
TcSocket ==
  /\ tcOpen \subseteq {tcSock} /\ tcTold \in {0, 1, 2} /\ tcRaced \in BOOLEAN
  /\ tcSock # "none" => tcTold = 0
  /\ tcSock = "none" => tcOpen = {}
  /\ tcSock = "none" \/ tcSock \in tcOpen \/ \E t \in Tcp!Thread : tcPc[t] = "hangup"
  /\ tcTold = 2 => tcRaced
  /\ \A t \in Tcp!Thread : TcClosing(t) =>
       /\ tcTold \in {0, 1} /\ (tcTold = 1 => tcRaced)
       /\ tcPc[t] = "hangup" => tcOpen = {}
       /\ tcPc["ctl"] = "connect" => tcSock # "none"
  /\ \A t, u \in Tcp!Thread : TcClosing(t) /\ TcClosing(u) /\ t # u => tcTold = 0 /\ tcRaced
  /\ \/ tcFreed
     \/ tcPc["ctl"] = "free"
     \/ tcRet["ctl"] = <<"free">> /\ tcPc["ctl"] \in TcEnding \ {"disconnect", "close", "hangup"}
     => tcSock = "none"

(* The invariant of TcpClient.                                             *)
TcInv == TcType /\ TcRegs /\ TcOneReads /\ TcDeleting /\ TcSocket

(* A client that was just created has no thread and no socket.             *)
LEMMA TcInit == Tcp!Init => TcInv
<1> SUFFICES ASSUME Tcp!Init PROVE TcInv
  OBVIOUS
<1>1. /\ tcPc = [t \in Tcp!Thread |-> tcPc[t]] /\ tcRet = [t \in Tcp!Thread |-> <<>>]
      /\ tcReg = [t \in Tcp!Thread |-> tcReg[t]]
      /\ \A r \in Helper : tcPc[r] = "unborn" /\ tcRet[r] = <<>>
      /\ tcPc["ctl"] = "idle" /\ tcRet["ctl"] = <<>>
  BY NamesAssumption DEF Tcp!Init, Tcp!Thread
<1>2. \A t \in Tcp!Thread : tcPc[t] \in {"unborn", "idle"}
  BY <1>1 DEF Tcp!Thread
<1>3. TcType
  BY <1>1 DEF Tcp!Init, TcType, TcControlAt
<1>4. TcRegs /\ TcOneReads /\ TcDeleting
  BY <1>1 DEF Tcp!Init, TcRegs, TcOneReads, TcDeleting, TcUnderWay, TcReading, TcEnding, TcDelete
<1>5. TcSocket
  <2>1. /\ tcSock = "none" /\ tcOpen = {} /\ tcTold = 0 /\ tcRaced = FALSE
        /\ \A t \in Tcp!Thread : ~TcClosing(t)
    BY <1>2 DEF Tcp!Init, Tcp!None, TcClosing
  <2>2. tcTold \in {0, 1, 2} /\ tcTold # 2 /\ tcOpen \subseteq {tcSock}
    BY <2>1
  <2> QED BY <2>1, <2>2, Zenon DEF TcSocket
<1> QED BY <1>3, <1>4, <1>5 DEF TcInv

(* A step of thread t alone: where it goes, and what it returns to.        *)
TcMoves(t) ==
  /\ tcPc' = [tcPc EXCEPT ![t] = tcPc'[t]] /\ tcRet' = [tcRet EXCEPT ![t] = tcRet'[t]]
  /\ tcReg' = [u \in Tcp!Thread |-> tcReg'[u]] /\ TcRegs'
  /\ UNCHANGED <<tcReader, tcFreed>>

TcSameSocket == UNCHANGED <<tcSock, tcOpen, tcTold, tcRaced>>

(* A step leaves RUNNING up for a reader that is under way.                *)
TcStays == \A r \in Helper : tcPc[r] \in TcUnderWay => "RUNNING" \in tcFlags'

(* As it does when it leaves the flags alone.                              *)
LEMMA TcSameFlags == TcInv /\ tcFlags' = tcFlags => TcStays
BY DEF TcInv, TcOneReads, TcStays, TcUnderWay

(* A flag update: nothing happens but the load, or the store puts back the *)
(* loaded flags with its own change.                                       *)
TcUpdates(t, at, mid, raised, lowered, to) ==
  /\ TcMoves(t) /\ TcSameSocket /\ tcHears' = tcHears /\ tcRet'[t] = tcRet[t]
  /\ \/ tcPc[t] = at /\ tcPc'[t] = mid /\ tcFlags' = tcFlags
     \/ tcPc[t] = mid /\ tcPc'[t] = to /\ raised \subseteq tcFlags'
  /\ "RUNNING" \notin lowered => TcStays

(* However the updates of the threads overlap, a load and a store keep     *)
(* RUNNING for a reader that is under way.                                 *)
LEMMA TcUpdate ==
  ASSUME TcInv, NEW t \in Tcp!Thread, NEW at, NEW mid, NEW raised, NEW lowered, NEW to,
         Tcp!Update(t, at, mid, raised, lowered, to),
         at \notin TcMid, mid \in TcMid, to \notin TcMid, raised \cap lowered = {},
         mid \in TcUnderWay => at \in TcUnderWay,
         to \in TcUnderWay => mid \in TcUnderWay \cup {"born1"}
  PROVE  TcUpdates(t, at, mid, raised, lowered, to)
<1> USE NamesAssumption DEF Tcp!Thread
<1>0. UNCHANGED <<tcSock, tcOpen, tcTold, tcRaced, tcHears, tcReader, tcFreed, tcRet>>
  BY DEF Tcp!Update, Tcp!socks
<1>r. \A r \in Helper : tcPc[r] \in TcUnderWay => "RUNNING" \in tcFlags
  BY DEF TcInv, TcOneReads, TcUnderWay
<1>1. CASE /\ tcPc[t] = at /\ tcPc' = [tcPc EXCEPT ![t] = mid]
           /\ tcReg' = [tcReg EXCEPT ![t] = tcFlags] /\ tcFlags' = tcFlags
  <2>1. /\ tcPc'[t] = mid /\ tcReg'[t] = tcFlags /\ tcReg' = [u \in Tcp!Thread |-> tcReg'[u]]
        /\ \A u \in Tcp!Thread : u # t => tcPc'[u] = tcPc[u] /\ tcReg'[u] = tcReg[u]
    BY <1>1 DEF TcInv, TcType
  <2>2. \A r \in Helper : tcPc'[r] \in TcUnderWay => tcPc[r] \in TcUnderWay
    BY <1>1, <2>1
  <2>3. TcRegs'
    BY <1>r, <2>1, <2>2 DEF TcInv, TcRegs
  <2> QED BY <1>0, <1>1, <1>r, <2>1, <2>3 DEF TcUpdates, TcMoves, TcSameSocket, TcStays, TcInv, TcType
<1>2. CASE /\ tcPc[t] = mid /\ tcPc' = [tcPc EXCEPT ![t] = to]
           /\ tcFlags' = (tcReg[t] \cup raised) \ lowered
           /\ tcReg' = [tcReg EXCEPT ![t] = {"none"}]
  <2>1. /\ tcPc'[t] = to /\ tcReg' = [u \in Tcp!Thread |-> tcReg'[u]]
        /\ \A u \in Tcp!Thread : u # t => tcPc'[u] = tcPc[u] /\ tcReg'[u] = tcReg[u]
    BY <1>2 DEF TcInv, TcType
  <2>2. "RUNNING" \notin lowered => TcStays
    BY <1>2 DEF TcInv, TcRegs, TcStays
  <2>3. TcRegs'
    <3>1. ASSUME NEW r \in Helper, tcPc'[r] \in TcUnderWay, NEW u \in Tcp!Thread, tcPc'[u] \in TcMid
          PROVE  "RUNNING" \in tcReg'[u]
      <4>1. u # t /\ tcPc[u] \in TcMid /\ tcReg'[u] = tcReg[u]
        BY <2>1, <3>1
      <4>2. CASE tcPc[r] \in TcUnderWay
        BY <3>1, <4>1, <4>2 DEF TcInv, TcRegs
      <4>3. CASE tcPc[r] \notin TcUnderWay
        <5>1. r = t /\ tcPc[r] = "born1"
          BY <1>2, <2>1, <3>1, <4>3
        <5>2. r = tcReader /\ tcPc["ctl"] = "idle"
          BY <5>1 DEF TcInv, TcOneReads, TcReading
        <5>3. u \in Helper /\ tcPc[u] \in TcReading
          BY <4>1, <5>2 DEF TcMid, TcInv, TcType, TcReading, TcEnding
        <5> QED BY <4>1, <5>1, <5>2, <5>3 DEF TcInv, TcOneReads
      <4> QED BY <4>2, <4>3
    <3> QED BY <3>1 DEF TcRegs
  <2> QED BY <1>0, <1>2, <2>1, <2>2, <2>3 DEF TcUpdates, TcMoves, TcSameSocket, TcInv, TcType
<1> QED BY <1>1, <1>2 DEF Tcp!Update, Tcp!Goto, Tcp!None

(* A step that leaves the flags alone.                                     *)
LEMMA TcNoUpdate ==
  ASSUME TcInv, NEW t \in Tcp!Thread, NEW to, tcPc' = [tcPc EXCEPT ![t] = to],
         tcPc[t] \notin TcMid, to \notin TcMid,
         t \in Helper /\ to \in TcUnderWay => tcPc[t] \in TcUnderWay,
         tcRet' = tcRet \/ (\E back : tcRet' = [tcRet EXCEPT ![t] = back]),
         UNCHANGED <<tcFlags, tcReg, tcReader, tcFreed>>
  PROVE  TcMoves(t) /\ tcPc'[t] = to
<1>1. /\ tcPc'[t] = to /\ \A u \in Tcp!Thread : u # t => tcPc'[u] = tcPc[u]
      /\ \A u \in Tcp!Thread : tcPc'[u] \in TcMid => tcPc[u] \in TcMid
      /\ \A r \in Helper : tcPc'[r] \in TcUnderWay => tcPc[r] \in TcUnderWay
  BY DEF TcInv, TcType, Tcp!Thread
<1>2. TcRegs'
  BY <1>1 DEF TcInv, TcRegs
<1> QED BY <1>1, <1>2 DEF TcInv, TcType, TcMoves

(* What a reader does: it keeps RUNNING up once it is under way.           *)
TcReaderGoes(r) ==
  /\ TcMoves(r) /\ tcHears' = tcHears
  /\ \/ tcPc[r] \in TcReading
     \/ tcPc[r] = "quit2" /\ tcPc'[r] = "done" /\ tcFlags' = tcFlags
  /\ tcPc'[r] \in (TcReading \ {"born"}) \cup {"quit2", "done"}
  /\ tcPc'[r] \in {"born1", "born2", "sockopt"} => tcPc[r] \in {"born", "born1", "born2"}
  /\ tcPc'[r] \in TcReading \ {"born1"} => "RUNNING" \in tcFlags'
  /\ tcRet'[r] \in IF tcPc'[r] \in TcEnding THEN {<<"quit">>, <<"loop">>} ELSE {<<>>}

(* A step of a reader that goes as TcReaderGoes says keeps the part of the *)
(* invariant that is about threads.                                        *)
LEMMA TcReaderKeeps ==
  ASSUME TcInv, NEW r \in Helper, TcReaderGoes(r)
  PROVE  TcType' /\ TcRegs' /\ TcOneReads' /\ TcDeleting'
<1> USE NamesAssumption DEF TcInv, Tcp!Thread, TcReaderGoes, TcMoves
<1>0. r # "ctl" /\ tcPc'["ctl"] = tcPc["ctl"] /\ tcRet'["ctl"] = tcRet["ctl"]
  BY DEF TcType
<1>1. TcType'
  <2>1. \A s \in Helper : s # r => tcPc'[s] = tcPc[s] /\ tcRet'[s] = tcRet[s]
    BY DEF TcType
  <2>2. \/ tcPc'[r] \in {"unborn", "quit2", "done"} \cup (TcReading \ TcEnding) /\ tcRet'[r] = <<>>
        \/ tcPc'[r] \in TcEnding /\ tcRet'[r] \in {<<"quit">>, <<"loop">>}
    OBVIOUS
  <2>3. tcPc' = [u \in Tcp!Thread |-> tcPc'[u]] /\ tcRet' = [u \in Tcp!Thread |-> tcRet'[u]]
    BY DEF TcType
  <2> QED BY <1>0, <2>1, <2>2, <2>3 DEF TcType
<1>2. TcDeleting'
  BY <1>0 DEF TcDeleting, TcReading, TcEnding, TcType
<1>3. TcOneReads'
  BY <1>0 DEF TcOneReads, TcReading, TcUnderWay, TcEnding, TcType
<1> QED BY <1>1, <1>2, <1>3

(* A step that neither closes nor opens a socket.                          *)
LEMMA TcKeepsSocket ==
  ASSUME TcInv, NEW t \in Tcp!Thread, TcMoves(t), TcSameSocket,
         tcPc[t] \notin {"close", "hangup"}, tcPc'[t] \notin {"close", "hangup"},
         t = "ctl" =>
           /\ tcPc'[t] = "connect" => \A u \in Tcp!Thread : tcPc[u] \notin {"close", "hangup"}
           /\ \/ tcPc'[t] = "free"
              \/ tcRet'[t] = <<"free">> /\ tcPc'[t] \in TcEnding \ {"disconnect", "close", "hangup"}
              => tcSock = "none"
  PROVE  TcSocket'
BY DEF TcInv, TcType, TcSocket, TcClosing, Tcp!Thread, TcMoves, TcSameSocket

(* The frame of the reading thread: its first update of the flags, its     *)
(* socket options, and its way out.                                        *)
LEMMA TcThreadFrame ==
  ASSUME TcInv, NEW r \in Helper, Tcp!ThreadFrame(r)
  PROVE  TcInv'
<1> USE NamesAssumption DEF Tcp!Thread, TcInv
<1>0. r \in Tcp!Thread /\ r # "ctl"
  OBVIOUS
<1>1. \/ TcUpdates(r, "born", "born1", {"RUNNING"}, {}, "born2")
      \/ TcUpdates(r, "quit", "quit1", {}, {"RUNNING"}, "quit2")
      \/ /\ TcMoves(r) /\ TcSameSocket /\ UNCHANGED <<tcHears, tcFlags, tcRet>>
         /\ <<tcPc[r], tcPc'[r]>> \in {<<"born2", "sockopt">>, <<"quit2", "done">>}
  <2>1. CASE Tcp!Broadcast(r, "born2", "sockopt")
    <3>1. tcPc' = [tcPc EXCEPT ![r] = "sockopt"] /\ tcPc[r] = "born2" /\ TcSameSocket
          /\ UNCHANGED <<tcHears, tcFlags, tcReg, tcReader, tcFreed, tcRet>>
      BY <2>1 DEF Tcp!Broadcast, Tcp!Goto, Tcp!socks, Tcp!flagVars, TcSameSocket
    <3> QED BY <1>0, <3>1, TcNoUpdate DEF TcMid, TcUnderWay, TcReading, TcEnding
  <2>2. CASE Tcp!Broadcast(r, "quit2", "done")
    <3>1. tcPc' = [tcPc EXCEPT ![r] = "done"] /\ tcPc[r] = "quit2" /\ TcSameSocket
          /\ UNCHANGED <<tcHears, tcFlags, tcReg, tcReader, tcFreed, tcRet>>
      BY <2>2 DEF Tcp!Broadcast, Tcp!Goto, Tcp!socks, Tcp!flagVars, TcSameSocket
    <3> QED BY <1>0, <3>1, TcNoUpdate DEF TcMid, TcUnderWay, TcReading, TcEnding
  <2> QED BY <1>0, <2>1, <2>2, TcUpdate DEF Tcp!ThreadFrame, TcMid, TcUnderWay, TcReading, TcEnding
<1>2. TcReaderGoes(r)
  BY <1>0, <1>1 DEF TcUpdates, TcStays, TcReaderGoes, TcReading, TcUnderWay, TcEnding, TcType, TcOneReads
<1>3. TcSocket'
  BY <1>0, <1>1, TcKeepsSocket DEF TcUpdates
<1> QED BY <1>2, <1>3, TcReaderKeeps

(* What a reader does between its flag updates, outside of a disconnect.   *)
LEMMA TcReads ==
  ASSUME TcInv, NEW r \in Helper,
         Tcp!SetTimeout(r) \/ Tcp!LoopHead(r) \/ Tcp!ReceiveData(r) \/ Tcp!Receive(r) \/ Tcp!DataIn(r)
  PROVE  TcInv'
<1> USE NamesAssumption DEF Tcp!Thread, TcInv
<1>0. r \in Tcp!Thread /\ r # "ctl"
  OBVIOUS
<1>1. /\ TcSameSocket /\ UNCHANGED <<tcHears, tcFlags, tcReg, tcReader, tcFreed>>
      /\ tcPc[r] \in {"sockopt", "loop", "recv", "data"}
      /\ \/ \E to \in {"quit", "loop", "recv", "data"} : tcPc' = [tcPc EXCEPT ![r] = to] /\ tcRet' = tcRet
         \/ \E after \in {"quit", "loop"} :
              tcPc' = [tcPc EXCEPT ![r] = "disconnect"] /\ tcRet' = [tcRet EXCEPT ![r] = <<after>> \o @]
  BY DEF Tcp!SetTimeout, Tcp!LoopHead, Tcp!ReceiveData, Tcp!Receive, Tcp!DataIn, Tcp!Step, Tcp!Goto, Tcp!Call,
         Tcp!Same, Tcp!socks, Tcp!flagVars, TcSameSocket
<1>2. tcRet[r] = <<>>
  BY <1>1 DEF TcType, TcEnding
<1>3. /\ TcMoves(r)
      /\ tcPc'[r] \in {"quit", "loop", "recv", "data", "disconnect"}
      /\ tcRet'[r] \in IF tcPc'[r] = "disconnect" THEN {<<"quit">>, <<"loop">>} ELSE {<<>>}
  <2>1. CASE \E to \in {"quit", "loop", "recv", "data"} : tcPc' = [tcPc EXCEPT ![r] = to] /\ tcRet' = tcRet
    BY <1>0, <1>1, <1>2, <2>1, TcNoUpdate DEF TcMid, TcUnderWay, TcReading, TcEnding
  <2>2. CASE \E after \in {"quit", "loop"} :
              tcPc' = [tcPc EXCEPT ![r] = "disconnect"] /\ tcRet' = [tcRet EXCEPT ![r] = <<after>> \o @]
    <3>1. PICK after \in {"quit", "loop"} :
              tcPc' = [tcPc EXCEPT ![r] = "disconnect"] /\ tcRet' = [tcRet EXCEPT ![r] = <<after>>]
      BY <1>2, <2>2, Stacks DEF TcType
    <3>2. TcMoves(r) /\ tcPc'[r] = "disconnect"
      BY <1>0, <1>1, <3>1, TcNoUpdate DEF TcMid, TcUnderWay, TcReading, TcEnding
    <3>3. tcRet'[r] = <<after>>
      BY <1>0, <3>1 DEF TcType
    <3> QED BY <3>2, <3>3
  <2> QED BY <1>1, <2>1, <2>2
<1>4. TcReaderGoes(r)
  BY <1>1, <1>3 DEF TcReaderGoes, TcReading, TcUnderWay, TcEnding, TcOneReads
<1>5. TcSocket'
  BY <1>0, <1>1, <1>3, TcKeepsSocket
<1> QED BY <1>4, <1>5, TcReaderKeeps

(* What ctl does: nothing is started beside a reader, and a reader is not  *)
(* left alone before its loop or in a deleted client.                      *)
TcControlGoes ==
  /\ TcMoves("ctl") /\ tcHears' \in BOOLEAN /\ ~tcFreed
  /\ TcStays
  /\ TcControlAt(tcPc'["ctl"], tcRet'["ctl"])
  /\ tcPc["ctl"] = "idle" => \A r \in Helper : tcPc[r] \notin {"born", "born1", "born2", "sockopt"}
  /\ tcPc'["ctl"] \in {"stop3", "stop4", "stop5"} \cup TcStart => \A r \in Helper : tcPc[r] \notin TcReading
  /\ tcPc'["ctl"] \in TcDelete \/ tcRet'["ctl"] = <<"free">> => \A r \in Helper : tcPc[r] \in {"unborn", "done"}

(* The same for a step of ctl that goes as TcControlGoes says.             *)
LEMMA TcControlKeeps ==
  ASSUME TcInv, TcControlGoes
  PROVE  TcType' /\ TcRegs' /\ TcOneReads' /\ TcDeleting'
<1> USE NamesAssumption DEF TcInv, Tcp!Thread, TcControlGoes, TcMoves
<1>0. \A r \in Helper : r # "ctl" /\ tcPc'[r] = tcPc[r] /\ tcRet'[r] = tcRet[r]
  BY DEF TcType
<1>1. TcType'
  <2>1. tcPc' = [u \in Tcp!Thread |-> tcPc'[u]] /\ tcRet' = [u \in Tcp!Thread |-> tcRet'[u]]
    BY DEF TcType
  <2> QED BY <1>0, <2>1 DEF TcType
<1>2. TcDeleting'
  BY <1>0 DEF TcDeleting
<1>3. TcOneReads'
  BY <1>0 DEF TcOneReads, TcStays, TcReading, TcUnderWay, TcEnding
<1> QED BY <1>1, <1>2, <1>3

(* TcpClient_disconnect, by ctl or by the reader.                          *)
LEMMA TcDisconnects ==
  ASSUME TcInv, NEW t \in Tcp!Thread, Tcp!TcpClient_disconnect(t)
  PROVE  TcInv'
<1> USE NamesAssumption DEF Tcp!Thread, TcInv
<1>1. /\ UNCHANGED <<tcHears, tcFlags, tcReg, tcReader, tcFreed, tcRet>>
      /\ \/ /\ tcPc[t] = "disconnect" /\ UNCHANGED <<tcSock, tcOpen, tcTold>>
            /\ tcPc' = [tcPc EXCEPT ![t] = IF tcSock # "none" THEN "close" ELSE "async"]
            /\ tcRaced' = (tcRaced \/ (tcSock # "none" /\ \E u \in Tcp!Thread \ {t} : TcClosing(u)))
         \/ /\ tcPc[t] = "close" /\ tcPc' = [tcPc EXCEPT ![t] = "hangup"]
            /\ tcOpen' = tcOpen \ {tcSock} /\ UNCHANGED <<tcSock, tcTold, tcRaced>>
         \/ /\ tcPc[t] = "hangup" /\ tcPc' = [tcPc EXCEPT ![t] = "async"]
            /\ tcSock' = "none" /\ tcTold' = tcTold + 1 /\ UNCHANGED <<tcOpen, tcRaced>>
  BY DEF Tcp!TcpClient_disconnect, Tcp!TestSocket, Tcp!Closing, TcClosing, Tcp!Goto, Tcp!socks, Tcp!flagVars, Tcp!None
<1>2. /\ TcMoves(t) /\ tcRet'[t] = tcRet[t] /\ \A u \in Tcp!Thread : u # t => tcPc'[u] = tcPc[u]
      /\ tcPc[t] \in {"disconnect", "close", "hangup"} /\ tcPc'[t] \in {"close", "hangup", "async"}
  BY <1>1, TcNoUpdate DEF TcMid, TcType, TcUnderWay, TcReading, TcEnding
<1>a. /\ tcRet'["ctl"] = tcRet["ctl"] /\ tcFreed' = tcFreed
      /\ tcPc'["ctl"] \notin {"connect", "free"} \/ tcPc'["ctl"] = tcPc["ctl"]
  BY <1>1, <1>2
<1>b. \A u, v \in Helper : TcClosing(u) /\ TcClosing(v) => u = v
  BY DEF TcClosing, TcOneReads, TcReading, TcEnding, TcUnderWay
<1>c. /\ \A u \in Tcp!Thread : u # t => (TcClosing(u)' <=> TcClosing(u))
      /\ TcClosing(t)' <=> tcPc'[t] # "async"
  BY <1>2 DEF TcClosing
<1>s. TcSocket'
  <2>1. CASE /\ tcPc[t] = "disconnect" /\ UNCHANGED <<tcSock, tcOpen, tcTold>>
             /\ tcPc'[t] = IF tcSock # "none" THEN "close" ELSE "async"
             /\ tcRaced' = (tcRaced \/ (tcSock # "none" /\ \E u \in Tcp!Thread \ {t} : TcClosing(u)))
    <3>0. \A u \in Tcp!Thread : tcPc'[u] = "hangup" <=> tcPc[u] = "hangup"
      BY <1>2, <2>1
    <3>1. CASE tcSock = "none"
      <4>1. tcPc'[t] = "async" /\ tcRaced' = tcRaced
        BY <2>1, <3>1 DEF TcSocket, TcClosing
      <4> QED BY <1>2, <1>a, <1>c, <2>1, <3>0, <3>1, <4>1 DEF TcSocket, TcClosing
    <3>2. CASE tcSock # "none"
      <4>1. tcTold = 0 /\ tcTold' = 0 /\ tcPc'[t] = "close" /\ tcRaced' \in BOOLEAN
        BY <2>1, <3>2 DEF TcSocket, TcClosing
      <4>2. ASSUME NEW u \in Tcp!Thread, NEW v \in Tcp!Thread, TcClosing(u)', TcClosing(v)', u # v
            PROVE  tcRaced'
        BY <1>c, <2>1, <3>2, <4>2 DEF TcSocket, TcClosing
      <4>3. \A u \in Tcp!Thread : tcPc'[u] = "hangup" => tcOpen' = {}
        BY <2>1, <3>0 DEF TcSocket, TcClosing
      <4>4. ~ (tcFreed \/ tcPc'["ctl"] = "free"
              \/ (tcRet["ctl"] = <<"free">> /\ tcPc'["ctl"] \in TcEnding \ {"disconnect", "close", "hangup"}))
        BY <1>2, <1>a, <2>1, <3>2 DEF TcSocket, TcClosing
      <4> QED BY <1>2, <1>a, <2>1, <3>0, <3>2, <4>1, <4>2, <4>3, <4>4 DEF TcSocket, TcClosing
    <3> QED BY <3>1, <3>2
  <2>2. CASE tcPc[t] = "close" /\ tcPc'[t] = "hangup" /\ tcOpen' = tcOpen \ {tcSock} /\ UNCHANGED <<tcSock, tcTold, tcRaced>>
    <3>1. tcOpen' = {}
      BY <2>2 DEF TcSocket, TcClosing
    <3>2. \A u \in Tcp!Thread : TcClosing(u)' <=> TcClosing(u)
      BY <1>c, <2>2 DEF TcClosing
    <3> QED BY <1>2, <1>a, <2>2, <3>1, <3>2 DEF TcSocket, TcEnding, TcClosing
  <2>3. CASE tcPc[t] = "hangup" /\ tcPc'[t] = "async" /\ tcSock' = "none" /\ tcTold' = tcTold + 1 /\ UNCHANGED <<tcOpen, tcRaced>>
    <3>1. TcClosing(t) /\ ~TcClosing(t)' /\ tcOpen' = {} /\ tcTold \in {0, 1} /\ (tcTold = 1 => tcRaced)
      BY <1>c, <2>3 DEF TcSocket, TcClosing
    <3>2. \A u \in Tcp!Thread : TcClosing(u)' => u # t /\ TcClosing(u) /\ tcTold = 0 /\ tcRaced
      BY <1>c, <3>1 DEF TcSocket, TcClosing
    <3>3. \A u, v \in Tcp!Thread : TcClosing(u)' /\ TcClosing(v)' => u = v
      BY <1>b, <3>1, <3>2
    <3>4. \A u \in Tcp!Thread : TcClosing(u)' => tcPc'["ctl"] # "connect"
      BY <1>a, <1>b, <3>1, <3>2 DEF TcClosing
    <3>5. tcTold' \in {0, 1, 2} /\ (tcTold' = 2 => tcRaced') /\ ((\E u \in Tcp!Thread : TcClosing(u)') => tcTold' = 1 /\ tcRaced')
      BY <2>3, <3>1, <3>2
    <3>6. tcRaced' \in BOOLEAN
      BY <2>3 DEF TcSocket, TcClosing
    <3> QED BY <2>3, <3>1, <3>3, <3>4, <3>5, <3>6 DEF TcSocket, TcClosing
  <2> QED BY <1>1, <1>2, <2>1, <2>2, <2>3 DEF TcType
<1>3. CASE t \in Helper
  <2>1. TcReaderGoes(t)
    BY <1>1, <1>2, <1>3 DEF TcReaderGoes, TcReading, TcEnding, TcOneReads, TcType, TcUnderWay, TcStays
  <2> QED BY <1>s, <1>3, <2>1, TcReaderKeeps
<1>4. CASE t = "ctl"
  <2>1. TcControlGoes
    BY <1>1, <1>2, <1>4 DEF TcControlGoes, TcEnding, TcType, TcControlAt, TcStart, TcDelete, TcDeleting, TcStays, TcOneReads, TcUnderWay, TcReading
  <2> QED BY <1>s, <2>1, TcControlKeeps
<1> QED BY <1>3, <1>4

(* TcpClient_read_stop_async, by ctl or by the reader.                     *)
LEMMA TcStopsAsync ==
  ASSUME TcInv, NEW t \in Tcp!Thread, Tcp!TcpClient_read_stop_async(t)
  PROVE  TcInv'
<1> USE NamesAssumption DEF Tcp!Thread, TcInv
<1> DEFINE InCall == tcPc'[t] \in TcEnding \ {"disconnect", "close", "hangup"} /\ tcRet'[t] = tcRet[t]
           Returns == tcPc'[t] = Head(tcRet[t]) /\ tcRet'[t] = Tail(tcRet[t])
<1>1. /\ TcMoves(t) /\ TcSameSocket /\ tcHears' = tcHears
      /\ tcPc[t] \in TcEnding \ {"disconnect", "close", "hangup"}
      /\ TcStays
      /\ InCall \/ Returns
  <2>1. CASE Tcp!Update(t, "async", "async1", {"STOP"}, {}, "async2")
    <3>1. TcUpdates(t, "async", "async1", {"STOP"}, {}, "async2")
      BY <2>1, TcUpdate DEF TcMid, TcUnderWay, TcReading, TcEnding
    <3> QED BY <3>1 DEF TcUpdates, TcEnding, TcStays
  <2>2. CASE Tcp!Step(t, "async2", "async3")
    <3>1. /\ tcPc[t] = "async2" /\ tcPc' = [tcPc EXCEPT ![t] = "async3"] /\ TcSameSocket
          /\ UNCHANGED <<tcHears, tcFlags, tcReg, tcReader, tcFreed, tcRet>>
      BY <2>2 DEF Tcp!Step, Tcp!Goto, Tcp!Same, Tcp!socks, Tcp!flagVars, TcSameSocket
    <3>2. TcMoves(t) /\ tcPc'[t] = "async3"
      BY <3>1, TcNoUpdate DEF TcMid, TcUnderWay, TcReading, TcEnding
    <3> QED BY <3>1, <3>2, TcSameFlags DEF TcEnding
  <2>3. CASE Tcp!Update(t, "async3", "async4", {}, {"CREATED"}, "async5")
    <3>1. TcUpdates(t, "async3", "async4", {}, {"CREATED"}, "async5")
      BY <2>3, TcUpdate DEF TcMid, TcUnderWay, TcReading, TcEnding
    <3> QED BY <3>1 DEF TcUpdates, TcEnding, TcStays
  <2>4. CASE tcPc[t] \in {"async2", "async5"} /\ Tcp!Return(t) /\ Tcp!Same
    <3>1. /\ tcPc' = [tcPc EXCEPT ![t] = Head(tcRet[t])] /\ tcRet' = [tcRet EXCEPT ![t] = Tail(tcRet[t])]
          /\ TcSameSocket /\ UNCHANGED <<tcHears, tcFlags, tcReg, tcReader, tcFreed>>
      BY <2>4 DEF Tcp!Return, Tcp!Goto, Tcp!Same, Tcp!socks, Tcp!flagVars, TcSameSocket
    <3>2. Head(tcRet[t]) \in {"quit", "loop", "idle", "free"}
      BY <2>4, Stacks DEF TcType, TcControlAt, TcEnding, TcReading, TcStart, TcDelete, TcUnderWay
    <3>3. TcMoves(t) /\ tcPc'[t] = Head(tcRet[t])
      BY <2>4, <3>1, <3>2, TcNoUpdate DEF TcMid, TcUnderWay, TcReading, TcEnding
    <3>4. tcRet'[t] = Tail(tcRet[t])
      BY <3>1 DEF TcType
    <3> QED BY <2>4, <3>1, <3>3, <3>4, TcSameFlags DEF TcEnding
  <2> QED BY <2>1, <2>2, <2>3, <2>4 DEF Tcp!TcpClient_read_stop_async
<1> HIDE DEF InCall, Returns
<1>2. CASE t \in Helper
  <2>1. tcRet[t] \in {<<"quit">>, <<"loop">>} /\ tcPc[t] \in TcReading
    BY <1>1, <1>2 DEF TcType, TcReading, TcEnding, TcUnderWay
  <2>2. CASE InCall
    <3>1. TcReaderGoes(t)
      BY <1>1, <1>2, <2>1, <2>2 DEF TcReaderGoes, TcReading, TcEnding, TcOneReads, InCall, TcUnderWay, TcStays
    <3>2. TcSocket'
      BY <1>1, <1>2, <2>2, TcKeepsSocket DEF InCall, TcEnding
    <3> QED BY <1>2, <3>1, <3>2, TcReaderKeeps
  <2>3. CASE Returns
    <3>1. tcPc'[t] \in {"quit", "loop"} /\ tcRet'[t] = <<>>
      BY <2>1, <2>3, Stacks DEF Returns
    <3>2. TcReaderGoes(t)
      BY <1>1, <1>2, <2>1, <3>1 DEF TcReaderGoes, TcReading, TcEnding, TcOneReads, TcUnderWay, TcStays
    <3>3. TcSocket'
      BY <1>1, <1>2, <3>1, TcKeepsSocket DEF TcEnding
    <3> QED BY <1>2, <3>2, <3>3, TcReaderKeeps
  <2> QED BY <1>1, <2>2, <2>3
<1>3. CASE t = "ctl"
  <2>1. tcRet[t] \in {<<"idle">>, <<"free">>} /\ ~tcFreed
    BY <1>1, <1>3 DEF TcType, TcControlAt, TcDeleting, TcEnding, TcStart, TcDelete
  <2>2. tcRet[t] = <<"free">> => (\A r \in Helper : tcPc[r] \in {"unborn", "done"}) /\ tcSock = "none"
    BY <1>1, <1>3 DEF TcDeleting, TcSocket, TcClosing
  <2>3. CASE InCall
    <3>1. TcControlGoes
      BY <1>1, <1>3, <2>1, <2>2, <2>3 DEF TcControlGoes, TcControlAt, TcEnding, TcStart, TcDelete, TcType, InCall, TcStays, TcOneReads, TcUnderWay, TcReading
    <3>2. TcSocket'
      BY <1>1, <1>3, <2>2, <2>3, TcKeepsSocket DEF InCall, TcEnding
    <3> QED BY <3>1, <3>2, TcControlKeeps
  <2>4. CASE Returns
    <3>1. /\ tcPc'[t] \in {"idle", "free"} /\ tcRet'[t] = <<>>
          /\ tcPc'[t] = "free" => tcRet[t] = <<"free">>
      BY <2>1, <2>4, Stacks DEF Returns
    <3>2. TcControlGoes
      BY <1>1, <1>3, <2>1, <2>2, <3>1 DEF TcControlGoes, TcControlAt, TcEnding, TcStart, TcDelete, TcType, TcStays, TcOneReads, TcUnderWay, TcReading
    <3>3. TcSocket'
      BY <1>1, <1>3, <2>2, <3>1, TcKeepsSocket DEF TcEnding
    <3> QED BY <3>2, <3>3, TcControlKeeps
  <2> QED BY <1>1, <2>3, <2>4
<1> QED BY <1>2, <1>3

(* A call of ctl moves on, calls or returns: what that does to its stack.  *)
TcCtlStep(at, to, back) ==
  /\ tcPc["ctl"] = at /\ tcPc'["ctl"] = to /\ tcRet'["ctl"] = back /\ TcMoves("ctl")
  /\ tcFlags' = tcFlags

(* A step of ctl outside of an update is a TcCtlStep.                      *)
LEMMA TcCtlSteps ==
  ASSUME TcInv, NEW at, NEW to, at \notin TcMid, to \notin TcMid, tcPc["ctl"] = at,
         Tcp!Goto("ctl", to), UNCHANGED <<tcFlags, tcReg, tcReader, tcFreed>>
  PROVE  /\ tcRet' = tcRet => TcCtlStep(at, to, tcRet["ctl"])
         /\ \A back : tcRet' = [tcRet EXCEPT !["ctl"] = back] => TcCtlStep(at, to, back)
<1>1. "ctl" \in Tcp!Thread
  BY DEF Tcp!Thread
<1> USE <1>1, NamesAssumption DEF Tcp!Goto
<1>2. ASSUME tcRet' = tcRet PROVE TcCtlStep(at, to, tcRet["ctl"])
  BY <1>2, TcNoUpdate DEF TcCtlStep, TcMid, TcUnderWay, TcReading, TcEnding
<1>3. ASSUME NEW back, tcRet' = [tcRet EXCEPT !["ctl"] = back] PROVE TcCtlStep(at, to, back)
  <2>1. tcRet'["ctl"] = back
    BY <1>3 DEF TcInv, TcType
  <2> QED BY <1>3, <2>1, TcNoUpdate DEF TcCtlStep, TcMid, TcUnderWay, TcReading, TcEnding
<1> QED BY <1>2, <1>3

(* TcpClient_read_stop and TcpClient_read_thread_wait return without a     *)
(* reader: one that was joined, or has lowered RUNNING.                    *)
LEMMA TcReadStop ==
  ASSUME TcInv, Tcp!TcpClient_read_stop \/ Tcp!TcpClient_read_thread_wait
  PROVE  TcInv'
<1> USE NamesAssumption DEF Tcp!Thread, TcInv
<1> DEFINE NoReader == \A r \in Helper : tcPc[r] \notin TcReading
           p == tcPc["ctl"]
           q == tcPc'["ctl"]
           Stop == {"stop", "stop1", "stop2", "join", "stop3", "stop4", "stop5"}
           Wait == {"await", "block", "blocked"}
<1>0. ASSUME p # "idle", "RUNNING" \notin tcFlags PROVE NoReader
  BY <1>0 DEF TcOneReads, TcUnderWay
<1>1. /\ TcMoves("ctl") /\ TcSameSocket /\ tcHears' = tcHears
      /\ TcStays
      /\ p \in Stop \cup Wait /\ (q \in {"stop3", "stop4", "stop5"} => NoReader)
      /\ \/ tcRet'["ctl"] = tcRet["ctl"] /\ q \in Stop \cup Wait /\ (q \in Stop => p \in Stop)
         \/ q = Head(tcRet["ctl"]) /\ tcRet'["ctl"] = Tail(tcRet["ctl"]) /\ NoReader
  <2>1. CASE Tcp!Update("ctl", "stop1", "stop2", {"STOP"}, {}, "join")
    <3>1. TcUpdates("ctl", "stop1", "stop2", {"STOP"}, {}, "join")
      BY <2>1, TcUpdate DEF TcMid, TcUnderWay, TcReading, TcEnding
    <3> QED BY <3>1 DEF TcUpdates, TcStays
  <2>2. CASE Tcp!Update("ctl", "stop3", "stop4", {}, {"CREATED"}, "stop5")
    <3>1. TcUpdates("ctl", "stop3", "stop4", {}, {"CREATED"}, "stop5")
      BY <2>2, TcUpdate DEF TcMid, TcUnderWay, TcReading, TcEnding
    <3>2. NoReader
      BY <3>1 DEF TcUpdates, TcOneReads, TcUnderWay, TcStays
    <3> QED BY <3>1, <3>2 DEF TcUpdates, TcStays
  <2>3. CASE /\ (p \in {"stop", "await"} /\ "RUNNING" \notin tcFlags) \/ p = "stop5"
             /\ Tcp!Return("ctl") /\ Tcp!Same
    <3>1. NoReader
      BY <1>0, <2>3 DEF TcOneReads, TcUnderWay
    <3>2. /\ Tcp!Goto("ctl", Head(tcRet["ctl"])) /\ tcRet' = [tcRet EXCEPT !["ctl"] = Tail(tcRet["ctl"])]
          /\ TcSameSocket /\ UNCHANGED <<tcHears, tcFlags, tcReg, tcReader, tcFreed>>
      BY <2>3 DEF Tcp!Return, Tcp!Same, Tcp!socks, Tcp!flagVars, TcSameSocket
    <3>3. Head(tcRet["ctl"]) \in {"idle", "start1", "start"}
      BY <2>3, Stacks DEF TcType, TcControlAt, TcEnding, TcStart, TcDelete
    <3>4. TcCtlStep(p, Head(tcRet["ctl"]), Tail(tcRet["ctl"]))
      BY <2>3, <3>2, <3>3, TcCtlSteps DEF TcMid
    <3> QED BY <2>3, <3>1, <3>2, <3>3, <3>4, TcSameFlags DEF TcCtlStep
  <2>4. CASE \E to :
               /\ \/ p = "stop" /\ to \in {"stop1", "await"}
                  \/ p = "join" /\ to = "stop3" /\ ~Tcp!Live(tcReader)
                  \/ p \in Wait /\ to \in Wait
               /\ Tcp!Goto("ctl", to)
               /\ UNCHANGED <<tcRet, tcHears, tcFlags, tcReg, tcReader, tcFreed, tcSock, tcOpen, tcTold, tcRaced>>
    <3>1. PICK to :
               /\ \/ p = "stop" /\ to \in {"stop1", "await"}
                  \/ p = "join" /\ to = "stop3" /\ ~Tcp!Live(tcReader)
                  \/ p \in Wait /\ to \in Wait
               /\ Tcp!Goto("ctl", to)
               /\ UNCHANGED <<tcRet, tcHears, tcFlags, tcReg, tcReader, tcFreed, tcSock, tcOpen, tcTold, tcRaced>>
      BY <2>4
    <3>2. TcCtlStep(p, to, tcRet["ctl"]) /\ TcSameSocket
      BY <3>1, TcCtlSteps DEF TcMid, TcSameSocket
    <3>3. p = "join" => NoReader
      BY <3>1 DEF TcOneReads, Tcp!Live, TcReading, TcEnding, TcUnderWay
    <3> QED BY <3>1, <3>2, <3>3, TcSameFlags DEF TcCtlStep
  <2> QED BY <2>1, <2>2, <2>3, <2>4 DEF Tcp!TcpClient_read_stop, Tcp!TcpClient_read_thread_wait, Tcp!Step,
             Tcp!Same, Tcp!socks, Tcp!flagVars
<1>2. tcRet["ctl"] \in {<<"idle">>, <<"start1", "idle">>, <<"start", "idle">>} /\ ~tcFreed
  BY <1>1 DEF TcType, TcControlAt, TcEnding, TcStart, TcDelete, TcDeleting
<1>3. TcControlGoes
  <2>1. CASE tcRet'["ctl"] = tcRet["ctl"] /\ q \in Stop \cup Wait /\ (q \in Stop => p \in Stop)
    BY <1>1, <1>2, <2>1 DEF TcControlGoes, TcType, TcControlAt, TcEnding, TcStart, TcDelete, TcStays, TcOneReads, TcUnderWay, TcReading
  <2>2. CASE q = Head(tcRet["ctl"]) /\ tcRet'["ctl"] = Tail(tcRet["ctl"]) /\ NoReader
    <3>1. \/ q = "idle" /\ tcRet'["ctl"] = <<>>
          \/ q \in {"start1", "start"} /\ tcRet'["ctl"] = <<"idle">>
      <4>1. CASE tcRet["ctl"] = <<"idle">>
        BY <2>2, <4>1
      <4>2. CASE tcRet["ctl"] = <<"start1", "idle">>
        BY <2>2, <4>2
      <4>3. CASE tcRet["ctl"] = <<"start", "idle">>
        BY <2>2, <4>3
      <4> QED BY <1>2, <4>1, <4>2, <4>3
    <3> HIDE DEF p, q
    <3>2. q \notin {"stop3", "stop4", "stop5"} \cup TcDelete /\ tcRet'["ctl"] # <<"free">>
      BY <3>1 DEF TcDelete
    <3>3. TcControlAt(q, tcRet'["ctl"])
      BY <3>1 DEF TcControlAt, TcStart
    <3>4. p # "idle" /\ tcHears' \in BOOLEAN
      BY <1>1 DEF TcType
    <3> QED BY <1>1, <1>2, <2>2, <3>2, <3>3, <3>4 DEF TcControlGoes, p, q, TcStays, TcOneReads, TcUnderWay, TcReading
  <2> QED BY <1>1, <2>1, <2>2
<1>4. TcSocket'
  <2>1. q \notin {"close", "hangup", "connect", "free"} \cup TcEnding
    BY <1>1, <1>2, Stacks DEF TcEnding
  <2> QED BY <1>1, <2>1, TcKeepsSocket
<1> QED BY <1>3, <1>4, TcControlKeeps

(* pthread_create of TcpClient_read_start.                                 *)
LEMMA TcCreates ==
  ASSUME TcInv, NEW r \in Helper, tcPc["ctl"] = "create", ~Tcp!Live(r), tcReader' = r,
         tcPc' = [tcPc EXCEPT ![r] = "born", !["ctl"] = Head(tcRet["ctl"])],
         tcRet' = [tcRet EXCEPT !["ctl"] = Tail(@)], TcSameSocket,
         UNCHANGED <<tcHears, tcFlags, tcReg, tcFreed>>
  PROVE  TcInv'
<1> USE NamesAssumption DEF Tcp!Thread, TcInv
<1>1. tcRet["ctl"] = <<"idle">> /\ tcRet[r] = <<>> /\ tcPc[r] \in {"unborn", "done"} /\ ~tcFreed
  BY DEF TcType, TcControlAt, TcEnding, TcStart, TcDelete, Tcp!Live, TcDeleting, TcReading, TcUnderWay
<1>2. Head(tcRet["ctl"]) = "idle" /\ Tail(tcRet["ctl"]) = <<>>
  BY <1>1, Stacks
<1>3. /\ tcPc'["ctl"] = "idle" /\ tcPc'[r] = "born" /\ tcRet'["ctl"] = <<>>
      /\ \A u \in Helper : u # r => tcPc'[u] = tcPc[u]
      /\ \A u \in Helper : tcRet'[u] = tcRet[u]
      /\ tcPc' = [u \in Tcp!Thread |-> tcPc'[u]] /\ tcRet' = [u \in Tcp!Thread |-> tcRet'[u]]
  BY <1>2 DEF TcType
<1>4. \A u \in Helper : tcPc[u] \notin TcReading
  BY DEF TcOneReads, TcStart, TcUnderWay
<1>5. TcType'
  BY <1>1, <1>3 DEF TcType, TcControlAt, TcReading, TcEnding, TcUnderWay
<1>6. TcRegs'
  BY <1>3, <1>4 DEF TcRegs, TcUnderWay
<1>a. "ctl" # r /\ tcReader' = r /\ tcFreed' = tcFreed
  OBVIOUS
<1>7. TcOneReads' /\ TcDeleting'
  <2>1. TcOneReads'
    BY <1>3, <1>4, <1>a DEF TcOneReads, TcStart, TcUnderWay
  <2>2. TcDeleting'
    BY <1>1, <1>3, <1>a DEF TcDeleting, TcDelete
  <2> QED BY <2>1, <2>2
<1>8. TcSocket'
  <2>1. \A u \in Tcp!Thread : tcPc[u] \notin {"close", "hangup"} /\ tcPc'[u] \notin {"close", "hangup"}
    BY <1>3, <1>4 DEF TcReading, TcEnding, TcUnderWay
  <2>2. tcSock = "none" \/ tcSock \in tcOpen
    BY <2>1 DEF TcSocket, TcClosing
  <2>3. UNCHANGED <<tcSock, tcOpen, tcTold, tcRaced, tcFreed>>
    BY DEF TcSameSocket
  <2>4. tcOpen \subseteq {tcSock} /\ tcTold \in {0, 1, 2} /\ tcRaced \in BOOLEAN /\ (tcTold = 2 => tcRaced)
        /\ (tcSock # "none" => tcTold = 0) /\ (tcSock = "none" => tcOpen = {})
    BY DEF TcSocket, TcClosing
  <2>5. ~tcFreed' /\ tcPc'["ctl"] # "free" /\ tcPc'["ctl"] \notin TcEnding
    BY <1>1, <1>3, <2>3 DEF TcEnding
  <2> QED BY <2>1, <2>2, <2>3, <2>4, <2>5 DEF TcSocket, TcClosing
<1> QED BY <1>5, <1>6, <1>7, <1>8

(* TcpClient_read_start starts a reader where there is none.               *)
LEMMA TcReadStart ==
  ASSUME TcInv, Tcp!TcpClient_read_start
  PROVE  TcInv'
<1> USE NamesAssumption DEF Tcp!Thread, TcInv
<1> DEFINE NoReader == \A r \in Helper : tcPc[r] \notin TcReading
           p == tcPc["ctl"]
           q == tcPc'["ctl"]
<1>1. CASE p \in {"start", "start1", "create2"} /\ Tcp!Same
           /\ \/ Tcp!Return("ctl")
              \/ p = "start" /\ Tcp!Call("ctl", "stop", "start1")
              \/ p = "start1" /\ Tcp!Goto("ctl", "lower") /\ UNCHANGED tcRet
  <2>1. /\ TcSameSocket /\ UNCHANGED <<tcHears, tcFlags, tcReg, tcReader, tcFreed>>
        /\ tcRet["ctl"] = <<"idle">> /\ ~tcFreed /\ (p = "start1" => NoReader)
    BY <1>1 DEF Tcp!Same, Tcp!socks, Tcp!flagVars, TcSameSocket, TcType, TcControlAt, TcStart, TcDelete, TcEnding,
                TcDeleting, TcOneReads
  <2>2. \/ TcCtlStep(p, "idle", <<>>)
        \/ TcCtlStep(p, "stop", <<"start1", "idle">>)
        \/ p = "start1" /\ TcCtlStep(p, "lower", <<"idle">>)
    <3>1. CASE Tcp!Return("ctl")
      <4>1. Head(tcRet["ctl"]) = "idle" /\ Tail(tcRet["ctl"]) = <<>>
        BY <2>1, Stacks
      <4> QED BY <1>1, <2>1, <3>1, <4>1, TcCtlSteps DEF Tcp!Return, TcMid
    <3>2. CASE Tcp!Call("ctl", "stop", "start1")
      <4>1. <<"start1">> \o tcRet["ctl"] = <<"start1", "idle">>
        BY <2>1, Stacks
      <4> QED BY <1>1, <2>1, <3>2, <4>1, TcCtlSteps DEF Tcp!Call, TcMid
    <3>3. CASE p = "start1" /\ Tcp!Goto("ctl", "lower") /\ UNCHANGED tcRet
      BY <1>1, <2>1, <3>3, TcCtlSteps DEF TcMid
    <3> QED BY <1>1, <3>1, <3>2, <3>3
  <2>3. TcControlGoes
    <3>1. TcControlAt(q, tcRet'["ctl"]) /\ (q \in TcStart => NoReader) /\ TcMoves("ctl") /\ tcFlags' = tcFlags
      BY <2>1, <2>2 DEF TcCtlStep, TcControlAt, TcStart
    <3>2. q \notin {"stop3", "stop4", "stop5"} \cup TcDelete /\ tcRet'["ctl"] # <<"free">>
      BY <2>2 DEF TcCtlStep, TcDelete
    <3> QED BY <1>1, <2>1, <3>1, <3>2 DEF TcControlGoes, TcType, TcStays, TcOneReads, TcUnderWay, TcReading
  <2>4. TcSocket'
    BY <1>1, <2>1, <2>2, TcKeepsSocket DEF TcCtlStep, TcEnding
  <2> QED BY <2>3, <2>4, TcControlKeeps
<1>2. CASE \/ Tcp!Update("ctl", "lower", "lower1", {}, {"STOP"}, "raise")
           \/ Tcp!Update("ctl", "raise", "raise1", {"CREATED"}, {}, "create")
           \/ Tcp!Update("ctl", "create", "create1", {}, {"CREATED"}, "create2")
  <2>1. \/ TcUpdates("ctl", "lower", "lower1", {}, {"STOP"}, "raise")
        \/ TcUpdates("ctl", "raise", "raise1", {"CREATED"}, {}, "create")
        \/ TcUpdates("ctl", "create", "create1", {}, {"CREATED"}, "create2")
    BY <1>2, TcUpdate DEF TcMid, TcUnderWay, TcReading, TcEnding
  <2>2. /\ TcMoves("ctl") /\ TcSameSocket /\ tcHears' = tcHears /\ tcRet'["ctl"] = tcRet["ctl"]
        /\ TcStays
        /\ p \in TcStart /\ q \in TcStart
    BY <2>1 DEF TcUpdates, TcStart, TcStays
  <2>3. tcRet["ctl"] = <<"idle">> /\ ~tcFreed /\ NoReader
    BY <2>2 DEF TcType, TcControlAt, TcStart, TcDelete, TcEnding, TcDeleting, TcOneReads, TcUnderWay
  <2>4. TcControlGoes
    BY <2>2, <2>3 DEF TcControlGoes, TcControlAt, TcStart, TcDelete, TcType, TcStays, TcOneReads, TcUnderWay, TcReading
  <2>5. TcSocket'
    BY <2>2, <2>3, TcKeepsSocket DEF TcStart, TcEnding
  <2> QED BY <2>4, <2>5, TcControlKeeps
<1>3. CASE /\ p = "create"
           /\ \E r \in Helper :
                /\ ~Tcp!Live(r) /\ tcReader' = r
                /\ tcPc' = [tcPc EXCEPT ![r] = "born", !["ctl"] = Head(tcRet["ctl"])]
           /\ tcRet' = [tcRet EXCEPT !["ctl"] = Tail(@)] /\ TcSameSocket
           /\ UNCHANGED <<tcHears, tcFlags, tcReg, tcFreed>>
  BY <1>3, TcCreates
<1> QED BY <1>1, <1>2, <1>3 DEF Tcp!TcpClient_read_start, Tcp!socks, Tcp!flagVars, TcSameSocket

(* TcpClient_connect: a connection is opened where there is none.          *)
LEMMA TcConnects ==
  ASSUME TcInv, Tcp!TcpClient_connect
  PROVE  TcInv'
<1> USE NamesAssumption DEF Tcp!Thread, TcInv
<1> DEFINE p == tcPc["ctl"]
           q == tcPc'["ctl"]
<1>1. /\ p \in {"connect", "connect1"} /\ UNCHANGED <<tcHears, tcFlags, tcReg, tcReader, tcFreed>>
      /\ \/ Tcp!Return("ctl")
         \/ p = "connect" /\ Tcp!Goto("ctl", "connect1") /\ tcRet' = tcRet
         \/ p = "connect1" /\ Tcp!Goto("ctl", "start") /\ tcRet' = tcRet
  BY DEF Tcp!TcpClient_connect, Tcp!Same, Tcp!socks, Tcp!flagVars
<1>2. tcRet["ctl"] = <<"idle">> /\ ~tcFreed
  BY <1>1 DEF TcType, TcControlAt, TcStart, TcDelete, TcEnding, TcDeleting
<1>3. /\ TcCtlStep(p, q, tcRet'["ctl"])
      /\ \/ q = "idle" /\ tcRet'["ctl"] = <<>>
         \/ q \in {"connect1", "start"} /\ tcRet'["ctl"] = <<"idle">>
  <2>1. CASE Tcp!Return("ctl")
    <3>1. Head(tcRet["ctl"]) = "idle" /\ Tail(tcRet["ctl"]) = <<>>
      BY <1>2, Stacks
    <3>2. TcCtlStep(p, "idle", <<>>)
      BY <1>1, <2>1, <3>1, TcCtlSteps DEF Tcp!Return, TcMid
    <3> QED BY <3>2 DEF TcCtlStep
  <2>2. CASE p = "connect" /\ Tcp!Goto("ctl", "connect1") /\ tcRet' = tcRet
    <3>1. TcCtlStep(p, "connect1", <<"idle">>)
      BY <1>1, <1>2, <2>2, TcCtlSteps DEF TcMid
    <3> QED BY <3>1 DEF TcCtlStep
  <2>3. CASE p = "connect1" /\ Tcp!Goto("ctl", "start") /\ tcRet' = tcRet
    <3>1. TcCtlStep(p, "start", <<"idle">>)
      BY <1>1, <1>2, <2>3, TcCtlSteps DEF TcMid
    <3> QED BY <3>1 DEF TcCtlStep
  <2> QED BY <1>1, <2>1, <2>2, <2>3
<1>4. TcControlGoes
  <2>1. TcControlAt(q, tcRet'["ctl"])
    BY <1>3 DEF TcControlAt
  <2>2. q \notin {"stop3", "stop4", "stop5"} \cup TcStart \cup TcDelete /\ tcRet'["ctl"] # <<"free">>
    BY <1>3 DEF TcStart, TcDelete
  <2> QED BY <1>1, <1>2, <1>3, <2>1, <2>2 DEF TcControlGoes, TcCtlStep, TcType, TcStays, TcOneReads, TcUnderWay, TcReading
<1>5. TcSocket'
  <2>0. /\ \A r \in Helper : r # "ctl" /\ tcPc'[r] = tcPc[r]
        /\ q \in {"idle", "connect1", "start"} /\ p \in {"connect", "connect1"} /\ ~tcFreed'
    <3>1. \A r \in Helper : r # "ctl" /\ tcPc'[r] = tcPc[r]
      BY <1>3 DEF TcCtlStep, TcMoves, TcType
    <3>2. q \in {"idle", "connect1", "start"}
      BY <1>3
    <3> QED BY <1>1, <1>2, <3>1, <3>2
  <2>1. CASE TcSameSocket
    <3>1. q \notin {"connect", "free"} \cup TcEnding /\ p \notin {"close", "hangup"}
      BY <2>0 DEF TcEnding
    <3>2. TcMoves("ctl") /\ "ctl" \in Tcp!Thread /\ q \notin {"close", "hangup"}
      BY <1>3, <2>0 DEF TcCtlStep
    <3> QED BY <2>1, <3>1, <3>2, TcKeepsSocket
  <2>2. CASE /\ p = "connect" /\ tcSock = "none"
             /\ \E s \in Sock \ tcOpen : tcSock' = s /\ tcOpen' = tcOpen \cup {s} /\ tcTold' = 0 /\ tcRaced' = FALSE
    <3>1. \A u \in Tcp!Thread : tcPc'[u] \notin {"close", "hangup"}
      BY <2>0, <2>2 DEF TcSocket, TcClosing
    <3>2. tcOpen = {}
      BY <2>2 DEF TcSocket, TcClosing
    <3>3. PICK s \in Sock : tcSock' = s /\ tcOpen' = {s} /\ tcTold' = 0 /\ tcRaced' = FALSE
      BY <2>2, <3>2
    <3>4. \A u \in Tcp!Thread : ~TcClosing(u)'
      BY <3>1 DEF TcClosing
    <3>5. ~ (tcFreed' \/ q = "free" \/ (tcRet'["ctl"] = <<"free">> /\ q \in TcEnding \ {"disconnect", "close", "hangup"}))
      BY <2>0, <2>2 DEF TcEnding
    <3>6. tcSock' # "none" /\ tcSock' \in tcOpen' /\ tcOpen' \subseteq {tcSock'} /\ tcTold' \in {0, 1, 2} /\ tcTold' # 2
      BY <3>3
    <3> QED BY <3>3, <3>4, <3>5, <3>6, Zenon DEF TcSocket
  <2>3. CASE p = "connect1" /\ tcOpen' = tcOpen \ {tcSock} /\ tcSock' = "none" /\ UNCHANGED <<tcTold, tcRaced>>
    <3>1. tcOpen' = {} /\ tcTold' \in {0, 1, 2}
      BY <2>3 DEF TcSocket, TcClosing
    <3>2. \A u \in Tcp!Thread : tcPc'[u] \in {"close", "hangup"} => tcPc[u] \in {"close", "hangup"}
      BY <2>0
    <3> QED BY <2>0, <2>3, <3>1, <3>2 DEF TcSocket, TcEnding, TcClosing
  <2> QED BY <2>1, <2>2, <2>3 DEF Tcp!TcpClient_connect, Tcp!Same, Tcp!socks, Tcp!flagVars, Tcp!None, TcSameSocket
<1> QED BY <1>4, <1>5, TcControlKeeps

(* A patient caller calls when the reader is in its loop.                  *)
LEMMA TcCalls ==
  ASSUME TcInv, Patient, Tcp!Calls \/ Tcp!TcpClient_set_data_in_cb
  PROVE  TcInv'
<1> USE NamesAssumption DEF Tcp!Thread, TcInv
<1> DEFINE q == tcPc'["ctl"]
<1>1. /\ tcPc["ctl"] = "idle" /\ ~tcFreed /\ TcSameSocket /\ UNCHANGED <<tcFlags, tcReg, tcReader, tcFreed>>
      /\ tcHears' \in BOOLEAN
      /\ \A r \in Helper : tcPc[r] \in {"unborn", "done", "loop", "recv", "data", "quit2"}
      /\ \/ \E sub \in {"connect", "disconnect", "start", "stop", "async"} : Tcp!Call("ctl", sub, "idle")
         \/ Tcp!Goto("ctl", "await") /\ tcRet' = [tcRet EXCEPT !["ctl"] = <<"start", "idle">>]
  BY DEF Tcp!Calls, Tcp!TcpClient_set_data_in_cb, Tcp!MayCall, Tcp!Same, Tcp!socks, Tcp!flagVars, TcSameSocket, TcType
<1>2. tcRet["ctl"] = <<>>
  BY <1>1 DEF TcType, TcControlAt, TcStart, TcDelete, TcEnding
<1>3. /\ TcMoves("ctl") /\ tcFlags' = tcFlags
      /\ \/ q \in {"connect", "disconnect", "start", "stop", "async"} /\ tcRet'["ctl"] = <<"idle">>
         \/ q = "await" /\ tcRet'["ctl"] = <<"start", "idle">>
  <2>1. CASE \E sub \in {"connect", "disconnect", "start", "stop", "async"} : Tcp!Call("ctl", sub, "idle")
    <3>1. PICK sub \in {"connect", "disconnect", "start", "stop", "async"} : Tcp!Call("ctl", sub, "idle")
      BY <2>1
    <3>2. <<"idle">> \o tcRet["ctl"] = <<"idle">>
      BY <1>2, Stacks
    <3>3. TcCtlStep("idle", sub, <<"idle">>)
      BY <1>1, <3>1, <3>2, TcCtlSteps DEF Tcp!Call, TcMid
    <3> QED BY <3>3 DEF TcCtlStep
  <2>2. CASE Tcp!Goto("ctl", "await") /\ tcRet' = [tcRet EXCEPT !["ctl"] = <<"start", "idle">>]
    <3>1. TcCtlStep("idle", "await", <<"start", "idle">>)
      BY <1>1, <2>2, TcCtlSteps DEF TcMid
    <3> QED BY <3>1 DEF TcCtlStep
  <2> QED BY <1>1, <2>1, <2>2
<1>4. TcControlGoes
  <2>1. TcControlAt(q, tcRet'["ctl"])
    BY <1>3 DEF TcControlAt, TcEnding
  <2>2. q \notin {"stop3", "stop4", "stop5"} \cup TcStart \cup TcDelete /\ tcRet'["ctl"] # <<"free">>
    BY <1>3 DEF TcStart, TcDelete
  <2> QED BY <1>1, <1>3, <2>1, <2>2 DEF TcControlGoes, TcStays, TcOneReads, TcUnderWay, TcReading
<1>5. TcSocket'
  <2>1. \A u \in Tcp!Thread : tcPc[u] \notin {"close", "hangup"}
    BY <1>1
  <2>2. tcRet'["ctl"] # <<"free">> /\ q \notin {"free", "close", "hangup"}
    BY <1>3
  <2> QED BY <1>1, <1>3, <2>1, <2>2, TcKeepsSocket
<1> QED BY <1>4, <1>5, TcControlKeeps

(* delTcpClient, of a client whose reader has returned.                    *)
LEMMA TcDeletes ==
  ASSUME TcInv, Patient, Tcp!delTcpClient
  PROVE  TcInv'
<1> USE NamesAssumption DEF Tcp!Thread, TcInv
<1> DEFINE NoThread == \A r \in Helper : tcPc[r] \in {"unborn", "done"}
           p == tcPc["ctl"]
           q == tcPc'["ctl"]
<1>1. CASE Tcp!MayCall /\ (\A r \in Helper : ~Tcp!Live(r)) /\ Tcp!Goto("ctl", "delete") /\ Tcp!Same /\ tcRet' = tcRet
  <2>1. p = "idle" /\ NoThread /\ ~tcFreed
    BY <1>1 DEF Tcp!MayCall, Tcp!Live
  <2>2. tcRet["ctl"] = <<>>
    BY <2>1 DEF TcType, TcControlAt, TcStart, TcDelete, TcEnding
  <2>3. TcSameSocket /\ UNCHANGED <<tcHears, tcFlags, tcReg, tcReader, tcFreed>>
    BY <1>1 DEF Tcp!Same, Tcp!socks, Tcp!flagVars, TcSameSocket
  <2>4. TcCtlStep("idle", "delete", <<>>)
    BY <1>1, <2>1, <2>2, <2>3, TcCtlSteps DEF TcMid
  <2>5. TcControlGoes
    BY <2>1, <2>3, <2>4 DEF TcControlGoes, TcCtlStep, TcControlAt, TcStart, TcDelete, TcReading, TcEnding, TcType, TcUnderWay, TcStays, TcOneReads
  <2>6. TcSocket'
    BY <2>3, <2>4, TcKeepsSocket DEF TcCtlStep, TcEnding
  <2> QED BY <2>5, <2>6, TcControlKeeps
<1>2. CASE Tcp!Update("ctl", "delete", "delete1", {"DELETE"}, {}, "delete2")
  <2>1. TcUpdates("ctl", "delete", "delete1", {"DELETE"}, {}, "delete2")
    BY <1>2, TcUpdate DEF TcMid, TcUnderWay, TcReading, TcEnding
  <2>2. NoThread /\ ~tcFreed /\ tcRet["ctl"] = <<>>
    BY <2>1 DEF TcUpdates, TcDeleting, TcDelete, TcType, TcControlAt, TcStart, TcEnding, TcStays
  <2>3. TcControlGoes
    BY <2>1, <2>2 DEF TcControlGoes, TcUpdates, TcControlAt, TcStart, TcDelete, TcReading, TcEnding, TcType, TcUnderWay, TcStays, TcOneReads
  <2>4. TcSocket'
    BY <2>1, <2>2, TcKeepsSocket DEF TcUpdates, TcEnding, TcStays
  <2> QED BY <2>3, <2>4, TcControlKeeps
<1>3. CASE p = "delete2" /\ Tcp!Call("ctl", "disconnect", "free") /\ Tcp!Same
  <2>1. NoThread /\ ~tcFreed /\ tcRet["ctl"] = <<>>
    BY <1>3 DEF TcDeleting, TcDelete, TcType, TcControlAt, TcStart, TcEnding
  <2>2. TcSameSocket /\ UNCHANGED <<tcHears, tcFlags, tcReg, tcReader, tcFreed>>
    BY <1>3 DEF Tcp!Same, Tcp!socks, Tcp!flagVars, TcSameSocket
  <2>3. <<"free">> \o tcRet["ctl"] = <<"free">>
    BY <2>1, Stacks
  <2>4. TcCtlStep("delete2", "disconnect", <<"free">>)
    BY <1>3, <2>2, <2>3, TcCtlSteps DEF Tcp!Call, TcMid
  <2>5. TcControlGoes
    BY <2>1, <2>2, <2>4 DEF TcControlGoes, TcCtlStep, TcControlAt, TcStart, TcDelete, TcReading, TcEnding, TcType, TcUnderWay, TcStays, TcOneReads
  <2>6. TcSocket'
    BY <2>2, <2>4, TcKeepsSocket DEF TcCtlStep, TcEnding
  <2> QED BY <2>5, <2>6, TcControlKeeps
<1>4. CASE /\ p = "free" /\ Tcp!Goto("ctl", "idle") /\ tcFreed' = TRUE /\ TcSameSocket
           /\ UNCHANGED <<tcHears, tcFlags, tcReg, tcReader, tcRet>>
  <2>1. NoThread /\ tcRet["ctl"] = <<>> /\ tcSock = "none"
    BY <1>4 DEF TcDeleting, TcDelete, TcType, TcControlAt, TcStart, TcEnding, TcSocket, TcClosing
  <2>2. /\ \A u \in Tcp!Thread : u # "ctl" => tcPc'[u] = tcPc[u]
        /\ q = "idle" /\ tcPc' = [u \in Tcp!Thread |-> tcPc'[u]]
    BY <1>4 DEF Tcp!Goto, TcType
  <2>3. TcType'
    BY <1>4, <2>1, <2>2 DEF TcType, TcControlAt
  <2>4. TcRegs'
    BY <1>4, <2>2 DEF TcRegs, TcMid
  <2>5. TcOneReads' /\ TcDeleting'
    BY <1>4, <2>1, <2>2 DEF TcOneReads, TcDeleting, TcReading, TcEnding, TcUnderWay
  <2>6. TcSocket'
    BY <1>4, <2>1, <2>2 DEF TcSocket, TcSameSocket, TcEnding, TcClosing
  <2> QED BY <2>3, <2>4, <2>5, <2>6
<1> QED BY <1>1, <1>2, <1>3, <1>4 DEF Tcp!delTcpClient, Tcp!socks, Tcp!flagVars, TcSameSocket

(* A client made of a socket that is already connected takes the place of  *)
(* a freed one.                                                            *)
LEMMA TcNews == TcInv /\ Tcp!newTcpClient_from_socket => TcInv'
<1> SUFFICES ASSUME TcInv, Tcp!newTcpClient_from_socket PROVE TcInv'
  OBVIOUS
<1> USE NamesAssumption DEF Tcp!Thread, TcInv, Tcp!newTcpClient_from_socket
<1>1. tcPc["ctl"] = "idle" /\ tcSock = "none" /\ tcOpen = {} /\ \A r \in Helper : tcPc[r] \in {"unborn", "done"}
  BY DEF TcDeleting, TcSocket, TcClosing
<1>2. tcRet["ctl"] = <<>>
  BY <1>1 DEF TcType, TcControlAt, TcStart, TcDelete, TcEnding
<1>3. TcType' /\ TcRegs'
  BY <1>1 DEF TcType, TcRegs, TcMid
<1>4. TcOneReads' /\ TcDeleting'
  BY <1>1, <1>2 DEF TcOneReads, TcDeleting, TcReading, TcEnding, TcDelete, TcUnderWay
<1>5. TcSocket'
  <2>1. PICK s \in Sock : tcSock' = s /\ tcOpen' = {s} /\ tcTold' = 0 /\ tcRaced' = FALSE /\ tcFreed' = FALSE
    BY <1>1
  <2>2. \A u \in Tcp!Thread : ~TcClosing(u)'
    BY <1>1 DEF TcClosing
  <2>3. ~ (tcFreed' \/ tcPc'["ctl"] = "free" \/ (tcRet'["ctl"] = <<"free">> /\ tcPc'["ctl"] \in TcEnding \ {"disconnect", "close", "hangup"}))
    BY <1>1, <2>1 DEF TcEnding
  <2>4. tcSock' # "none" /\ tcSock' \in tcOpen' /\ tcOpen' \subseteq {tcSock'} /\ tcTold' \in {0, 1, 2} /\ tcTold' # 2
    BY <2>1
  <2> QED BY <2>1, <2>2, <2>3, <2>4, Zenon DEF TcSocket
<1> QED BY <1>3, <1>4, <1>5

(* A step of another component, and the peer's hanging up.                 *)
LEMMA TcStutter == TcInv /\ (UNCHANGED tcVars \/ Tcp!HangUp) => TcInv'
<1> SUFFICES ASSUME TcInv, UNCHANGED tcVars \/ Tcp!HangUp PROVE TcInv'
  OBVIOUS
<1>1. UNCHANGED <<tcSock, tcOpen, tcTold, tcRaced, tcHears, tcFlags, tcReg, tcReader, tcFreed, tcPc, tcRet>>
  BY DEF tcVars, Tcp!HangUp, Tcp!flagVars
<1>2. TcType' /\ TcRegs'
  BY <1>1 DEF TcInv, TcType, TcRegs, Tcp!Thread
<1>3. TcOneReads' /\ TcDeleting' /\ TcSocket'
  BY <1>1 DEF TcInv, TcOneReads, TcDeleting, TcSocket, Tcp!Thread, TcUnderWay, TcClosing
<1> QED BY <1>2, <1>3 DEF TcInv

(* Every step of a TcpClient, its reader and its caller keeps the          *)
(* invariant.                                                              *)
LEMMA TcNextKeepsInv == TcInv /\ Patient /\ Tcp!Next => TcInv'
<1> SUFFICES ASSUME TcInv, Patient, Tcp!Next PROVE TcInv'
  OBVIOUS
<1>1. CASE \E r \in Helper : Tcp!ReaderStep(r) \/ Tcp!ReceiveData(r)
  <2>1. PICK r \in Helper : Tcp!ReaderStep(r) \/ Tcp!ReceiveData(r)
    BY <1>1
  <2>2. r \in Tcp!Thread
    BY DEF Tcp!Thread
  <2> QED BY <2>1, <2>2, TcThreadFrame, TcReads, TcDisconnects, TcStopsAsync DEF Tcp!ReaderStep
<1>2. CASE Tcp!ControlStep
  <2>1. "ctl" \in Tcp!Thread
    BY DEF Tcp!Thread
  <2> QED BY <1>2, <2>1, TcDisconnects, TcStopsAsync, TcReadStop, TcReadStart, TcConnects, TcDeletes DEF Tcp!ControlStep
<1>3. CASE Tcp!Calls \/ Tcp!TcpClient_set_data_in_cb
  BY <1>3, TcCalls
<1>4. CASE Tcp!newTcpClient_from_socket \/ Tcp!delTcpClient \/ Tcp!HangUp
  BY <1>4, TcNews, TcDeletes, TcStutter
<1> QED BY <1>1, <1>2, <1>3, <1>4 DEF Tcp!Next

-----------------------------------------------------------------------------
(* ThreadedTimerEvent: the timer threads.                                  *)

(* Where a thread is in ThreadedTimerEvent_stop_async and in               *)
(* ThreadedTimerEvent_stop, where ctl is in ThreadedTimerEvent_start, and  *)
(* where a thread is between the load and the store of a flag update.      *)
TtAsync == {"async", "async1", "async2", "async3", "async4", "async5", "async6"}
TtAsking == {"stop", "stop1", "stop2", "stop3", "join"}
TtJoined == {"stop4", "stop4a"}
TtStop == TtAsking \cup TtJoined \cup {"stop5"}
TtAwait == {"detached", "block", "blocked"}
TtBegin == {"begin", "start1", "start2", "start3", "start4", "create", "create1"}
TtMid == {"born1", "ring1", "rang1", "quit1", "async2", "async5", "stop2", "stop4a", "start2", "start4", "create1"}

(* Where a timer thread is outside of a ring, and where it has not yet     *)
(* lowered RUNNING.                                                        *)
TtLeaving == {"loop", "wait", "waiting", "quit", "quit1"}
TtResting == TtLeaving \cup {"check"}
TtRunning == TtResting \cup {"born", "born1", "ring", "ring1", "user", "rang", "rang1"} \cup TtStop \cup TtAsync

(* Where ctl is, and what it returns to from there.                        *)
TtControlAt(p, back) ==
  \/ p \in {"idle"} \cup TtAwait \cup TtBegin /\ back = <<>>
  \/ p \in TtStop \cup TtAsync /\ back \in {<<"idle">>, <<"begin">>}

(* Types, and what each thread returns to from where it is.                *)
TtType ==
  /\ ttTimer \in Helper
  /\ ttPc = [t \in Timer!Thread |-> ttPc[t]]
  /\ ttReg = [t \in Timer!Thread |-> ttReg[t]] /\ ttRet = [t \in Timer!Thread |-> ttRet[t]]
  /\ \A w \in Helper :
       \/ ttPc[w] \in {"unborn", "quit2", "done"} \cup (TtRunning \ (TtStop \cup TtAsync)) /\ ttRet[w] = <<>>
       \/ ttPc[w] \in TtStop \cup TtAsync /\ ttRet[w] = <<"rang">>
  /\ TtControlAt(ttPc["ctl"], ttRet["ctl"])
  /\ ttPc["guest"] \in {"idle", "waiting"} /\ ttRet["guest"] = <<>>

(* A flag that is up, or down, whichever of the updates under way is       *)
(* stored last.                                                            *)
TtHeld(f) == f \in ttFp /\ \A t \in Timer!Thread : ttPc[t] \in TtMid => f \in ttReg[t]
TtFree(f) == f \notin ttFp /\ \A t \in Timer!Thread : ttPc[t] \in TtMid => f \notin ttReg[t]

(* A thread that was told to stop, and about to check its timer although,  *)
(* or taken to be in its callback: a start may not see it as still         *)
(* CREATED.                                                                *)
TtAlarm(w) ==
  /\ ttPc[w] \in TtResting /\ {"STOP", "CREATED"} \subseteq ttFp
  /\ ttPc[w] = "check" \/ "CALLBACK" \in ttFp

TtPending == {"async3", "async4", "async5", "stop3", "join"}

(* Only the thread created last runs, with RUNNING held up from its first  *)
(* update on, and no start has come past its wait for it: a start that     *)
(* asks it to stop, or waits for one that was asked before, finds it with  *)
(* STOP held up.                                                           *)
TtOneRuns ==
  \A w \in Helper : ttPc[w] \in TtRunning =>
    /\ w = ttTimer
    /\ ttPc[w] \in {"born", "born1"} => ttPc["ctl"] = "idle" /\ TtFree("STOP")
    /\ ttPc[w] \notin {"born", "born1"} => TtHeld("RUNNING")
    /\ ttPc["ctl"] \notin TtBegin \cup TtJoined
    /\ ttRet["ctl"] = <<"begin">> =>
         /\ ttPc["ctl"] \in TtAsking /\ ttPc[w] \in TtLeaving
         /\ TtHeld("STOP") /\ TtHeld("CREATED") /\ TtFree("CALLBACK")
    /\ ttPc["ctl"] \in TtAwait => TtHeld("STOP")
    /\ TtAlarm(w) => ttPc["ctl"] \in TtPending

(* A start that creates a thread has lowered STOP for it.                  *)
TtStarting == ttPc["ctl"] \in {"start3", "start4", "create", "create1"} => TtFree("STOP")

(* The invariant of ThreadedTimerEvent.                                    *)
TtInv == TtType /\ TtOneRuns /\ TtStarting

(* A timer event that was just created has no thread.                      *)
LEMMA TtInit == Timer!Init => TtInv
<1> SUFFICES ASSUME Timer!Init PROVE TtInv
  OBVIOUS
<1>1. /\ ttPc = [t \in Timer!Thread |-> ttPc[t]] /\ ttReg = [t \in Timer!Thread |-> ttReg[t]]
      /\ ttRet = [t \in Timer!Thread |-> ttRet[t]] /\ ttTimer \in Helper
      /\ \A w \in Helper : ttPc[w] = "unborn" /\ ttRet[w] = <<>>
      /\ ttPc["ctl"] = "idle" /\ ttRet["ctl"] = <<>> /\ ttPc["guest"] = "idle" /\ ttRet["guest"] = <<>>
  BY NamesAssumption DEF Timer!Init, Timer!Thread
<1>2. TtType
  BY <1>1 DEF TtType, TtControlAt
<1>3. TtOneRuns /\ TtStarting
  BY <1>1 DEF TtOneRuns, TtStarting, TtRunning, TtResting, TtLeaving, TtStop, TtAsking, TtJoined, TtAsync
<1> QED BY <1>2, <1>3 DEF TtInv

(* A step of thread t alone: where it goes, and what it returns to.        *)
TtMoves(t) ==
  /\ ttPc' = [ttPc EXCEPT ![t] = ttPc'[t]] /\ ttRet' = [ttRet EXCEPT ![t] = ttRet'[t]]
  /\ ttReg' = [u \in Timer!Thread |-> ttReg'[u]]
  /\ ttTimer' = ttTimer

(* The flags that a step leaves held up and down.                          *)
TtKeeps(raised, lowered) ==
  /\ \A f : f \notin lowered /\ TtHeld(f) => TtHeld(f)'
  /\ \A f : f \notin raised /\ TtFree(f) => TtFree(f)'

(* A flag update: nothing happens but the load, or the store puts back the *)
(* loaded flags with its own change.                                       *)
TtUpdates(t, at, mid, raised, lowered, to) ==
  /\ TtMoves(t) /\ ttRet'[t] = ttRet[t] /\ TtKeeps(raised, lowered)
  /\ \/ ttPc[t] = at /\ ttPc'[t] = mid /\ ttFp' = ttFp
     \/ /\ ttPc[t] = mid /\ ttPc'[t] = to
        /\ raised \subseteq ttFp' /\ lowered \cap ttFp' = {}

(* However the updates of the threads overlap, what is held up and not     *)
(* lowered stays up, and what is held down and not raised stays down.      *)
LEMMA TtUpdate ==
  ASSUME TtType, NEW t \in Timer!Thread, NEW at, NEW mid, NEW raised, NEW lowered, NEW to,
         Timer!Update(t, at, mid, raised, lowered, to),
         mid \in TtMid, to \notin TtMid, raised \cap lowered = {}
  PROVE  TtUpdates(t, at, mid, raised, lowered, to)
<1>0. UNCHANGED <<ttTimer, ttRet>>
  BY DEF Timer!Update
<1>1. CASE /\ ttPc[t] = at /\ ttPc' = [ttPc EXCEPT ![t] = mid]
           /\ ttReg' = [ttReg EXCEPT ![t] = ttFp] /\ ttFp' = ttFp
  <2>1. /\ ttPc'[t] = mid /\ ttReg'[t] = ttFp /\ ttReg' = [u \in Timer!Thread |-> ttReg'[u]]
        /\ \A u \in Timer!Thread : u # t => ttPc'[u] = ttPc[u] /\ ttReg'[u] = ttReg[u]
    BY <1>1 DEF TtType
  <2>2. TtKeeps(raised, lowered)
    BY <1>1, <2>1 DEF TtKeeps, TtHeld, TtFree
  <2>3. TtMoves(t) /\ ttRet'[t] = ttRet[t]
    BY <1>0, <1>1, <2>1 DEF TtMoves, TtType
  <2> QED BY <1>1, <2>1, <2>2, <2>3 DEF TtUpdates
<1>2. CASE /\ ttPc[t] = mid /\ ttPc' = [ttPc EXCEPT ![t] = to]
           /\ ttFp' = (ttReg[t] \cup raised) \ lowered
           /\ ttReg' = [ttReg EXCEPT ![t] = {"none"}]
  <2>1. /\ ttPc'[t] = to /\ ttReg' = [u \in Timer!Thread |-> ttReg'[u]]
        /\ \A u \in Timer!Thread : u # t => ttPc'[u] = ttPc[u] /\ ttReg'[u] = ttReg[u]
    BY <1>2 DEF TtType
  <2>2. \A u \in Timer!Thread : ttPc'[u] \in TtMid => ttPc[u] \in TtMid /\ ttReg'[u] = ttReg[u]
    BY <2>1
  <2>3. TtKeeps(raised, lowered)
    BY <1>2, <2>2 DEF TtKeeps, TtHeld, TtFree
  <2>4. TtMoves(t) /\ ttRet'[t] = ttRet[t]
    BY <1>0, <1>2, <2>1 DEF TtMoves, TtType
  <2>5. raised \subseteq ttFp' /\ lowered \cap ttFp' = {}
    BY <1>2
  <2> QED BY <1>2, <2>1, <2>3, <2>4, <2>5 DEF TtUpdates
<1> QED BY <1>1, <1>2 DEF Timer!Update, Timer!Goto, Timer!None

(* A step that leaves the flags alone.                                     *)
TtPlain(t, to, back) ==
  TtMoves(t) /\ ttPc'[t] = to /\ ttRet'[t] = back /\ ttFp' = ttFp /\ TtKeeps({}, {})

(* A step outside of an update is a TtPlain step.                          *)
LEMMA TtNoUpdate ==
  ASSUME TtType, NEW t \in Timer!Thread, NEW to, Timer!Goto(t, to), to \notin TtMid,
         UNCHANGED <<ttFp, ttReg, ttTimer>>
  PROVE  /\ ttRet' = ttRet => TtPlain(t, to, ttRet[t])
         /\ \A back : ttRet' = [ttRet EXCEPT ![t] = back] => TtPlain(t, to, back)
<1>1. ttPc' = [ttPc EXCEPT ![t] = to]
  BY DEF Timer!Goto
<1>2. /\ ttPc'[t] = to /\ ttPc' = [ttPc EXCEPT ![t] = ttPc'[t]] /\ ttReg' = [u \in Timer!Thread |-> ttReg'[u]]
      /\ \A u \in Timer!Thread : ttPc'[u] \in TtMid => ttPc[u] \in TtMid
  BY <1>1 DEF TtType
<1>3. TtKeeps({}, {})
  BY <1>2 DEF TtKeeps, TtHeld, TtFree
<1>4. ASSUME ttRet' = ttRet PROVE TtPlain(t, to, ttRet[t])
  BY <1>2, <1>3, <1>4 DEF TtPlain, TtMoves, TtType
<1>5. ASSUME NEW back, ttRet' = [ttRet EXCEPT ![t] = back] PROVE TtPlain(t, to, back)
  BY <1>2, <1>3, <1>5 DEF TtPlain, TtMoves, TtType
<1> QED BY <1>4, <1>5

(* What a timer thread does: it keeps RUNNING up once it is under way, and *)
(* never takes back a request to stop.                                     *)
TtWorkerGoes(w) ==
  /\ TtMoves(w)
  /\ ttPc[w] \in TtRunning \cup {"quit2"} /\ ttPc'[w] \in (TtRunning \ {"born"}) \cup {"quit2", "done"}
  /\ ttPc[w] = "quit2" => ttPc'[w] = "done" /\ ttFp' = ttFp /\ TtKeeps({}, {})
  /\ ttPc'[w] = "born1" => ttPc[w] = "born" /\ TtFree("STOP")'
  /\ ttPc'[w] \in TtRunning \ {"born1"} => TtHeld("RUNNING")'
  /\ ttRet'[w] = IF ttPc'[w] \in TtStop \cup TtAsync THEN <<"rang">> ELSE <<>>
  /\ TtHeld("STOP") => TtHeld("STOP")'
  /\ ttRet["ctl"] = <<"begin">> /\ ttPc[w] \in TtRunning /\ ttPc'[w] \in TtRunning =>
       ttPc'[w] \in TtLeaving /\ TtHeld("CREATED")' /\ TtFree("CALLBACK")'
  /\ ttPc'[w] \in TtRunning /\ TtAlarm(w)' => TtAlarm(w)

(* A step of a timer thread that goes as TtWorkerGoes says keeps the       *)
(* invariant.                                                              *)
LEMMA TtWorkerKeeps ==
  ASSUME TtInv, NEW w \in Helper, TtWorkerGoes(w)
  PROVE  TtInv'
<1> USE NamesAssumption DEF TtInv, Timer!Thread
<1>0. /\ w # "ctl" /\ w # "guest"
      /\ ttPc'["ctl"] = ttPc["ctl"] /\ ttRet'["ctl"] = ttRet["ctl"]
      /\ ttPc'["guest"] = ttPc["guest"] /\ ttRet'["guest"] = ttRet["guest"]
      /\ \A s \in Helper : s # w => ttPc'[s] = ttPc[s] /\ ttRet'[s] = ttRet[s]
      /\ ttPc' = [u \in Timer!Thread |-> ttPc'[u]] /\ ttRet' = [u \in Timer!Thread |-> ttRet'[u]]
      /\ ttReg' = [u \in Timer!Thread |-> ttReg'[u]] /\ ttTimer' = ttTimer
  BY DEF TtType, TtWorkerGoes, TtMoves
<1>1. TtType'
  <2>1. \/ ttPc'[w] \in {"unborn", "quit2", "done"} \cup (TtRunning \ (TtStop \cup TtAsync)) /\ ttRet'[w] = <<>>
        \/ ttPc'[w] \in TtStop \cup TtAsync /\ ttRet'[w] = <<"rang">>
    BY DEF TtWorkerGoes
  <2> QED BY <1>0, <2>1 DEF TtType
<1>2. CASE ttPc[w] = "quit2"
  <2>1. ttPc'[w] \notin TtRunning /\ ttFp' = ttFp /\ TtKeeps({}, {})
    BY <1>2 DEF TtWorkerGoes, TtRunning, TtResting, TtLeaving, TtStop, TtAsking, TtJoined, TtAsync
  <2>2. \A f : (TtHeld(f) => TtHeld(f)') /\ (TtFree(f) => TtFree(f)')
    BY <2>1 DEF TtKeeps
  <2>3. \A s \in Helper : s # w => (TtAlarm(s)' => TtAlarm(s))
    BY <1>0, <2>1 DEF TtAlarm
  <2>4. TtOneRuns'
    BY <1>0, <2>1, <2>2, <2>3 DEF TtOneRuns
  <2>5. TtStarting'
    BY <1>0, <2>2 DEF TtStarting
  <2> QED BY <1>1, <2>4, <2>5
<1>3. CASE ttPc[w] \in TtRunning
  <2>1. w = ttTimer /\ \A s \in Helper : s # w => ttPc'[s] \notin TtRunning
    BY <1>0, <1>3 DEF TtOneRuns
  <2>2. /\ ttPc["ctl"] \notin TtBegin \cup TtJoined
        /\ ttRet["ctl"] = <<"begin">> => ttPc["ctl"] \in TtAsking /\ TtHeld("STOP")
        /\ ttPc["ctl"] \in TtAwait => TtHeld("STOP")
        /\ ttPc[w] = "born" => ttPc["ctl"] = "idle"
        /\ TtAlarm(w) => ttPc["ctl"] \in TtPending
    BY <1>3 DEF TtOneRuns
  <2>3. TtOneRuns'
    <3> SUFFICES ASSUME ttPc'[w] \in TtRunning
                 PROVE  /\ ttPc'[w] \in {"born", "born1"} => ttPc'["ctl"] = "idle" /\ TtFree("STOP")'
                        /\ ttPc'[w] \notin {"born", "born1"} => TtHeld("RUNNING")'
                        /\ ttPc'["ctl"] \notin TtBegin \cup TtJoined
                        /\ ttRet'["ctl"] = <<"begin">> =>
                             /\ ttPc'["ctl"] \in TtAsking /\ ttPc'[w] \in TtLeaving
                             /\ TtHeld("STOP")' /\ TtHeld("CREATED")' /\ TtFree("CALLBACK")'
                        /\ ttPc'["ctl"] \in TtAwait => TtHeld("STOP")'
                        /\ TtAlarm(w)' => ttPc'["ctl"] \in TtPending
      BY <1>0, <2>1 DEF TtOneRuns
    <3> QED BY <1>0, <1>3, <2>2 DEF TtWorkerGoes
  <2>4. TtStarting'
    BY <1>0, <2>2 DEF TtStarting, TtBegin
  <2> QED BY <1>1, <2>3, <2>4
<1> QED BY <1>2, <1>3 DEF TtWorkerGoes

(* What ctl does: it lets no second thread start beside one that runs.     *)
TtControlGoes ==
  /\ TtMoves("ctl") /\ TtControlAt(ttPc'["ctl"], ttRet'["ctl"])
  /\ ttPc["ctl"] = "idle" => \A w \in Helper : ttPc[w] \notin {"born", "born1"}
  /\ TtHeld("RUNNING") => TtHeld("RUNNING")'
  /\ \A w \in Helper : ttPc[w] \in TtRunning =>
       /\ ttPc'["ctl"] \notin TtBegin \cup TtJoined
       /\ ttRet'["ctl"] = <<"begin">> =>
            /\ ttPc'["ctl"] \in TtAsking /\ ttPc[w] \in TtLeaving
            /\ TtHeld("STOP")' /\ TtHeld("CREATED")' /\ TtFree("CALLBACK")'
       /\ ttPc'["ctl"] \in TtAwait => TtHeld("STOP")'
       /\ TtAlarm(w)' => ttPc'["ctl"] \in TtPending
  /\ TtStarting'

(* The same for a step of ctl that goes as TtControlGoes says.             *)
LEMMA TtControlKeeps ==
  ASSUME TtInv, TtControlGoes
  PROVE  TtInv'
<1> USE NamesAssumption DEF TtInv, Timer!Thread
<1>0. /\ \A w \in Helper : w # "ctl" /\ ttPc'[w] = ttPc[w] /\ ttRet'[w] = ttRet[w]
      /\ ttPc'["guest"] = ttPc["guest"] /\ ttRet'["guest"] = ttRet["guest"]
      /\ ttPc' = [u \in Timer!Thread |-> ttPc'[u]] /\ ttRet' = [u \in Timer!Thread |-> ttRet'[u]]
      /\ ttReg' = [u \in Timer!Thread |-> ttReg'[u]] /\ ttTimer' = ttTimer
  BY DEF TtType, TtControlGoes, TtMoves
<1>1. TtType'
  BY <1>0 DEF TtType, TtControlGoes
<1>2. \A w \in Helper : ttPc[w] \in TtRunning =>
        w = ttTimer /\ ttPc[w] \notin {"born", "born1"} /\ TtHeld("RUNNING")
  BY DEF TtOneRuns, TtControlGoes
<1>3. TtOneRuns'
  BY <1>0, <1>2 DEF TtOneRuns, TtControlGoes
<1> QED BY <1>1, <1>3 DEF TtControlGoes

(* What the invariant says of a timer thread that runs.                    *)
LEMMA TtKnows ==
  ASSUME TtInv, NEW w \in Helper, ttPc[w] \in TtRunning
  PROVE  /\ ttPc[w] \notin {"born", "born1"} => TtHeld("RUNNING")
         /\ ttPc[w] \in {"born", "born1"} => TtFree("STOP") /\ ttPc["ctl"] = "idle" /\ ttRet["ctl"] = <<>>
         /\ ttRet["ctl"] = <<"begin">> =>
              ttPc[w] \in TtLeaving /\ TtHeld("STOP") /\ TtHeld("CREATED") /\ TtFree("CALLBACK")
<1>1. ttPc["ctl"] = "idle" => ttRet["ctl"] = <<>>
  BY DEF TtInv, TtType, TtControlAt, TtStop, TtAsking, TtJoined, TtAsync
<1> QED BY <1>1 DEF TtInv, TtOneRuns

(* A timer thread's step outside of the flag updates keeps the invariant   *)
(* if it goes to check its timer only when STOP is down, and leaves the    *)
(* ring only by its updates.                                               *)
LEMMA TtGoesPlain ==
  ASSUME TtInv, NEW w \in Helper, NEW to, NEW back, TtPlain(w, to, back),
         ttPc[w] \in TtRunning \ {"born", "born1"}, to \in TtRunning \ {"born", "born1"},
         back = IF to \in TtStop \cup TtAsync THEN <<"rang">> ELSE <<>>,
         ttRet["ctl"] = <<"begin">> => to \in TtLeaving,
         to \in TtResting => ttPc[w] \in TtResting,
         to = "check" => "STOP" \notin ttFp,
         ttPc[w] = "check" => to # "quit"
  PROVE  TtInv'
<1>1. TtHeld("RUNNING") /\ TtHeld("RUNNING")'
  BY TtKnows DEF TtPlain, TtKeeps
<1>2. TtHeld("STOP") => TtHeld("STOP")'
  BY DEF TtPlain, TtKeeps
<1>3. ttRet["ctl"] = <<"begin">> => TtHeld("CREATED")' /\ TtFree("CALLBACK")'
  BY TtKnows DEF TtPlain, TtKeeps
<1>4. TtAlarm(w)' => TtAlarm(w)
  BY DEF TtPlain, TtAlarm
<1>5. ttPc'[w] = to /\ ttRet'[w] = back /\ TtMoves(w) /\ ttPc[w] # "quit2"
  BY DEF TtPlain, TtRunning, TtResting, TtLeaving, TtStop, TtAsking, TtJoined, TtAsync
<1>6. TtWorkerGoes(w)
  BY <1>1, <1>2, <1>3, <1>4, <1>5 DEF TtWorkerGoes
<1> QED BY <1>6, TtWorkerKeeps

(* So does a flag update of a ring or of a stop in the callback: it leaves *)
(* RUNNING and STOP alone, and ends a ring by lowering CALLBACK.           *)
LEMMA TtGoesUpdate ==
  ASSUME TtInv, NEW w \in Helper, NEW at, NEW mid, NEW raised, NEW lowered, NEW to,
         TtUpdates(w, at, mid, raised, lowered, to),
         at \in TtRunning \ {"born", "born1", "quit2"}, mid \in TtRunning \ {"born", "born1", "quit2"},
         to \in TtRunning \ {"born", "born1"}, "RUNNING" \notin lowered, "STOP" \notin lowered,
         at \notin TtResting, mid \notin TtResting,
         (at \in TtStop \cup TtAsync) = (mid \in TtStop \cup TtAsync),
         (mid \in TtStop \cup TtAsync) = (to \in TtStop \cup TtAsync),
         to \in TtResting => to # "check" /\ "CALLBACK" \in lowered
  PROVE  TtInv'
<1>0. TtMoves(w) /\ ttRet'[w] = ttRet[w] /\ TtKeeps(raised, lowered) /\ ttPc[w] \in {at, mid} /\ ttPc'[w] \in {mid, to}
      /\ (ttPc'[w] = to /\ ttPc'[w] # mid => lowered \cap ttFp' = {})
  BY DEF TtUpdates
<1>1. TtHeld("RUNNING") /\ TtHeld("RUNNING")'
  BY <1>0, TtKnows DEF TtKeeps
<1>2. TtHeld("STOP") => TtHeld("STOP")'
  BY <1>0 DEF TtKeeps
<1>3. ttRet["ctl"] # <<"begin">>
  BY <1>0, TtKnows DEF TtResting
<1>4. ~TtAlarm(w)'
  BY <1>0 DEF TtAlarm
<1>5. ttRet'[w] = IF ttPc'[w] \in TtStop \cup TtAsync THEN <<"rang">> ELSE <<>>
  <2>1. ttRet[w] = IF ttPc[w] \in TtStop \cup TtAsync THEN <<"rang">> ELSE <<>>
    BY <1>0 DEF TtInv, TtType, TtStop, TtAsking, TtJoined, TtAsync
  <2>2. (ttPc'[w] \in TtStop \cup TtAsync) = (ttPc[w] \in TtStop \cup TtAsync)
    BY <1>0
  <2> QED BY <1>0, <2>1, <2>2
<1>6. TtWorkerGoes(w)
  BY <1>0, <1>1, <1>2, <1>3, <1>4, <1>5 DEF TtWorkerGoes
<1> QED BY <1>6, TtWorkerKeeps

(* The first and the last update of a timer thread.                        *)
LEMMA TtFrames ==
  ASSUME TtInv, NEW w \in Helper, Timer!ThreadFrame(w)
  PROVE  TtInv'
<1> USE NamesAssumption DEF Timer!Thread
<1>s. TtType
  BY DEF TtInv
<1>1. CASE Timer!Update(w, "born", "born1", {"RUNNING"}, {}, "loop")
  <2>1. TtUpdates(w, "born", "born1", {"RUNNING"}, {}, "loop")
    BY <1>1, <1>s, TtUpdate DEF TtMid
  <2>2. TtMoves(w) /\ ttPc[w] \in {"born", "born1"} /\ ttPc'[w] \in {"born1", "loop"} /\ ttPc[w] \in TtRunning
        /\ ttRet'[w] = ttRet[w] /\ TtKeeps({"RUNNING"}, {})
    BY <2>1 DEF TtUpdates, TtRunning
  <2>3. ttRet'[w] = <<>>
    BY <2>2 DEF TtInv, TtType, TtStop, TtAsking, TtJoined, TtAsync
  <2>4. /\ TtFree("STOP") /\ TtFree("STOP")' /\ ttPc["ctl"] = "idle" /\ ttRet["ctl"] = <<>>
        /\ TtHeld("STOP") => TtHeld("STOP")'
    BY <2>2, TtKnows DEF TtKeeps
  <2>5. ttPc'[w] = "loop" => TtHeld("RUNNING")'
    <3>1. SUFFICES ASSUME ttPc'[w] = "loop" PROVE TtHeld("RUNNING")'
      OBVIOUS
    <3>2. "RUNNING" \in ttFp' /\ \A u \in Timer!Thread : u # w => ttPc'[u] = ttPc[u]
      BY <2>1, <2>2, <3>1 DEF TtUpdates, TtMoves, TtInv, TtType
    <3>3. \A u \in Helper : u # w => ttPc[u] \notin TtRunning
      BY <2>2 DEF TtInv, TtOneRuns
    <3>4. \A u \in Timer!Thread : u # w => ttPc[u] \notin TtMid
      <4>1. \A u \in Helper : u # w => ttPc[u] \in {"unborn", "quit2", "done"}
        BY <3>3 DEF TtInv, TtType, TtRunning
      <4>2. ttPc["ctl"] = "idle" /\ ttPc["guest"] \in {"idle", "waiting"}
        BY <2>4 DEF TtInv, TtType
      <4> QED BY <4>1, <4>2 DEF TtMid
    <3>5. \A u \in Timer!Thread : ttPc'[u] \notin TtMid
      BY <3>1, <3>2, <3>4 DEF TtMid
    <3> QED BY <3>2, <3>5 DEF TtHeld
  <2>6. ~TtAlarm(w)'
    BY <2>4 DEF TtAlarm, TtFree
  <2>7. ttPc'[w] = "born1" => ttPc[w] = "born"
    BY <2>1 DEF TtUpdates
  <2>8. /\ ttPc'[w] \in TtRunning \ {"born"} /\ ttPc[w] # "quit2" /\ ttPc'[w] \notin TtStop \cup TtAsync
        /\ (ttPc'[w] \in TtRunning \ {"born1"} => ttPc'[w] = "loop")
    BY <2>2 DEF TtRunning, TtResting, TtLeaving, TtStop, TtAsking, TtJoined, TtAsync
  <2>9. TtWorkerGoes(w)
    BY <2>2, <2>3, <2>4, <2>5, <2>6, <2>7, <2>8 DEF TtWorkerGoes
  <2> QED BY <2>9, TtWorkerKeeps
<1>2. CASE Timer!Update(w, "quit", "quit1", {}, {"RUNNING"}, "quit2")
  <2>1. TtUpdates(w, "quit", "quit1", {}, {"RUNNING"}, "quit2")
    BY <1>2, <1>s, TtUpdate DEF TtMid
  <2>2. TtMoves(w) /\ ttPc[w] \in {"quit", "quit1"} /\ ttPc'[w] \in {"quit1", "quit2"} /\ ttPc[w] \in TtRunning
        /\ ttRet'[w] = ttRet[w] /\ TtKeeps({}, {"RUNNING"})
        /\ (ttPc'[w] = "quit1" => ttPc[w] = "quit" /\ ttFp' = ttFp)
    BY <2>1 DEF TtUpdates, TtRunning, TtResting, TtLeaving
  <2>3. ttRet'[w] = <<>>
    BY <2>2 DEF TtInv, TtType, TtStop, TtAsking, TtJoined, TtAsync
  <2>4. /\ TtHeld("RUNNING") /\ (TtHeld("STOP") => TtHeld("STOP")')
        /\ ttRet["ctl"] = <<"begin">> => TtHeld("CREATED")' /\ TtFree("CALLBACK")'
    BY <2>2, TtKnows DEF TtKeeps
  <2>5. ttPc'[w] = "quit1" => TtHeld("RUNNING")' /\ (TtAlarm(w)' => TtAlarm(w))
    <3>1. SUFFICES ASSUME ttPc'[w] = "quit1" PROVE TtHeld("RUNNING")' /\ (TtAlarm(w)' => TtAlarm(w))
      OBVIOUS
    <3>2. ttPc[w] = "quit" /\ ttFp' = ttFp /\ ttReg' = [ttReg EXCEPT ![w] = ttFp]
      BY <1>2, <2>2, <3>1 DEF Timer!Update, Timer!Goto, TtInv, TtType
    <3>3. /\ ttReg'[w] = ttFp
          /\ \A u \in Timer!Thread : u # w => ttPc'[u] = ttPc[u] /\ ttReg'[u] = ttReg[u]
      BY <2>2, <3>2 DEF TtMoves, TtInv, TtType
    <3>4. TtHeld("RUNNING")'
      BY <2>4, <3>2, <3>3 DEF TtHeld
    <3> QED BY <3>1, <3>2, <3>4 DEF TtAlarm, TtResting, TtLeaving
  <2>6. /\ ttPc'[w] \in (TtRunning \ {"born"}) \cup {"quit2"} /\ ttPc[w] # "quit2" /\ ttPc'[w] \notin TtStop \cup TtAsync
        /\ (ttPc'[w] \in TtRunning => ttPc'[w] = "quit1") /\ ttPc'[w] # "born1" /\ "quit1" \in TtLeaving
    BY <2>2 DEF TtRunning, TtResting, TtLeaving, TtStop, TtAsking, TtJoined, TtAsync
  <2>7. TtWorkerGoes(w)
    BY <2>2, <2>3, <2>4, <2>5, <2>6 DEF TtWorkerGoes
  <2> QED BY <2>7, TtWorkerKeeps
<1>3. CASE Timer!Broadcast(w, "quit2", "done")
  <2>1. ttPc[w] = "quit2" /\ ttRet[w] = <<>>
    BY <1>3 DEF Timer!Broadcast, TtInv, TtType, TtStop, TtAsking, TtJoined, TtAsync
  <2>2. TtPlain(w, "done", <<>>)
    BY <1>3, <1>s, <2>1, TtNoUpdate DEF Timer!Broadcast, TtMid
  <2>3. "done" \notin TtRunning /\ "done" \notin TtStop \cup TtAsync /\ "quit2" \notin TtRunning
    BY DEF TtRunning, TtResting, TtLeaving, TtStop, TtAsking, TtJoined, TtAsync
  <2>4. ttPc'[w] = "done" /\ ttRet'[w] = <<>> /\ ttFp' = ttFp /\ TtMoves(w) /\ TtKeeps({}, {})
    BY <2>2 DEF TtPlain
  <2>5. TtHeld("STOP") => TtHeld("STOP")'
    BY <2>4 DEF TtKeeps
  <2>6. TtWorkerGoes(w)
    BY <2>1, <2>3, <2>4, <2>5 DEF TtWorkerGoes
  <2> QED BY <2>6, TtWorkerKeeps
<1> QED BY <1>1, <1>2, <1>3 DEF Timer!ThreadFrame

(* timer_loop outside of its frame and of a stop.                          *)
LEMMA TtLoops ==
  ASSUME TtInv, NEW w \in Helper,
         Timer!LoopHead(w) \/ Timer!Check(w) \/ Timer!RingCallback(w) \/ Timer!TimedWait(w)
  PROVE  TtInv'
<1> USE NamesAssumption DEF Timer!Thread
<1> DEFINE p == ttPc[w]
<1>s. TtType
  BY DEF TtInv
<1>1. CASE Timer!Update(w, "ring", "ring1", {"CALLBACK"}, {}, "user")
  <2>1. TtUpdates(w, "ring", "ring1", {"CALLBACK"}, {}, "user")
    BY <1>1, <1>s, TtUpdate DEF TtMid
  <2> QED BY <2>1, TtGoesUpdate DEF TtRunning, TtResting, TtLeaving, TtStop, TtAsking, TtJoined, TtAsync
<1>2. CASE Timer!Update(w, "rang", "rang1", {}, {"CALLBACK"}, "wait")
  <2>1. TtUpdates(w, "rang", "rang1", {}, {"CALLBACK"}, "wait")
    BY <1>2, <1>s, TtUpdate DEF TtMid
  <2> QED BY <2>1, TtGoesUpdate DEF TtRunning, TtResting, TtLeaving, TtStop, TtAsking, TtJoined, TtAsync
<1>3. CASE /\ UNCHANGED <<ttFp, ttReg, ttTimer>> /\ p = "user" /\ Timer!Call(w, "stop", "rang")
  <2>1. p \in TtRunning \ {"born", "born1"} /\ p \notin TtLeaving /\ ttRet[w] = <<>>
    BY <1>3 DEF TtInv, TtType, TtRunning, TtResting, TtLeaving, TtStop, TtAsking, TtJoined, TtAsync
  <2>2. <<"rang">> \o ttRet[w] = <<"rang">>
    BY <2>1, Stacks
  <2>3. TtPlain(w, "stop", <<"rang">>)
    BY <1>3, <1>s, <2>2, TtNoUpdate DEF Timer!Call, TtMid
  <2>4. ttRet["ctl"] # <<"begin">>
    BY <2>1, TtKnows
  <2>5. "stop" \in TtRunning \ {"born", "born1"} /\ "stop" \in TtStop \cup TtAsync /\ "stop" \notin TtResting
    BY DEF TtRunning, TtStop, TtAsking, TtResting, TtLeaving
  <2> QED BY <1>3, <2>1, <2>3, <2>4, <2>5, TtGoesPlain
<1>4. ASSUME NEW to, UNCHANGED <<ttFp, ttReg, ttTimer, ttRet>>, Timer!Goto(w, to),
             \/ p = "loop" /\ to = "quit" /\ "STOP" \in ttFp
             \/ p = "loop" /\ to = "check" /\ "STOP" \notin ttFp
             \/ p = "check" /\ to \in {"ring", "wait"}
             \/ p = "wait" /\ to = "waiting"
             \/ p = "waiting" /\ to = "loop"
             \/ p = "user" /\ to = "rang"
      PROVE  TtInv'
  <2>1. p \in TtRunning \ {"born", "born1"} /\ to \in TtRunning \ {"born", "born1"} /\ to \notin TtMid
    BY <1>4 DEF TtRunning, TtResting, TtLeaving, TtMid
  <2>2. ttRet[w] = <<>> /\ to \notin TtStop \cup TtAsync
    BY <1>4 DEF TtInv, TtType, TtStop, TtAsking, TtJoined, TtAsync
  <2>3. TtPlain(w, to, <<>>)
    BY <1>4, <1>s, <2>1, <2>2, TtNoUpdate
  <2>4. ttRet["ctl"] = <<"begin">> => to \in TtLeaving
    <3>1. ttRet["ctl"] = <<"begin">> => p \in TtLeaving /\ "STOP" \in ttFp
      BY <2>1, TtKnows DEF TtHeld
    <3> QED BY <1>4, <3>1 DEF TtLeaving
  <2>5. /\ to \in TtResting => p \in TtResting
        /\ to = "check" => "STOP" \notin ttFp
        /\ p = "check" => to # "quit"
    BY <1>4 DEF TtResting, TtLeaving
  <2> QED BY <2>1, <2>2, <2>3, <2>4, <2>5, TtGoesPlain
<1>5. CASE Timer!LoopHead(w)
  BY <1>4, <1>5 DEF Timer!LoopHead, Timer!Step
<1>6. CASE Timer!Check(w)
  BY <1>4, <1>6 DEF Timer!Check
<1>7. CASE Timer!TimedWait(w)
  BY <1>4, <1>7 DEF Timer!TimedWait
<1>8. CASE Timer!RingCallback(w)
  BY <1>1, <1>2, <1>3, <1>4, <1>8 DEF Timer!RingCallback, Timer!Step
<1> QED BY <1>5, <1>6, <1>7, <1>8

(* ThreadedTimerEvent_stop and ThreadedTimerEvent_stop_async of the        *)
(* callback, also when another thread's update has taken CALLBACK away and *)
(* the thread asks to join itself.                                         *)
LEMMA TtWorkerStops ==
  ASSUME TtInv, NEW w \in Helper, Timer!ThreadedTimerEvent_stop(w) \/ Timer!ThreadedTimerEvent_stop_async(w)
  PROVE  TtInv'
<1> USE NamesAssumption DEF Timer!Thread
<1> DEFINE p == ttPc[w]
<1>s. TtType
  BY DEF TtInv
<1>0. p \in TtStop \cup TtAsync
  BY DEF Timer!ThreadedTimerEvent_stop, Timer!ThreadedTimerEvent_stop_async, Timer!Join, Timer!Update, Timer!Step,
         Timer!Broadcast, TtStop, TtAsking, TtJoined, TtAsync
<1>1. ttRet[w] = <<"rang">> /\ p \in TtRunning \ {"born", "born1"} /\ p \notin TtLeaving
  BY <1>0 DEF TtInv, TtType, TtRunning, TtResting, TtLeaving, TtStop, TtAsking, TtJoined, TtAsync
<1>2. ttRet["ctl"] # <<"begin">>
  BY <1>1, TtKnows
<1>3. CASE \/ Timer!Update(w, "async1", "async2", {"STOP"}, {}, "async3")
           \/ Timer!Update(w, "async4", "async5", {}, {"CREATED"}, "async6")
           \/ Timer!Update(w, "stop1", "stop2", {"STOP"}, {}, "stop3")
           \/ Timer!Update(w, "stop4", "stop4a", {}, {"CREATED"}, "stop5")
  <2>1. \/ TtUpdates(w, "async1", "async2", {"STOP"}, {}, "async3")
        \/ TtUpdates(w, "async4", "async5", {}, {"CREATED"}, "async6")
        \/ TtUpdates(w, "stop1", "stop2", {"STOP"}, {}, "stop3")
        \/ TtUpdates(w, "stop4", "stop4a", {}, {"CREATED"}, "stop5")
    BY <1>3, <1>s, TtUpdate DEF TtMid
  <2> QED BY <2>1, TtGoesUpdate DEF TtRunning, TtResting, TtLeaving, TtStop, TtAsking, TtJoined, TtAsync
<1>4. ASSUME NEW to, UNCHANGED <<ttFp, ttReg, ttTimer, ttRet>>, Timer!Goto(w, to),
             to \in {"async", "async1", "async4", "stop1", "stop5", "join", "stop4"}
      PROVE  TtInv'
  <2>1. /\ to \in TtRunning \ {"born", "born1"} /\ to \in TtStop \cup TtAsync
        /\ to \notin TtMid /\ to \notin TtResting /\ p # "check" /\ to # "check"
    BY <1>0, <1>1, <1>4 DEF TtRunning, TtResting, TtLeaving, TtStop, TtAsking, TtJoined, TtAsync, TtMid
  <2>2. TtPlain(w, to, <<"rang">>)
    BY <1>1, <1>4, <1>s, <2>1, TtNoUpdate
  <2> QED BY <1>1, <1>2, <2>1, <2>2, TtGoesPlain
<1>5. CASE UNCHANGED <<ttFp, ttReg, ttTimer>> /\ p \in {"async", "async6", "stop5"} /\ Timer!Return(w)
  <2>1. Head(ttRet[w]) = "rang" /\ Tail(ttRet[w]) = <<>>
    BY <1>1, Stacks
  <2>2. TtPlain(w, "rang", <<>>)
    BY <1>5, <1>s, <2>1, TtNoUpdate DEF Timer!Return, TtMid
  <2>3. "rang" \in TtRunning \ {"born", "born1"} /\ "rang" \notin TtStop \cup TtAsync /\ "rang" \notin TtResting
    BY DEF TtRunning, TtResting, TtLeaving, TtStop, TtAsking, TtJoined, TtAsync
  <2> QED BY <1>1, <1>2, <1>5, <2>2, <2>3, TtGoesPlain
<1> QED BY <1>3, <1>4, <1>5 DEF Timer!ThreadedTimerEvent_stop, Timer!ThreadedTimerEvent_stop_async, Timer!Join,
       Timer!Step, Timer!Broadcast

(* The same by ctl, for itself or for a start.                             *)
LEMMA TtControlStops ==
  ASSUME TtInv, Timer!ThreadedTimerEvent_stop("ctl") \/ Timer!ThreadedTimerEvent_stop_async("ctl")
  PROVE  TtInv'
<1> USE NamesAssumption DEF Timer!Thread
<1> DEFINE p == ttPc["ctl"]
           q == ttPc'["ctl"]
           b == ttRet["ctl"]
           Calling == TtStop \cup TtAsync
<1>s. TtType
  BY DEF TtInv
<1>0. p \in Calling
  BY DEF Timer!ThreadedTimerEvent_stop, Timer!ThreadedTimerEvent_stop_async, Timer!Join, Timer!Update, Timer!Step,
         Timer!Broadcast, TtStop, TtAsking, TtJoined, TtAsync
<1>1. b \in {<<"idle">>, <<"begin">>} /\ p # "idle"
  BY <1>0 DEF TtInv, TtType, TtControlAt, TtStop, TtAsking, TtJoined, TtAsync, TtAwait, TtBegin
<1>2. \A w \in Helper : ttPc[w] \in TtRunning =>
        /\ p \notin TtJoined /\ (TtAlarm(w) => p \in TtPending)
        /\ b = <<"begin">> =>
             /\ p \in TtAsking /\ ttPc[w] \in TtLeaving
             /\ TtHeld("STOP") /\ TtHeld("CREATED") /\ TtFree("CALLBACK")
  BY DEF TtInv, TtOneRuns
<1>3. ASSUME TtMoves("ctl"), q \in Calling, ttRet'["ctl"] = b, TtHeld("RUNNING") => TtHeld("RUNNING")',
             NEW raised, NEW lowered, TtKeeps(raised, lowered),
             \A w \in Helper : ttPc[w] \in TtRunning =>
               /\ q \notin TtJoined /\ (TtAlarm(w)' => q \in TtPending)
               /\ b = <<"begin">> =>
                    q \in TtAsking /\ "STOP" \notin lowered /\ "CREATED" \notin lowered /\ "CALLBACK" \notin raised
      PROVE  TtInv'
  <2>1. TtControlAt(q, ttRet'["ctl"]) /\ q \notin TtAwait \cup TtBegin
    BY <1>1, <1>3 DEF TtControlAt, TtStop, TtAsking, TtJoined, TtAsync, TtAwait, TtBegin
  <2>2. \A w \in Helper : ttPc[w] \in TtRunning /\ b = <<"begin">> =>
          TtHeld("STOP")' /\ TtHeld("CREATED")' /\ TtFree("CALLBACK")' /\ ttPc[w] \in TtLeaving
    BY <1>2, <1>3 DEF TtKeeps
  <2>3. TtStarting'
    BY <2>1 DEF TtStarting, TtBegin
  <2>4. TtControlGoes
    BY <1>1, <1>3, <2>1, <2>2, <2>3 DEF TtControlGoes
  <2> QED BY <2>4, TtControlKeeps
<1>4. ASSUME NEW at, NEW mid, NEW raised, NEW lowered, NEW to,
             TtUpdates("ctl", at, mid, raised, lowered, to),
             <<at, mid, to>> \in {<<"stop1", "stop2", "stop3">>, <<"stop4", "stop4a", "stop5">>,
                                  <<"async1", "async2", "async3">>, <<"async4", "async5", "async6">>},
             IF to \in {"stop3", "async3"} THEN raised = {"STOP"} /\ lowered = {} ELSE raised = {} /\ lowered = {"CREATED"}
      PROVE  TtInv'
  <2>1. /\ TtMoves("ctl") /\ ttRet'["ctl"] = b /\ TtKeeps(raised, lowered)
        /\ \/ p = at /\ q = mid /\ ttFp' = ttFp
           \/ p = mid /\ q = to /\ lowered \cap ttFp' = {}
    BY <1>4 DEF TtUpdates
  <2>2. TtHeld("RUNNING") => TtHeld("RUNNING")'
    BY <1>4, <2>1 DEF TtKeeps
  <2>3. q \in Calling
    BY <1>4, <2>1 DEF TtStop, TtAsking, TtJoined, TtAsync
  <2>4. ASSUME NEW w \in Helper, ttPc[w] \in TtRunning
        PROVE  /\ q \notin TtJoined /\ (TtAlarm(w)' => q \in TtPending)
               /\ b = <<"begin">> =>
                    q \in TtAsking /\ "STOP" \notin lowered /\ "CREATED" \notin lowered /\ "CALLBACK" \notin raised
    <3>1. p \notin {"stop4", "stop4a"} /\ (b = <<"begin">> => p \in {"stop1", "stop2"})
      BY <1>2, <1>4, <2>1, <2>4 DEF TtJoined, TtAsking
    <3>2. ttPc'[w] = ttPc[w]
      BY <2>1 DEF TtMoves, TtInv, TtType
    <3>3. TtAlarm(w)' => q \in TtPending
      <4>1. CASE p = at /\ q = mid /\ ttFp' = ttFp
        <5>1. TtAlarm(w)' => p \in TtPending
          BY <1>2, <2>4, <3>2, <4>1 DEF TtAlarm
        <5> QED BY <1>4, <3>1, <4>1, <5>1 DEF TtPending
      <4>2. CASE p = mid /\ q = to /\ lowered \cap ttFp' = {}
        <5>1. CASE to \in {"stop3", "async3"}
          BY <4>2, <5>1 DEF TtPending
        <5>2. CASE to \notin {"stop3", "async3"}
          <6>1. "CREATED" \notin ttFp'
            BY <1>4, <4>2, <5>2
          <6> QED BY <6>1 DEF TtAlarm
        <5> QED BY <5>1, <5>2
      <4> QED BY <2>1, <4>1, <4>2
    <3> QED BY <1>4, <2>1, <3>1, <3>3 DEF TtJoined, TtAsking
  <2> QED BY <1>3, <2>1, <2>2, <2>3, <2>4
<1>5. CASE \/ Timer!Update("ctl", "stop1", "stop2", {"STOP"}, {}, "stop3")
           \/ Timer!Update("ctl", "stop4", "stop4a", {}, {"CREATED"}, "stop5")
           \/ Timer!Update("ctl", "async1", "async2", {"STOP"}, {}, "async3")
           \/ Timer!Update("ctl", "async4", "async5", {}, {"CREATED"}, "async6")
  <2>1. \/ TtUpdates("ctl", "stop1", "stop2", {"STOP"}, {}, "stop3")
        \/ TtUpdates("ctl", "stop4", "stop4a", {}, {"CREATED"}, "stop5")
        \/ TtUpdates("ctl", "async1", "async2", {"STOP"}, {}, "async3")
        \/ TtUpdates("ctl", "async4", "async5", {}, {"CREATED"}, "async6")
    BY <1>5, <1>s, TtUpdate DEF TtMid
  <2> QED BY <1>4, <2>1
<1>6. ASSUME NEW to, UNCHANGED <<ttFp, ttReg, ttTimer, ttRet>>, Timer!Goto("ctl", to),
             \/ p = "stop" /\ to = "async" /\ "CALLBACK" \in ttFp
             \/ p = "stop" /\ to = "stop1"
             \/ p = "stop" /\ to = "stop5" /\ "CREATED" \notin ttFp
             \/ p = "stop3" /\ to = "join"
             \/ p = "join" /\ to = "stop4" /\ ~Timer!Live(ttTimer)
             \/ p = "async" /\ to = "async1"
             \/ p = "async3" /\ to = "async4"
      PROVE  TtInv'
  <2>1. TtPlain("ctl", to, b)
    BY <1>6, <1>s, TtNoUpdate DEF TtMid
  <2>2. /\ TtMoves("ctl") /\ ttRet'["ctl"] = b /\ TtKeeps({}, {}) /\ q = to /\ ttFp' = ttFp
        /\ TtHeld("RUNNING") => TtHeld("RUNNING")'
    BY <2>1 DEF TtPlain, TtKeeps
  <2>3. q \in Calling
    BY <1>6, <2>2 DEF TtStop, TtAsking, TtJoined, TtAsync
  <2>4. ASSUME NEW w \in Helper, ttPc[w] \in TtRunning
        PROVE  q \notin TtJoined /\ (TtAlarm(w)' => q \in TtPending) /\ (b = <<"begin">> => q \in TtAsking)
    <3>1. p # "join" \/ to # "stop4"
      <4>1. w = ttTimer /\ Timer!Live(w)
        BY <2>4 DEF TtInv, TtOneRuns, Timer!Live, TtRunning, TtResting, TtLeaving, TtStop, TtAsking, TtJoined, TtAsync
      <4> QED BY <1>6, <4>1
    <3>2. ttPc'[w] = ttPc[w]
      BY <2>2 DEF TtMoves, TtInv, TtType
    <3>3. TtAlarm(w)' => p \in TtPending
      BY <1>2, <2>2, <2>4, <3>2 DEF TtAlarm
    <3>4. b = <<"begin">> => p \in TtAsking /\ "CALLBACK" \notin ttFp /\ "CREATED" \in ttFp
      BY <1>2, <2>4 DEF TtHeld, TtFree
    <3> QED BY <1>6, <2>2, <3>1, <3>3, <3>4 DEF TtPending, TtJoined, TtAsking
  <2> QED BY <1>3, <2>2, <2>3, <2>4
<1>7. CASE UNCHANGED <<ttFp, ttReg, ttTimer>> /\ p \in {"async", "async6", "stop5"} /\ Timer!Return("ctl")
  <2>1. Head(b) \in {"idle", "begin"} /\ Tail(b) = <<>> /\ (Head(b) = "begin" => b = <<"begin">>)
    BY <1>1, Stacks
  <2>2. TtPlain("ctl", Head(b), <<>>)
    BY <1>7, <1>s, <2>1, TtNoUpdate DEF Timer!Return, TtMid
  <2>3. /\ TtMoves("ctl") /\ ttRet'["ctl"] = <<>> /\ q = Head(b) /\ ttFp' = ttFp
        /\ TtHeld("RUNNING") => TtHeld("RUNNING")'
    BY <2>2 DEF TtPlain, TtKeeps
  <2>4. TtControlAt(q, ttRet'["ctl"]) /\ q \notin TtAwait /\ TtStarting'
    BY <2>1, <2>3 DEF TtControlAt, TtBegin, TtAwait, TtStarting
  <2>5. ASSUME NEW w \in Helper, ttPc[w] \in TtRunning PROVE q = "idle" /\ ~TtAlarm(w)'
    <3>1. b # <<"begin">>
      BY <1>2, <1>7, <2>5 DEF TtAsking
    <3>2. ttPc'[w] = ttPc[w]
      BY <2>3 DEF TtMoves, TtInv, TtType
    <3>3. ~TtAlarm(w)
      BY <1>2, <1>7, <2>5 DEF TtPending
    <3> QED BY <2>1, <2>3, <3>1, <3>2, <3>3 DEF TtAlarm
  <2>6. "idle" \notin TtBegin \cup TtJoined
    BY DEF TtBegin, TtJoined
  <2>7. TtControlGoes
    BY <1>1, <2>3, <2>4, <2>5, <2>6 DEF TtControlGoes
  <2> QED BY <2>7, TtControlKeeps
<1>8. CASE Timer!Join("ctl")
  <2>1. ttTimer # "ctl"
    BY DEF TtInv, TtType
  <2> QED BY <1>6, <1>8, <2>1 DEF Timer!Join, Timer!Step
<1> QED BY <1>5, <1>6, <1>7, <1>8 DEF Timer!ThreadedTimerEvent_stop, Timer!ThreadedTimerEvent_stop_async,
       Timer!Step, Timer!Broadcast

(* ThreadedTimerEvent_start: with RUNNING down, or told to stop and waited *)
(* for, no timer thread is left to run beside the one it creates.          *)
LEMMA TtStarts ==
  ASSUME TtInv, Timer!AwaitDetached \/ Timer!StartThread
  PROVE  TtInv'
<1> USE NamesAssumption DEF Timer!Thread
<1> DEFINE p == ttPc["ctl"]
           q == ttPc'["ctl"]
           NoRunner == \A w \in Helper : ttPc[w] \notin TtRunning
<1>s. TtType
  BY DEF TtInv
<1>0. p \in TtAwait \cup TtBegin
  BY DEF Timer!AwaitDetached, Timer!StartThread, Timer!Update, Timer!Step, TtBegin, TtAwait
<1>1. ttRet["ctl"] = <<>> /\ p # "idle" /\ (p \in TtBegin => NoRunner)
  BY <1>0 DEF TtInv, TtType, TtControlAt, TtOneRuns, TtStop, TtAsking, TtJoined, TtAsync, TtBegin, TtAwait
<1>2. CASE /\ UNCHANGED <<ttFp, ttReg, ttTimer, ttRet>> /\ p \in TtAwait
           /\ \/ \E to \in TtAwait : Timer!Goto("ctl", to)
              \/ Timer!Goto("ctl", "begin") /\ ~({"RUNNING", "STOP"} \subseteq ttFp)
  <2>1. \/ TtPlain("ctl", "begin", <<>>) /\ ~({"RUNNING", "STOP"} \subseteq ttFp)
        \/ \E to \in TtAwait : TtPlain("ctl", to, <<>>)
    BY <1>1, <1>2, <1>s, TtNoUpdate DEF TtMid, TtAwait
  <2>2. /\ q \in TtAwait \cup {"begin"} /\ ttRet'["ctl"] = <<>> /\ TtMoves("ctl") /\ ttFp' = ttFp /\ TtKeeps({}, {})
        /\ q = "begin" => ~({"RUNNING", "STOP"} \subseteq ttFp)
    BY <2>1 DEF TtPlain, TtAwait
  <2>3. /\ TtHeld("RUNNING") => TtHeld("RUNNING")'
        /\ TtHeld("STOP") => TtHeld("STOP")'
    BY <2>2 DEF TtKeeps
  <2>4. ASSUME NEW w \in Helper, ttPc[w] \in TtRunning
        PROVE  q \notin TtBegin \cup TtJoined /\ TtHeld("STOP")' /\ ~TtAlarm(w)'
    <3>1. TtHeld("STOP") /\ TtHeld("RUNNING") /\ ~TtAlarm(w)
      BY <1>1, <1>2, <2>4 DEF TtInv, TtOneRuns, TtAwait, TtPending
    <3>2. ttPc'[w] = ttPc[w]
      BY <2>2 DEF TtMoves, TtInv, TtType
    <3>3. ~TtAlarm(w)'
      BY <2>2, <3>1, <3>2 DEF TtAlarm
    <3>4. q \in TtAwait
      BY <2>2, <3>1 DEF TtHeld
    <3> QED BY <2>3, <3>1, <3>3, <3>4 DEF TtBegin, TtJoined, TtAwait
  <2>5. TtControlAt(q, ttRet'["ctl"]) /\ TtStarting'
    BY <2>2 DEF TtControlAt, TtBegin, TtAwait, TtStarting
  <2>6. TtControlGoes
    BY <1>1, <2>2, <2>3, <2>4, <2>5 DEF TtControlGoes
  <2> QED BY <2>6, TtControlKeeps
<1>3. CASE \/ p = "begin" /\ Timer!Goto("ctl", "start1") /\ UNCHANGED <<ttFp, ttReg, ttTimer, ttRet>>
           \/ Timer!Update("ctl", "start1", "start2", {}, {"STOP"}, "start3")
           \/ Timer!Update("ctl", "start3", "start4", {"CREATED"}, {}, "create")
           \/ Timer!Update("ctl", "create", "create1", {}, {"CREATED"}, "idle")
  <2>1. \/ p = "begin" /\ TtPlain("ctl", "start1", ttRet["ctl"])
        \/ TtUpdates("ctl", "start1", "start2", {}, {"STOP"}, "start3")
        \/ TtUpdates("ctl", "start3", "start4", {"CREATED"}, {}, "create")
        \/ TtUpdates("ctl", "create", "create1", {}, {"CREATED"}, "idle")
    BY <1>3, <1>s, TtUpdate, TtNoUpdate DEF TtMid
  <2>2. /\ TtMoves("ctl") /\ ttRet'["ctl"] = <<>> /\ p \in TtBegin /\ q \in TtBegin \cup {"idle"}
        /\ TtHeld("RUNNING") => TtHeld("RUNNING")'
    BY <1>1, <2>1 DEF TtPlain, TtUpdates, TtBegin, TtKeeps
  <2>3. NoRunner
    BY <1>1, <2>2
  <2>4. TtStarting'
    <3>1. CASE p \in {"start3", "start4", "create", "create1"}
      <4>1. TtFree("STOP")
        BY <3>1 DEF TtInv, TtStarting
      <4>2. TtFree("STOP")'
        BY <2>1, <3>1, <4>1 DEF TtUpdates, TtKeeps
      <4> QED BY <4>2 DEF TtStarting
    <3>2. CASE p \notin {"start3", "start4", "create", "create1"} /\ q = "start3"
      <4>1. "STOP" \notin ttFp'
        BY <2>1, <3>2 DEF TtPlain, TtUpdates
      <4>2. \A w \in Helper : ttPc'[w] \in {"unborn", "quit2", "done"}
        BY <2>2, <2>3 DEF TtInv, TtType, TtMoves, TtRunning
      <4>3. ttPc'["guest"] \in {"idle", "waiting"}
        BY <2>2 DEF TtInv, TtType, TtMoves
      <4>4. \A u \in Timer!Thread : ttPc'[u] \notin TtMid
        BY <3>2, <4>2, <4>3 DEF TtMid
      <4> QED BY <4>1, <4>4 DEF TtStarting, TtFree
    <3>3. CASE p \notin {"start3", "start4", "create", "create1"} /\ q # "start3"
      <4>1. q \in {"start1", "start2"}
        BY <2>1, <3>3 DEF TtPlain, TtUpdates
      <4> QED BY <4>1 DEF TtStarting
    <3> QED BY <3>1, <3>2, <3>3
  <2>5. TtControlAt(q, ttRet'["ctl"])
    BY <2>2 DEF TtControlAt
  <2>6. TtControlGoes
    BY <1>1, <2>2, <2>3, <2>4, <2>5 DEF TtControlGoes
  <2> QED BY <2>6, TtControlKeeps
<1>4. CASE /\ p = "create" /\ UNCHANGED <<ttFp, ttReg, ttRet>>
           /\ \E w \in Helper : ~Timer!Live(w) /\ ttTimer' = w /\ ttPc' = [ttPc EXCEPT ![w] = "born", !["ctl"] = "idle"]
  <2>1. PICK w \in Helper : ~Timer!Live(w) /\ ttTimer' = w /\ ttPc' = [ttPc EXCEPT ![w] = "born", !["ctl"] = "idle"]
    BY <1>4
  <2>2. ttRet[w] = <<>> /\ NoRunner /\ TtFree("STOP")
    BY <1>1, <1>4, <2>1 DEF TtInv, TtType, TtStarting, TtBegin, Timer!Live, TtStop, TtAsking, TtJoined, TtAsync
  <2>3. /\ q = "idle" /\ ttPc'[w] = "born" /\ ttPc'["guest"] = ttPc["guest"] /\ w # "ctl" /\ w # "guest"
        /\ \A u \in Helper : u # w => ttPc'[u] = ttPc[u]
        /\ ttPc' = [u \in Timer!Thread |-> ttPc'[u]]
    BY <2>1 DEF TtInv, TtType
  <2>4. TtType'
    <3>1. "born" \in TtRunning \ (TtStop \cup TtAsync)
      BY DEF TtRunning, TtStop, TtAsking, TtJoined, TtAsync
    <3>2. TtControlAt("idle", <<>>)
      BY DEF TtControlAt
    <3> QED BY <1>1, <1>4, <2>1, <2>2, <2>3, <3>1, <3>2 DEF TtInv, TtType
  <2>5. TtFree("STOP")'
    <3>1. \A u \in Timer!Thread : ttPc'[u] \in TtMid => ttPc[u] \in TtMid
      BY <2>3 DEF TtMid
    <3> QED BY <1>4, <2>2, <3>1 DEF TtFree
  <2>6. TtOneRuns'
    <3>1. q \notin TtBegin \cup TtJoined \cup TtAwait /\ ttRet'["ctl"] # <<"begin">>
      BY <1>1, <1>4, <2>3 DEF TtBegin, TtJoined, TtAwait
    <3>2. \A u \in Helper : u # w => ttPc'[u] \notin TtRunning
      BY <2>2, <2>3
    <3>3. ttPc'[w] = "born" /\ ttTimer' = w /\ ~TtAlarm(w)'
      BY <2>1, <2>3 DEF TtAlarm, TtResting, TtLeaving
    <3> QED BY <2>3, <2>5, <3>1, <3>2, <3>3 DEF TtOneRuns
  <2>7. TtStarting'
    BY <2>5 DEF TtStarting
  <2> QED BY <2>4, <2>6, <2>7 DEF TtInv
<1> QED BY <1>2, <1>3, <1>4 DEF Timer!AwaitDetached, Timer!StartThread, Timer!Step, TtAwait

(* The calls of a patient caller: when it starts, no update is under way,  *)
(* so that a thread that was told to stop has STOP held up, and is not in  *)
(* a ring if it is still CREATED.                                          *)
LEMMA TtCalls ==
  ASSUME TtInv, Patient, Timer!ThreadedTimerEvent_start \/ Timer!StopCalls
  PROVE  TtInv'
<1> USE NamesAssumption DEF Timer!Thread
<1> DEFINE p == ttPc["ctl"]
           q == ttPc'["ctl"]
<1>s. TtType
  BY DEF TtInv
<1>1. /\ p = "idle" /\ UNCHANGED <<ttFp, ttReg, ttTimer>>
      /\ \A w \in Helper : ttPc[w] \in {"unborn", "done", "loop", "check", "user", "wait", "waiting", "quit"}
  BY DEF Timer!ThreadedTimerEvent_start, Timer!StopCalls, Timer!MayCall
<1>2. ttRet["ctl"] = <<>>
  BY <1>1 DEF TtInv, TtType, TtControlAt, TtStop, TtAsking, TtJoined, TtAsync
<1>3. \A w \in Helper : ttPc[w] \in TtRunning =>
        TtHeld("RUNNING") /\ "RUNNING" \in ttFp /\ ~TtAlarm(w)
  BY <1>1 DEF TtInv, TtOneRuns, TtHeld, TtPending
<1>4. \A f : (f \in ttFp => TtHeld(f)) /\ (f \notin ttFp => TtFree(f))
  <2>1. \A u \in Timer!Thread : ttPc[u] \notin TtMid
    BY <1>1 DEF TtInv, TtType, TtMid
  <2> QED BY <2>1 DEF TtHeld, TtFree
<1>5. CASE UNCHANGED <<ttPc, ttRet>>
  BY <1>1, <1>5 DEF TtInv, TtType, TtOneRuns, TtStarting, TtHeld, TtFree, TtAlarm
<1>6. ASSUME TtMoves("ctl"), TtKeeps({}, {}), ttFp' = ttFp, TtControlAt(q, ttRet'["ctl"]),
             q \in {"stop", "async", "detached"},
             \A w \in Helper : ttPc[w] \in TtRunning =>
               /\ ttRet'["ctl"] = <<"begin">> =>
                    /\ q = "stop" /\ ttPc[w] \in TtLeaving
                    /\ TtHeld("STOP") /\ TtHeld("CREATED") /\ TtFree("CALLBACK")
               /\ q = "detached" => TtHeld("STOP")
      PROVE  TtInv'
  <2>1. \A w \in Helper : w # "ctl" /\ ttPc'[w] = ttPc[w]
    BY <1>6 DEF TtMoves, TtInv, TtType
  <2>2. \A w \in Helper : ttPc[w] \in TtRunning => ~TtAlarm(w)'
    BY <1>3, <1>6, <2>1 DEF TtAlarm
  <2>3. /\ \A f : (TtHeld(f) => TtHeld(f)') /\ (TtFree(f) => TtFree(f)')
        /\ q \notin TtBegin \cup TtJoined /\ (q = "stop" => q \in TtAsking) /\ (q \in TtAwait => q = "detached")
        /\ TtStarting'
    BY <1>6 DEF TtKeeps, TtBegin, TtJoined, TtAsking, TtAwait, TtStarting
  <2>4. TtControlGoes
    BY <1>1, <1>6, <2>2, <2>3 DEF TtControlGoes
  <2> QED BY <2>4, TtControlKeeps
<1>7. <<"idle">> \o ttRet["ctl"] = <<"idle">> /\ <<"begin">> \o ttRet["ctl"] = <<"begin">>
  BY <1>2, Stacks
<1>8. CASE Timer!StopCalls
  <2>1. TtPlain("ctl", "stop", <<"idle">>) \/ TtPlain("ctl", "async", <<"idle">>)
    BY <1>1, <1>7, <1>8, <1>s, TtNoUpdate DEF Timer!StopCalls, Timer!Call, TtMid
  <2>2. /\ TtMoves("ctl") /\ TtKeeps({}, {}) /\ ttFp' = ttFp /\ q \in {"stop", "async"} /\ ttRet'["ctl"] = <<"idle">>
    BY <2>1 DEF TtPlain
  <2>3. TtControlAt(q, ttRet'["ctl"])
    BY <2>2 DEF TtControlAt, TtStop, TtAsking, TtAsync
  <2> QED BY <1>6, <2>2, <2>3
<1>9. CASE /\ Timer!Call("ctl", "stop", "begin") /\ "CREATED" \in ttFp /\ ("RUNNING" \in ttFp => "STOP" \in ttFp)
           /\ \A w \in Helper : ttPc[w] # "user"
  <2>1. TtPlain("ctl", "stop", <<"begin">>)
    BY <1>1, <1>7, <1>9, <1>s, TtNoUpdate DEF Timer!Call, TtMid
  <2>2. /\ TtMoves("ctl") /\ TtKeeps({}, {}) /\ ttFp' = ttFp /\ q = "stop" /\ ttRet'["ctl"] = <<"begin">>
    BY <2>1 DEF TtPlain
  <2>3. TtControlAt(q, ttRet'["ctl"])
    BY <2>2 DEF TtControlAt, TtStop, TtAsking
  <2>4. ASSUME NEW w \in Helper, ttPc[w] \in TtRunning
        PROVE  ttPc[w] \in TtLeaving /\ TtHeld("STOP") /\ TtHeld("CREATED") /\ TtFree("CALLBACK")
    <3>1. "STOP" \in ttFp /\ ~TtAlarm(w)
      BY <1>3, <1>9, <2>4
    <3>2. ttPc[w] \in TtResting
      <4>1. "unborn" \notin TtRunning /\ "done" \notin TtRunning
        BY DEF TtRunning, TtResting, TtLeaving, TtStop, TtAsking, TtJoined, TtAsync
      <4> QED BY <1>1, <1>9, <2>4, <4>1 DEF TtResting, TtLeaving
    <3>3. ttPc[w] # "check" /\ "CALLBACK" \notin ttFp
      BY <1>9, <3>1, <3>2 DEF TtAlarm
    <3> QED BY <1>4, <1>9, <3>1, <3>2, <3>3 DEF TtResting
  <2> QED BY <1>6, <2>2, <2>3, <2>4
<1>10. CASE Timer!Goto("ctl", "detached") /\ ttRet' = ttRet /\ ("RUNNING" \in ttFp => "STOP" \in ttFp)
  <2>1. TtPlain("ctl", "detached", <<>>)
    BY <1>1, <1>2, <1>10, <1>s, TtNoUpdate DEF TtMid
  <2>2. /\ TtMoves("ctl") /\ TtKeeps({}, {}) /\ ttFp' = ttFp /\ q = "detached" /\ ttRet'["ctl"] = <<>>
    BY <2>1 DEF TtPlain
  <2>3. TtControlAt(q, ttRet'["ctl"])
    BY <2>2 DEF TtControlAt, TtAwait
  <2> QED BY <1>3, <1>4, <1>6, <1>10, <2>2, <2>3
<1> QED BY <1>5, <1>8, <1>9, <1>10 DEF Timer!ThreadedTimerEvent_start

(* A step of another component, the time passing, and a fresh event in the *)
(* place of a freed one.                                                   *)
LEMMA TtStutter ==
  ASSUME TtInv, UNCHANGED ttVars \/ Timer!newThreadedTimerEvent \/ Timer!Tick
  PROVE  TtInv'
<1>1. UNCHANGED <<ttFp, ttReg, ttTimer, ttPc, ttRet>>
  BY DEF ttVars, Timer!newThreadedTimerEvent, Timer!Tick
<1> QED BY <1>1 DEF TtInv, TtType, TtOneRuns, TtStarting, TtHeld, TtFree, TtAlarm, Timer!Thread

(* Every step of a ThreadedTimerEvent, its thread and its callers keeps    *)
(* the invariant.                                                          *)
LEMMA TtNextKeepsInv == TtInv /\ Patient /\ Timer!Next => TtInv'
<1> SUFFICES ASSUME TtInv, Patient, Timer!Next PROVE TtInv'
  OBVIOUS
<1>1. CASE \E w \in Helper : Timer!TimerStep(w)
  BY <1>1, TtFrames, TtLoops, TtWorkerStops DEF Timer!TimerStep
<1>2. CASE Timer!ControlStep
  BY <1>2, TtControlStops, TtStarts DEF Timer!ControlStep
<1>3. CASE Timer!ThreadedTimerEvent_start \/ Timer!StopCalls
  BY <1>3, TtCalls
<1>4. CASE Timer!newThreadedTimerEvent \/ Timer!Tick
  BY <1>4, TtStutter
<1>5. CASE Timer!freeThreadedTimerEvent
  <2>1. /\ ttPc["ctl"] = "idle" /\ \A w \in Helper : ttPc[w] \in {"unborn", "done"}
        /\ UNCHANGED <<ttReg, ttTimer, ttPc, ttRet>>
    BY <1>5 DEF Timer!freeThreadedTimerEvent, Timer!MayCall, Timer!Live
  <2>2. TtType'
    BY <2>1 DEF TtInv, TtType, Timer!Thread
  <2>3. TtOneRuns' /\ TtStarting'
    BY <2>1 DEF TtOneRuns, TtStarting, TtRunning, TtResting, TtLeaving, TtStop, TtAsking, TtJoined, TtAsync
  <2> QED BY <2>2, <2>3 DEF TtInv
<1>6. CASE Timer!ThreadedTimerEvent_wait
  <2>1. /\ UNCHANGED <<ttFp, ttReg, ttTimer, ttRet>>
        /\ \E to \in {"idle", "waiting"} : Timer!Goto("guest", to)
    BY <1>6 DEF Timer!ThreadedTimerEvent_wait, Timer!Step
  <2>2. PICK to \in {"idle", "waiting"} : TtPlain("guest", to, ttRet["guest"])
    BY <2>1, TtNoUpdate DEF TtInv, TtMid, Timer!Thread
  <2>3. /\ ttPc'["guest"] \in {"idle", "waiting"} /\ ttPc' = [u \in Timer!Thread |-> ttPc'[u]]
        /\ \A w \in Helper : ttPc'[w] = ttPc[w]
        /\ ttPc'["ctl"] = ttPc["ctl"]
        /\ \A f : (TtHeld(f) => TtHeld(f)') /\ (TtFree(f) => TtFree(f)')
    BY <2>2, NamesAssumption DEF TtPlain, TtMoves, TtKeeps, TtInv, TtType, Timer!Thread
  <2>4. TtType'
    BY <2>1, <2>3 DEF TtInv, TtType, Timer!Thread
  <2>5. \A w \in Helper : TtAlarm(w)' => TtAlarm(w)
    BY <2>1, <2>3 DEF TtAlarm
  <2>6. TtOneRuns' /\ TtStarting'
    BY <2>1, <2>3, <2>5 DEF TtInv, TtOneRuns, TtStarting
  <2> QED BY <2>4, <2>6 DEF TtInv
<1> QED BY <1>1, <1>2, <1>3, <1>4, <1>5, <1>6 DEF Timer!Next

-----------------------------------------------------------------------------
(* FdClient: the listening threads.                                        *)

(* The invariant of FdClient: only the thread created last may be alive,   *)
(* it is alive only while the client is, and a caller that joins or        *)
(* deletes without CREATED has joined it before.                           *)
FdInv ==
  /\ fcThread \in Helper /\ fcFreed \in BOOLEAN
  /\ fcPc = [t \in Fd!Thread |-> fcPc[t]] /\ fcPc["ctl"] \in {"idle", "join", "delete"}
  /\ \A l \in Helper : Fd!Live(l) => l = fcThread /\ ~fcFreed
  /\ fcPc["ctl"] # "idle" => ~fcFreed
  /\ fcPc["ctl"] # "idle" /\ "CREATED" \notin fcFlags => ~Fd!Live(fcThread)

(* A client that was just created has no thread.                           *)
LEMMA FdInit == Fd!Init => FdInv
BY NamesAssumption DEF Fd!Init, FdInv, Fd!Thread, Fd!Live

(* A listening thread moves only itself, and never raises or lowers        *)
(* CREATED.                                                                *)
LEMMA FdListenerKeepsInv ==
  ASSUME FdInv, NEW l \in Helper, Fd!ListenerStep(l) \/ Fd!EpollData(l)
  PROVE  FdInv'
<1>1. PICK to : Fd!Live(l) /\ fcPc' = [fcPc EXCEPT ![l] = to]
  BY DEF Fd!ListenerStep, Fd!EpollData, Fd!ListenBegins, Fd!ListenConnects, Fd!ListenEpoll,
         Fd!LoopHead, Fd!EpollWait, Fd!Receive, Fd!ListenEnds, Fd!Step, Fd!Goto, Fd!Live
<1>2. fcThread' = fcThread /\ fcFreed' = fcFreed
  BY DEF Fd!ListenerStep, Fd!EpollData, Fd!ListenBegins, Fd!ListenConnects, Fd!ListenEpoll,
         Fd!LoopHead, Fd!EpollWait, Fd!Receive, Fd!ListenEnds, Fd!Step
<1>3. "CREATED" \in fcFlags' <=> "CREATED" \in fcFlags
  BY DEF Fd!ListenerStep, Fd!EpollData, Fd!ListenBegins, Fd!ListenConnects, Fd!ListenEpoll,
         Fd!LoopHead, Fd!EpollWait, Fd!Receive, Fd!ListenEnds, Fd!Step
<1> QED BY <1>1, <1>2, <1>3, NamesAssumption DEF FdInv, Fd!Live, Fd!Thread

(* Every step of an FdClient, its listener and its caller keeps the        *)
(* invariant.                                                              *)
LEMMA FdNextKeepsInv == FdInv /\ Careful /\ Fd!Next => FdInv'
<1> SUFFICES ASSUME FdInv, Careful, Fd!Next PROVE FdInv'
  OBVIOUS
<1> USE NamesAssumption DEF FdInv, Fd!Live, Fd!Thread, Fd!Goto, Fd!MayCall, Fd!Settled
<1>1. CASE \E l \in Helper : Fd!ListenerStep(l) \/ Fd!EpollData(l)
  BY <1>1, FdListenerKeepsInv
<1>2. CASE Fd!FdClient_connect \/ Fd!CloseCall \/ Fd!HangUp
  BY <1>2 DEF Fd!FdClient_connect, Fd!CloseCall, Fd!HangUp
<1>3. CASE Fd!FdClient_listen_async
  BY <1>3 DEF Fd!FdClient_listen_async
<1>4. CASE Fd!StartListener
  BY <1>4 DEF Fd!StartListener
<1>5. CASE Fd!delFdClient
  <2>1. CASE Fd!Settled /\ fcPc' = [fcPc EXCEPT !["ctl"] = "delete"] /\ UNCHANGED <<fcFlags, fcThread, fcFreed>>
    BY <2>1
  <2>2. CASE /\ fcPc["ctl"] = "delete" /\ ("CREATED" \in fcFlags => ~Fd!Live(fcThread))
             /\ fcPc' = [fcPc EXCEPT !["ctl"] = "idle"] /\ fcFreed' = TRUE /\ UNCHANGED <<fcFlags, fcThread>>
    <3>1. \A l \in Helper : ~Fd!Live(l)
      BY <2>2
    <3> QED BY <2>2, <3>1
  <2> QED BY <1>5, <2>1, <2>2 DEF Fd!delFdClient
<1>6. CASE Fd!newFdClient
  BY <1>6 DEF Fd!newFdClient
<1> QED BY <1>1, <1>2, <1>3, <1>4, <1>5, <1>6 DEF Fd!Next

(* A step of another component.                                            *)
LEMMA FdStutter == FdInv /\ UNCHANGED fcVars => FdInv'
BY DEF FdInv, fcVars, Fd!Live, Fd!Thread

-----------------------------------------------------------------------------
(* The composition: one component moves, the others keep their state.      *)

(* The invariant of MCThreads, for callers that keep to Patient and        *)
(* Careful.                                                                *)
ThreadsInv == TtInv /\ TcInv /\ FdInv /\ UvInv

(* A step of one component keeps all of the invariants.                    *)
LEMMA NextKeepsInv ==
  ASSUME Patient, Careful, ThreadsInv, [Next]_allVars
  PROVE  ThreadsInv'
<1> USE DEF ThreadsInv
<1>1. CASE UNCHANGED allVars
  BY <1>1, TtStutter, TcStutter, FdStutter, UvStutter DEF allVars
<1>3. CASE On("timer", Timer!Next)
  BY <1>3, TtNextKeepsInv, TcStutter, FdStutter, UvStutter DEF On
<1>4. CASE On("tcp", Tcp!Next)
  BY <1>4, TtStutter, TcNextKeepsInv, FdStutter, UvStutter DEF On
<1>5. CASE On("fd", Fd!Next)
  BY <1>5, TtStutter, TcStutter, FdNextKeepsInv, UvStutter DEF On
<1>6. CASE On("uv", Uv!Next)
  BY <1>6, TtStutter, TcStutter, FdStutter, UvNextKeepsInv DEF On
<1>7. CASE On("waiter", Waiter!Next) \/ On("uvclient", UvClient!Next) \/ On("signals", Signals!Next)
  BY <1>7, TtStutter, TcStutter, FdStutter, UvStutter DEF On
<1> QED BY <1>1, <1>3, <1>4, <1>5, <1>6, <1>7 DEF Next

(* The inductive invariant holds in every state, for any number of         *)
(* threads, sockets and peers, and however the flag updates of the threads *)
(* overlap: of callers that make a call when the thread has reached its    *)
(* loop or has returned (Patient), and of an FdClient when its listener    *)
(* is settled (Careful).                                                   *)
THEOREM ThreadsInvariant ==
  ASSUME Patient, Careful
  PROVE  Spec => []ThreadsInv
<1>1. Init => ThreadsInv
  BY TtInit, TcInit, FdInit, UvInit DEF Init, ThreadsInv
<1>2. ThreadsInv /\ [Next]_allVars => ThreadsInv'
  BY NextKeepsInv
<1> QED BY <1>1, <1>2, PTL DEF Spec

(* A set without two members has at most one.                              *)
LEMMA AtMostOne ==
  ASSUME NEW S, \A a, b \in S : a = b
  PROVE  Cardinality(S) <= 1
<1>1. CASE S = {}
  BY <1>1, FS_EmptySet
<1>2. CASE S # {}
  <2>1. PICK a \in S : S = {a}
    BY <1>2
  <2> QED BY <2>1, FS_Singleton
<1> QED BY <1>1, <1>2

(* A ThreadedTimerEvent is run, and a TcpClient read, by one thread at a   *)
(* time, and an FdClient is freed after its listener has returned: start   *)
(* joins the thread before it (ThreadedTimerEvent.c, TcpClient.c), and     *)
(* delFdClient joins the one it created.  The flags are loaded and stored  *)
(* without a lock and updates may be lost (flags.h); what keeps the        *)
(* threads apart is when the calls are made (Patient, Careful).            *)
THEOREM OneThreadAtATime ==
  ASSUME Patient, Careful
  PROVE  Spec => []OneThreadEach
<1>1. ThreadsInv => OneThreadEach
  <2> SUFFICES ASSUME ThreadsInv PROVE OneThreadEach
    OBVIOUS
  <2>1. Timer!OneTimerThread
    <3> DEFINE S == {w \in Helper : ttPc[w] \notin {"unborn", "done", "quit", "quit1", "quit2"}}
    <3>1. \A a, b \in S : a = b
      BY DEF ThreadsInv, TtInv, TtType, TtOneRuns, TtRunning, TtResting, TtLeaving
    <3>2. Cardinality(S) <= 1
      BY <3>1, AtMostOne
    <3>3. Timer!Cardinality(S) = Cardinality(S)
      BY DEF Timer!Cardinality, Cardinality
    <3> QED BY <3>2, <3>3 DEF Timer!OneTimerThread
  <2>2. Tcp!OneReader
    <3> DEFINE S == {r \in Helper : tcPc[r] \in {"sockopt", "loop", "recv", "data"}}
    <3>1. \A a, b \in S : a = b
      BY DEF ThreadsInv, TcInv, TcOneReads, TcReading
    <3>2. Cardinality(S) <= 1
      BY <3>1, AtMostOne
    <3>3. Tcp!Cardinality(S) = Cardinality(S)
      BY DEF Tcp!Cardinality, Cardinality
    <3> QED BY <3>2, <3>3 DEF Tcp!OneReader
  <2>3. Fd!FreedAfterListener
    BY DEF ThreadsInv, FdInv, Fd!FreedAfterListener
  <2> QED BY <2>1, <2>2, <2>3 DEF OneThreadEach
<1> QED BY <1>1, ThreadsInvariant, PTL

(* A TcpClient closes each socket it opened, also when its reader and its  *)
(* caller disconnect at the same time, and tells its caller once, or twice *)
(* in that race.  A UvTcpServer that keeps the clients its callback sees   *)
(* frees the handle of a client after it has left the list and its writes  *)
(* are over.                                                               *)
THEOREM SocketsAndHandlesAccounted ==
  ASSUME Patient, Careful
  PROVE  Spec => []ConnectionsAccounted
<1>1. ThreadsInv => ConnectionsAccounted
  <2> SUFFICES ASSUME ThreadsInv PROVE ConnectionsAccounted
    OBVIOUS
  <2>1. /\ tcTold \in {0, 1, 2} /\ (tcTold = 2 => tcRaced) /\ tcRaced \in BOOLEAN
        /\ tcOpen \subseteq {tcSock}
        /\ tcSock = "none" \/ tcSock \in tcOpen \/ \E t \in Tcp!Thread : tcPc[t] = "hangup"
    BY DEF ThreadsInv, TcInv, TcSocket
  <2>2. tcTold <= IF tcRaced THEN 2 ELSE 1
    BY <2>1
  <2>3. Tcp!SocketAccounted
    BY <2>1, <2>2 DEF Tcp!SocketAccounted, Tcp!None
  <2> QED BY <2>3 DEF ThreadsInv, UvInv, ConnectionsAccounted
<1> QED BY <1>1, ThreadsInvariant, PTL

-----------------------------------------------------------------------------
(* SignalHandler: the lists of callbacks.                                  *)

ShReg == Signals!Registration
ShSlots == Seq(ShReg \cup {Signals!Empty})

(* Where the list has a callback, and where it has this one.               *)
ShFull(s) == {i \in DOMAIN s : s[i] # Signals!Empty}
ShAt(s, r) == {i \in DOMAIN s : s[i] = r}

(* How often the list has each callback.                                   *)
ShCount(s) == [r \in ShReg |-> Cardinality(ShAt(s, r))]

(* Counting in the instance of SignalHandler is counting.                  *)
LEMMA ShCounts == ASSUME NEW S PROVE Signals!Cardinality(S) = Cardinality(S)
BY DEF Signals!Cardinality, Cardinality

(* An empty slot is no callback.                                           *)
LEMMA ShRegIs == ShReg = {"fu", "gu", "fv"} /\ Signals!Empty \notin ShReg
BY DEF ShReg, Signals!Registration, Signals!cb_of, Signals!Empty

(* The sets the walks count are finite.                                    *)
LEMMA ShFinite ==
  ASSUME NEW s \in ShSlots
  PROVE  /\ DOMAIN s = 1..Len(s) /\ Len(s) \in Nat
         /\ \A T \in SUBSET DOMAIN s : IsFiniteSet(T) /\ Cardinality(T) \in Nat
<1>1. DOMAIN s = 1..Len(s) /\ Len(s) \in Nat
  BY DEF ShSlots
<1>2. IsFiniteSet(1..Len(s))
  BY <1>1, FS_Interval
<1> QED BY <1>1, <1>2, FS_Subset, FS_CardinalityType

(* A walk that removes nothing gets to every callback.                     *)
LEMMA ShWalk ==
  ASSUME NEW s \in ShSlots
  PROVE  [r \in ShReg |-> Signals!Cardinality({i \in Signals!Met(s, {}) : s[i] = r})] = ShCount(s)
<1>1. Signals!Occupied(s) = ShFull(s)
  BY DEF Signals!Occupied, ShFull
<1>2. IsFiniteSet(ShFull(s))
  BY ShFinite DEF ShFull
<1>3. ASSUME NEW i \in ShFull(s)
      PROVE  Cardinality({j \in ShFull(s) : j <= i}) + Cardinality({j \in {} : j < i}) <= Cardinality(ShFull(s))
  <2>1. {j \in {} : j < i} = {} /\ {j \in ShFull(s) : j <= i} \in SUBSET ShFull(s)
    OBVIOUS
  <2>2. Cardinality({j \in ShFull(s) : j <= i}) <= Cardinality(ShFull(s))
    BY <1>2, <2>1, FS_Subset
  <2>3. Cardinality({j \in ShFull(s) : j <= i}) \in Nat /\ Cardinality(ShFull(s)) \in Nat
    BY ShFinite, <2>1 DEF ShFull
  <2> QED BY <2>1, <2>2, <2>3, FS_EmptySet
<1>4. Signals!Met(s, {}) = ShFull(s)
  BY <1>1, <1>3, ShCounts DEF Signals!Met
<1>5. ASSUME NEW r \in ShReg PROVE {i \in Signals!Met(s, {}) : s[i] = r} = ShAt(s, r)
  BY <1>4, ShRegIs DEF ShFull, ShAt
<1> QED BY <1>5, ShCounts DEF ShCount

(* A list without callbacks.                                               *)
LEMMA ShEmpty ==
  /\ <<>> \in ShSlots /\ ShCount(<<>>) = Signals!None
  /\ Signals!NewList \in ShSlots /\ ShCount(Signals!NewList) = Signals!None
<1>1. ASSUME NEW n \in Nat, NEW s, s = [i \in 1..n |-> Signals!Empty]
      PROVE  s \in ShSlots /\ ShCount(s) = Signals!None
  <2>1. s \in ShSlots
    BY <1>1, SeqDef DEF ShSlots
  <2>2. ASSUME NEW r \in ShReg PROVE Cardinality(ShAt(s, r)) = 0
    <3>1. ShAt(s, r) = {}
      BY <1>1, ShRegIs DEF ShAt
    <3> QED BY <3>1, FS_EmptySet
  <2> QED BY <2>1, <2>2 DEF ShCount, Signals!None, ShReg
<1>2. <<>> = [i \in 1..0 |-> Signals!Empty]
  OBVIOUS
<1>3. <<>> \in ShSlots /\ ShCount(<<>>) = Signals!None
  BY <1>1, <1>2
<1> QED BY <1>1, <1>3, CapAssumption DEF Signals!NewList

(* A list that is expanded has room and the callbacks it had.              *)
LEMMA ShExpanded ==
  ASSUME NEW s \in ShSlots, NEW n \in Nat \ {0},
         NEW t, t = s \o [i \in 1..n |-> Signals!Empty]
  PROVE  t \in ShSlots /\ ShCount(t) = ShCount(s) /\ ShFull(t) # DOMAIN t
<1> DEFINE e == [i \in 1..n |-> Signals!Empty]
<1>1. e \in ShSlots /\ Len(e) = n /\ \A i \in 1..n : e[i] = Signals!Empty
  BY SeqDef DEF ShSlots
<1> HIDE DEF e
<1>2. /\ t \in ShSlots /\ DOMAIN t = 1..(Len(s) + n) /\ DOMAIN s = 1..Len(s) /\ Len(s) \in Nat
      /\ \A i \in 1..(Len(s) + n) : t[i] = IF i <= Len(s) THEN s[i] ELSE e[i - Len(s)]
  BY <1>1, ConcatProperties DEF ShSlots, e
<1>3. \A i \in 1..(Len(s) + n) : i > Len(s) => t[i] = Signals!Empty
  BY <1>1, <1>2
<1>4. ASSUME NEW r \in ShReg PROVE ShAt(t, r) = ShAt(s, r)
  BY <1>2, <1>3, ShRegIs DEF ShAt
<1>5. Len(s) + n \in DOMAIN t \ ShFull(t)
  BY <1>2, <1>3 DEF ShFull
<1> QED BY <1>2, <1>4, <1>5 DEF ShCount

(* ArrayList_add puts the callback into an empty slot and leaves the       *)
(* others.                                                                 *)
LEMMA ShAdded ==
  ASSUME NEW s \in ShSlots, NEW r \in ShReg, ShFull(s) # DOMAIN s
  PROVE  /\ Signals!Added(s, r) \in ShSlots
         /\ ShCount(Signals!Added(s, r)) = [ShCount(s) EXCEPT ![r] = @ + 1]
<1> DEFINE T == DOMAIN s \ ShFull(s)
           R == OpToRel(<, Nat)
           P(k) == \A l \in T : k <= l
           i == CHOOSE k \in T : P(k)
           t == [s EXCEPT ![i] = r]
<1>1. T \in SUBSET Nat /\ T # {}
  <2>1. DOMAIN s = 1..Len(s) /\ Len(s) \in Nat /\ ShFull(s) \subseteq DOMAIN s
    BY ShFinite DEF ShFull
  <2>2. \E k \in DOMAIN s : k \notin ShFull(s)
    BY <2>1
  <2> QED BY <2>1, <2>2
<1>2. \E k \in T : P(k)
  <2>1. IsWellFoundedOn(R, Nat)
    BY NatLessThanWellFounded
  <2>2. \A x, y \in Nat : <<y, x>> \in R <=> y < x
    BY DEF OpToRel
  <2> HIDE DEF R
  <2>3. PICK k \in T : \A l \in T : ~(<<l, k>> \in R)
    BY <1>1, <2>1, WFMin
  <2>4. ASSUME NEW l \in T PROVE k <= l
    <3>1. l \in Nat /\ k \in Nat
      BY <1>1
    <3>2. ~(l < k)
      BY <2>2, <2>3, <3>1
    <3> QED BY <3>1, <3>2
  <2> QED BY <2>4
<1>3. i \in T
  BY <1>2
<1>4. Signals!Added(s, r) = t
  BY DEF Signals!Added, Signals!Occupied, ShFull
<1>5. i \in DOMAIN s /\ s[i] = Signals!Empty
  BY <1>3 DEF ShFull
<1> HIDE DEF i
<1>6. t \in ShSlots /\ DOMAIN t = DOMAIN s /\ \A j \in DOMAIN s : t[j] = IF j = i THEN r ELSE s[j]
  BY <1>5 DEF ShSlots
<1> HIDE DEF t
<1>7. ShAt(t, r) = ShAt(s, r) \cup {i} /\ i \notin ShAt(s, r)
  BY <1>5, <1>6, ShRegIs DEF ShAt
<1>8. Cardinality(ShAt(t, r)) = Cardinality(ShAt(s, r)) + 1
  <2>1. IsFiniteSet(ShAt(s, r))
    BY ShFinite DEF ShAt
  <2> QED BY <1>7, <2>1, FS_AddElement
<1>9. ASSUME NEW q \in ShReg, q # r PROVE ShAt(t, q) = ShAt(s, q)
  BY <1>5, <1>6, <1>9, ShRegIs DEF ShAt
<1> QED BY <1>4, <1>6, <1>8, <1>9 DEF ShCount

(* Where the list has callbacks of M.                                      *)
ShGone(s, M) == {i \in ShFull(s) : s[i] \in M}

(* A deregistration that matches one callback at most removes it.          *)
LEMMA ShLeft ==
  ASSUME NEW s \in ShSlots, NEW M, Cardinality(ShGone(s, M)) <= 1
  PROVE  /\ Signals!Left(s, ShGone(s, M)) \in ShSlots
         /\ ShCount(Signals!Left(s, ShGone(s, M))) = [r \in ShReg |-> IF r \in M THEN 0 ELSE ShCount(s)[r]]
<1> DEFINE gone == ShGone(s, M)
<1>0. gone = {i \in ShFull(s) : s[i] \in M} /\ Cardinality(gone) <= 1
  BY DEF ShGone
<1> HIDE DEF gone
<1>1. /\ IsFiniteSet(ShFull(s)) /\ IsFiniteSet(gone) /\ Cardinality(gone) \in Nat
      /\ gone \subseteq ShFull(s)
  BY <1>0, ShFinite DEF ShFull
<1>2. ASSUME NEW i \in gone PROVE {j \in gone : j < i} = {}
  <2>1. gone = {i}
    <3>0. gone # {}
      BY <1>2
    <3>1. Cardinality(gone) # 0
      BY ONLY <1>1, <3>0, FS_EmptySet
    <3>2. Cardinality(gone) = 1
      BY <1>0, <1>1, <3>1
    <3>3. PICK x : gone = {x}
      BY ONLY <1>1, <3>2, FS_Singleton
    <3> QED BY <3>3, <1>2
  <2>2. i \in Nat
    BY <1>1, ShFinite DEF ShFull
  <2> QED BY <2>1, <2>2
<1>3. ASSUME NEW i \in gone
      PROVE  Cardinality({j \in ShFull(s) : j <= i}) + Cardinality({j \in gone : j < i}) <= Cardinality(ShFull(s))
  <2>1. {j \in ShFull(s) : j <= i} \in SUBSET ShFull(s)
    OBVIOUS
  <2>2. Cardinality({j \in ShFull(s) : j <= i}) <= Cardinality(ShFull(s))
    BY <1>1, <2>1, FS_Subset
  <2>3. Cardinality({j \in ShFull(s) : j <= i}) \in Nat /\ Cardinality(ShFull(s)) \in Nat
    BY ShFinite, <2>1 DEF ShFull
  <2> QED BY <1>2, <2>2, <2>3, FS_EmptySet
<1>4. Signals!Met(s, gone) \cap gone = gone
  BY <1>1, <1>3, ShCounts DEF Signals!Met, Signals!Occupied, ShFull
<1> DEFINE t == Signals!Left(s, gone)
<1>5. t = [i \in DOMAIN s |-> IF i \in gone THEN Signals!Empty ELSE s[i]]
  BY <1>4 DEF Signals!Left
<1> HIDE DEF t
<1>6. /\ t \in ShSlots /\ DOMAIN t = DOMAIN s
      /\ \A i \in DOMAIN s : t[i] = IF i \in gone THEN Signals!Empty ELSE s[i]
  <2>1. s \in [1..Len(s) -> ShReg \cup {Signals!Empty}] /\ Len(s) \in Nat
    BY DEF ShSlots
  <2>2. t \in [1..Len(s) -> ShReg \cup {Signals!Empty}]
    BY <1>5, <2>1
  <2> QED BY <1>5, <2>1, <2>2, SeqDef DEF ShSlots
<1>7. ASSUME NEW r \in ShReg, r \in M PROVE Cardinality(ShAt(t, r)) = 0
  <2>1. ShAt(t, r) = {}
    BY <1>0, <1>6, <1>7, ShRegIs DEF ShAt, ShFull
  <2> QED BY <2>1, FS_EmptySet
<1>8. ASSUME NEW r \in ShReg, r \notin M PROVE ShAt(t, r) = ShAt(s, r)
  BY <1>0, <1>6, <1>8, ShRegIs DEF ShAt, ShFull
<1> QED BY <1>6, <1>7, <1>8 DEF ShCount, t, gone

(* ArrayList_shrink keeps the callbacks: the number of callbacks up to a   *)
(* slot is where the callback of the slot goes.                            *)
LEMMA ShShrunk ==
  ASSUME NEW s \in ShSlots
  PROVE  Signals!Shrunk(s) \in ShSlots /\ ShCount(Signals!Shrunk(s)) = ShCount(s)
<1> DEFINE F == ShFull(s)
           n == Cardinality(F)
           UpTo(i) == {j \in F : j <= i}
           rank == [i \in F |-> Cardinality(UpTo(i))]
           t == Signals!Shrunk(s)
<1>1. IsFiniteSet(F) /\ n \in Nat /\ F \in SUBSET Nat /\ F \in SUBSET DOMAIN s
  BY ShFinite DEF ShFull
<1>2. ASSUME NEW i \in F
      PROVE  /\ UpTo(i) \in SUBSET F /\ IsFiniteSet(UpTo(i)) /\ i \in UpTo(i)
             /\ Cardinality(UpTo(i)) \in 1..n
  <2>1. UpTo(i) \in SUBSET F /\ i \in UpTo(i)
    BY <1>1
  <2>2. IsFiniteSet(UpTo(i)) /\ Cardinality(UpTo(i)) <= n /\ Cardinality(UpTo(i)) \in Nat
    BY <1>1, <2>1, FS_Subset, FS_CardinalityType
  <2>3. Cardinality(UpTo(i)) # 0
    BY <2>1, <2>2, FS_EmptySet
  <2> QED BY <1>1, <2>1, <2>2, <2>3
<1>3. ASSUME NEW i \in F, NEW j \in F, i < j PROVE Cardinality(UpTo(i)) # Cardinality(UpTo(j))
  <2>1. UpTo(i) \in SUBSET UpTo(j) /\ j \notin UpTo(i) /\ j \in UpTo(j)
    BY <1>1, <1>3
  <2> QED BY <1>2, <2>1, FS_Subset
<1>4. rank \in Injection(F, 1..n)
  <2>1. rank \in [F -> 1..n]
    BY <1>2
  <2>2. ASSUME NEW i \in F, NEW j \in F, rank[i] = rank[j] PROVE i = j
    <3>1. i \in Nat /\ j \in Nat /\ Cardinality(UpTo(i)) = Cardinality(UpTo(j))
      BY <1>1, <2>2
    <3> QED BY <1>3, <3>1
  <2> QED BY <2>1, <2>2 DEF Injection, IsInjective
<1>5. rank \in Surjection(F, 1..n)
  <2>1. IsFiniteSet(1..n) /\ Cardinality(1..n) = n
    BY <1>1, FS_Interval
  <2> HIDE DEF rank
  <2> QED BY <1>4, <2>1, FS_Injection
<1> DEFINE Nth(m) == CHOOSE i \in F : Cardinality(UpTo(i)) = m
<1>6. ASSUME NEW i \in F PROVE Nth(rank[i]) = i
  <2>1. rank[i] = Cardinality(UpTo(i))
    OBVIOUS
  <2>2. \A j \in F : Cardinality(UpTo(j)) = rank[i] => j = i
    BY <1>4 DEF Injection, IsInjective
  <2> HIDE DEF rank
  <2> QED BY <2>1, <2>2
<1>7. t = [m \in 1..n |-> s[Nth(m)]]
  BY Zenon DEF Signals!Shrunk, Signals!Occupied, ShFull, Signals!Cardinality, Cardinality
<1> HIDE DEF t, Nth, rank, F
<1>8. ASSUME NEW m \in 1..n PROVE Nth(m) \in F /\ rank[Nth(m)] = m
  <2>1. PICK i \in F : rank[i] = m
    BY <1>5 DEF Surjection
  <2> QED BY <1>6, <2>1
<1>9. t \in ShSlots /\ DOMAIN t = 1..n /\ \A m \in 1..n : t[m] = s[Nth(m)]
  <2>1. s \in [DOMAIN s -> ShReg \cup {Signals!Empty}]
    BY DEF ShSlots
  <2>2. t \in [1..n -> ShReg \cup {Signals!Empty}]
    BY <1>1, <1>7, <1>8, <2>1
  <2> QED BY <1>1, <1>7, <2>2, SeqDef DEF ShSlots
<1>10. ASSUME NEW r \in ShReg PROVE Cardinality(ShAt(t, r)) = Cardinality(ShAt(s, r))
  <2> DEFINE f == [i \in ShAt(s, r) |-> rank[i]]
  <2>1. ShAt(s, r) \subseteq F
    BY ShRegIs DEF ShAt, F, ShFull
  <2>2. f \in [ShAt(s, r) -> ShAt(t, r)]
    <3>1. ASSUME NEW i \in ShAt(s, r) PROVE rank[i] \in ShAt(t, r)
      <4>1. i \in F /\ s[i] = r
        BY <2>1 DEF ShAt
      <4>2. rank[i] \in 1..n /\ Nth(rank[i]) = i
        BY <1>4, <1>6, <4>1 DEF Injection, IsInjective
      <4> QED BY <1>9, <4>1, <4>2 DEF ShAt
    <3> QED BY <3>1
  <2>3. \A i, j \in ShAt(s, r) : f[i] = f[j] => i = j
    BY <1>4, <2>1 DEF Injection, IsInjective
  <2>4. \A m \in ShAt(t, r) : \E i \in ShAt(s, r) : f[i] = m
    <3>1. ASSUME NEW m \in ShAt(t, r) PROVE Nth(m) \in ShAt(s, r) /\ rank[Nth(m)] = m
      <4>1. m \in 1..n /\ s[Nth(m)] = r
        BY <1>9 DEF ShAt
      <4> QED BY <1>1, <1>8, <4>1 DEF ShAt
    <3> QED BY <3>1
  <2> HIDE DEF f
  <2>5. f \in Bijection(ShAt(s, r), ShAt(t, r))
    BY <2>2, <2>3, <2>4 DEF Bijection, Injection, IsInjective, Surjection
  <2>6. IsFiniteSet(ShAt(s, r)) /\ ExistsBijection(ShAt(s, r), ShAt(t, r))
    BY <2>5, ShFinite DEF ShAt, ExistsBijection
  <2> QED BY <2>6, FS_Bijection
<1> QED BY <1>9, <1>10 DEF ShCount, t

(* The books: one handler for a signal, whose list has each callback as    *)
(* often as it is registered; what has no list, or no handler, has none.   *)
ShHandler == [sig : Sig, live : BOOLEAN, sd_list : ShSlots]

ShBooks ==
  /\ shHandlers \in Seq(ShHandler)
  /\ \A i, j \in 1..Len(shHandlers) : shHandlers[i].sig = shHandlers[j].sig => i = j
  /\ \A i \in 1..Len(shHandlers) :
       /\ ~shHandlers[i].live => shHandlers[i].sd_list = <<>>
       /\ shRegistered[shHandlers[i].sig] = ShCount(shHandlers[i].sd_list)
  /\ shRegistered \in [Sig -> [ShReg -> Nat]]
  /\ \A s \in Sig : Signals!Places(s) = {} => shRegistered[s] = Signals!None

(* Where a call is, and whether its signal has a handler there.            *)
ShCall ==
  \/ shCall = Signals!Idle
  \/ /\ shCall \in [at : {"install"}, sig : Sig, reg : ShReg]
     /\ Signals!Places(shCall.sig) = {}
  \/ /\ shCall \in [at : {"list"}, sig : Sig, reg : ShReg, live : BOOLEAN]
     /\ Signals!Places(shCall.sig) = {}
  \/ /\ \/ shCall \in [at : {"ensure", "add"}, sig : Sig, reg : ShReg]
        \/ shCall \in [at : {"ensure", "add"}, sig : Sig, reg : ShReg, live : BOOLEAN]
     /\ Signals!Places(shCall.sig) # {}
     /\ shCall.at = "add" => shHandlers[Signals!Handler(shCall.sig)].live
  \/ /\ shCall \in [at : {"shrink"}, sig : Sig]
     /\ Signals!Places(shCall.sig) # {}
  \/ shCall \in [at : {"all"}, next : 1..Len(shHandlers)]

ShInv == ShBooks /\ ShCall

(* Places and the handlers that are in them.                               *)
LEMMA ShPlaces ==
  ASSUME ShBooks
  PROVE  /\ DOMAIN shHandlers = 1..Len(shHandlers) /\ Len(shHandlers) \in Nat
         /\ \A i \in 1..Len(shHandlers) :
              /\ shHandlers[i] \in ShHandler
              /\ Signals!Places(shHandlers[i].sig) = {i} /\ Signals!Handler(shHandlers[i].sig) = i
         /\ \A s \in Sig : Signals!Places(s) # {} =>
              \E i \in 1..Len(shHandlers) : Signals!Handler(s) = i /\ shHandlers[i].sig = s
<1>1. DOMAIN shHandlers = 1..Len(shHandlers) /\ Len(shHandlers) \in Nat
      /\ \A i \in 1..Len(shHandlers) : shHandlers[i] \in ShHandler
  BY DEF ShBooks
<1>2. ASSUME NEW i \in 1..Len(shHandlers)
      PROVE  Signals!Places(shHandlers[i].sig) = {i} /\ Signals!Handler(shHandlers[i].sig) = i
  <2>1. Signals!Places(shHandlers[i].sig) = {i}
    BY <1>1 DEF Signals!Places, ShBooks
  <2>2. Signals!Min({i}) = i
    BY DEF Signals!Min
  <2> QED BY <2>1, <2>2 DEF Signals!Handler
<1>3. ASSUME NEW s \in Sig, Signals!Places(s) # {}
      PROVE  \E i \in 1..Len(shHandlers) : Signals!Handler(s) = i /\ shHandlers[i].sig = s
  <2>1. PICK i \in Signals!Places(s) : TRUE
    BY <1>3
  <2>2. i \in 1..Len(shHandlers) /\ shHandlers[i].sig = s
    BY <1>1 DEF Signals!Places
  <2> QED BY <1>2, <2>2
<1> QED BY <1>1, <1>2, <1>3

(* A step that gives one handler another list, and the signal as many      *)
(* registrations, keeps the books and the places.                          *)
LEMMA ShReplaces ==
  ASSUME ShBooks, NEW h \in 1..Len(shHandlers), NEW l \in BOOLEAN, NEW t \in ShSlots,
         ~l => t = <<>>,
         \/ shHandlers' = [shHandlers EXCEPT ![h].live = l, ![h].sd_list = t]
         \/ shHandlers' = [shHandlers EXCEPT ![h].sd_list = t] /\ l = shHandlers[h].live,
         shRegistered' = [shRegistered EXCEPT ![shHandlers[h].sig] = ShCount(t)],
         ShCount(t) \in [ShReg -> Nat]
  PROVE  /\ ShBooks' /\ Len(shHandlers') = Len(shHandlers)
         /\ \A s \in Sig : Signals!Places(s)' = Signals!Places(s)
<1>1. DOMAIN shHandlers = 1..Len(shHandlers) /\ Len(shHandlers) \in Nat
      /\ \A i \in 1..Len(shHandlers) : shHandlers[i] \in ShHandler
  BY ShPlaces
<1> DEFINE f == shHandlers'[h]
<1>2. f \in ShHandler /\ f.sig = shHandlers[h].sig /\ f.live = l /\ f.sd_list = t /\ f.sig \in Sig
  <2>1. CASE shHandlers' = [shHandlers EXCEPT ![h].live = l, ![h].sd_list = t]
    <3>1. f = [[shHandlers[h] EXCEPT !.live = l] EXCEPT !.sd_list = t]
      BY <1>1, <2>1
    <3> QED BY <1>1, <3>1 DEF ShHandler
  <2>2. CASE shHandlers' = [shHandlers EXCEPT ![h].sd_list = t] /\ l = shHandlers[h].live
    <3>1. f = [shHandlers[h] EXCEPT !.sd_list = t]
      BY <1>1, <2>2
    <3> QED BY <1>1, <2>2, <3>1 DEF ShHandler
  <2> QED BY <2>1, <2>2
<1>3. /\ shHandlers' \in Seq(ShHandler) /\ Len(shHandlers') = Len(shHandlers)
      /\ DOMAIN shHandlers' = DOMAIN shHandlers
      /\ \A i \in 1..Len(shHandlers) : shHandlers'[i] = IF i = h THEN f ELSE shHandlers[i]
  <2>1. /\ DOMAIN shHandlers' = DOMAIN shHandlers
        /\ shHandlers' = [i \in DOMAIN shHandlers |-> shHandlers'[i]]
        /\ \A i \in DOMAIN shHandlers : i # h => shHandlers'[i] = shHandlers[i]
    BY <1>1
  <2>2. shHandlers' \in [1..Len(shHandlers) -> ShHandler]
    BY <1>1, <1>2, <2>1
  <2> QED BY <1>1, <2>1, <2>2, SeqDef
<1> HIDE DEF f
<1>4. \A i \in 1..Len(shHandlers) : shHandlers'[i].sig = shHandlers[i].sig
  BY <1>2, <1>3
<1>5. \A s \in Sig : Signals!Places(s)' = Signals!Places(s)
  BY <1>1, <1>3, <1>4 DEF Signals!Places
<1>6. /\ shRegistered' \in [Sig -> [ShReg -> Nat]]
      /\ \A s \in Sig : shRegistered'[s] = IF s = f.sig THEN ShCount(t) ELSE shRegistered[s]
  BY <1>2 DEF ShBooks
<1>7. ASSUME NEW i \in 1..Len(shHandlers)
      PROVE  /\ ~shHandlers'[i].live => shHandlers'[i].sd_list = <<>>
             /\ shRegistered'[shHandlers'[i].sig] = ShCount(shHandlers'[i].sd_list)
  <2>1. shHandlers[i].sig \in Sig
    BY <1>1 DEF ShHandler
  <2>2. CASE i = h
    BY <1>2, <1>3, <1>6, <2>2
  <2>3. CASE i # h
    <3>1. shHandlers[i].sig # f.sig /\ shHandlers'[i] = shHandlers[i]
      BY <1>2, <1>3, <2>3 DEF ShBooks
    <3> QED BY <1>6, <2>1, <3>1 DEF ShBooks
  <2> QED BY <2>2, <2>3
<1>8. ASSUME NEW s \in Sig, Signals!Places(s)' = {} PROVE shRegistered'[s] = Signals!None
  <2>1. h \in Signals!Places(f.sig)
    BY <1>1, <1>2 DEF Signals!Places
  <2>2. s # f.sig /\ Signals!Places(s) = {}
    BY <1>2, <1>5, <1>8, <2>1
  <2> QED BY <1>6, <2>2 DEF ShBooks
<1> QED BY <1>3, <1>4, <1>5, <1>6, <1>7, <1>8 DEF ShBooks

(* A step that leaves the lists alone.                                     *)
LEMMA ShSame ==
  ASSUME ShBooks, UNCHANGED <<shHandlers, shRegistered>>
  PROVE  /\ ShBooks' /\ Len(shHandlers') = Len(shHandlers)
         /\ \A s \in Sig : Signals!Places(s)' = Signals!Places(s)
BY DEF ShBooks, Signals!Places

(* A handler that was made is added for a signal that had none.            *)
LEMMA ShLists == ShInv /\ Signals!ListHandler => ShInv'
<1> SUFFICES ASSUME ShInv, Signals!ListHandler PROVE ShInv'
  OBVIOUS
<1> DEFINE n == Len(shHandlers)
           f == [sig |-> shCall.sig, live |-> shCall.live,
                 sd_list |-> IF shCall.live THEN Signals!NewList ELSE <<>>]
<1>1. /\ shCall \in [at : {"list"}, sig : Sig, reg : ShReg, live : BOOLEAN]
      /\ Signals!Places(shCall.sig) = {}
  BY DEF ShInv, ShCall, Signals!ListHandler, Signals!Idle
<1>2. /\ shHandlers' = Append(shHandlers, f) /\ shRegistered' = shRegistered
      /\ shCall' = [shCall EXCEPT !.at = "ensure"]
  BY DEF Signals!ListHandler, Signals!Goto
<1>3. /\ f \in ShHandler /\ f.sig = shCall.sig /\ (~f.live => f.sd_list = <<>>)
      /\ ShCount(f.sd_list) = Signals!None
  <2>1. f.sig = shCall.sig /\ f.live = shCall.live
        /\ f.sd_list = IF shCall.live THEN Signals!NewList ELSE <<>>
    OBVIOUS
  <2>2. shCall.live \in BOOLEAN /\ shCall.sig \in Sig
    BY <1>1
  <2>3. f.sd_list \in ShSlots /\ ShCount(f.sd_list) = Signals!None /\ (~f.live => f.sd_list = <<>>)
    BY <2>1, ShEmpty
  <2>4. f \in ShHandler
    BY <2>1, <2>2, <2>3 DEF ShHandler
  <2> QED BY <2>1, <2>3, <2>4
<1> HIDE DEF f
<1>4. /\ n \in Nat /\ DOMAIN shHandlers = 1..n
      /\ \A i \in 1..n : shHandlers[i] \in ShHandler /\ shHandlers[i].sig # f.sig
  <2>1. n \in Nat /\ DOMAIN shHandlers = 1..n /\ \A i \in 1..n : shHandlers[i] \in ShHandler
    BY ShPlaces DEF ShInv
  <2> QED BY <1>1, <1>3, <2>1 DEF Signals!Places
<1>5. /\ shHandlers' \in Seq(ShHandler) /\ Len(shHandlers') = n + 1 /\ DOMAIN shHandlers' = 1..(n + 1)
      /\ \A i \in 1..n : shHandlers'[i] = shHandlers[i]
      /\ shHandlers'[n + 1] = f
  BY <1>2, <1>3, <1>4 DEF ShInv, ShBooks
<1>6. \A i, j \in 1..(n + 1) : shHandlers'[i].sig = shHandlers'[j].sig => i = j
  <2>1. \A i, j \in 1..n : shHandlers[i].sig = shHandlers[j].sig => i = j
    BY DEF ShInv, ShBooks
  <2>2. \A i \in 1..(n + 1) : i \in 1..n \/ i = n + 1
    BY <1>4
  <2> QED BY <1>4, <1>5, <2>1, <2>2
<1>7. shRegistered[f.sig] = Signals!None
  BY <1>1, <1>3 DEF ShInv, ShBooks
<1>8. ASSUME NEW i \in 1..(n + 1)
      PROVE  /\ ~shHandlers'[i].live => shHandlers'[i].sd_list = <<>>
             /\ shRegistered'[shHandlers'[i].sig] = ShCount(shHandlers'[i].sd_list)
  <2>1. CASE i = n + 1
    BY <1>2, <1>3, <1>5, <1>7, <2>1
  <2>2. CASE i \in 1..n
    BY <1>2, <1>5, <2>2 DEF ShInv, ShBooks
  <2> QED BY <1>4, <2>1, <2>2
<1>9. ASSUME NEW s \in Sig, Signals!Places(s)' = {} PROVE shRegistered'[s] = Signals!None
  <2>1. \A i \in 1..n : shHandlers[i].sig # s
    BY <1>4, <1>5, <1>9 DEF Signals!Places
  <2>2. Signals!Places(s) = {}
    BY <1>4, <2>1 DEF Signals!Places
  <2> QED BY <1>2, <2>2 DEF ShInv, ShBooks
<1>10. ShBooks'
  <2>1. shRegistered' \in [Sig -> [ShReg -> Nat]]
    BY <1>2 DEF ShInv, ShBooks
  <2> QED BY <1>5, <1>6, <1>8, <1>9, <2>1 DEF ShBooks
<1>11. ShCall'
  <2>1. /\ shCall' \in [at : {"ensure", "add"}, sig : Sig, reg : ShReg, live : BOOLEAN]
        /\ shCall'.sig = shCall.sig /\ shCall'.at = "ensure"
    BY <1>1, <1>2
  <2>2. n + 1 \in Signals!Places(shCall.sig)'
    <3>1. n + 1 \in DOMAIN shHandlers' /\ shHandlers'[n + 1].sig = shCall.sig /\ shCall'.sig = shCall.sig
      BY <1>3, <1>4, <1>5, <2>1
    <3> QED BY <3>1 DEF Signals!Places
  <2> QED BY <2>1, <2>2 DEF ShCall
<1> QED BY <1>10, <1>11 DEF ShInv

(* The list of a handler that has none is made.                            *)
LEMMA ShEnsures == ShInv /\ Signals!EnsureList => ShInv'
<1> SUFFICES ASSUME ShInv, Signals!EnsureList PROVE ShInv'
  OBVIOUS
<1>1. /\ \/ shCall \in [at : {"ensure", "add"}, sig : Sig, reg : ShReg]
         \/ shCall \in [at : {"ensure", "add"}, sig : Sig, reg : ShReg, live : BOOLEAN]
      /\ Signals!Places(shCall.sig) # {} /\ shCall.sig \in Sig
  BY DEF ShInv, ShCall, Signals!EnsureList, Signals!Idle
<1>2. PICK h \in 1..Len(shHandlers) : Signals!Handler(shCall.sig) = h /\ shHandlers[h].sig = shCall.sig
  BY <1>1, ShPlaces DEF ShInv
<1>3. CASE UNCHANGED <<shHandlers, shRegistered>> /\ shCall' = Signals!Idle
  BY <1>3, ShSame DEF ShInv, ShCall
<1>4. CASE /\ shHandlers[h].live /\ UNCHANGED <<shHandlers, shRegistered>>
           /\ shCall' = [shCall EXCEPT !.at = "add"]
  <2>1. shCall'.sig = shCall.sig
        /\ \/ shCall' \in [at : {"ensure", "add"}, sig : Sig, reg : ShReg]
           \/ shCall' \in [at : {"ensure", "add"}, sig : Sig, reg : ShReg, live : BOOLEAN]
    BY <1>1, <1>4
  <2>2. ShBooks' /\ Signals!Places(shCall.sig)' # {}
    BY <1>1, <1>4, <2>1, ShSame DEF ShInv, Signals!Places
  <2>3. shHandlers'[Signals!Handler(shCall.sig)'].live
    <3>1. Signals!Handler(shCall.sig)' = h
      BY <1>2, <1>4, <2>1 DEF Signals!Handler, Signals!Places
    <3> QED BY <1>4, <3>1
  <2> QED BY <2>1, <2>2, <2>3 DEF ShInv, ShCall
<1>5. CASE /\ ~shHandlers[h].live /\ shRegistered' = shRegistered
           /\ shHandlers' = [shHandlers EXCEPT ![h].live = TRUE, ![h].sd_list = Signals!NewList]
           /\ shCall' = [shCall EXCEPT !.at = "add"]
  <2>1. shHandlers[h] \in ShHandler /\ shHandlers[h].sd_list = <<>>
    BY <1>5, ShPlaces DEF ShInv, ShBooks
  <2>3. ShCount(Signals!NewList) = shRegistered[shHandlers[h].sig] /\ Signals!NewList \in ShSlots
    BY <2>1, ShEmpty DEF ShInv, ShBooks
  <2>4. shHandlers[h].sig \in Sig /\ shRegistered \in [Sig -> [ShReg -> Nat]]
    BY <2>1 DEF ShInv, ShBooks, ShHandler
  <2>5. shRegistered' = [shRegistered EXCEPT ![shHandlers[h].sig] = ShCount(Signals!NewList)]
        /\ ShCount(Signals!NewList) \in [ShReg -> Nat]
    BY <1>5, <2>3, <2>4
  <2>6. ShBooks' /\ \A s \in Sig : Signals!Places(s)' = Signals!Places(s)
    BY <1>5, <2>3, <2>5, ShReplaces DEF ShInv
  <2>7. shCall'.sig = shCall.sig
        /\ \/ shCall' \in [at : {"ensure", "add"}, sig : Sig, reg : ShReg]
           \/ shCall' \in [at : {"ensure", "add"}, sig : Sig, reg : ShReg, live : BOOLEAN]
    BY <1>1, <1>5
  <2>8. Signals!Places(shCall.sig)' = Signals!Places(shCall.sig)
    BY <1>1, <2>6, <2>7 DEF Signals!Places
  <2>9. shHandlers'[Signals!Handler(shCall.sig)'].live
    <3>1. Signals!Handler(shCall.sig)' = h
      BY <1>2, <2>8 DEF Signals!Handler
    <3>2. shHandlers'[h].live
      BY <1>5, <2>1, ShPlaces DEF ShInv, ShHandler
    <3> QED BY <3>1, <3>2
  <2> QED BY <1>1, <2>6, <2>7, <2>8, <2>9 DEF ShInv, ShCall
<1> QED BY <1>2, <1>3, <1>4, <1>5 DEF Signals!EnsureList, Signals!Fail, Signals!Goto

(* The callback is added, to a list that is expanded if it has to be.      *)
LEMMA ShAdds == ShInv /\ Signals!AddData => ShInv'
<1> SUFFICES ASSUME ShInv, Signals!AddData PROVE ShInv'
  OBVIOUS
<1> DEFINE h == Signals!Handler(shCall.sig)
           s == shHandlers[h].sd_list
           full == Signals!Occupied(s) = DOMAIN s
           room == IF s = <<>> THEN 1 ELSE Len(s)
           more == IF full THEN s \o [i \in 1..room |-> Signals!Empty] ELSE s
           t == Signals!Added(more, shCall.reg)
<1>1. Signals!Places(shCall.sig) # {} /\ shCall.sig \in Sig /\ shCall.reg \in ShReg /\ shHandlers[h].live
  BY DEF ShInv, ShCall, Signals!AddData, Signals!Idle
<1>2. h \in 1..Len(shHandlers) /\ shHandlers[h].sig = shCall.sig /\ shHandlers[h] \in ShHandler
  BY <1>1, ShPlaces DEF ShInv
<1>3. s \in ShSlots /\ shHandlers[h].live \in BOOLEAN
  BY <1>2 DEF ShHandler
<1>4. \/ UNCHANGED <<shHandlers, shRegistered>> /\ shCall' = Signals!Idle
      \/ /\ shHandlers' = [shHandlers EXCEPT ![h].sd_list = t]
         /\ shRegistered' = [shRegistered EXCEPT ![shCall.sig][shCall.reg] = @ + 1]
         /\ shCall' = Signals!Idle
  BY DEF Signals!AddData, Signals!Fail
<1>5. CASE UNCHANGED <<shHandlers, shRegistered>> /\ shCall' = Signals!Idle
  BY <1>5, ShSame DEF ShInv, ShCall
<1>6. CASE /\ shHandlers' = [shHandlers EXCEPT ![h].sd_list = t]
           /\ shRegistered' = [shRegistered EXCEPT ![shCall.sig][shCall.reg] = @ + 1]
           /\ shCall' = Signals!Idle
  <2>1. room \in Nat \ {0} /\ Signals!Occupied(s) = ShFull(s)
    <3>1. Len(s) \in Nat /\ (s # <<>> => Len(s) # 0)
      BY <1>3 DEF ShSlots
    <3> QED BY <3>1 DEF Signals!Occupied, ShFull
  <2>2. more \in ShSlots /\ ShCount(more) = ShCount(s) /\ ShFull(more) # DOMAIN more
    <3> HIDE DEF s, room
    <3>1. CASE full
      BY <1>3, <2>1, <3>1, ShExpanded
    <3>2. CASE ~full
      BY <1>3, <2>1, <3>2
    <3> QED BY <3>1, <3>2
  <2> HIDE DEF h, s, more
  <2>3. t \in ShSlots /\ ShCount(t) = [ShCount(s) EXCEPT ![shCall.reg] = @ + 1]
    BY <1>1, <2>2, ShAdded
  <2>4. shRegistered \in [Sig -> [ShReg -> Nat]] /\ shRegistered[shCall.sig] = ShCount(s)
    BY <1>2 DEF ShInv, ShBooks, s
  <2>5. shRegistered' = [shRegistered EXCEPT ![shHandlers[h].sig] = ShCount(t)]
    BY <1>2, <1>6, <2>3, <2>4
  <2>6. ShCount(t) \in [ShReg -> Nat]
    <3>1. ShCount(s) \in [ShReg -> Nat]
      BY <1>1, <2>4
    <3> QED BY <1>1, <2>3, <3>1
  <2> HIDE DEF t
  <2>7. ShBooks'
    BY <1>1, <1>2, <1>3, <1>6, <2>3, <2>5, <2>6, ShReplaces DEF ShInv
  <2> QED BY <1>6, <2>7 DEF ShInv, ShCall
<1> QED BY <1>4, <1>5, <1>6

(* A deregistration takes the callback it matches off the list.            *)
LEMMA ShDeregisters == ASSUME Careful PROVE ShInv /\ Signals!signal_handler_deregister => ShInv'
<1> SUFFICES ASSUME ShInv, Signals!signal_handler_deregister PROVE ShInv'
  OBVIOUS
<1>1. PICK s \in Sig, cb \in {"f", "g", Signals!Any}, user \in {"u", "v", Signals!Any} :
        /\ Signals!Places(s) # {} /\ shHandlers[Signals!Handler(s)].live
        /\ LET list == shHandlers[Signals!Handler(s)].sd_list
               gone == {i \in Signals!Occupied(list) : list[i] \in Signals!Matched(cb, user)}
           IN /\ Careful => Signals!Cardinality(gone) <= 1
              /\ shHandlers' = [shHandlers EXCEPT ![Signals!Handler(s)].sd_list = Signals!Left(list, gone)]
              /\ shCall' = IF list = <<>> THEN Signals!Idle ELSE [at |-> "shrink", sig |-> s]
        /\ shRegistered' = [shRegistered EXCEPT ![s] =
                              [r \in Signals!Registration |->
                                 IF r \in Signals!Matched(cb, user) THEN 0 ELSE @[r]]]
  BY DEF Signals!signal_handler_deregister
<1> DEFINE h == Signals!Handler(s)
           M == Signals!Matched(cb, user)
           l == shHandlers[h].sd_list
           g == ShGone(l, M)
           t == Signals!Left(l, g)
<1>2. h \in 1..Len(shHandlers) /\ shHandlers[h].sig = s /\ shHandlers[h] \in ShHandler
  BY <1>1, ShPlaces DEF ShInv
<1>3. l \in ShSlots /\ shRegistered[s] = ShCount(l) /\ shRegistered \in [Sig -> [ShReg -> Nat]]
  BY <1>2 DEF ShHandler, ShInv, ShBooks
<1>4. g = {i \in Signals!Occupied(l) : l[i] \in M} /\ Cardinality(g) <= 1
  <2>1. g = {i \in Signals!Occupied(l) : l[i] \in M}
    BY DEF Signals!Occupied, ShFull, ShGone
  <2> QED BY <1>1, <2>1, ShCounts
<1>5. /\ shHandlers' = [shHandlers EXCEPT ![h].sd_list = t] /\ shHandlers[h].live
      /\ shCall' = IF l = <<>> THEN Signals!Idle ELSE [at |-> "shrink", sig |-> s]
      /\ shRegistered' = [shRegistered EXCEPT ![s] = [r \in ShReg |-> IF r \in M THEN 0 ELSE shRegistered[s][r]]]
      /\ Signals!Places(s) # {}
  <2>1. shRegistered' = [shRegistered EXCEPT ![s] = [r \in ShReg |-> IF r \in M THEN 0 ELSE shRegistered[s][r]]]
    BY <1>1 DEF ShReg
  <2> QED BY <1>1, <1>4, <2>1
<1> HIDE DEF h, M, l
<1>6. t \in ShSlots /\ ShCount(t) = [r \in ShReg |-> IF r \in M THEN 0 ELSE ShCount(l)[r]]
  BY <1>3, <1>4, ShLeft
<1> HIDE DEF t
<1>7. /\ ShCount(t) \in [ShReg -> Nat]
      /\ shRegistered' = [shRegistered EXCEPT ![shHandlers[h].sig] = ShCount(t)]
  <2>1. ShCount(l) \in [ShReg -> Nat]
    BY <1>3
  <2> QED BY <1>2, <1>3, <1>5, <1>6, <2>1
<1>8. ShBooks' /\ \A x \in Sig : Signals!Places(x)' = Signals!Places(x)
  BY <1>2, <1>5, <1>6, <1>7, ShReplaces DEF ShInv
<1>9. ShCall'
  <2>1. CASE l = <<>>
    BY <1>5, <2>1 DEF ShCall
  <2>2. CASE l # <<>>
    <3>1. shCall' = [at |-> "shrink", sig |-> s]
      BY <1>5, <2>2
    <3>2. shCall' \in [at : {"shrink"}, sig : Sig] /\ shCall'.sig = s
      BY <3>1
    <3>3. Signals!Places(shCall.sig)' # {}
      BY <1>5, <1>8, <3>2 DEF Signals!Places
    <3> QED BY <3>2, <3>3 DEF ShCall
  <2> QED BY <2>1, <2>2
<1> QED BY <1>8, <1>9 DEF ShInv

(* The list of the signal is shrunk.                                       *)
LEMMA ShShrinks == ShInv /\ Signals!ShrinkList => ShInv'
<1> SUFFICES ASSUME ShInv, Signals!ShrinkList PROVE ShInv'
  OBVIOUS
<1> DEFINE h == Signals!Handler(shCall.sig)
           s == shHandlers[h].sd_list
           t == Signals!Shrunk(s)
<1>1. Signals!Places(shCall.sig) # {} /\ shCall.sig \in Sig
  BY DEF ShInv, ShCall, Signals!ShrinkList, Signals!Idle
<1>2. h \in 1..Len(shHandlers) /\ shHandlers[h].sig = shCall.sig /\ shHandlers[h] \in ShHandler
  BY <1>1, ShPlaces DEF ShInv
<1>3. /\ s \in ShSlots /\ shHandlers[h].live \in BOOLEAN /\ (~shHandlers[h].live => s = <<>>)
      /\ shRegistered \in [Sig -> [ShReg -> Nat]] /\ shRegistered[shHandlers[h].sig] = ShCount(s)
  BY <1>2 DEF ShHandler, ShInv, ShBooks
<1>4. CASE UNCHANGED <<shHandlers, shRegistered>> /\ shCall' = Signals!Idle
  BY <1>4, ShSame DEF ShInv, ShCall
<1>5. CASE shHandlers' = [shHandlers EXCEPT ![h].sd_list = t] /\ shCall' = Signals!Idle
           /\ shRegistered' = shRegistered
  <2>1. Signals!Shrunk(<<>>) = <<>>
    <3>1. Signals!Occupied(<<>>) = {}
      BY DEF Signals!Occupied
    <3>2. 1..Signals!Cardinality({}) = {}
      BY ShCounts, FS_EmptySet
    <3>3. DOMAIN Signals!Shrunk(<<>>) = {}
      BY <3>1, <3>2 DEF Signals!Shrunk
    <3>4. Signals!Shrunk(<<>>) \in ShSlots
      BY ShEmpty, ShShrunk
    <3>5. ASSUME NEW x \in ShSlots, DOMAIN x = {} PROVE x = <<>>
      BY <3>5 DEF ShSlots
    <3> QED BY <3>3, <3>4, <3>5
  <2> HIDE DEF h, s
  <2>2. t \in ShSlots /\ ShCount(t) = ShCount(s) /\ (~shHandlers[h].live => t = <<>>)
    BY <1>3, <2>1, ShShrunk
  <2> HIDE DEF t
  <2>3. /\ ShCount(t) \in [ShReg -> Nat]
        /\ shRegistered' = [shRegistered EXCEPT ![shHandlers[h].sig] = ShCount(t)]
    BY <1>1, <1>2, <1>3, <1>5, <2>2
  <2>4. ShBooks'
    BY <1>2, <1>3, <1>5, <2>2, <2>3, ShReplaces DEF ShInv
  <2> QED BY <1>5, <2>4 DEF ShInv, ShCall
<1> QED BY <1>4, <1>5 DEF Signals!ShrinkList

(* The lists of all handlers are deleted, one after the other.             *)
LEMMA ShDeregistersAll == ShInv /\ Signals!signal_handler_deregister_all => ShInv'
<1> SUFFICES ASSUME ShInv, Signals!signal_handler_deregister_all PROVE ShInv'
  OBVIOUS
<1>0. Len(shHandlers) \in Nat /\ (shHandlers # <<>> => Len(shHandlers) # 0)
  BY DEF ShInv, ShBooks
<1>1. CASE shHandlers # <<>> /\ shCall' = [at |-> "all", next |-> 1] /\ UNCHANGED <<shHandlers, shRegistered>>
  <2>1. shCall' \in [at : {"all"}, next : 1..Len(shHandlers')]
    BY <1>0, <1>1
  <2> QED BY <1>1, <2>1, ShSame DEF ShInv, ShCall
<1>2. CASE /\ shCall.at = "all"
           /\ shHandlers' = [shHandlers EXCEPT ![shCall.next].live = FALSE, ![shCall.next].sd_list = <<>>]
           /\ shRegistered' = [shRegistered EXCEPT ![shHandlers[shCall.next].sig] = Signals!None]
           /\ shCall' = IF shCall.next = Len(shHandlers) THEN Signals!Idle ELSE [shCall EXCEPT !.next = @ + 1]
  <2> DEFINE h == shCall.next
  <2>1. shCall \in [at : {"all"}, next : 1..Len(shHandlers)]
    BY <1>2 DEF ShInv, ShCall, Signals!Idle
  <2>2. h \in 1..Len(shHandlers)
    BY <2>1
  <2>3. /\ ShCount(<<>>) \in [ShReg -> Nat]
        /\ shRegistered' = [shRegistered EXCEPT ![shHandlers[h].sig] = ShCount(<<>>)]
    <3>1. Signals!None \in [ShReg -> Nat]
      BY DEF Signals!None, ShReg
    <3> QED BY <1>2, <3>1, ShEmpty
  <2>4. ShBooks' /\ Len(shHandlers') = Len(shHandlers)
    <3> HIDE DEF h
    <3>1. shHandlers' = [shHandlers EXCEPT ![h].live = FALSE, ![h].sd_list = <<>>]
      BY <1>2 DEF h
    <3> QED BY <2>2, <2>3, <3>1, ShEmpty, ShReplaces DEF ShInv
  <2>5. ShCall'
    <3>1. CASE shCall' = Signals!Idle
      BY <3>1 DEF ShCall
    <3>2. CASE shCall.next # Len(shHandlers) /\ shCall' = [shCall EXCEPT !.next = @ + 1]
      <4>1. shCall' \in [at : {"all"}, next : 1..Len(shHandlers)]
        BY <1>0, <2>1, <3>2
      <4> QED BY <2>4, <4>1 DEF ShCall
    <3> QED BY <1>2, <3>1, <3>2
  <2> QED BY <2>4, <2>5 DEF ShInv
<1> QED BY <1>1, <1>2 DEF Signals!signal_handler_deregister_all

(* A registration begins, and makes a handler if the signal has none.      *)
LEMMA ShRegisters == ShInv /\ (Signals!signal_handler_register \/ Signals!InstallHandler) => ShInv'
<1> SUFFICES ASSUME ShInv, Signals!signal_handler_register \/ Signals!InstallHandler PROVE ShInv'
  OBVIOUS
<1>1. UNCHANGED <<shHandlers, shRegistered>>
  BY DEF Signals!signal_handler_register, Signals!InstallHandler, Signals!Fail
<1>2. ShBooks' /\ \A x \in Sig : Signals!Places(x)' = Signals!Places(x)
  BY <1>1, ShSame DEF ShInv
<1>3. CASE Signals!signal_handler_register
  <2>1. PICK s \in Sig, r \in ShReg :
          shCall' = [at |-> IF Signals!Places(s) = {} THEN "install" ELSE "ensure", sig |-> s, reg |-> r]
    BY <1>3 DEF Signals!signal_handler_register, ShReg
  <2>2. shCall'.sig = s
    BY <2>1
  <2>3. Signals!Places(shCall.sig)' = Signals!Places(s)
    BY <1>2, <2>2 DEF Signals!Places
  <2>4. CASE Signals!Places(s) = {}
    BY <1>2, <2>1, <2>3, <2>4 DEF ShInv, ShCall
  <2>5. CASE Signals!Places(s) # {}
    <3>1. shCall' \in [at : {"ensure", "add"}, sig : Sig, reg : ShReg] /\ shCall'.at # "add"
      BY <2>1, <2>5
    <3> QED BY <1>2, <2>3, <2>5, <3>1 DEF ShInv, ShCall
  <2> QED BY <2>4, <2>5
<1>4. CASE Signals!InstallHandler
  <2>1. shCall \in [at : {"install"}, sig : Sig, reg : ShReg] /\ Signals!Places(shCall.sig) = {}
    BY <1>4 DEF ShInv, ShCall, Signals!InstallHandler, Signals!Idle
  <2>2. CASE shCall' = Signals!Idle
    BY <1>2, <2>2 DEF ShInv, ShCall
  <2>3. CASE \E l \in BOOLEAN : shCall' = [at |-> "list", sig |-> shCall.sig, reg |-> shCall.reg, live |-> l]
    <3>1. shCall' \in [at : {"list"}, sig : Sig, reg : ShReg, live : BOOLEAN] /\ shCall'.sig = shCall.sig
      BY <2>1, <2>3
    <3>2. Signals!Places(shCall.sig)' = {}
      BY <1>2, <2>1, <3>1 DEF Signals!Places
    <3> QED BY <1>2, <3>1, <3>2 DEF ShInv, ShCall
  <2> QED BY <1>4, <2>2, <2>3 DEF Signals!InstallHandler, Signals!Fail
<1> QED BY <1>3, <1>4

(* A step that leaves the lists and the call alone.                        *)
LEMMA ShStutter == ShInv /\ UNCHANGED <<shHandlers, shRegistered, shCall>> => ShInv'
BY DEF ShInv, ShBooks, ShCall, Signals!Places, Signals!Handler

(* Every step of the signal handler keeps ShInv.                           *)
LEMMA ShNextKeepsInv == ASSUME Careful PROVE ShInv /\ Signals!Next => ShInv'
<1>1. ASSUME NEW s, Signals!signal_handler_proc(s) PROVE UNCHANGED <<shHandlers, shRegistered, shCall>>
  BY <1>1 DEF Signals!signal_handler_proc
<1> QED BY <1>1, ShStutter, ShRegisters, ShLists, ShEnsures, ShAdds, ShDeregisters, ShShrinks, ShDeregistersAll
        DEF Signals!Next

(* Nothing is registered at the start.                                     *)
LEMMA ShInit == Signals!Init => ShInv
<1> SUFFICES ASSUME Signals!Init PROVE ShInv
  OBVIOUS
<1>1. shHandlers = <<>> /\ shCall = Signals!Idle /\ shRegistered = [s \in Sig |-> Signals!None]
  BY DEF Signals!Init
<1>2. shHandlers \in Seq(ShHandler) /\ 1..Len(shHandlers) = {}
  BY <1>1
<1>3. Signals!None \in [ShReg -> Nat]
  BY DEF Signals!None, ShReg
<1> QED BY <1>1, <1>2, <1>3 DEF ShInv, ShBooks, ShCall

(* A signal walks the list of its handler and calls what is registered.    *)
LEMMA ShHears ==
  ASSUME ShInv, NEW sig \in Sig, Signals!signal_handler_proc(sig)
  PROVE  shHeard' = shRegistered[sig]
<1>1. CASE Signals!Places(sig) = {}
  BY <1>1 DEF Signals!signal_handler_proc, ShInv, ShBooks
<1>2. CASE Signals!Places(sig) # {}
  <2> DEFINE s == shHandlers[Signals!Handler(sig)].sd_list
  <2>1. PICK h \in 1..Len(shHandlers) : Signals!Handler(sig) = h /\ shHandlers[h].sig = sig
    BY <1>2, ShPlaces DEF ShInv
  <2>2. s \in ShSlots /\ shRegistered[sig] = ShCount(s)
    BY <2>1, ShPlaces DEF ShInv, ShBooks, ShHandler
  <2>3. shHeard' = [r \in ShReg |-> Signals!Cardinality({i \in Signals!Met(s, {}) : s[i] = r})]
    BY <1>2 DEF Signals!signal_handler_proc, ShReg
  <2> HIDE DEF s
  <2> QED BY <2>2, <2>3, ShWalk
<1> QED BY <1>1, <1>2

(* A signal calls each callback as often as it is registered, wherever a   *)
(* registration or a deregistration has got to, for any signals and any    *)
(* capacity of the lists.                                                  *)
THEOREM SignalsCallRegistered ==
  ASSUME Careful
  PROVE  Spec => CallsRegistered
<1>1. Init => ShInv
  BY ShInit DEF Init
<1>2. ShInv /\ [Next]_allVars => ShInv'
  BY ShNextKeepsInv, ShStutter DEF Next, On, allVars, shVars
<1>3. ShInv => [\A sig \in Sig : Signals!signal_handler_proc(sig) => shHeard' = shRegistered[sig]]_(Signals!vars)
  BY ShHears
<1> QED BY <1>1, <1>2, <1>3, PTL DEF Spec, CallsRegistered, Signals!CallsRegistered
=============================================================================
