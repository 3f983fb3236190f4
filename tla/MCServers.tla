----------------------------- MODULE MCServers -----------------------------
(***************************************************************************)
(* The two servers that listen on a thread of their own and the one that   *)
(* runs in its caller's, in one state space, each on its own: 'part' says  *)
(* which one a behaviour is about, and the others keep their initial       *)
(* state.                                                                  *)
(***************************************************************************)
EXTENDS Naturals

CONSTANTS
  TcpPeer, FdPeer, EventPeer,  \* the connections of each server
  Careful                      \* of EventServer

(* The listening socket of a TcpServer is none of its connections.         *)
ASSUME NamesAssumption == "srv" \notin TcpPeer

VARIABLES
  part,
  tcpSock, tcpFlags, tcpReg, tcpWaiting, tcpPc, tcpRet, tcpEpoll, tcpBatch,
  tcpCur, tcpCb, tcpList, tcpOpen, tcpLost, tcpTheirs, tcpPeer, tcpUsesReady,
  tcpMayFail, tcpFreed,
  fdSock, fdListening, fdEfd, fdFlags, fdReg, fdPc, fdRet, fdWatched,
  fdFirst, fdBatch, fdCur, fdList, fdOpen, fdPeer, fdCrashed, fdDeleted,
  callbacks, quits, is_running, loop, exiting, came, bev, reads, packages,
  proc, held, crashed, deleted      \* of EventServer

tcpVars == <<tcpSock, tcpFlags, tcpReg, tcpWaiting, tcpPc, tcpRet,
               tcpEpoll, tcpBatch, tcpCur, tcpCb, tcpList, tcpOpen, tcpLost,
               tcpTheirs, tcpPeer, tcpUsesReady, tcpMayFail, tcpFreed>>
fdVars == <<fdSock, fdListening, fdEfd, fdFlags, fdReg, fdPc, fdRet,
              fdWatched, fdFirst, fdBatch, fdCur, fdList, fdOpen, fdPeer,
              fdCrashed, fdDeleted>>
eventVars == <<callbacks, quits, is_running, loop, exiting, came, bev,
                 reads, packages, proc, held, crashed, deleted>>

Tcp == INSTANCE TcpServer WITH
      Client <- TcpPeer, sock <- tcpSock, flags <- tcpFlags, reg <- tcpReg,
      waiting <- tcpWaiting, pc <- tcpPc, ret <- tcpRet, epoll <- tcpEpoll,
      batch <- tcpBatch, cur <- tcpCur, cb <- tcpCb, list <- tcpList,
      open <- tcpOpen, lost <- tcpLost, theirs <- tcpTheirs, peer <- tcpPeer,
      usesReady <- tcpUsesReady, mayFail <- tcpMayFail, freed <- tcpFreed

Fd == INSTANCE FdServer WITH
      Client <- FdPeer, sock <- fdSock, listening <- fdListening,
      efd <- fdEfd, flags <- fdFlags, reg <- fdReg, pc <- fdPc, ret <- fdRet,
      watched <- fdWatched, first <- fdFirst, batch <- fdBatch, cur <- fdCur,
      list <- fdList, open <- fdOpen, peer <- fdPeer, crashed <- fdCrashed,
      deleted <- fdDeleted

Event == INSTANCE EventServer WITH Client <- EventPeer

allVars == <<part, tcpVars, fdVars, eventVars>>

Init ==
  /\ part \in {"tcp", "fd", "event"}
  /\ Tcp!Init /\ Fd!Init /\ Event!newEventServer
  /\ part # "tcp" => ~tcpUsesReady /\ ~tcpMayFail
  /\ part # "event" => callbacks = Event!Callback /\ quits

(* A step of one server.                                                   *)
On(p, Step) ==
  /\ part = p
  /\ Step
  /\ UNCHANGED part
  /\ p # "tcp" => UNCHANGED tcpVars
  /\ p # "fd" => UNCHANGED fdVars
  /\ p # "event" => UNCHANGED eventVars

Next == On("tcp", Tcp!Next) \/ On("fd", Fd!Next) \/ On("event", Event!Next)

(* The fairness of each component: its caller's thread and its worker run. *)
ControlStep == On("tcp", Tcp!ControlStep) \/ On("fd", Fd!ControlStep)
WorkerStep == On("tcp", Tcp!WorkerStep) \/ On("fd", Fd!WorkerStep)

Spec ==
  Init /\ [][Next]_allVars /\ WF_allVars(ControlStep) /\ WF_allVars(WorkerStep)

-----------------------------------------------------------------------------
(* The books of the servers: as long as no registration of a client fails  *)
(* (TcpServer) and no freed package was used (FdServer), every open        *)
(* descriptor of a client has one owner and none is kept by a server whose *)
(* thread has ended; and the data of a client is freed once (EventServer). *)
(* SocketsAccounted of TcpServer, ClientsAccounted of FdServer and         *)
(* DataIsOwned of EventServer.                                             *)
ClientsAccounted == Tcp!SocketsAccounted /\ Fd!ClientsAccounted /\ Event!DataIsOwned

(* The thread of a server that was told to stop ends, whatever its         *)
(* callbacks do meanwhile: StopEndsThread of TcpServer and StopEndsLoop of *)
(* FdServer.                                                               *)
StopEndsServing ==
  (part = "tcp" /\ Tcp!Told) \/ (part = "fd" /\ Fd!Told)
    ~> (part = "tcp" /\ Tcp!Ended) \/ (part = "fd" /\ Fd!Ended)

(* A TcpServer that one of its callbacks deletes is freed (TcpServer.tla). *)
DeletedIsFreed == Tcp!DeletedIsFreed
=============================================================================
