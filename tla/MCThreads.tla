----------------------------- MODULE MCThreads -----------------------------
(***************************************************************************)
(* The other components that start a thread, run a loop of libuv or are    *)
(* interrupted by signals, in one state space, each on its own: 'part'     *)
(* says which one a behaviour is about, and the others keep their initial  *)
(* state.                                                                  *)
(***************************************************************************)
EXTENDS Naturals

CONSTANTS
  Pid, Size, Sleeps,   \* of ProcWaiter
  Helper,              \* the threads of a timer event, TcpClient or FdClient
  Sock,                \* of both clients
  UvPeer, MaxWrites,   \* of UvTcpServer
  Sig, StartCap, Most, \* of SignalHandler
  Patient, Careful     \* of all of them

(* Thread names and socket numbers are told apart from the callers' names  *)
(* and from no socket.                                                     *)
ASSUME NamesAssumption == Helper \cap {"ctl", "guest"} = {} /\ "none" \notin Sock

ASSUME CapAssumption == StartCap \in Nat

VARIABLES
  part,
  pwReady, pwSlots, pwListLock, pwMutex, pwFlags, pwReg, pwAsleep, pwCancel,
  pwChild, pwExited, pwPc, pwRet,
  ttFp, ttReg, ttDue, ttTimer, ttMutex, ttAsleep, ttFreed, ttPc, ttRet,
  tcSock, tcOpen, tcHung, tcTimed, tcHears, tcFlags, tcReg, tcReader,
  tcAsleep, tcTold, tcRaced, tcFreed, tcPc, tcRet,
  fcSock, fcOpen, fcHung, fcFlags, fcThread, fcWatched, fcEnded, fcFreed,
  fcPc,
  uvServer, uvWrites, uvRunning,
  ucConnected, ucHandle, ucBuff, ucThread, ucUser, ucFreed,
  shHandlers, shInstalled, shCall, shRegistered, shHeard

pwVars == <<pwReady, pwSlots, pwListLock, pwMutex, pwFlags, pwReg,
              pwAsleep, pwCancel, pwChild, pwExited, pwPc, pwRet>>
ttVars == <<ttFp, ttReg, ttDue, ttTimer, ttMutex, ttAsleep, ttFreed, ttPc,
              ttRet>>
tcVars == <<tcSock, tcOpen, tcHung, tcTimed, tcHears, tcFlags, tcReg,
              tcReader, tcAsleep, tcTold, tcRaced, tcFreed, tcPc, tcRet>>
fcVars == <<fcSock, fcOpen, fcHung, fcFlags, fcThread, fcWatched, fcEnded,
              fcFreed, fcPc>>
uvVars == <<uvServer, uvWrites, uvRunning>>
ucVars == <<ucConnected, ucHandle, ucBuff, ucThread, ucUser, ucFreed>>
shVars == <<shHandlers, shInstalled, shCall, shRegistered, shHeard>>

Waiter == INSTANCE ProcWaiter WITH
      ready <- pwReady, slots <- pwSlots, listLock <- pwListLock,
      mutex <- pwMutex, flags <- pwFlags, reg <- pwReg, asleep <- pwAsleep,
      cancel <- pwCancel, child <- pwChild, exited <- pwExited, pc <- pwPc,
      ret <- pwRet

Timer == INSTANCE ThreadedTimerEvent WITH
      Worker <- Helper, fp <- ttFp, reg <- ttReg, due <- ttDue,
      timer <- ttTimer, mutex <- ttMutex, asleep <- ttAsleep,
      freed <- ttFreed, pc <- ttPc, ret <- ttRet

Tcp == INSTANCE TcpClient WITH
      Reader <- Helper, sock <- tcSock, open <- tcOpen, hung <- tcHung,
      timed <- tcTimed, hears <- tcHears, flags <- tcFlags, reg <- tcReg,
      reader <- tcReader, asleep <- tcAsleep, told <- tcTold,
      raced <- tcRaced, freed <- tcFreed, pc <- tcPc, ret <- tcRet

Fd == INSTANCE FdClient WITH
      Listener <- Helper, sock <- fcSock, open <- fcOpen, hung <- fcHung,
      flags <- fcFlags, thread <- fcThread, watched <- fcWatched,
      ended <- fcEnded, freed <- fcFreed, pc <- fcPc

Uv == INSTANCE UvTcpServer WITH
      Client <- UvPeer, server <- uvServer, writes <- uvWrites,
      running <- uvRunning

UvClient == INSTANCE UvTcpClient WITH
      connected <- ucConnected, handle <- ucHandle, buff <- ucBuff,
      thread <- ucThread, user <- ucUser, freed <- ucFreed

Signals == INSTANCE SignalHandler WITH
      handlers <- shHandlers, installed <- shInstalled, call <- shCall,
      registered <- shRegistered, heard <- shHeard

allVars == <<part, pwVars, ttVars, tcVars, fcVars, uvVars, ucVars, shVars>>

Init ==
  /\ part \in {"waiter", "timer", "tcp", "fd", "uv", "uvclient", "signals"}
  /\ Waiter!Init /\ Timer!Init /\ Tcp!Init /\ Fd!Init /\ Uv!Init /\ UvClient!Init
  /\ Signals!Init
  /\ part # "timer" => ttTimer = CHOOSE t \in Helper : TRUE
  /\ part # "tcp" => tcReader = CHOOSE t \in Helper : TRUE
  /\ part # "fd" => fcThread = CHOOSE t \in Helper : TRUE

(* A step of one component.                                                *)
On(p, Step) ==
  /\ part = p
  /\ Step
  /\ UNCHANGED part
  /\ p # "waiter" => UNCHANGED pwVars
  /\ p # "timer" => UNCHANGED ttVars
  /\ p # "tcp" => UNCHANGED tcVars
  /\ p # "fd" => UNCHANGED fcVars
  /\ p # "uv" => UNCHANGED uvVars
  /\ p # "uvclient" => UNCHANGED ucVars
  /\ p # "signals" => UNCHANGED shVars

Next ==
  \/ On("waiter", Waiter!Next)
  \/ On("timer", Timer!Next)
  \/ On("tcp", Tcp!Next)
  \/ On("fd", Fd!Next)
  \/ On("uv", Uv!Next)
  \/ On("uvclient", UvClient!Next)
  \/ On("signals", Signals!Next)

(* The fairness of each component.  One component moves in a behaviour, so *)
(* a disjunction asks of each part what its own module does.               *)
Fairness ==
  /\ SF_allVars(On("waiter", Waiter!CallerStep) \/ On("timer", Timer!ControlStep)
                 \/ On("tcp", Tcp!ControlStep) \/ On("uv", Uv!default_write_cb))
  /\ \A t \in Helper : SF_allVars(On("waiter", Waiter!WaiterStep) \/ On("timer", Timer!TimerStep(t))
                                  \/ On("tcp", Tcp!ReaderStep(t)) \/ On("uv", Uv!free_client_handle))
  /\ SF_allVars(On("timer", Timer!WaitStep))
  /\ \A t \in Helper : WF_allVars(On("fd", Fd!ListenerStep(t)) \/ On("uv", Uv!ServerClosed)
                                  \/ On("uvclient", UvClient!run_loop_proc))
  /\ WF_allVars(On("timer", Timer!Tick) \/ On("fd", Fd!ControlStep)
                 \/ On("uv", Uv!free_wake_handle) \/ On("uvclient", UvClient!close_cb))
  /\ WF_allVars(On("uv", Uv!LoopReturns) \/ On("uvclient", UvClient!JoinStep))

Spec == Init /\ [][Next]_allVars /\ Fairness

-----------------------------------------------------------------------------
(* One thread at a time works for an object, over every order of starts,   *)
(* stops, hang-ups and restarts and whichever unlocked flag updates are    *)
(* lost, and none is left when the object is freed: OneTimerThread of      *)
(* ThreadedTimerEvent, OneReader of TcpClient and FreedAfterListener of    *)
(* FdClient, for callers that wait for a thread to reach its loop.         *)
OneThreadEach == Timer!OneTimerThread /\ Tcp!OneReader /\ Fd!FreedAfterListener

(* No socket of a TcpClient is lost, and its end is told once, twice if    *)
(* two threads disconnect it at the same time and so both close the        *)
(* number; no handle of a client a UvTcpServer has not turned away is lost *)
(* or freed before it is closed: SocketAccounted of TcpClient and          *)
(* ListedIsOpen of UvTcpServer.                                            *)
ConnectionsAccounted == Tcp!SocketAccounted /\ Uv!ListedIsOpen

(* A signal calls what is registered for it (SignalHandler.tla).           *)
CallsRegistered == Signals!CallsRegistered

(* Whoever stops or deletes what runs on a thread or in a loop returns, or *)
(* sees it end, although the flags and the broadcasts are made without the *)
(* mutex: StopReturns of ProcWaiter, ReadStopReturns of TcpClient,         *)
(* DeleteReturns of FdClient, StopEndsLoop of UvTcpServer, CloseEndsThread *)
(* of UvTcpClient, and the stop of a ThreadedTimerEvent unless its         *)
(* THREAD_STOP is overwritten (StopLost).  So does whoever registers with  *)
(* a waiter that holds a mutex: RegisterReturns.                           *)
StopsReturn ==
  /\ Waiter!RegisterReturns
  /\ (\/ part = "waiter" /\ Waiter!Joining
      \/ part = "timer" /\ Timer!Joining
      \/ part = "tcp" /\ Tcp!Joining
      \/ part = "fd" /\ Fd!Joining
      \/ part = "uv" /\ Uv!Stopping
      \/ part = "uvclient" /\ UvClient!Closing)
     ~>
     (\/ part = "waiter" /\ (~Waiter!Joining \/ Waiter!Excused)
      \/ part = "timer" /\ (~Timer!Joining \/ Timer!StopLost)
      \/ part = "tcp" /\ ~Tcp!Joining
      \/ part = "fd" /\ (~Fd!Joining \/ fcSock # "none")
      \/ part = "uv" /\ ~uvRunning
      \/ part = "uvclient" /\ UvClient!Closed)

(* A waiter takes every child that exits (ProcWaiter.tla).                 *)
ReapsWhatExits == Waiter!ReapsWhatExits

(* An event that is due rings until it is stopped (ThreadedTimerEvent).    *)
KeepsRinging == Timer!KeepsRinging
=============================================================================
