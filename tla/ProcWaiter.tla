----------------------------- MODULE ProcWaiter -----------------------------
(***************************************************************************)
(* The process waiter of source/proc_waiter.c: a thread that waits for     *)
(* child processes to exit and calls back whoever registered for them, and *)
(* a thread that forks children, registers for them and starts and stops   *)
(* the waiter.  The globals are two locks, a flag pole and a list.         *)
(***************************************************************************)
EXTENDS CountedWalk

CONSTANTS
  Pid,      \* child processes
  Size,     \* bound: registrations at a time
  Sleeps,   \* TRUE: PROC_WAITER_SLEEP_TIME is not negative
  Patient   \* TRUE: flags are written while the waiter is in its loop

Thread == {"ctl", "waiter"}
Any == "any"   \* a registration for every pid

VARIABLES
  ready,    \* the globals are allocated
  slots,    \* the registrations of PROC_WAITER_CB_LIST, by the pid they watch
  listLock, \* the owner of the list's mutex, or "none"
  mutex,    \* the owner of PROC_WAITER_MUTEX, or "none"
  flags,    \* PROC_WAITER_FLAG_POLE
  reg,      \* the value a thread loaded from it to modify it
  asleep,   \* the waiter is blocked on PROC_WAITER_T_COND
  cancel,   \* pthread_cancel is pending
  child,    \* the state of each child process
  exited,   \* the pid wait() returned
  pc, ret   \* where the threads are, and return to

locks == <<listLock, mutex>>
flagVars == <<flags, reg>>
vars == <<ready, slots, locks, flagVars, asleep, cancel, child, exited, pc, ret>>

Goto(t, to) == pc' = [pc EXCEPT ![t] = to]
Call(t, sub, after) == Goto(t, sub) /\ ret' = [ret EXCEPT ![t] = <<after>> \o @]
Return(t) == Goto(t, Head(ret[t])) /\ ret' = [ret EXCEPT ![t] = Tail(@)]

Same == UNCHANGED <<ready, slots, locks, flagVars, asleep, cancel, child, exited>>
Branch(t, to) == Goto(t, to) /\ Same /\ UNCHANGED ret

Load(t, at, to) ==
  /\ pc[t] = at /\ Goto(t, to)
  /\ reg' = [reg EXCEPT ![t] = flags]
  /\ UNCHANGED <<ready, slots, locks, flags, asleep, cancel, child, exited, ret>>

Store(t, at, value, to) ==
  /\ pc[t] = at /\ Goto(t, to)
  /\ flags' = value /\ reg' = [reg EXCEPT ![t] = {}]
  /\ UNCHANGED <<ready, slots, locks, asleep, cancel, child, exited, ret>>

Lock(t, at, to) ==
  /\ pc[t] = at /\ mutex = "none" /\ mutex' = t /\ Goto(t, to)
  /\ UNCHANGED <<ready, slots, listLock, flagVars, asleep, cancel, child, exited, ret>>

Unlock(t, at, to) ==
  /\ pc[t] = at /\ mutex' = "none" /\ Goto(t, to)
  /\ UNCHANGED <<ready, slots, listLock, flagVars, asleep, cancel, child, exited, ret>>

Broadcast(t, at, to) ==
  /\ pc[t] = at /\ asleep' = FALSE /\ Goto(t, to)
  /\ UNCHANGED <<ready, slots, locks, flagVars, cancel, child, exited, ret>>

-----------------------------------------------------------------------------
(* thread_proc.                                                            *)

ThreadFrame ==
  \/ Load("waiter", "born", "born1")
  \/ Store("waiter", "born1", reg["waiter"] \cup {"RUNNING"}, "loop")
  \/ Load("waiter", "quit", "quit1")
  \/ Store("waiter", "quit1", reg["waiter"] \ {"RUNNING"}, "quit2")
  \/ Broadcast("waiter", "quit2", "done")

LoopHead == pc["waiter"] = "loop" /\ Branch("waiter", IF "STOP" \in flags THEN "quit" ELSE "wait")

(* wait() takes a child that exited, fails if there is none, and is the    *)
(* only place where the thread can be cancelled.                           *)
Wait ==
  /\ pc["waiter"] = "wait"
  /\ \/ \E p \in Pid :
          /\ child[p] = "zombie" /\ child' = [child EXCEPT ![p] = "none"]
          /\ exited' = p /\ Goto("waiter", "walk") /\ UNCHANGED cancel
     \/ /\ \A p \in Pid : child[p] = "none"
        /\ Goto("waiter", "nochild") /\ UNCHANGED <<child, exited, cancel>>
     \/ /\ cancel /\ cancel' = FALSE
        /\ Goto("waiter", "done") /\ UNCHANGED <<child, exited>>
  /\ UNCHANGED <<ready, slots, locks, flagVars, asleep, ret>>

(* The walk over the registrations, with the list locked: a registration   *)
(* for the pid that exited is called back and removed, one for any pid is  *)
(* called back.                                                            *)
Walk ==
  /\ pc["waiter"] = "walk"
  /\ listLock = "none"
  /\ slots' = Left(slots, {i \in Occupied(slots) : slots[i] = exited})
  /\ exited' = "none"
  /\ Goto("waiter", "loop")
  /\ UNCHANGED <<ready, locks, flagVars, asleep, cancel, child, ret>>

(* Without children: with nobody registered the waiter waits until someone *)
(* is, or until it is to stop.                                             *)
SleepTest ==
  /\ pc["waiter"] \in {"nochild1", "again"}
  /\ Branch("waiter", IF Occupied(slots) # {} /\ pc["waiter"] = "again" THEN "unlock"
                      ELSE IF Occupied(slots) # {} THEN "nap"
                      ELSE IF "STOP" \in flags THEN "unlock" ELSE "sleep")

Block(at, to) ==
  /\ pc["waiter"] = at /\ asleep' = TRUE /\ mutex' = "none" /\ Goto("waiter", to)
  /\ UNCHANGED <<ready, slots, listLock, flagVars, cancel, child, exited, ret>>

Wake(at, to) ==
  /\ pc["waiter"] = at /\ mutex = "none" /\ mutex' = "waiter"
  /\ asleep' = FALSE /\ Goto("waiter", to)
  /\ UNCHANGED <<ready, slots, listLock, flagVars, cancel, child, exited, ret>>

(* Mutant: a nap has no end of its own.                                    *)
NoChildren_napsForever ==
  \/ Lock("waiter", "nochild", "nochild1")
  \/ SleepTest
  \/ Block("sleep", "asleep") \/ (~asleep /\ Wake("asleep", "again"))
  \/ Block("nap", "napping") \/ (~asleep /\ Wake("napping", "unlock"))
  \/ Unlock("waiter", "unlock", "loop")

(* With someone registered it waits once, for a time if one is set.        *)
NoChildren ==
  \/ Lock("waiter", "nochild", "nochild1")
  \/ SleepTest
  \/ Block("sleep", "asleep") \/ (~asleep /\ Wake("asleep", "again"))
  \/ Block("nap", "napping")
  \/ (Sleeps \/ ~asleep) /\ Wake("napping", "unlock")
  \/ Unlock("waiter", "unlock", "loop")

WaiterStep == ThreadFrame \/ LoopHead \/ Wait \/ Walk \/ NoChildren

-----------------------------------------------------------------------------
(* Subroutines of the controlling thread.                                  *)

(* proc_waiter_stop.                                                       *)
Stop ==
  \/ pc["ctl"] = "stop" /\ ~ready /\ Return("ctl") /\ Same
  \/ ready /\ Load("ctl", "stop", "stop1")
  \/ Store("ctl", "stop1", reg["ctl"] \cup {"STOP"}, "stop2")
  \/ /\ pc["ctl"] = "stop2" /\ asleep' = FALSE /\ Return("ctl")
     /\ UNCHANGED <<ready, slots, locks, flagVars, cancel, child, exited>>

Joined == pc["waiter"] \in {"none", "done"}

(* proc_waiter_stop_wait, after proc_waiter_stop.                          *)
StopWait ==
  \/ /\ pc["ctl"] = "join"
     /\ "CREATED" \in flags => Joined
     /\ flags' = IF "CREATED" \in flags THEN flags \ {"CREATED", "RUNNING"} ELSE flags
     /\ Return("ctl")
     /\ UNCHANGED <<ready, slots, locks, reg, asleep, cancel, child, exited>>

(* proc_waiter_stop_now, after proc_waiter_stop: the thread is cancelled.  *)
StopNow ==
  \/ /\ pc["ctl"] = "now"
     /\ IF "CREATED" \in flags THEN Goto("ctl", "now1") /\ cancel' = ~Joined /\ UNCHANGED ret
                               ELSE Return("ctl") /\ UNCHANGED cancel
     /\ UNCHANGED <<ready, slots, locks, flagVars, asleep, child, exited>>
  \/ Load("ctl", "now1", "now2")
  \/ Store("ctl", "now2", reg["ctl"] \ {"RUNNING"}, "nowjoin")
  \/ /\ pc["ctl"] = "nowjoin" /\ Joined
     /\ flags' = flags \ {"CREATED"} /\ cancel' = FALSE
     /\ Return("ctl")
     /\ UNCHANGED <<ready, slots, locks, reg, asleep, child, exited>>

(* proc_waiter_start.  Its call of proc_waiter_stop_now is for a thread    *)
(* that is running and was not created, which there never is.              *)
Start ==
  \/ Lock("ctl", "start", "start1")
  \/ Load("ctl", "start1", "start2")
  \/ Store("ctl", "start2", reg["ctl"] \ {"STOP"}, "start3")
  \/ /\ pc["ctl"] = "start3"
     /\ Branch("ctl", IF {"RUNNING", "CREATED"} \subseteq flags THEN "started" ELSE "start5")
  \/ /\ pc["ctl"] = "start5" /\ ("CREATED" \in flags => Joined)
     /\ Branch("ctl", "start6")
  \/ Load("ctl", "start6", "start7")
  \/ Store("ctl", "start7", reg["ctl"] \cup {"RUNNING", "CREATED"}, "create")
  \/ /\ pc["ctl"] = "create"
     /\ pc' = [ctl |-> "started", waiter |-> "born"]
     /\ Same /\ UNCHANGED ret
  \/ Store("ctl", "create", flags \ {"RUNNING", "CREATED"}, "started")
  \/ /\ pc["ctl"] = "started" /\ mutex' = "none" /\ Return("ctl")
     /\ UNCHANGED <<ready, slots, listLock, flagVars, asleep, cancel, child, exited>>

UnlockList ==
  /\ pc["ctl"] = "unlist" /\ listLock' = "none" /\ Goto("ctl", "idle")
  /\ UNCHANGED <<ready, slots, mutex, flagVars, asleep, cancel, child, exited, ret>>

(* ArrayList_add and a broadcast, without PROC_WAITER_MUTEX.               *)
Register ==
  \/ /\ pc["ctl"] = "register"
     /\ \E p \in Pid \cup {Any} : slots' = Added(slots, p)
     /\ Goto("ctl", "register1")
     /\ UNCHANGED <<ready, locks, flagVars, asleep, cancel, child, exited, ret>>
  \/ /\ pc["ctl"] = "register1" /\ asleep' = FALSE /\ Return("ctl")
     /\ UNCHANGED <<ready, slots, locks, flagVars, cancel, child, exited>>

ControlStep == Stop \/ StopWait \/ StopNow \/ Start \/ Register \/ UnlockList

-----------------------------------------------------------------------------
(* The calls.                                                              *)

MayCall ==
  pc["ctl"] = "idle" /\ (Patient => pc["waiter"] \notin {"born", "born1", "quit", "quit1"})

(* allocate_globals, then proc_waiter_start.                               *)
proc_waiter_start ==
  /\ MayCall
  /\ ready' = TRUE
  /\ Call("ctl", "start", "idle")
  /\ UNCHANGED <<slots, locks, flagVars, asleep, cancel, child, exited>>

(* proc_waiter_register_tsafe and proc_waiter_register_no_start_tsafe,     *)
(* which hold the list's mutex throughout.                                 *)
proc_waiter_register_tsafe ==
  /\ MayCall
  /\ Occupied(slots) # DOMAIN slots
  /\ ready' = TRUE
  /\ listLock = "none" /\ listLock' = "ctl"
  /\ Goto("ctl", "register")
  /\ ret' = [ret EXCEPT !["ctl"] = <<"start", "unlist">>] \/ ret' = [ret EXCEPT !["ctl"] = <<"unlist">>]
  /\ UNCHANGED <<slots, mutex, flagVars, asleep, cancel, child, exited>>

(* proc_waiter_deregister_tsafe for one pid or for all, and                *)
(* proc_waiter_deregister_all_tsafe, each with a broadcast at its end.     *)
proc_waiter_deregister_tsafe ==
  /\ MayCall /\ ready
  /\ listLock = "none"
  /\ \/ \E p \in Pid : slots' = Left(slots, {i \in Occupied(slots) : slots[i] = p})
     \/ slots' = Left(slots, Occupied(slots))
     \/ slots' = [i \in DOMAIN slots |-> Empty]
  /\ asleep' = FALSE
  /\ UNCHANGED <<ready, locks, flagVars, cancel, child, exited, pc, ret>>

(* proc_waiter_stop, proc_waiter_stop_wait, proc_waiter_stop_now and       *)
(* free_proc_waiter, which calls the latter two.                           *)
StopCalls ==
  /\ MayCall
  /\ \E to \in {<<"idle">>, <<"join", "idle">>, <<"now", "idle">>, <<"now", "stop", "join", "free">>} :
       ret' = [ret EXCEPT !["ctl"] = to]
  /\ Goto("ctl", "stop") /\ Same

free_proc_waiter ==
  /\ pc["ctl"] = "free"
  /\ ready' = FALSE /\ flags' = {} /\ slots' = [i \in DOMAIN slots |-> Empty]
  /\ Goto("ctl", "idle")
  /\ UNCHANGED <<locks, reg, asleep, cancel, child, exited, ret>>

proc_waiter_wakeup ==
  /\ MayCall /\ ready /\ asleep
  /\ asleep' = FALSE
  /\ UNCHANGED <<ready, slots, locks, flagVars, cancel, child, exited, pc, ret>>

(* Children are forked and exit.                                           *)
Children ==
  /\ \E p \in Pid :
       \/ child[p] = "none" /\ exited # p /\ child' = [child EXCEPT ![p] = "running"]
       \/ child[p] = "running" /\ child' = [child EXCEPT ![p] = "zombie"]
  /\ UNCHANGED <<ready, slots, locks, flagVars, asleep, cancel, exited, pc, ret>>

Init ==
  /\ ready = FALSE /\ slots = [i \in 1..Size |-> Empty]
  /\ listLock = "none" /\ mutex = "none"
  /\ flags = {} /\ reg = [t \in Thread |-> {}]
  /\ asleep = FALSE /\ cancel = FALSE
  /\ child = [p \in Pid |-> "none"] /\ exited = "none"
  /\ pc = [ctl |-> "idle", waiter |-> "none"] /\ ret = [t \in Thread |-> <<>>]

Calls ==
  \/ proc_waiter_start \/ proc_waiter_register_tsafe \/ proc_waiter_deregister_tsafe
  \/ StopCalls \/ proc_waiter_wakeup

Next == Calls \/ ControlStep \/ free_proc_waiter \/ WaiterStep \/ Children

(* Both threads run and get a mutex that is free again and again.  Nothing *)
(* is assumed of the children.                                             *)
CallerStep == ControlStep \/ free_proc_waiter

Fairness == SF_vars(CallerStep) /\ SF_vars(WaiterStep)

Spec == Init /\ [][Next]_vars /\ Fairness

-----------------------------------------------------------------------------
(* A registration returns: the list's mutex is held while                  *)
(* PROC_WAITER_MUTEX is waited for and an old thread joined, but never the *)
(* other way round.                                                        *)
RegisterReturns == pc["ctl"] = "register" ~> listLock # "ctl"

Joining == pc["ctl"] \in {"join", "nowjoin"}
Excused ==
  \/ pc["ctl"] = "join" /\ \E p \in Pid : child[p] = "running"
  \/ pc["waiter"] = "asleep" /\ "STOP" \in flags

(* A stop that waits returns, as soon as a child exits, and one that       *)
(* cancels at once: unless its broadcast fell between the waiter's test    *)
(* of the flag and its wait.                                               *)
StopReturns == Joining ~> ~Joining \/ Excused

(* A waiter that naps for a limited time takes every child that exits,     *)
(* unless it missed a registration in the same way.                        *)
ReapsWhatExits ==
  \A p \in Pid :
    child[p] = "zombie" /\ pc["waiter"] \notin {"none", "done"}
      ~> \/ child[p] # "zombie" \/ pc["waiter"] \in {"none", "done"}
         \/ pc["waiter"] = "asleep"

=============================================================================
