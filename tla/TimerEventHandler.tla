------------------------- MODULE TimerEventHandler -------------------------
(***************************************************************************)
(* The handler of timer events of source/TimerEventHandler.c, with the     *)
(* parts of TimerEvent.c and Timer.c it uses: a worker thread that waits   *)
(* for the first event of a list to end, calls it back and puts it where   *)
(* its next end belongs, and a thread that adds and extracts events and    *)
(* starts and stops the worker.                                            *)
(*                                                                         *)
(* Time is relative: 'due' is an end time minus the current time, and a    *)
(* time Late ago is as long ago as any, so that it also stands for the     *)
(* zeroed end time of a timer that was never begun.                        *)
(***************************************************************************)
EXTENDS Integers, FiniteSets, SequencesExt

CONSTANTS
  Event,    \* the events callers own
  RunTime,  \* the run_time of the timer of each
  Late,     \* bound: how far an end time can lie in the past
  Patient   \* TRUE: the caller lets the worker reach its loop first

ASSUME TimeAssumption ==
  /\ IsFiniteSet(Event) /\ RunTime \in [Event -> Nat \ {0}]
  /\ Late \in Nat \ {0} /\ Patient \in BOOLEAN

Thread == {"ctl", "worker"}

VARIABLES
  list,     \* the events of handler->list, in its order
  due,      \* the end time of each event's timer, relative to now
  begun,    \* events whose timer has an end time other than zero
  freed,    \* events that were freed
  flags,    \* handler->fp
  reg,      \* the value a thread loaded from fp to modify it
  mutex,    \* the owner of handler->mutex, or "none"
  waiting,  \* TRUE while the worker is blocked on handler->cond
  until,    \* the timeout of its wait, relative to now
  pc,       \* where each thread is; the worker is at "none" if there is no
            \* thread to join and at "done" when it has returned
  after,    \* where TimerEventHandler_stop returns to
  crashed,  \* an event was inserted in front of others, or freed while listed
  ordered   \* history: the list was in the order of run times when the
            \* handler was started

events == <<list, due, begun, freed>>
thread == <<flags, reg, mutex, waiting, until>>
vars == <<events, thread, pc, after, crashed, ordered>>

Goto(t, to) == pc' = [pc EXCEPT ![t] = to]

(* flag_raise and flag_lower are a load and a store of an integer.         *)
Load(t, to) ==
  /\ reg' = [reg EXCEPT ![t] = flags]
  /\ Goto(t, to)
  /\ UNCHANGED <<events, flags, mutex, waiting, until, after, crashed, ordered>>

Store(t, value, to) ==
  /\ flags' = value
  /\ reg' = [reg EXCEPT ![t] = {}]
  /\ Goto(t, to)
  /\ UNCHANGED <<events, mutex, waiting, until, after, crashed, ordered>>

Lock(t, to) ==
  /\ mutex = "none"
  /\ mutex' = t
  /\ Goto(t, to)
  /\ UNCHANGED <<events, flags, reg, waiting, until, after, crashed, ordered>>

Unlock(t, to) ==
  /\ mutex' = "none"
  /\ Goto(t, to)
  /\ UNCHANGED <<events, flags, reg, waiting, until, after, crashed, ordered>>

Branch(t, to) ==
  /\ Goto(t, to)
  /\ UNCHANGED <<events, thread, after, crashed, ordered>>

(* pthread_cond_wait and pthread_cond_timedwait release the mutex and      *)
(* block in one step.                                                      *)
Sleep(timeout, to) ==
  /\ until' = timeout
  /\ mutex' = "none"
  /\ waiting' = TRUE
  /\ Goto("worker", to)
  /\ UNCHANGED <<events, flags, reg, after, crashed, ordered>>

Awake == waiting' = FALSE /\ until' = 0

(* pthread_cond_broadcast: only the worker ever waits.                     *)
Broadcast == Awake

-----------------------------------------------------------------------------
(* Timers.                                                                 *)

(* Timer_begin: the end is one run time from now.                          *)
Timer_begin(e) ==
  /\ due' = [due EXCEPT ![e] = RunTime[e]]
  /\ begun' = begun \cup {e}

(* Timer_begin_before: the overrun counts towards the next run.            *)
Timer_begin_before(e) ==
  /\ due' = [due EXCEPT ![e] = RunTime[e] + due[e]]
  /\ begun' = begun \cup {e}

(* Timer_get_time_status: no time remains.                                 *)
Rang(e) == due[e] <= 0

InLoop ==
  pc["worker"] \notin {"none", "born", "run", "lock", "quit", "quitted", "done"}

(* CLOCK_MONOTONIC goes on by one unit.  Bound: a worker in its loop gets  *)
(* at most Late behind; otherwise times that lie Late ago stay there.      *)
Tick ==
  /\ InLoop => \A e \in ToSet(list) : due[e] > -Late
  /\ due' = [e \in Event |-> IF due[e] > -Late THEN due[e] - 1 ELSE due[e]]
  /\ until' = IF pc["worker"] = "alarm" /\ waiting /\ until > -Late
              THEN until - 1 ELSE until
  /\ UNCHANGED <<list, begun, freed, flags, reg, mutex, waiting, pc, after, crashed, ordered>>

-----------------------------------------------------------------------------
(* The list of events.                                                     *)

(* Mutant: the search starts at the back and stops too early.              *)
Place_atEnd(e, s, key) == Len(s) + 1

(* The place the search of add_event ends at: the first event that does    *)
(* not come before e, or the end of the list.                              *)
Place(e, s, key) ==
  LET later == {n \in 1..Len(s) : key[e] <= key[s[n]]}
  IN IF later = {} THEN Len(s) + 1 ELSE CHOOSE n \in later : \A m \in later : n <= m

(* add_event, on the list s without e.  An empty list takes the event as   *)
(* it is.  A running handler begins its timer if it never was, and orders  *)
(* by end times, a stopped one by run times.  In front of the first event  *)
(* DListItem_insert_before writes through that event's NULL link.          *)
AddEvent(e, s) ==
  /\ IF s # <<>> /\ "RUNNING" \in flags /\ e \notin begun
     THEN Timer_begin(e) ELSE UNCHANGED <<due, begun>>
  /\ \E n \in {Place(e, s, IF "RUNNING" \in flags THEN due' ELSE RunTime)} :
       /\ list' = InsertAt(s, n, e)
       /\ crashed' = (n = 1 /\ s # <<>>)

-----------------------------------------------------------------------------
(* timer_loop.                                                             *)

WorkerStarts ==
  \/ pc["worker"] = "born"  /\ Load("worker", "run")
  \/ pc["worker"] = "run"   /\ Store("worker", reg["worker"] \cup {"RUNNING"}, "lock")
  \/ pc["worker"] = "lock"  /\ Lock("worker", "loop")

(* The test of THREAD_STOP, and the gap in which others get the mutex.     *)
LoopHead ==
  \/ /\ pc["worker"] = "loop"
     /\ Unlock("worker", IF "STOP" \in flags THEN "quit" ELSE "relock")
  \/ pc["worker"] = "relock" /\ Lock("worker", "empty")

(* while(!count && !STOP) pthread_cond_wait.                               *)
WaitForEvents ==
  \/ /\ pc["worker"] = "empty"
     /\ Branch("worker", IF list = <<>> /\ "STOP" \notin flags THEN "wait" ELSE "check")
  \/ pc["worker"] = "wait" /\ Sleep(0, "asleep")
  \/ pc["worker"] = "asleep" /\ ~waiting /\ Lock("worker", "empty")

(* TimerEvent_check of the first event: it is called back, with the mutex  *)
(* held, or waited for.                                                    *)
CheckFirst ==
  /\ pc["worker"] = "check"
  /\ \/ list = <<>> /\ Branch("worker", "loop")
     \/ list # <<>> /\ ~Rang(Head(list)) /\ Branch("worker", "timed")
     \/ /\ list # <<>> /\ Rang(Head(list))
        /\ Timer_begin_before(Head(list))
        /\ Goto("worker", "callback")
        /\ UNCHANGED <<list, freed, thread, after, crashed, ordered>>

(* freeTimerEvent, past event_prep_to_free: the timer is gone as well.     *)
Free(e) ==
  /\ freed' = freed \cup {e}
  /\ begun' = begun \ {e}
  /\ due' = [due EXCEPT ![e] = -Late]

(* Mutant: an event its callback has freed is put back.                    *)
Callback_keepsFreed ==
  /\ pc["worker"] = "callback"
  /\ \/ Branch("worker", "reinsert")
     \/ \E e \in ToSet(list) :
          /\ Free(e)
          /\ Goto("worker", "reinsert")
          /\ Broadcast
          /\ UNCHANGED <<list, flags, reg, mutex, after, crashed, ordered>>

(* The callback returns, or frees an event first: event_prep_to_free takes *)
(* it off the list.  Its own event is freed when it has returned, and not  *)
(* put back.                                                               *)
Callback ==
  /\ pc["worker"] = "callback"
  /\ \/ Branch("worker", "reinsert")
     \/ \E n \in 1..Len(list) :
          /\ list' = RemoveAt(list, n)
          /\ Free(list[n])
          /\ Goto("worker", IF n = 1 THEN "loop" ELSE "reinsert")
          /\ Broadcast
          /\ UNCHANGED <<flags, reg, mutex, after, crashed, ordered>>

(* Mutant: the event stays at the front.                                   *)
Reinsert_inPlace == pc["worker"] = "reinsert" /\ Branch("worker", "loop")

Reinsert ==
  /\ pc["worker"] = "reinsert"
  /\ AddEvent(Head(list), Tail(list))
  /\ Goto("worker", "loop")
  /\ UNCHANGED <<freed, thread, after, ordered>>

(* Mutant: the wait has no timeout.                                        *)
TimedWait_forever ==
  \/ pc["worker"] = "timed" /\ Sleep(due[Head(list)], "alarm")
  \/ pc["worker"] = "alarm" /\ ~waiting /\ Lock("worker", "loop")

(* pthread_cond_timedwait until the end of what is now the first event.    *)
TimedWait ==
  \/ pc["worker"] = "timed" /\ Sleep(due[Head(list)], "alarm")
  \/ /\ pc["worker"] = "alarm"
     /\ waiting => until <= 0
     /\ mutex = "none"
     /\ mutex' = "worker"
     /\ Awake
     /\ Goto("worker", "loop")
     /\ UNCHANGED <<events, flags, reg, after, crashed, ordered>>

WorkerEnds ==
  \/ pc["worker"] = "quit"    /\ Load("worker", "quitted")
  \/ pc["worker"] = "quitted" /\ Store("worker", reg["worker"] \ {"RUNNING"}, "done")

WorkerStep ==
  \/ WorkerStarts \/ LoopHead \/ WaitForEvents \/ CheckFirst \/ Callback
  \/ Reinsert \/ TimedWait \/ WorkerEnds

-----------------------------------------------------------------------------
(* The controlling thread.                                                 *)

MayCall ==
  pc["ctl"] = "idle" /\ (Patient => pc["worker"] \notin {"born", "run", "lock"})

(* An event with a parent, which is one on the list, is refused.           *)
TimerEventHandler_add_tsafe(e) ==
  /\ MayCall
  /\ e \notin ToSet(list) \cup freed
  /\ mutex = "none"
  /\ AddEvent(e, list)
  /\ Broadcast
  /\ UNCHANGED <<freed, flags, reg, mutex, pc, after, ordered>>

TimerEventHandler_extract_tsafe(e) ==
  /\ MayCall
  /\ mutex = "none"
  /\ \E n \in 1..Len(list) : list[n] = e /\ list' = RemoveAt(list, n)
  /\ Broadcast
  /\ UNCHANGED <<due, begun, freed, flags, reg, mutex, pc, after, crashed, ordered>>

(* The event loses its parent, then its memory: event_prep_to_free takes   *)
(* it off the list of the parent it no longer has.                         *)
TimerEventHandler_remove_tsafe(e) ==
  /\ MayCall
  /\ e \notin freed
  /\ mutex = "none"
  /\ crashed' = TRUE
  /\ UNCHANGED <<events, thread, pc, after, ordered>>

TimerEventHandler_wakeup ==
  /\ MayCall
  /\ Broadcast
  /\ UNCHANGED <<events, flags, reg, mutex, pc, after, crashed, ordered>>

TimerEventHandler_start ==
  /\ MayCall
  /\ "RUNNING" \notin flags
  /\ IF "CREATED" \in flags
     THEN after' = "begin" /\ Goto("ctl", "stop")
     ELSE Goto("ctl", "begin") /\ UNCHANGED after
  /\ UNCHANGED <<events, thread, crashed, ordered>>

(* A comparison that need not be strict, by run times or by end times.     *)
Ascending(s, key) == \A m, n \in 1..Len(s) : m < n => key[s[m]] <= key[s[n]]

(* Every timer on the list is begun and the thread created, which may      *)
(* fail.  There is no other thread at this point.                          *)
StartThread ==
  /\ pc["ctl"] = "begin"
  /\ due' = [e \in Event |-> IF e \in ToSet(list) THEN RunTime[e] ELSE due[e]]
  /\ begun' = begun \cup ToSet(list)
  /\ ordered' = Ascending(list, RunTime)
  /\ \/ /\ flags' = (flags \ {"STOP"}) \cup {"CREATED"}
        /\ pc' = [pc EXCEPT !["ctl"] = "idle", !["worker"] = "born"]
     \/ /\ flags' = flags \ {"STOP", "CREATED"}
        /\ Goto("ctl", "idle")
  /\ UNCHANGED <<list, freed, reg, mutex, waiting, until, after, crashed>>

TimerEventHandler_stop ==
  /\ MayCall
  /\ Goto("ctl", IF "CREATED" \in flags THEN "stop" ELSE "idle")
  /\ UNCHANGED <<events, thread, after, crashed, ordered>>

(* THREAD_STOP is raised and the worker woken without the mutex.           *)
StopFlag ==
  \/ pc["ctl"] = "stop"    /\ Load("ctl", "stopped")
  \/ pc["ctl"] = "stopped" /\ Store("ctl", reg["ctl"] \cup {"STOP"}, "cast")
  \/ /\ pc["ctl"] = "cast"
     /\ Broadcast
     /\ Goto("ctl", "join")
     /\ UNCHANGED <<events, flags, reg, mutex, after, crashed, ordered>>

(* pthread_join, and THREAD_CREATED goes down; the worker is gone.         *)
StopJoin ==
  /\ pc["ctl"] = "join"
  /\ pc["worker"] = "done"
  /\ pc' = [ctl |-> after, worker |-> "none"]
  /\ flags' = flags \ {"CREATED"}
  /\ after' = "idle"
  /\ UNCHANGED <<events, reg, mutex, waiting, until, crashed, ordered>>

(* The worker is stopped first.                                            *)
freeTimerEventHandler ==
  /\ MayCall
  /\ IF "CREATED" \in flags
     THEN after' = "free" /\ Goto("ctl", "stop")
     ELSE Goto("ctl", "free") /\ UNCHANGED after
  /\ UNCHANGED <<events, thread, crashed, ordered>>

(* delDList unlinks each event before it frees it, whose                   *)
(* event_prep_to_free then does not find it.                               *)
FreeList ==
  /\ pc["ctl"] = "free"
  /\ crashed' = (list # <<>>)
  /\ Goto("ctl", "gone")
  /\ UNCHANGED <<events, thread, after, ordered>>

ControlStep == StartThread \/ StopFlag \/ StopJoin \/ FreeList

-----------------------------------------------------------------------------
Init ==
  /\ list = <<>> /\ begun = {} /\ freed = {}
  /\ due = [e \in Event |-> -Late]
  /\ flags = {} /\ reg = [t \in Thread |-> {}]
  /\ mutex = "none" /\ waiting = FALSE /\ until = 0
  /\ pc = [ctl |-> "idle", worker |-> "none"]
  /\ after = "idle" /\ crashed = FALSE /\ ordered = TRUE

Calls ==
  \/ \E e \in Event :
       \/ TimerEventHandler_add_tsafe(e) \/ TimerEventHandler_extract_tsafe(e)
       \/ TimerEventHandler_remove_tsafe(e)
  \/ TimerEventHandler_wakeup
  \/ TimerEventHandler_start
  \/ TimerEventHandler_stop \/ freeTimerEventHandler

Next == ~crashed /\ (Calls \/ ControlStep \/ WorkerStep \/ Tick)

(* A thread that can run runs, and time goes on: strongly, for a caller    *)
(* must not hold the clock at its bound by adding and extracting events.   *)
Fairness ==
  /\ WF_vars(~crashed /\ ControlStep) /\ WF_vars(~crashed /\ WorkerStep)
  /\ SF_vars(~crashed /\ Tick)

Spec == Init /\ [][Next]_vars /\ Fairness

-----------------------------------------------------------------------------

(* An event that was freed, by its own callback or another one, is not on  *)
(* the list any more, while the loop goes on with the item it fetched      *)
(* before the callback.                                                    *)
NoFreedListed == ToSet(list) \cap freed = {}

(* A worker blocked on the timer of one event never sleeps past the end of *)
(* another one: the list stays in the order of end times through every     *)
(* ring, add and extraction, and whoever puts an earlier event in front    *)
(* wakes the worker.  This is so if the list was in the order of run times *)
(* when the handler was started.                                           *)
NeverOversleeps ==
  ordered /\ pc["worker"] = "alarm" /\ waiting =>
    \A e \in ToSet(list) : until <= due[e]

(* Every event of a running handler rings, again and again, whatever the   *)
(* other events do: one that is behind catches up without shutting the     *)
(* others out.  A program that has crashed by then, because an event was   *)
(* inserted in front of others through a NULL link (PlacedBack is about    *)
(* that) or freed while it was listed, owes nothing.                       *)
RingsAgain ==
  \A e \in Event :
    e \in ToSet(list) /\ InLoop
      ~> \/ pc["worker"] = "callback" /\ Head(list) = e
         \/ e \notin ToSet(list)
         \/ ~InLoop \/ crashed

(* A stop of a handler that has events returns: if its broadcast falls     *)
(* between the worker's test of the flag and its wait, the timeout of the  *)
(* wait makes up for it.  Here too a crash ends the obligation.            *)
StopReturnsWithEvents ==
  pc["ctl"] = "join" /\ list # <<>> ~> pc["ctl"] # "join" \/ crashed

(* "the event will be placed back into the list where it belongs": the     *)
(* worker puts the event it called back where its next end belongs.        *)
PlacedBack == [][pc["worker"] = "reinsert" => ~crashed']_vars

=============================================================================
