------------------------- MODULE ThreadedTimerEvent -------------------------
(***************************************************************************)
(* The timer event with a thread of its own of                             *)
(* source/ThreadedTimerEvent.c: the timer threads it creates, a thread     *)
(* that starts, stops and frees the event ("ctl") and one that waits for   *)
(* it ("guest").  The callback may stop its own event.                     *)
(***************************************************************************)
EXTENDS Naturals, Sequences, FiniteSets

CONSTANTS
  Worker,   \* timer threads, one per pthread_create; names are used again
  Patient   \* TRUE: a call is made while the timer thread is in its loop, in
            \* its callback or has returned, a start not in its callback

Thread == Worker \cup {"ctl", "guest"}
None == "none"

VARIABLES
  fp,       \* the event's flag pole
  reg,      \* per thread: the flags it loaded to modify, or None
  due,      \* the timer's end time is past
  timer,    \* event->thread, the timer thread created last
  mutex,    \* ctl holds event->mutex
  asleep,   \* the threads blocked on event->cond
  freed,    \* the event was freed
  pc, ret   \* where the threads are, and return to

vars == <<fp, reg, due, timer, mutex, asleep, freed, pc, ret>>

Goto(t, to) == pc' = [pc EXCEPT ![t] = to]
Return(t) == Goto(t, Head(ret[t])) /\ ret' = [ret EXCEPT ![t] = Tail(@)]
Call(t, sub, after) == Goto(t, sub) /\ ret' = [ret EXCEPT ![t] = <<after>> \o @]

(* A thread moves on, and nothing else happens.                            *)
Step(t, at, to) ==
  /\ pc[t] = at /\ Goto(t, to)
  /\ UNCHANGED <<fp, reg, due, timer, mutex, asleep, freed, ret>>

(* flag_raise and flag_lower are a load and a store, and another thread's  *)
(* update in between is lost.                                              *)
Update(t, at, mid, raised, lowered, to) ==
  /\ \/ /\ pc[t] = at /\ Goto(t, mid)
        /\ reg' = [reg EXCEPT ![t] = fp] /\ UNCHANGED fp
     \/ /\ pc[t] = mid /\ Goto(t, to)
        /\ fp' = (reg[t] \cup raised) \ lowered
        /\ reg' = [reg EXCEPT ![t] = {None}]
  /\ UNCHANGED <<due, timer, mutex, asleep, freed, ret>>

Broadcast(t, at, to) ==
  /\ pc[t] = at /\ Goto(t, to) /\ asleep' = {}
  /\ UNCHANGED <<fp, reg, due, timer, mutex, freed, ret>>

Live(w) == pc[w] \notin {"unborn", "done"}

-----------------------------------------------------------------------------
(* timer_loop.                                                             *)

ThreadFrame(w) ==
  \/ Update(w, "born", "born1", {"RUNNING"}, {}, "loop")
  \/ Update(w, "quit", "quit1", {}, {"RUNNING"}, "quit2")
  \/ Broadcast(w, "quit2", "done")

LoopHead(w) == Step(w, "loop", IF "STOP" \in fp THEN "quit" ELSE "check")

(* TimerEvent_check: a timer that has run out is begun again from where it *)
(* ended and the callback is called; one with time left is not.  Beginning *)
(* it again forgets that it rang, so that the broadcast of timer_loop that *)
(* tells of a ring is never made.                                          *)
Check(w) ==
  /\ pc[w] = "check"
  /\ Goto(w, IF due THEN "ring" ELSE "wait")
  /\ due' = FALSE
  /\ UNCHANGED <<fp, reg, timer, mutex, asleep, freed, ret>>

RingCallback(w) ==
  \/ Update(w, "ring", "ring1", {"CALLBACK"}, {}, "user")
  \/ Step(w, "user", "rang")
  \/ /\ pc[w] = "user" /\ Call(w, "stop", "rang")
     /\ UNCHANGED <<fp, reg, due, timer, mutex, asleep, freed>>
  \/ Update(w, "rang", "rang1", {}, {"CALLBACK"}, "wait")

(* Mutant: the wait has no end time.                                       *)
TimedWait_forever(w) ==
  \/ /\ pc[w] = "wait" /\ ~mutex /\ Goto(w, "waiting") /\ asleep' = asleep \cup {w}
     /\ UNCHANGED <<fp, reg, due, timer, mutex, freed, ret>>
  \/ /\ pc[w] = "waiting" /\ ~mutex /\ w \notin asleep
     /\ Goto(w, "loop") /\ asleep' = asleep \ {w}
     /\ UNCHANGED <<fp, reg, due, timer, mutex, freed, ret>>

(* pthread_cond_timedwait until the timer's end.                           *)
TimedWait(w) ==
  \/ /\ pc[w] = "wait" /\ ~mutex /\ Goto(w, "waiting") /\ asleep' = asleep \cup {w}
     /\ UNCHANGED <<fp, reg, due, timer, mutex, freed, ret>>
  \/ /\ pc[w] = "waiting" /\ ~mutex /\ (w \notin asleep \/ due)
     /\ Goto(w, "loop") /\ asleep' = asleep \ {w}
     /\ UNCHANGED <<fp, reg, due, timer, mutex, freed, ret>>

-----------------------------------------------------------------------------
(* Stopping, by ctl or by the callback.                                    *)

ThreadedTimerEvent_stop_async(t) ==
  \/ pc[t] = "async" /\ "CREATED" \notin fp /\ Return(t)
     /\ UNCHANGED <<fp, reg, due, timer, mutex, asleep, freed>>
  \/ "CREATED" \in fp /\ Step(t, "async", "async1")
  \/ Update(t, "async1", "async2", {"STOP"}, {}, "async3")
  \/ Broadcast(t, "async3", "async4")   \* and pthread_detach
  \/ Update(t, "async4", "async5", {}, {"CREATED"}, "async6")
  \/ pc[t] = "async6" /\ Return(t)
     /\ UNCHANGED <<fp, reg, due, timer, mutex, asleep, freed>>

(* pthread_join; the thread itself gets EDEADLK at once.                   *)
Join(t) == (t = timer \/ ~Live(timer)) /\ Step(t, "join", "stop4")

ThreadedTimerEvent_stop(t) ==
  \/ Step(t, "stop", IF "CALLBACK" \in fp THEN "async"
                     ELSE IF "CREATED" \in fp THEN "stop1" ELSE "stop5")
  \/ Update(t, "stop1", "stop2", {"STOP"}, {}, "stop3")
  \/ Broadcast(t, "stop3", "join")
  \/ Join(t)
  \/ Update(t, "stop4", "stop4a", {}, {"CREATED"}, "stop5")
  \/ pc[t] = "stop5" /\ Return(t)
     /\ UNCHANGED <<fp, reg, due, timer, mutex, asleep, freed>>

-----------------------------------------------------------------------------
(* ThreadedTimerEvent_start.                                               *)

(* A thread that was detached and has not returned is waited for.          *)
AwaitDetached ==
  \/ /\ pc["ctl"] = "detached"
     /\ mutex' = ({"RUNNING", "STOP"} \subseteq fp)
     /\ Goto("ctl", IF mutex' THEN "block" ELSE "begin")
     /\ UNCHANGED <<fp, reg, due, timer, asleep, freed, ret>>
  \/ /\ pc["ctl"] = "block" /\ Goto("ctl", "blocked")
     /\ mutex' = FALSE /\ asleep' = asleep \cup {"ctl"}
     /\ UNCHANGED <<fp, reg, due, timer, freed, ret>>
  \/ "ctl" \notin asleep /\ Step("ctl", "blocked", "detached")

(* Timer_begin, the flags and pthread_create, which may fail.              *)
StartThread ==
  \/ /\ pc["ctl"] = "begin" /\ Goto("ctl", "start1") /\ due' = FALSE
     /\ UNCHANGED <<fp, reg, timer, mutex, asleep, freed, ret>>
  \/ Update("ctl", "start1", "start2", {}, {"STOP"}, "start3")
  \/ Update("ctl", "start3", "start4", {"CREATED"}, {}, "create")
  \/ /\ pc["ctl"] = "create"
     /\ \E w \in Worker : ~Live(w) /\ timer' = w /\ pc' = [pc EXCEPT ![w] = "born", !["ctl"] = "idle"]
     /\ UNCHANGED <<fp, reg, due, mutex, asleep, freed, ret>>
  \/ Update("ctl", "create", "create1", {}, {"CREATED"}, "idle")

-----------------------------------------------------------------------------
(* The calls.                                                              *)

(* A patient caller leaves the timer thread the time to reach its loop,    *)
(* and a stop that its callback called the time to return.  The timer      *)
(* thread goes on while the call is under way.                             *)
MayCall ==
  /\ pc["ctl"] = "idle" /\ ~freed
  /\ Patient => \A w \in Worker : pc[w] \in {"unborn", "done", "loop", "check", "user", "wait", "waiting", "quit"}

ThreadedTimerEvent_start ==
  /\ MayCall /\ (Patient => \A w \in Worker : pc[w] # "user")
  /\ \/ /\ "RUNNING" \in fp /\ "STOP" \notin fp /\ UNCHANGED <<pc, ret>>
     \/ /\ "RUNNING" \in fp => "STOP" \in fp
        /\ IF "CREATED" \in fp THEN Call("ctl", "stop", "begin")
                               ELSE Goto("ctl", "detached") /\ UNCHANGED ret
  /\ UNCHANGED <<fp, reg, due, timer, mutex, asleep, freed>>

StopCalls ==
  /\ MayCall
  /\ Call("ctl", "stop", "idle") \/ Call("ctl", "async", "idle")
  /\ UNCHANGED <<fp, reg, due, timer, mutex, asleep, freed>>

(* freeThreadedTimerEvent of an event whose timer threads have returned    *)
(* and nobody waits for; the next event is created in its place.           *)
freeThreadedTimerEvent ==
  /\ MayCall /\ \A w \in Worker : ~Live(w)
  /\ pc["guest"] = "idle"
  /\ freed' = TRUE /\ fp' = {} /\ due' = FALSE
  /\ UNCHANGED <<reg, timer, mutex, asleep, pc, ret>>

newThreadedTimerEvent ==
  /\ freed /\ freed' = FALSE
  /\ UNCHANGED <<fp, reg, due, timer, mutex, asleep, pc, ret>>

(* The wait has no condition of its own.                                   *)
ThreadedTimerEvent_wait ==
  \/ /\ pc["guest"] = "idle" /\ ~freed /\ "RUNNING" \in fp /\ ~mutex
     /\ Goto("guest", "waiting") /\ asleep' = asleep \cup {"guest"}
     /\ UNCHANGED <<fp, reg, due, timer, mutex, freed, ret>>
  \/ "guest" \notin asleep /\ ~mutex /\ Step("guest", "waiting", "idle")

(* Time passes.                                                            *)
Tick ==
  /\ ~due /\ ~freed /\ due' = TRUE
  /\ UNCHANGED <<fp, reg, timer, mutex, asleep, freed, pc, ret>>

Init ==
  /\ fp = {} /\ reg = [t \in Thread |-> {None}]
  /\ due = FALSE /\ timer \in Worker /\ mutex = FALSE /\ asleep = {} /\ freed = FALSE
  /\ pc = [t \in Thread |-> IF t \in Worker THEN "unborn" ELSE "idle"]
  /\ ret = [t \in Thread |-> <<>>]

TimerStep(w) ==
  \/ ThreadFrame(w) \/ LoopHead(w) \/ Check(w) \/ RingCallback(w) \/ TimedWait(w)
  \/ ThreadedTimerEvent_stop(w) \/ ThreadedTimerEvent_stop_async(w)

ControlStep ==
  \/ ThreadedTimerEvent_stop("ctl") \/ ThreadedTimerEvent_stop_async("ctl")
  \/ AwaitDetached \/ StartThread

Next ==
  \/ \E w \in Worker : TimerStep(w)
  \/ ControlStep \/ ThreadedTimerEvent_start \/ StopCalls
  \/ freeThreadedTimerEvent \/ newThreadedTimerEvent
  \/ ThreadedTimerEvent_wait \/ Tick

(* The threads run, time passes, and whoever is woken goes on.             *)
WaitStep == pc["guest"] = "waiting" /\ ThreadedTimerEvent_wait

Fairness ==
  /\ \A w \in Worker : SF_vars(TimerStep(w))
  /\ SF_vars(ControlStep) /\ SF_vars(WaitStep)
  /\ WF_vars(Tick)

Spec == Init /\ [][Next]_vars /\ Fairness

-----------------------------------------------------------------------------
(* However starts, stops of both kinds and stops by the callback follow    *)
(* each other, and whichever flag updates are lost, one timer thread at a  *)
(* time runs the event's callback: "Thread has been detached, but has not  *)
(* returned yet" is waited for.                                            *)
OneTimerThread ==
  Cardinality({w \in Worker : pc[w] \notin {"unborn", "done", "quit", "quit1", "quit2"}}) <= 1

Joining == \E t \in Thread : pc[t] = "join"

(* THREAD_STOP was overwritten by another thread's update of the flags.    *)
StopLost == Joining /\ "STOP" \notin fp

(* "This may block until the event callback returns": ThreadedTimerEvent_  *)
(* stop returns.                                                           *)
StopReturns == Joining ~> ~Joining

(* An event that is due rings, until it is stopped: the wait of the timer  *)
(* thread ends when the timer does.                                        *)
KeepsRinging ==
  \A w \in Worker :
    pc[w] \in {"loop", "waiting"} /\ due ~> pc[w] = "ring" \/ "STOP" \in fp

(* "Blocks until an event has been raised": who waits for a running event  *)
(* that keeps ringing returns.                                             *)
WaitReturns ==
  []<>(\E w \in Worker : pc[w] = "ring") => (pc["guest"] = "waiting" ~> pc["guest"] = "idle")
=============================================================================
