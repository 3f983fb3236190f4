------------------------------ MODULE TimeSpec ------------------------------
(***************************************************************************)
(* The timespec arithmetic of source/alib_time.c and the reading of a      *)
(* timer in source/Timer.c, checked against whole numbers of nanoseconds.  *)
(*                                                                         *)
(* A behaviour is one timer: it is begun at the time now for run_time, and *)
(* read when the clock has moved on.                                       *)
(***************************************************************************)
EXTENDS Integers

CONSTANTS
  NANOS_PER_SECOND,   \* small here
  Seconds             \* no time has more seconds

VARIABLES now, timer, status

vars == <<now, timer, status>>

timespec(sec, nsec) == [sec |-> sec, nsec |-> nsec]
Nanos(t) == t.sec * NANOS_PER_SECOND + t.nsec
Abs(n) == IF n < 0 THEN -n ELSE n

(* Division in C goes towards zero.                                        *)
DivC(a, b) == IF a < 0 THEN -((-a) \div b) ELSE a \div b

Carried(t) ==
  IF Abs(t.nsec) > NANOS_PER_SECOND
  THEN timespec(t.sec + DivC(t.nsec, NANOS_PER_SECOND),
                t.nsec - NANOS_PER_SECOND * DivC(t.nsec, NANOS_PER_SECOND))
  ELSE t

(* Mutant: the signs are left as they are.                                 *)
timespec_fix_values_fast_anySign(t) == Carried(t)

(* A second is borrowed or given when the signs differ.                    *)
timespec_fix_values_fast(t) ==
  LET c == Carried(t)
  IN CASE c.nsec < 0 /\ c.sec > 0 -> timespec(c.sec - 1, c.nsec + NANOS_PER_SECOND)
       [] c.nsec > 0 /\ c.sec < 0 -> timespec(c.sec + 1, c.nsec - NANOS_PER_SECOND)
       [] OTHER -> c

timespec_subtract(a, b) == timespec_fix_values_fast(timespec(a.sec - b.sec, a.nsec - b.nsec))
timespec_add(a, b) == timespec_fix_values_fast(timespec(a.sec + b.sec, a.nsec + b.nsec))
timespec_init(sec, nsec) == timespec_fix_values_fast(timespec(sec, nsec))

timespec_cmp_fast(a, b) ==
  CASE a.sec > b.sec \/ (a.sec = b.sec /\ a.nsec > b.nsec) -> 1
    [] a = b -> 0
    [] OTHER -> -1

(* Timer_get_time_status and Timer_check: what is left, or what the timer  *)
(* is over by, or an error.                                                *)
Timer_get_time_status(t, clock) ==
  LET left == timespec_fix_values_fast(timespec_subtract(t.end_time, clock))
      none == timespec(0, 0)
  IN CASE left.nsec <= 0 /\ left.sec <= 0 ->
            [rang |-> TRUE, rTime |-> none, oTime |-> timespec(-left.sec, -left.nsec), err |-> FALSE]
       [] (left.nsec > 0 \/ left.sec > 0) /\ left.sec >= 0 /\ left.nsec >= 0 ->
            [rang |-> t.rang, rTime |-> left, oTime |-> none, err |-> FALSE]
       [] OTHER -> [rang |-> t.rang, rTime |-> none, oTime |-> none, err |-> TRUE]

Timer_begin(t, clock) == [t EXCEPT !.end_time = timespec_add(t.run_time, clock), !.rang = FALSE]

Timer_begin_before(t, clock, interval) ==
  LET begun == Timer_begin(t, clock)
  IN [begun EXCEPT !.end_time = timespec_subtract(begun.end_time, interval)]

(* The end time on another clock, for a timed wait; mono and real are what *)
(* the two clocks read, one after the other.                               *)
Timer_get_end_time_real_time(t, mono, real) ==
  timespec_add(real, timespec_subtract(t.end_time, mono))

newTimer(sec, nsec) == [run_time |-> timespec_init(sec, nsec), end_time |-> timespec(0, 0), rang |-> TRUE]

-----------------------------------------------------------------------------
(* What a clock reads.                                                     *)
Clock == {timespec(s, n) : s \in 0..Seconds, n \in 0..(NANOS_PER_SECOND - 1)}
Unread == [rang |-> FALSE, rTime |-> timespec(0, 0), oTime |-> timespec(0, 0), err |-> FALSE]

Init ==
  /\ now \in Clock
  /\ \E s \in 0..1, n \in 0..(2 * NANOS_PER_SECOND) :
       (s > 0 \/ n > 0) /\ timer = newTimer(s, n)
  /\ status = Unread

Begin ==
  /\ timer.end_time = timespec(0, 0) /\ status = Unread
  /\ timer' = Timer_begin(timer, now)
  /\ UNCHANGED <<now, status>>

(* The clock goes on to any later reading.                                 *)
Reads(clock) == timespec_cmp_fast(clock, now) >= 0 /\ now' = clock

(* TimerEvent_check, up to its first reading of the clock: the timer is    *)
(* asked for its status.                                                   *)
Check ==
  /\ timer.end_time # timespec(0, 0) /\ status = Unread
  /\ \E clock \in Clock : Reads(clock) /\ status' = Timer_get_time_status(timer, clock)
  /\ timer' = [timer EXCEPT !.rang = status'.rang]

(* The rest of TimerEvent_check.  Beginning the timer anew reads the clock *)
(* a second time, and takes off what the first reading was late by.        *)
Restart ==
  /\ status # Unread
  /\ \E clock \in Clock :
       /\ Reads(clock)
       /\ timer' = IF status.err THEN Timer_begin(timer, clock)
                   ELSE IF status.rTime # timespec(0, 0) THEN timer
                   ELSE Timer_begin_before(timer, clock, status.oTime)
  /\ status' = Unread

Next == Begin \/ Check \/ Restart

Spec == Init /\ [][Next]_vars

-----------------------------------------------------------------------------
(* A timer reads as rung from the very nanosecond of its end on, and what  *)
(* is left or over is exact, also across the borrowing of seconds.  After  *)
(* a ring the next end is one run time behind the last and later by what   *)
(* passes between the two readings of the clock (Timer.c:96 and :8), no    *)
(* more: how late the ring was noticed does not count, but every ring      *)
(* drifts by that gap.  A timer that has not rung is left as it was.  The  *)
(* end on another clock is off the end by exactly the difference of the    *)
(* two clocks as they were read, so by what passes between Timer.c:61 and  *)
(* :62.  Times are compared as nanoseconds: alib_time.c:13 may leave a     *)
(* whole second in tv_nsec.                                                *)
RingsExactly ==
  [][LET end == Nanos(timer.end_time)
         t == Nanos(now')
     IN /\ Check =>
             /\ ~status'.err
             /\ status'.rang <=> t >= end
             /\ Nanos(status'.rTime) = IF t < end THEN end - t ELSE 0
             /\ Nanos(status'.oTime) = IF t < end THEN 0 ELSE t - end
             /\ \A real \in Clock :
                  Nanos(Timer_get_end_time_real_time(timer, now', real)) = end + (Nanos(real) - t)
        /\ Restart =>
             IF status.rang THEN Nanos(timer'.end_time) = end + Nanos(timer.run_time) + (t - Nanos(now))
             ELSE timer' = timer]_vars
=============================================================================
