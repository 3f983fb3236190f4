------------------------ MODULE MCTimerEventHandler ------------------------
(***************************************************************************)
(* Instances of TimerEventHandler for TLC.                                 *)
(***************************************************************************)
EXTENDS TimerEventHandler

(* Two events of the same run time, which can take turns, and a longer one *)
(* that they overtake.                                                     *)
MCRunTime == [e \in Event |-> IF e = 3 THEN 3 ELSE 2]
=============================================================================
