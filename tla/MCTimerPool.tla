---------------------------- MODULE MCTimerPool ----------------------------
(***************************************************************************)
(* TimerPool for TLC: two one-shot timers of different length and one that *)
(* repeats with a period between them.                                     *)
(***************************************************************************)
EXTENDS TimerPool

CONSTANTS soon, beat, later

TimeoutOf == [t \in Timer |-> CASE t = soon -> 1
                                [] t = beat -> 2
                                [] t = later -> 3]
=============================================================================
