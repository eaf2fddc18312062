---------------------------- MODULE MCTimerQueue ----------------------------
(* The instances of TimerQueue that TLC checks. *)
EXTENDS TimerQueue
=============================================================================
