---------------------------- MODULE MCTimerQueue ----------------------------
(* Instance of TimerQueue for TLC: timers that expire together, one before the other, *)
(* and repeat; the year is long, or short for the run that lets it pass. *)
EXTENDS TimerQueue, TLC

CONSTANTS t1, t2

MCTimers == {t1, t2}
=============================================================================
