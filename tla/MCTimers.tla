-------------------------------- MODULE MCTimers --------------------------------
(* Model values for the runs of Timers.                                    *)
EXTENDS Timers, TLC

CONSTANTS o, h, t1, t2

OneHelper == {h}
TwoTimers == {t1, t2}
ShortAndLong == {1, 3}
=============================================================================
