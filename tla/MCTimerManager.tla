--------------------------- MODULE MCTimerManager ---------------------------
(* Instances of TimerManager: the kinds of timers the game sets.           *)
EXTENDS TimerManager, TLC

MCIndex == 0 .. 1
Kind(rate, first, loop, once) ==
    {[rate |-> rate, first |-> first, loop |-> loop, once |-> once, object |-> o] : o \in Object}

\* A timer called every two units of time, and one called in every unit but
\* once per frame at most; those for the next tick are called a single time.
MCKinds == Kind(2, 1, TRUE, FALSE) \cup Kind(1, 0, TRUE, TRUE)
=============================================================================
