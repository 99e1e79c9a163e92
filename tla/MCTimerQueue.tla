---------------------------- MODULE MCTimerQueue ----------------------------
(* A one-shot timer, a second one and a repeating one.                     *)
EXTENDS TimerQueue

CONSTANTS once, other, repeating

MCTimers == {once, other, repeating}
MCInterval == [t \in MCTimers |-> IF t = repeating THEN 2 ELSE 0]
MCDelays == {0, 2}
=============================================================================
