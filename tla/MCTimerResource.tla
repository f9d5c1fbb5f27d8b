-------------------------- MODULE MCTimerResource --------------------------
(* TLC instances of TimerResource. *)
EXTENDS TimerResource

CONSTANTS c1, c2

MCDelays == 0 .. 2
=============================================================================
