----------------------------- MODULE MCTimerWheel -----------------------------
EXTENDS TimerWheel

(* A time that is past by a tick and a half, and one that is to come.       *)
PastAndFuture == {-3, 5}
===============================================================================
