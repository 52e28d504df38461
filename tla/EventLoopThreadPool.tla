-------------------------- MODULE EventLoopThreadPool --------------------------
(***************************************************************************)
(* The pool (net/EventLoopThreadPool.cc): starts its threads one after     *)
(* another, hands out their loops in turn, and destroys the threads, the   *)
(* one with the timer wheels first.  With no threads the base loop is      *)
(* handed out.                                                             *)
(***************************************************************************)
EXTENDS EventLoopThread, Sequences

VARIABLES
    loops_,             (* the threads whose loops are in the vector; 0 if *)
                        (* what start() returned is NULL                   *)
    nextLoopIndex_

poolVars == <<loops_, nextLoopIndex_>>

Base == 0

EmptyPool == NoThreads /\ loops_ = <<>> /\ nextLoopIndex_ = 0

(* The owner behind the start, or the destruction, of thread m; 0 is in    *)
(* front of the first.                                                     *)
AfterStart(m) == IF m + 1 \in Members THEN Place("start", m + 1) ELSE Place("listen", 0)

AfterDestroyed(m) ==
    LET next == IF m = Wheels THEN 1 ELSE m + 1
    IN  CASE m = 0 /\ TimerWheelsEnabled -> Place("destroy", Wheels)
          [] ~(m = 0 /\ TimerWheelsEnabled) /\ next \in Loops -> Place("destroy", next)
          [] OTHER -> Place("end", 0)

Started(m) ==
    /\ GotLoop(m, AfterStart(m))
    /\ loops_' = IF m \in Loops THEN Append(loops_, IF loop_[m] THEN m ELSE 0) ELSE loops_
    /\ UNCHANGED nextLoopIndex_

Start(m) ==
    \/ (StartThread(m) \/ LatchWait(m) \/ LoopWait(m)) /\ UNCHANGED poolVars
    \/ Started(m)

Destruct(m) ==
    /\ Destroy(m, AfterDestroyed(m)) \/ quitLoop(m) \/ Join(m, AfterDestroyed(m))
    /\ UNCHANGED poolVars

-------------------------------------------------------------------------------
getLoop == IF loops_ = <<>> THEN Base ELSE loops_[nextLoopIndex_ + 1]

(* With a mistake: the index stays where it is.                          *)
IndexFixed == nextLoopIndex_

(* The result of the % is not used; the next line is what resets the index.*)
NextIndex ==
    IF loops_ = <<>> THEN nextLoopIndex_
    ELSE IF nextLoopIndex_ + 1 >= Len(loops_) THEN 0 ELSE nextLoopIndex_ + 1
===============================================================================
