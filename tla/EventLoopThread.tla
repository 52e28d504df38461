---------------------------- MODULE EventLoopThread ----------------------------
(***************************************************************************)
(* Threads that run an EventLoop (net/EventLoopThread.cc), and the one     *)
(* that runs the TimerWheels (net/timer/TimerWheelsThread.cc), which is    *)
(* written the same way: how the owner starts them, waits for the object   *)
(* on their stack, tells it to quit and joins them.  Thread.cc and         *)
(* CountDownLatch.h are part of it.                                        *)
(*                                                                         *)
(* mutex_ is held from the test of a condition to the wait, so each is one *)
(* step; an owner that waits goes on when it is notified and then tests    *)
(* again.  The destructor reads loop_ without mutex_.  Only the destructor *)
(* calls quitLoop of these loops: nothing in the repository does it from   *)
(* a callback.                                                             *)
(***************************************************************************)
EXTENDS Integers

CONSTANTS
    ThreadNum,              (* threads with a loop: 1 .. ThreadNum         *)
    TimerWheelsEnabled      (* is there a thread with the wheels as well?  *)

ASSUME ThreadsOK == ThreadNum \in Nat /\ TimerWheelsEnabled \in BOOLEAN

Loops == 1 .. ThreadNum
Wheels == ThreadNum + 1
Members == IF TimerWheelsEnabled THEN Loops \cup {Wheels} ELSE Loops

VARIABLES
    owner,      (* [at, m]: where the owner is, and with which thread      *)
    running_,   (* of Thread                                               *)
    latch_,     (* its count                                               *)
    loop_,      (* is loop_ (timerWheels_) set?                            *)
    quit_,      (* of the loop (the wheels)                                *)
    at          (* where the thread is                                     *)

threadVars == <<running_, latch_, loop_, quit_, at>>

(* New Threads, none of them started ...                                   *)
NewThreads ==
    /\ running_ = [m \in Members |-> FALSE]
    /\ latch_ = [m \in Members |-> 1]
    /\ at = [m \in Members |-> "none"]

(* ... and the pointers to what will be on their stacks.                   *)
NoObjects == loop_ = [m \in Members |-> FALSE]

NoThreads == NewThreads /\ NoObjects /\ quit_ = [m \in Members |-> FALSE]

Place(where, m) == [at |-> where, m |-> m]

-------------------------------------------------------------------------------
(* The thread.                                                             *)

ThreadGoes(m, from, to) == at[m] = from /\ at' = [at EXCEPT ![m] = to]

(* The owner goes on if it waits on the condition.                         *)
notifyAll(m, waiting, woken) ==
    owner' = IF owner = Place(waiting, m) THEN Place(woken, m) ELSE owner

(* ThreadData::run.                                                        *)
ThreadRun(m) ==
    /\ ThreadGoes(m, "created", "run")
    /\ latch_' = [latch_ EXCEPT ![m] = @ - 1]
    /\ IF latch_'[m] = 0 THEN notifyAll(m, "latchWait", "latch") ELSE UNCHANGED owner
    /\ UNCHANGED <<running_, loop_, quit_>>

(* With a mistake: loop_ is set and nobody is notified.                  *)
PublishSilently(m) ==
    /\ ThreadGoes(m, "run", "published")
    /\ loop_' = [loop_ EXCEPT ![m] = TRUE]
    /\ UNCHANGED <<owner, running_, latch_, quit_>>

(* threadFunc: the object is there, and the owner may see it; then comes   *)
(* the callback of the user.                                               *)
Publish(m) ==
    /\ ThreadGoes(m, "run", "published")
    /\ loop_' = [loop_ EXCEPT ![m] = TRUE]
    /\ notifyAll(m, "loopWait", "loop")
    /\ UNCHANGED <<running_, latch_, quit_>>

(* loop(), run(): a quitLoop that came before is forgotten.                *)
Begin(m) ==
    /\ ThreadGoes(m, "published", "looping")
    /\ quit_' = [quit_ EXCEPT ![m] = FALSE]
    /\ UNCHANGED <<owner, running_, latch_, loop_>>

(* With a mistake: quit_ is set to FALSE in every round.                 *)
ForgetsQuit(m) ==
    /\ ThreadGoes(m, "looping", "looping")
    /\ quit_[m] /\ quit_' = [quit_ EXCEPT ![m] = FALSE]
    /\ UNCHANGED <<owner, running_, latch_, loop_>>

Leave(m) ==
    /\ ThreadGoes(m, "looping", "left")
    /\ quit_[m]
    /\ UNCHANGED <<owner, running_, latch_, loop_, quit_>>

End(m) ==
    /\ ThreadGoes(m, "left", "ended")
    /\ loop_' = [loop_ EXCEPT ![m] = FALSE]
    /\ UNCHANGED <<owner, running_, latch_, quit_>>

ThreadStep(m) == ThreadRun(m) \/ Publish(m) \/ Begin(m) \/ Leave(m) \/ End(m)

-------------------------------------------------------------------------------
(* The owner, with thread m.                                               *)

OwnerGoes(m, from, to) == owner = Place(from, m) /\ owner' = to

(* Thread::start; pthread_create may fail, and nobody is told.             *)
StartThread(m) ==
    /\ OwnerGoes(m, "start", Place("latch", m))
    /\ \/ /\ running_' = [running_ EXCEPT ![m] = TRUE]
          /\ at' = [at EXCEPT ![m] = "created"]
       \/ UNCHANGED <<running_, at>>
    /\ UNCHANGED <<latch_, loop_, quit_>>

LatchWait(m) ==
    /\ OwnerGoes(m, "latch", Place(IF running_[m] /\ latch_[m] > 0 THEN "latchWait" ELSE "loop", m))
    /\ UNCHANGED threadVars

(* EventLoopThread::start: waits while loop_ is NULL.                      *)
LoopWait(m) ==
    /\ OwnerGoes(m, "loop", Place("loopWait", m))
    /\ ~loop_[m]
    /\ UNCHANGED threadVars

(* With a mistake: start does not wait for loop_.                        *)
GotAnything(m, next) ==
    /\ OwnerGoes(m, "loop", next)
    /\ UNCHANGED threadVars

GotLoop(m, next) ==
    /\ OwnerGoes(m, "loop", next)
    /\ loop_[m]
    /\ UNCHANGED threadVars

(* The destructor: does nothing if loop_ is NULL, else quitLoop and join.  *)
Destroy(m, next) ==
    /\ OwnerGoes(m, "destroy", IF loop_[m] THEN Place("quit", m) ELSE next)
    /\ UNCHANGED threadVars

quitLoop(m) ==
    /\ OwnerGoes(m, "quit", Place("join", m))
    /\ quit_' = [quit_ EXCEPT ![m] = TRUE]
    /\ UNCHANGED <<running_, latch_, loop_, at>>

Join(m, next) ==
    /\ OwnerGoes(m, "join", next)
    /\ at[m] = "ended"
    /\ UNCHANGED threadVars
===============================================================================
