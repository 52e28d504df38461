------------------------------- MODULE Executor -------------------------------
(***************************************************************************)
(* What an EventLoop promises to the code that hands functions to it:      *)
(* one thread executes them, one outermost call at a time, in the order in *)
(* which they were handed over, each exactly as often as it was handed     *)
(* over.  A function that is executing may call others directly (that is   *)
(* runInLoop on the loop's own thread) and may hand over further work.     *)
(* I/O callbacks are executed by the same thread between functions.        *)
(*                                                                         *)
(* Nothing is said here of threads, wakeups, batches or the quit flag:     *)
(* EventLoop.tla models those, and implements this specification.          *)
(***************************************************************************)
EXTENDS Naturals, Sequences

CONSTANTS
    Functions,      (* what can be handed over                             *)
    IoCallback      (* stands for any callback of an I/O channel           *)

VARIABLES
    waiting,        (* handed over, not yet started: a FIFO queue          *)
    running         (* the call stack of the executing thread              *)

execVars == <<waiting, running>>

Init ==
    /\ waiting = <<>>
    /\ running = <<>>

(* Somebody hands f over: it goes behind everything handed over before.    *)
Submit(f) ==
    /\ waiting' = Append(waiting, f)
    /\ UNCHANGED running

(* The oldest waiting function starts; nothing else is executing.          *)
StartNext ==
    /\ running = <<>>
    /\ waiting # <<>>
    /\ running' = <<Head(waiting)>>
    /\ waiting' = Tail(waiting)

(* A callback of an I/O channel starts.                                    *)
StartIoCallback ==
    /\ running = <<>>
    /\ running' = <<IoCallback>>
    /\ UNCHANGED waiting

(* The executing function calls f directly.                                *)
CallDirectly(f) ==
    /\ running # <<>>
    /\ running' = Append(running, f)
    /\ UNCHANGED waiting

(* The innermost call returns.                                             *)
Finish ==
    /\ running # <<>>
    /\ running' = SubSeq(running, 1, Len(running) - 1)
    /\ UNCHANGED waiting

Next ==
    \/ \E f \in Functions : Submit(f) \/ CallDirectly(f)
    \/ StartNext
    \/ StartIoCallback
    \/ Finish

Spec == Init /\ [][Next]_execVars
===============================================================================
