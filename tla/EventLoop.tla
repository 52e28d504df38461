------------------------------ MODULE EventLoop -------------------------------
(***************************************************************************)
(* One EventLoop (muduoZ/net/EventLoop.{h,cc}): the thread that runs       *)
(* loop(), the functions that other threads and its own callbacks hand to  *)
(* it, the eventfd that is meant to end a blocking epoll_wait, quitLoop.   *)
(*                                                                         *)
(* loopPc is the program counter of the loop thread:                       *)
(*   constructed -> test -> poll -> handle -> run -> test ... -> exited    *)
(* Calls from other threads take two steps: the shared variable first,     *)
(* wakeup() after mutex_ is released.  mutex_ protects single statements   *)
(* (one push_back, one swap), so a critical section is one step.  looping_ *)
(* and currentActiveChannel_ are written but never read: left out.         *)
(*                                                                         *)
(* Bounds for TLC: MaxPending caps pendingFunctions_, MaxDepth the nesting *)
(* of runInLoop, MaxCalls the calls into the loop made by one callback     *)
(* before it returns (that callbacks return is an assumption).             *)
(***************************************************************************)
EXTENDS Naturals, Sequences

CONSTANTS
    Callers,        (* threads other than the loop's own                   *)
    Functions,      (* the functions handed to the loop                    *)
    IoCallback,     (* stands for any callback run by Channel::handleEvent *)
    MaxPending, MaxDepth, MaxCalls

ASSUME BoundsAreNaturals ==
    MaxPending \in Nat /\ MaxDepth \in Nat /\ MaxCalls \in Nat

ASSUME IoCallbackIsNoFunction == IoCallback \notin Functions

VARIABLES
    loopPc,                     (* where the loop thread is                *)
    quit_,
    callingPendingFunctors_,
    pendingFunctions_,          (* guarded by mutex_                       *)
    functions,                  (* the batch, local to doPendingFunctions  *)
    activeChannels_,            (* returned by poll, not handled yet       *)
    stack,                      (* the calls executing on the loop thread  *)
    calls,                      (* calls left to the outermost of them     *)
    wakeupFd_,                  (* the counter inside the eventfd          *)
    ioReady,                    (* some other descriptor has an event      *)
    callerPc                    (* "idle", or about to call "wakeup"       *)

flagVars  == <<quit_, callingPendingFunctors_>>
queueVars == <<pendingFunctions_, functions>>
callVars  == <<stack, calls>>
fdVars    == <<wakeupFd_, ioReady>>
vars == <<loopPc, flagVars, queueVars, activeChannels_, callVars, fdVars, callerPc>>

(* createEventFd: the counter starts at 0.                                 *)
createEventFd == wakeupFd_ = 0

Init ==
    /\ loopPc = "constructed"
    /\ quit_ = FALSE /\ callingPendingFunctors_ = FALSE
    /\ pendingFunctions_ = <<>> /\ functions = <<>>
    /\ activeChannels_ = {}
    /\ stack = <<>> /\ calls = 0
    /\ createEventFd /\ ioReady = FALSE
    /\ callerPc = [c \in Callers |-> "idle"]

-------------------------------------------------------------------------------
(* What wakeup() writes to the eventfd, which adds it to its counter:      *)
(* "uint64_t t = 0".                                                       *)
WakeupValue == 0

wakeup == wakeupFd_' = wakeupFd_ + WakeupValue

(* Reading the eventfd resets its counter.                                 *)
handleRead == wakeupFd_' = 0

(* epoll reports an eventfd as readable while its counter is not 0.        *)
WakeupReadable == wakeupFd_ > 0

(* "wakeup" is wakeupChannel_, "io" stands for all other channels.         *)
ReadyChannels ==
    {ch \in {"wakeup", "io"} : IF ch = "io" THEN ioReady ELSE WakeupReadable}

(* A descriptor the loop listens to gets an event.                         *)
IoEvent ==
    /\ ioReady' = TRUE
    /\ UNCHANGED <<loopPc, flagVars, queueVars, activeChannels_, callVars,
                   wakeupFd_, callerPc>>

-------------------------------------------------------------------------------
(* The loop thread.                                                        *)

EnterLoop ==
    /\ loopPc = "constructed"
    /\ quit_' = FALSE
    /\ loopPc' = "test"
    /\ UNCHANGED <<callingPendingFunctors_, queueVars, activeChannels_,
                   callVars, fdVars, callerPc>>

(* With a mistake: the loop goes on while work is queued.                *)
NextRoundWhilePending ==
    /\ loopPc = "test" /\ (~quit_ \/ pendingFunctions_ # <<>>)
    /\ activeChannels_' = {}
    /\ loopPc' = "poll"
    /\ UNCHANGED <<flagVars, queueVars, callVars, fdVars, callerPc>>

(* while(!quit_): one more round ...                                       *)
NextRound ==
    /\ loopPc = "test" /\ ~quit_
    /\ activeChannels_' = {}
    /\ loopPc' = "poll"
    /\ UNCHANGED <<flagVars, queueVars, callVars, fdVars, callerPc>>

(* ... or the end of loop().                                               *)
ExitLoop ==
    /\ loopPc = "test" /\ quit_
    /\ loopPc' = "exited"
    /\ UNCHANGED <<flagVars, queueVars, activeChannels_, callVars, fdVars, callerPc>>

(* With a mistake: epoll_wait has no timeout.                            *)
PollWithoutTimeout ==
    /\ loopPc = "poll" /\ ReadyChannels # {}
    /\ activeChannels_' = ReadyChannels
    /\ ioReady' = FALSE
    /\ loopPc' = "handle"
    /\ UNCHANGED <<flagVars, queueVars, callVars, wakeupFd_, callerPc>>

(* epoll_wait returns the ready channels, or none after kPollTimeMs.  The  *)
(* descriptors are edge triggered: an event is reported once.              *)
Poll ==
    /\ loopPc = "poll"
    /\ activeChannels_' = ReadyChannels
    /\ ioReady' = FALSE
    /\ loopPc' = "handle"
    /\ UNCHANGED <<flagVars, queueVars, callVars, wakeupFd_, callerPc>>

(* handleEvent: the wakeup channel's handler is handleRead; any other      *)
(* handler runs user code until it returns.                                *)
HandleEvent(ch) ==
    /\ loopPc = "handle" /\ stack = <<>> /\ ch \in activeChannels_
    /\ activeChannels_' = activeChannels_ \ {ch}
    /\ stack' = IF ch = "io" THEN <<IoCallback>> ELSE <<>>
    /\ calls' = MaxCalls
    /\ IF ch = "wakeup" THEN handleRead ELSE UNCHANGED wakeupFd_
    /\ UNCHANGED <<loopPc, flagVars, queueVars, ioReady, callerPc>>

(* With a mistake: the queue is copied, not swapped.                     *)
CopyPending ==
    /\ loopPc = "handle" /\ stack = <<>> /\ activeChannels_ = {}
    /\ callingPendingFunctors_' = TRUE
    /\ functions' = pendingFunctions_
    /\ UNCHANGED pendingFunctions_
    /\ loopPc' = "run"
    /\ UNCHANGED <<quit_, activeChannels_, callVars, fdVars, callerPc>>

(* doPendingFunctions: all events are handled; set the flag and, under     *)
(* mutex_, swap the queue with the empty local vector.                     *)
SwapPending ==
    /\ loopPc = "handle" /\ stack = <<>> /\ activeChannels_ = {}
    /\ callingPendingFunctors_' = TRUE
    /\ functions' = pendingFunctions_
    /\ pendingFunctions_' = <<>>
    /\ loopPc' = "run"
    /\ UNCHANGED <<quit_, activeChannels_, callVars, fdVars, callerPc>>

(* for(const Function& f:functions) f();                                   *)
CallNext ==
    /\ loopPc = "run" /\ stack = <<>> /\ functions # <<>>
    /\ stack' = <<Head(functions)>>
    /\ functions' = Tail(functions)
    /\ calls' = MaxCalls
    /\ UNCHANGED <<loopPc, flagVars, pendingFunctions_, activeChannels_, fdVars, callerPc>>

(* With a mistake: quitLoop ends the batch as well as the loop.          *)
StopBatchOnQuit ==
    /\ loopPc = "run" /\ stack = <<>> /\ (functions = <<>> \/ quit_)
    /\ loopPc' = "test"
    /\ UNCHANGED <<flagVars, queueVars, activeChannels_, callVars, fdVars, callerPc>>

(* With a mistake: the queue is run until it is empty.                   *)
DrainQueue ==
    /\ loopPc = "run" /\ stack = <<>> /\ functions = <<>>
    /\ loopPc' = IF pendingFunctions_ = <<>> THEN "test" ELSE "handle"
    /\ UNCHANGED <<flagVars, queueVars, activeChannels_, callVars, fdVars, callerPc>>

(* The batch is finished; callingPendingFunctors_ keeps its value.         *)
BatchDone ==
    /\ loopPc = "run" /\ stack = <<>> /\ functions = <<>>
    /\ loopPc' = "test"
    /\ UNCHANGED <<flagVars, queueVars, activeChannels_, callVars, fdVars, callerPc>>

(* The innermost call on the loop thread returns.                          *)
Return ==
    /\ stack # <<>>
    /\ stack' = SubSeq(stack, 1, Len(stack) - 1)
    /\ UNCHANGED <<loopPc, flagVars, queueVars, activeChannels_, calls, fdVars, callerPc>>

-------------------------------------------------------------------------------
(* Calls made by a callback on the loop's own thread.                      *)

FromCallback ==
    /\ stack # <<>> /\ calls > 0
    /\ calls' = calls - 1
    /\ UNCHANGED <<loopPc, callingPendingFunctors_, functions, activeChannels_,
                   ioReady, callerPc>>

(* queueInLoop: wakeup only if doPendingFunctions has run.                 *)
QueueFromLoop(f) ==
    /\ FromCallback
    /\ Len(pendingFunctions_) < MaxPending
    /\ pendingFunctions_' = Append(pendingFunctions_, f)
    /\ IF callingPendingFunctors_ THEN wakeup ELSE UNCHANGED wakeupFd_
    /\ UNCHANGED <<quit_, stack>>

(* runInLoop: the function is called at once.                              *)
RunFromLoop(f) ==
    /\ FromCallback
    /\ Len(stack) < MaxDepth
    /\ stack' = Append(stack, f)
    /\ UNCHANGED <<quit_, pendingFunctions_, wakeupFd_>>

(* quitLoop: no wakeup.                                                    *)
QuitFromLoop ==
    /\ FromCallback
    /\ quit_' = TRUE
    /\ UNCHANGED <<stack, pendingFunctions_, wakeupFd_>>

-------------------------------------------------------------------------------
(* Calls made by another thread c: the shared variable first ...           *)

FromOther(c, before, after) ==
    /\ callerPc[c] = before
    /\ callerPc' = [callerPc EXCEPT ![c] = after]
    /\ UNCHANGED <<loopPc, callingPendingFunctors_, functions, activeChannels_,
                   callVars, ioReady>>

(* queueInLoop, and runInLoop, which is the same off the loop thread.      *)
QueueFromOther(c, f) ==
    /\ FromOther(c, "idle", "wakeup")
    /\ Len(pendingFunctions_) < MaxPending
    /\ pendingFunctions_' = Append(pendingFunctions_, f)
    /\ UNCHANGED <<quit_, wakeupFd_>>

(* quitLoop.                                                               *)
QuitFromOther(c) ==
    /\ FromOther(c, "idle", "wakeup")
    /\ quit_' = TRUE
    /\ UNCHANGED <<pendingFunctions_, wakeupFd_>>

(* ... and then, outside the critical section, wakeup().                   *)
WakeupFromOther(c) ==
    /\ FromOther(c, "wakeup", "idle")
    /\ wakeup
    /\ UNCHANGED <<quit_, pendingFunctions_>>

-------------------------------------------------------------------------------
LoopThread ==
    \/ EnterLoop \/ NextRound \/ ExitLoop \/ Poll
    \/ \E ch \in {"wakeup", "io"} : HandleEvent(ch)
    \/ SwapPending \/ CallNext \/ BatchDone \/ Return
    \/ \E f \in Functions : QueueFromLoop(f) \/ RunFromLoop(f)
    \/ QuitFromLoop

OtherThread(c) ==
    \/ \E f \in Functions : QueueFromOther(c, f)
    \/ QuitFromOther(c)
    \/ WakeupFromOther(c)

Next == LoopThread \/ IoEvent \/ \E c \in Callers : OtherThread(c)

Spec == Init /\ [][Next]_vars

(* The loop thread keeps being scheduled and epoll_wait returns after      *)
(* kPollTimeMs at the latest; a thread that has begun queueInLoop or       *)
(* quitLoop gets to its wakeup().  Nothing obliges anybody to hand over    *)
(* work, to quit, or a descriptor to have an event.                        *)
FairSpec ==
    /\ Spec
    /\ WF_vars(LoopThread)
    /\ \A c \in Callers : WF_vars(WakeupFromOther(c))
-------------------------------------------------------------------------------
TypeOK ==
    /\ loopPc \in {"constructed", "test", "poll", "handle", "run", "exited"}
    /\ quit_ \in BOOLEAN /\ callingPendingFunctors_ \in BOOLEAN
    /\ pendingFunctions_ \in Seq(Functions) /\ functions \in Seq(Functions)
    /\ activeChannels_ \in SUBSET {"wakeup", "io"}
    /\ stack \in Seq(Functions \cup {IoCallback})
    /\ calls \in 0 .. MaxCalls
    /\ wakeupFd_ \in Nat /\ ioReady \in BOOLEAN
    /\ callerPc \in [Callers -> {"idle", "wakeup"}]

(* A batch taken by doPendingFunctions is executed to its end: the loop    *)
(* neither polls, nor handles events, nor returns from loop() while        *)
(* functions of the batch are left, even if one of them calls quitLoop.    *)
BatchNotAbandoned == loopPc # "run" => functions = <<>>

(* User code runs only in the two places of a round made for it, so that   *)
(* nothing runs on the loop thread after loop() has returned.              *)
CallbacksOnlyInRound == stack # <<>> => loopPc \in {"handle", "run"}

(* The inductive invariant the proofs use.                                 *)
IInv == TypeOK /\ BatchNotAbandoned /\ CallbacksOnlyInRound

(* The loop implements the executor promised to its users: the functions   *)
(* run in the order of queueInLoop, once each, one at a time.              *)
Exec == INSTANCE Executor
            WITH waiting <- functions \o pendingFunctions_, running <- stack

ExecutorSpec == Exec!Spec

(* A function handed to the loop is eventually executing, or the loop has  *)
(* been told to quit.  (The wakeup plays no part in it: see the README.)   *)
InSeq(f, s) == \E i \in 1 .. Len(s) : s[i] = f

EveryFunctionRuns ==
    \A f \in Functions :
        InSeq(f, functions \o pendingFunctions_) ~> (InSeq(f, stack) \/ quit_)

(* Functions that keep handing over more functions do not keep the loop    *)
(* from going back to epoll_wait.                                          *)
KeepsPolling == []<>(loopPc \in {"poll", "exited"})

(* Once loop() has begun, quitLoop from any thread ends it.                *)
QuitEndsLoop == (quit_ /\ loopPc # "constructed") ~> (loopPc = "exited")

-------------------------------------------------------------------------------
(* A statement of the source that the code does not meet.                  *)

(* queueInLoop from another thread wakes the loop at once: when nobody is  *)
(* between push_back and wakeup, the loop does not sleep in epoll_wait     *)
(* with work queued and its eventfd not readable.                          *)
QueuedWorkWakesPoll ==
    (/\ loopPc = "poll" /\ pendingFunctions_ # <<>>
     /\ \A c \in Callers : callerPc[c] = "idle") => WakeupReadable
===============================================================================
