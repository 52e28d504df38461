---------------------------- MODULE EventLoopProofs ----------------------------
(***************************************************************************)
(* For every set of callers and functions and every bound: the inductive   *)
(* invariant of EventLoop, and that EventLoop implements Executor.         *)
(***************************************************************************)
EXTENDS EventLoop, TLAPS

USE BoundsAreNaturals DEF BoundsAreNaturals

-------------------------------------------------------------------------------
(* Sequences.                                                              *)

(* A sequence without its last element is a sequence.                      *)
LEMMA FrontType ==
    ASSUME NEW S, NEW s \in Seq(S), s # <<>>
    PROVE  SubSeq(s, 1, Len(s) - 1) \in Seq(S)
  OBVIOUS

(* The empty sequence and those of one element.                            *)
LEMMA ShortSeqType ==
    ASSUME NEW S, NEW e \in S
    PROVE  <<>> \in Seq(S) /\ <<e>> \in Seq(S)
  OBVIOUS

(* Appending to the second of two queues appends to both together.         *)
LEMMA ConcatAppend ==
    ASSUME NEW S, NEW s \in Seq(S), NEW t \in Seq(S), NEW e \in S
    PROVE  s \o Append(t, e) = Append(s \o t, e)
  OBVIOUS

(* The head of the first of two queues is the head of both together.       *)
LEMMA ConcatHeadTail ==
    ASSUME NEW S, NEW s \in Seq(S), NEW t \in Seq(S), s # <<>>
    PROVE  /\ s \o t # <<>>
           /\ Head(s \o t) = Head(s)
           /\ Tail(s \o t) = Tail(s) \o t
  OBVIOUS

(* The empty queue adds nothing, on either side.                           *)
LEMMA ConcatEmpty ==
    ASSUME NEW S, NEW s \in Seq(S)
    PROVE  s \o <<>> = s /\ <<>> \o s = s
  OBVIOUS

-------------------------------------------------------------------------------
(* The inductive invariant.                                                *)

(* The invariant holds at first.                                           *)
LEMMA InitIInv == Init => IInv
<1> SUFFICES ASSUME Init PROVE IInv
  OBVIOUS
<1>1. calls \in 0 .. MaxCalls
  BY DEF Init
<1>2. quit_ \in BOOLEAN /\ callingPendingFunctors_ \in BOOLEAN /\ ioReady \in BOOLEAN
  BY DEF Init
<1>3. callerPc \in [Callers -> {"idle", "wakeup"}]
  BY DEF Init
<1> QED
  BY <1>1, <1>2, <1>3 DEF Init, createEventFd, IInv, TypeOK, BatchNotAbandoned, CallbacksOnlyInRound

(* Every step keeps IInv.  BatchNotAbandoned alone is not inductive: that  *)
(* CallNext runs only in "run", and that calls come only from a callback,  *)
(* is what CallbacksOnlyInRound adds.                                      *)
LEMMA NextIInv == IInv /\ [Next]_vars => IInv'
<1> SUFFICES ASSUME IInv, [Next]_vars
             PROVE  IInv'
  OBVIOUS
<1> USE DEF IInv, TypeOK, BatchNotAbandoned, CallbacksOnlyInRound,
            flagVars, queueVars, callVars, fdVars
<1>1. CASE EnterLoop
  BY <1>1 DEF EnterLoop
<1>2. CASE NextRound
  BY <1>2 DEF NextRound
<1>3. CASE ExitLoop
  BY <1>3 DEF ExitLoop
<1>4. CASE Poll
  BY <1>4 DEF Poll, ReadyChannels
<1>5. ASSUME NEW ch \in {"wakeup", "io"}, HandleEvent(ch)
      PROVE  IInv'
  <2>1. stack' = <<IoCallback>> \/ stack' = <<>>
    BY <1>5 DEF HandleEvent
  <2>2. wakeupFd_' \in Nat /\ calls' \in 0 .. MaxCalls
    BY <1>5 DEF HandleEvent, handleRead
  <2>3. stack' \in Seq(Functions \cup {IoCallback})
    BY <2>1, ShortSeqType
  <2>4. loopPc = "handle" /\ loopPc' = "handle" /\ activeChannels_' \in SUBSET {"wakeup", "io"}
    BY <1>5 DEF HandleEvent
  <2>5. UNCHANGED <<flagVars, queueVars, ioReady, callerPc>>
    BY <1>5 DEF HandleEvent
  <2> QED
    BY <2>2, <2>3, <2>4, <2>5
<1>6. CASE SwapPending
  BY <1>6 DEF SwapPending
<1>7. CASE CallNext
  BY <1>7 DEF CallNext
<1>8. CASE BatchDone
  BY <1>8 DEF BatchDone
<1>9. CASE Return
  <2>1. stack' \in Seq(Functions \cup {IoCallback})
    BY <1>9, FrontType DEF Return
  <2> QED
    BY <1>9, <2>1 DEF Return
<1>10. ASSUME NEW f \in Functions, QueueFromLoop(f)
       PROVE  IInv'
  BY <1>10 DEF QueueFromLoop, FromCallback, wakeup, WakeupValue
<1>11. ASSUME NEW f \in Functions, RunFromLoop(f)
       PROVE  IInv'
  BY <1>11 DEF RunFromLoop, FromCallback
<1>12. CASE QuitFromLoop
  BY <1>12 DEF QuitFromLoop, FromCallback
<1>13. CASE IoEvent
  BY <1>13 DEF IoEvent
<1>14. ASSUME NEW c \in Callers, NEW f \in Functions, QueueFromOther(c, f)
       PROVE  IInv'
  BY <1>14 DEF QueueFromOther, FromOther
<1>15. ASSUME NEW c \in Callers, QuitFromOther(c)
       PROVE  IInv'
  BY <1>15 DEF QuitFromOther, FromOther
<1>16. ASSUME NEW c \in Callers, WakeupFromOther(c)
       PROVE  IInv'
  BY <1>16 DEF WakeupFromOther, FromOther, wakeup, WakeupValue
<1>17. CASE UNCHANGED vars
  BY <1>17 DEF vars
<1> QED
  BY <1>1, <1>2, <1>3, <1>4, <1>5, <1>6, <1>7, <1>8, <1>9, <1>10, <1>11,
     <1>12, <1>13, <1>14, <1>15, <1>16, <1>17 DEF Next, LoopThread, OtherThread

(* The inductive invariant holds in every reachable state.                 *)
THEOREM SpecIInv == Spec => []IInv
  BY InitIInv, NextIInv, PTL DEF Spec

(* Every variable keeps its type.                                          *)
THEOREM TypeCorrect == Spec => []TypeOK
<1>1. IInv => TypeOK
  BY DEF IInv
<1> QED
  BY <1>1, SpecIInv, PTL

(* doPendingFunctions executes the whole batch it swapped out, whatever    *)
(* the functions of the batch call.                                        *)
THEOREM BatchCompletes == Spec => []BatchNotAbandoned
<1>1. IInv => BatchNotAbandoned
  BY DEF IInv
<1> QED
  BY <1>1, SpecIInv, PTL

-------------------------------------------------------------------------------
(* The loop implements the executor.                                       *)

(* A loop with nothing queued is an executor with nothing queued.          *)
LEMMA InitRefines == Init => Exec!Init
  BY DEF Init, Exec!Init

(* Each step of the loop is one step of the executor or leaves its         *)
(* variables alone.                                                        *)
LEMMA NextRefines == IInv /\ [Next]_vars => [Exec!Next]_(Exec!execVars)
<1> SUFFICES ASSUME IInv, [Next]_vars
             PROVE  Exec!Next \/ UNCHANGED Exec!execVars
  OBVIOUS
<1> USE DEF IInv, TypeOK, flagVars, queueVars, callVars, fdVars, Exec!execVars
<1>1. CASE EnterLoop \/ NextRound \/ ExitLoop \/ Poll \/ BatchDone \/ IoEvent
  BY <1>1 DEF EnterLoop, NextRound, ExitLoop, Poll, BatchDone, IoEvent
<1>2. CASE HandleEvent("wakeup")
  BY <1>2 DEF HandleEvent
<1>3. CASE HandleEvent("io")
  <2>1. Exec!StartIoCallback
    BY <1>3 DEF HandleEvent, Exec!StartIoCallback
  <2> QED
    BY <2>1 DEF Exec!Next
<1>4. CASE SwapPending
  <2>1. functions = <<>>
    BY <1>4 DEF SwapPending, BatchNotAbandoned
  <2>2. functions' \o pendingFunctions_' = functions \o pendingFunctions_
    BY <1>4, <2>1, ConcatEmpty DEF SwapPending
  <2> QED
    BY <1>4, <2>2 DEF SwapPending
<1>5. CASE CallNext
  <2>1. Exec!StartNext
    BY <1>5, ConcatHeadTail DEF CallNext, Exec!StartNext
  <2> QED
    BY <2>1 DEF Exec!Next
<1>6. CASE Return
  <2>1. Exec!Finish
    BY <1>6 DEF Return, Exec!Finish
  <2> QED
    BY <2>1 DEF Exec!Next
<1>7. ASSUME NEW f \in Functions, QueueFromLoop(f)
      PROVE  Exec!Next
  <2>1. Exec!Submit(f)
    BY <1>7, ConcatAppend DEF QueueFromLoop, FromCallback, Exec!Submit
  <2> QED
    BY <2>1 DEF Exec!Next
<1>8. ASSUME NEW f \in Functions, RunFromLoop(f)
      PROVE  Exec!Next
  <2>1. Exec!CallDirectly(f)
    BY <1>8 DEF RunFromLoop, FromCallback, Exec!CallDirectly
  <2> QED
    BY <2>1 DEF Exec!Next
<1>9. CASE QuitFromLoop
  BY <1>9 DEF QuitFromLoop, FromCallback
<1>10. ASSUME NEW c \in Callers, NEW f \in Functions, QueueFromOther(c, f)
       PROVE  Exec!Next
  <2>1. Exec!Submit(f)
    BY <1>10, ConcatAppend DEF QueueFromOther, FromOther, Exec!Submit
  <2> QED
    BY <2>1 DEF Exec!Next
<1>11. ASSUME NEW c \in Callers, QuitFromOther(c) \/ WakeupFromOther(c)
       PROVE  UNCHANGED Exec!execVars
  BY <1>11 DEF QuitFromOther, WakeupFromOther, FromOther
<1>12. CASE UNCHANGED vars
  BY <1>12 DEF vars
<1> QED
  BY <1>1, <1>2, <1>3, <1>4, <1>5, <1>6, <1>7, <1>8, <1>9, <1>10, <1>11, <1>12
     DEF Next, LoopThread, OtherThread

(* The functions handed to an EventLoop run in order, once each, one at a  *)
(* time: the loop implements Executor.                                     *)
THEOREM ImplementsExecutor == Spec => ExecutorSpec
<1>1. Init /\ [][Next]_vars /\ []IInv => Exec!Init /\ [][Exec!Next]_(Exec!execVars)
  BY InitRefines, NextRefines, PTL
<1> QED
  BY <1>1, SpecIInv, PTL DEF Spec, ExecutorSpec, Exec!Spec
===============================================================================
