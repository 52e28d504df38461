------------------------------ MODULE TimerWheel ------------------------------
(***************************************************************************)
(* The timing wheels (muduoZ/net/timer/TimerWheel.{h,cc}, Timer.h): the    *)
(* wheel thread that ticks, the timers it moves down from wheel to wheel   *)
(* and runs, addTimer and delTimer called by timer functions on that       *)
(* thread or by one other thread.                                          *)
(*                                                                         *)
(* pc is the wheel thread inside one tick(): "idle" between two ticks,     *)
(* "check" at checkCurSlot of wheel level, "run" in the loop of runSlot,   *)
(* "clear" behind it, "advance"; then "ended" when run() has returned and  *)
(* "gone" when the wheels, which are on its caller's stack, are.  Only     *)
(* addTimer and delTimer take mutex_, tick() does not.  addTimer reads     *)
(* slotCur_ before it locks.  A timer whose addTimer overlapped a tick is  *)
(* "raced": it may be put into a slot that is being cleared, and is lost,  *)
(* or behind the pointer, and is late.                                     *)
(*                                                                         *)
(* Time is counted in ticks: addTimer makes one tick of each whole milli-  *)
(* second between a second reading of the clock and the expiration time.   *)
(* How long a tick lasts is not modelled.  age is the number of ticks      *)
(* completed since the timer was added or ran last, counted up to          *)
(* AgeLimit.  Each operation on the list of a slot is one step: the        *)
(* outcome of two threads inside the same std::list at once is not         *)
(* modelled.  Nor is a timer function that deletes its own timer, or a     *)
(* call when the wheels are gone.                                          *)
(***************************************************************************)
EXTENDS Integers, FiniteSets

CONSTANTS
    Timers,
    SlotNum, MaxLevel,      (* slots per wheel, number of wheels           *)
    TimerMax,               (* the longest delay addTimer accepts, ticks   *)
    Delays,                 (* milliseconds runAfter and runEvery are      *)
                            (* called with                                 *)
    Times,                  (* times runAt is called with, from now        *)
    kMillisecondsPerSecond, (* units of time in a millisecond: 1000 in the *)
                            (* code, which counts microseconds             *)
    MaxLag,                 (* what two readings of the clock are apart    *)
    AgeLimit                (* bound of age                                *)

(* The number of ticks in a full turn of wheel l, and in one slot of it.   *)
TickNOneSlot[l \in Nat] == IF l = 0 THEN SlotNum ELSE TickNOneSlot[l - 1] * SlotNum
TicksOfSlot(l) == IF l = 0 THEN 1 ELSE TickNOneSlot[l - 1]

ASSUME ConstantsOK ==
    /\ SlotNum \in Nat \ {0, 1} /\ MaxLevel \in Nat \ {0}
    /\ TimerMax \in 1 .. TickNOneSlot[MaxLevel - 1] - 1
    /\ Delays \subseteq 0 .. TickNOneSlot[MaxLevel - 1] - 1
    /\ Times \subseteq Int
    /\ kMillisecondsPerSecond \in Nat \ {0} /\ MaxLag \in Nat
    /\ AgeLimit \in Nat /\ TickNOneSlot[1] <= AgeLimit

Levels == 0 .. MaxLevel - 1
Slots == 0 .. SlotNum - 1

VARIABLES
    slotCur_,       (* of each wheel                                       *)
    slotVec_,       (* the timers in each slot of each wheel               *)
    timer,          (* the Timer objects                                   *)
    status,         (* "new", "adding", "added", "raced", "done" or        *)
                    (* "cancelled"                                         *)
    age,
    quit_, pc, level,
    ran,            (* what the loop of runSlot has passed                 *)
    adding          (* the other thread inside addTimer, before the lock   *)

wheelVars == <<slotCur_, slotVec_>>
timerVars == <<timer, status, age>>
threadVars == <<quit_, pc, level, ran>>
vars == <<wheelVars, timerVars, threadVars, adding>>

NoTimer == [tickNum |-> 0, slot |-> 0, level |-> 0, interval |-> 0]

Init ==
    /\ slotCur_ = [l \in Levels |-> 0]
    /\ slotVec_ = [l \in Levels |-> [s \in Slots |-> {}]]
    /\ timer = [t \in Timers |-> NoTimer]
    /\ status = [t \in Timers |-> "new"]
    /\ age = [t \in Timers |-> 0]
    /\ quit_ = FALSE /\ pc = "idle" /\ level = 0 /\ ran = {}
    /\ adding = {}

-------------------------------------------------------------------------------
(* Where timers go.                                                        *)

Current(l) == slotVec_[l][slotCur_[l]]

(* calculatePosByTicks, and the slot that many steps ahead.                *)
LevelOf(ticks) ==
    IF ticks = 0 THEN 0
    ELSE CHOOSE l \in Levels : TicksOfSlot(l) <= ticks /\ ticks < TickNOneSlot[l]

(* With a mistake: the number of the slot does not wrap round.           *)
SlotUnwrapped(ticks) ==
    LET l == LevelOf(ticks) IN slotCur_[l] + (ticks \div TicksOfSlot(l))

SlotOf(ticks) ==
    LET l == LevelOf(ticks) IN (slotCur_[l] + (ticks \div TicksOfSlot(l))) % SlotNum

(* addTimerToLower: the first wheel from l down where the remainder is not *)
(* 0 takes the timer, or else the lowest, as many slots ahead as the       *)
(* remainder says.                                                         *)
LowerLevel(l, ticks) ==
    LET takers == {k \in 1 .. l : ticks % TickNOneSlot[k] # 0}
    IN  IF takers = {} THEN 0 ELSE CHOOSE k \in takers : \A j \in takers : j <= k

(* With a mistake: a timer moved down goes into the current slot.        *)
LowerSlotNow(l, ticks) == slotCur_[LowerLevel(l, ticks)]

LowerSlot(l, ticks) ==
    LET k == LowerLevel(l, ticks)
    IN  (slotCur_[k] + (ticks % TickNOneSlot[k])) % SlotNum

(* The Timer that is to run in so many ticks, and then every interval.     *)
Timer(ticks, interval) ==
    [tickNum |-> ticks, slot |-> SlotOf(ticks), level |-> LevelOf(ticks), interval |-> interval]

isRepeated(t) == timer[t].interval > 0

(* The wheels with timer t at the end of the list of a slot, and without   *)
(* it in that list.                                                        *)
Put(wheels, t, l, s) == [wheels EXCEPT ![l][s] = @ \cup {t}]
Without(wheels, t, l, s) == [wheels EXCEPT ![l][s] = @ \ {t}]

-------------------------------------------------------------------------------
(* tick(), from the highest wheel down to the lowest.                      *)

StartTick ==
    /\ pc = "idle"
    /\ pc' = "check" /\ level' = MaxLevel - 1
    /\ adding' = {[a EXCEPT !.raced = TRUE] : a \in adding}
    /\ UNCHANGED <<wheelVars, timerVars, quit_, ran>>

(* checkCurSlot: every timer of the current slot moves down; its level is  *)
(* set, its slot is not.                                                   *)
checkCurSlot ==
    LET to(t) == LowerLevel(level - 1, timer[t].tickNum)
        at(t) == LowerSlot(level - 1, timer[t].tickNum)
        left(l, s) == IF l = level /\ s = slotCur_[l] THEN {} ELSE slotVec_[l][s]
    IN  /\ pc = "check" /\ level > 0
        /\ slotVec_' = [l \in Levels |-> [s \in Slots |->
               left(l, s) \cup {t \in Current(level) : to(t) = l /\ at(t) = s}]]
        /\ timer' = [t \in Timers |->
               IF t \in Current(level) THEN [timer[t] EXCEPT !.level = to(t)] ELSE timer[t]]
        /\ level' = level - 1
        /\ UNCHANGED <<slotCur_, status, age, quit_, pc, ran, adding>>

StartRunSlot ==
    /\ pc = "check" /\ level = 0
    /\ pc' = "run" /\ ran' = {}
    /\ UNCHANGED <<wheelVars, timerVars, quit_, level, adding>>

(* One turn of the loop of runSlot: the function of t is called; a timer   *)
(* that repeats is added again.                                            *)
RunTimer(t) ==
    LET again == Timer(timer[t].interval, timer[t].interval)
    IN  /\ pc = "run" /\ t \in Current(0) \ ran
        /\ ran' = ran \cup {t}
        /\ IF timer[t].level = 0 /\ isRepeated(t)
           THEN /\ timer' = [timer EXCEPT ![t] = again]
                /\ slotVec_' = Put(slotVec_, t, again.level, again.slot)
                /\ status' = [status EXCEPT ![t] = IF @ = "raced" THEN "added" ELSE @]
           ELSE /\ status' = [status EXCEPT ![t] =
                                  IF timer[t].level = 0 /\ @ # "cancelled" THEN "done" ELSE @]
                /\ UNCHANGED <<timer, slotVec_>>
        /\ age' = [age EXCEPT ![t] = 0]
        /\ UNCHANGED <<slotCur_, quit_, pc, level, adding>>

EndRunSlot ==
    /\ pc = "run" /\ Current(0) \subseteq ran
    /\ pc' = "clear"
    /\ UNCHANGED <<wheelVars, timerVars, quit_, level, ran, adding>>

(* With a mistake: runSlot does not clear the slot.                      *)
KeepsSlot ==
    /\ pc = "clear"
    /\ pc' = "advance" /\ ran' = {}
    /\ UNCHANGED <<wheelVars, timerVars, quit_, level, adding>>

ClearSlot ==
    /\ pc = "clear"
    /\ slotVec_' = [slotVec_ EXCEPT ![0][slotCur_[0]] = {}]
    /\ pc' = "advance" /\ ran' = {}
    /\ UNCHANGED <<slotCur_, timerVars, quit_, level, adding>>

(* Wheel l moves when all wheels below it have come round to 0.            *)
Moves(l) == \A k \in Levels : k < l => (slotCur_[k] + 1) % SlotNum = 0

(* Behind it run() tests quit_, and sleeps or returns.                     *)
Advance ==
    /\ pc = "advance"
    /\ slotCur_' = [l \in Levels |-> IF Moves(l) THEN (slotCur_[l] + 1) % SlotNum ELSE slotCur_[l]]
    /\ age' = [t \in Timers |->
                  IF status[t] = "added" /\ age[t] < AgeLimit THEN age[t] + 1 ELSE age[t]]
    /\ pc' = IF quit_ THEN "ended" ELSE "idle"
    /\ UNCHANGED <<slotVec_, timer, status, quit_, level, ran, adding>>

(* stop(), called by another thread.                                       *)
stop ==
    /\ pc \notin {"ended", "gone"} /\ quit_' = TRUE
    /\ UNCHANGED <<wheelVars, timerVars, pc, level, ran, adding>>

(* The destructor drops all timers.                                        *)
delAll ==
    /\ pc = "ended" /\ pc' = "gone"
    /\ slotVec_' = [l \in Levels |-> [s \in Slots |-> {}]]
    /\ UNCHANGED <<slotCur_, timerVars, quit_, level, ran, adding>>

-------------------------------------------------------------------------------
(* Time stamps, in units of which a millisecond has so many.               *)

addTime(stamp, milliSecond) == stamp + milliSecond * kMillisecondsPerSecond

(* Whole milliseconds between two stamps, whichever is the later one.      *)
timeDiffInMillSeconds(t1, t2) ==
    (IF t1 > t2 THEN t1 - t2 ELSE t2 - t1) \div kMillisecondsPerSecond

-------------------------------------------------------------------------------
(* addTimer and delTimer.                                                  *)

(* What addTimer can be called with: the expiration time, the interval,    *)
(* and what its own reading of the clock, now, gives.  Time 0 is the       *)
(* moment of the call of runAt, runAfter or runEvery.                      *)
Readings == 0 .. MaxLag
runAt == [at : Times, interval : {0}, now : Readings]
runAfter == {[at |-> addTime(0, ms), interval |-> 0, now |-> now] : ms \in Delays, now \in Readings}
runEvery == {[at |-> addTime(0, ms), interval |-> ms, now |-> now] : ms \in Delays, now \in Readings}

(* The ticks of a call.                                                    *)
TicksOf(call) == timeDiffInMillSeconds(call.now, call.at)

Requests ==
    {[ticks |-> TicksOf(call), interval |-> call.interval] : call \in runAt \cup runAfter \cup runEvery}

(* Those it accepts; the others get NULL and change nothing.               *)
Accepted == {r \in Requests : r.ticks <= TimerMax}

(* A new Timer; no tick counts as 1.                                       *)
NewTimer(r) == Timer(IF r.ticks = 0 THEN 1 ELSE r.ticks, r.interval)

Insert(t, new, outcome) ==
    /\ timer' = [timer EXCEPT ![t] = new]
    /\ slotVec_' = Put(slotVec_, t, new.level, new.slot)
    /\ status' = [status EXCEPT ![t] = outcome]
    /\ age' = [age EXCEPT ![t] = 0]
    /\ UNCHANGED <<slotCur_, threadVars>>

(* A timer function, on the wheel thread, adds a timer.                    *)
AddFromTimer(t, r) ==
    /\ pc = "run" /\ ran # {} /\ status[t] = "new"
    /\ Insert(t, NewTimer(r), "added")
    /\ UNCHANGED adding

(* The other thread finds the slot ...                                     *)
AddReads(t, r) ==
    /\ pc # "gone" /\ adding = {} /\ status[t] = "new"
    /\ adding' = {[t |-> t, timer |-> NewTimer(r), raced |-> pc # "idle"]}
    /\ status' = [status EXCEPT ![t] = "adding"]
    /\ UNCHANGED <<wheelVars, timer, age, threadVars>>

(* ... and with mutex_ locked puts the timer into it.                      *)
AddInserts ==
    /\ pc # "gone"
    /\ \E a \in adding : Insert(a.t, a.timer, IF a.raced THEN "raced" ELSE "added")
    /\ adding' = {}

(* delTimer removes the timer from the slot it says it is in, which is not *)
(* the slot it is in once it has moved down.                               *)
delTimer(t) ==
    /\ pc # "gone" /\ status[t] \in {"added", "raced"}
    /\ slotVec_' = Without(slotVec_, t, timer[t].level, timer[t].slot)
    /\ status' = [status EXCEPT ![t] = "cancelled"]
    /\ age' = [age EXCEPT ![t] = 0]
    /\ UNCHANGED <<slotCur_, timer, threadVars, adding>>

-------------------------------------------------------------------------------
WheelThread ==
    \/ StartTick \/ checkCurSlot \/ StartRunSlot \/ EndRunSlot \/ ClearSlot
    \/ Advance \/ delAll
    \/ \E t \in Timers : RunTimer(t)

Calls ==
    \/ \E t \in Timers, r \in Accepted : AddFromTimer(t, r) \/ AddReads(t, r)
    \/ AddInserts \/ stop
    \/ \E t \in Timers : delTimer(t)

Next == WheelThread \/ Calls

Spec == Init /\ [][Next]_vars

(* run() goes on ticking, sleep(1) and the timer functions return; whoever  *)
(* waits for mutex_ gets it.                                               *)
FairSpec == Spec /\ WF_vars(WheelThread) /\ WF_vars(AddInserts)

-------------------------------------------------------------------------------
(* Properties.                                                             *)

TypeOK ==
    /\ slotCur_ \in [Levels -> Slots]
    /\ slotVec_ \in [Levels -> [Slots -> SUBSET Timers]]
    /\ \A t \in Timers : /\ timer[t].tickNum \in Nat /\ timer[t].interval \in Nat
                        /\ timer[t].slot \in Slots /\ timer[t].level \in Levels
    /\ status \in [Timers -> {"new", "adding", "added", "raced", "done", "cancelled"}]
    /\ age \in [Timers -> 0 .. AgeLimit]
    /\ pc \in {"idle", "check", "run", "clear", "advance", "ended", "gone"}
    /\ quit_ \in BOOLEAN /\ level \in Levels /\ ran \subseteq Timers
    /\ Cardinality(adding) <= 1

Places(t) == {p \in Levels \X Slots : t \in slotVec_[p[1]][p[2]]}

(* The loop of runSlot is about to call the function of t.                 *)
Firing(t) ==
    pc = "run" /\ t \in Current(0) \ ran /\ timer[t].level = 0 /\ status[t] = "added"

(* Between two ticks a timer that was added and has not run for the last   *)
(* time is in exactly one slot, of the wheel its level_ names: moving it   *)
(* down, adding it again and clearing the slot (TimerWheel.cc:42-67, 85-   *)
(* 95, 98-130) neither lose nor double it, whatever other threads do       *)
(* meanwhile with other timers.  A raced one is at least not doubled.      *)
OnePlace ==
    pc = "idle" => \A t \in Timers :
        /\ status[t] = "added" => \E s \in Slots : Places(t) = {<<timer[t].level, s>>}
        /\ status[t] = "raced" => Cardinality(Places(t)) <= 1
        /\ status[t] \in {"new", "adding", "done"} => Places(t) = {}

(* A timer of the two lowest wheels never grows older than the ticks it    *)
(* was added for.                                                          *)
NeverLate ==
    \A t \in Timers :
        status[t] = "added" /\ timer[t].tickNum < TickNOneSlot[1] => age[t] <= timer[t].tickNum

(* One put straight into the lowest wheel runs exactly on time.            *)
ExactInLowestWheel ==
    \A t \in Timers : Firing(t) /\ timer[t].tickNum < SlotNum => age[t] = timer[t].tickNum

(* One that comes from wheel 1 is early by less than a round of the lowest *)
(* wheel, never more.                                                      *)
EarlyByLessThanARound ==
    \A t \in Timers :
        Firing(t) /\ timer[t].tickNum < TickNOneSlot[1] => timer[t].tickNum - age[t] < SlotNum

(* When the functions of timers run, also of those that are repeated, were *)
(* added by a timer function or by another thread between two ticks: the   *)
(* move from wheel to wheel (TimerWheel.cc:42-67) and the pointers         *)
(* (177-187) keep a timer of the two lowest wheels from being late or too  *)
(* early.                                                                  *)
RunsWhenDue == NeverLate /\ ExactInLowestWheel /\ EarlyByLessThanARound

(* Every timer runs or is cancelled, whichever wheels it comes through,    *)
(* unless the wheels are stopped.                                          *)
EveryTimerRuns ==
    \A t \in Timers : status[t] = "added" ~> (Firing(t) \/ status[t] # "added" \/ quit_)
===============================================================================
