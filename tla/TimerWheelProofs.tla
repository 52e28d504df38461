--------------------------- MODULE TimerWheelProofs ---------------------------
(***************************************************************************)
(* For any number of wheels, of slots and of timers, any delays and clock: *)
(* no timer is lost or doubled on its way through the wheels, and those of *)
(* the two lowest wheels run when they are due.                            *)
(***************************************************************************)
EXTENDS TimerWheel, FiniteSetTheorems, WellFoundedInduction, TLAPS

(* The assumptions on the constants, spelled out.                          *)
LEMMA Constants ==
    /\ SlotNum \in Nat /\ SlotNum > 1 /\ MaxLevel \in Nat /\ MaxLevel > 0
    /\ TimerMax \in 1 .. TickNOneSlot[MaxLevel - 1] - 1
    /\ Delays \subseteq 0 .. TickNOneSlot[MaxLevel - 1] - 1 /\ Times \subseteq Int
    /\ kMillisecondsPerSecond \in Nat /\ kMillisecondsPerSecond > 0 /\ MaxLag \in Nat
    /\ AgeLimit \in Nat /\ TickNOneSlot[1] <= AgeLimit
  BY ConstantsOK

-------------------------------------------------------------------------------
(* Numbers.                                                                *)

(* What stands for induction: a set of numbers has a least one.            *)
LEMMA Least ==
    ASSUME NEW S \in SUBSET Nat, S # {}
    PROVE  \E n \in S : \A m \in S : n <= m
<1> DEFINE T == {0 .. n : n \in S}
<1>1. T \subseteq FiniteSubsetsOf(Nat) /\ T # {}
  <2>1. \A n \in S : IsFiniteSet(0 .. n) /\ 0 .. n \subseteq Nat
    BY FS_Interval
  <2> QED
    BY <2>1 DEF FiniteSubsetsOf
<1>2. \E x \in T : \A y \in T : ~ (<<y, x>> \in StrictSubsetOrdering(Nat))
  BY <1>1, FS_StrictSubsetOrderingWellFounded, WFMin
<1>3. PICK n \in S : \A m \in S : <<0 .. m, 0 .. n>> \notin StrictSubsetOrdering(Nat)
  BY <1>2
<1>4. ASSUME NEW m \in S, m < n PROVE FALSE
  <2>1. n \in 0 .. n /\ n \notin 0 .. m
    BY <1>4
  <2>2. 0 .. m \subseteq 0 .. n /\ 0 .. m # 0 .. n
    BY <1>4, <2>1
  <2>3. <<0 .. m, 0 .. n>> \in StrictSubsetOrdering(Nat)
    BY <1>1, <1>4, <2>2 DEF StrictSubsetOrdering
  <2> QED
    BY <1>3, <2>3
<1> QED
  BY <1>3, <1>4

(* Quotient and remainder.                                                 *)
LEMMA Division ==
    ASSUME NEW a \in Nat, NEW b \in Nat, b > 0
    PROVE  a \div b \in Nat /\ a % b \in 0 .. b - 1 /\ a = b * (a \div b) + (a % b)
  OBVIOUS

(* A quotient of numbers that lie in a range.                              *)
LEMMA Quotient ==
    ASSUME NEW a \in Nat, NEW b \in Nat, b > 0, b <= a, NEW c \in Nat, a < b * c
    PROVE  a \div b \in 1 .. c - 1
<1>1. a \div b \in Nat
  OBVIOUS
<1>2. a \div b >= 1
  OBVIOUS
<1>3. a \div b < c
  OBVIOUS
<1> QED
  BY <1>1, <1>2, <1>3

(* The recursion of TickNOneSlot up to n.                                  *)
Turns(n) == {g \in [0 .. n -> Nat] : g[0] = SlotNum /\ \A i \in 1 .. n : g[i] = g[i - 1] * SlotNum}

(* There is a table of turns up to any number.                             *)
LEMMA TurnsExist == \A n \in Nat : Turns(n) # {}
<1> DEFINE None == {n \in Nat : Turns(n) = {}}
<1> SUFFICES ASSUME None # {} PROVE FALSE
  OBVIOUS
<1>0. SlotNum \in Nat
  BY Constants
<1>1. PICK n \in None : \A m \in None : n <= m
  BY Least
<1>2. CASE n = 0
  <2> DEFINE g == [i \in 0 .. 0 |-> SlotNum]
  <2>1. g \in Turns(0)
    BY <1>0 DEF Turns
  <2> QED
    BY <1>1, <1>2, <2>1
<1>3. CASE n # 0
  <2>1. n - 1 \in Nat /\ n - 1 \notin None /\ n \in Nat
    BY <1>1, <1>3
  <2>2. PICK g \in Turns(n - 1) : TRUE
    BY <2>1
  <2> DEFINE h == [i \in 0 .. n |-> IF i = n THEN g[n - 1] * SlotNum ELSE g[i]]
  <2>3. g \in [0 .. n - 1 -> Nat] /\ g[0] = SlotNum /\ \A i \in 1 .. n - 1 : g[i] = g[i - 1] * SlotNum
    BY <2>2 DEF Turns
  <2>4. h \in [0 .. n -> Nat]
    <3> SUFFICES ASSUME NEW i \in 0 .. n PROVE h[i] \in Nat
      OBVIOUS
    <3>1. CASE i = n
      <4>1. g[n - 1] \in Nat
        BY <2>1, <2>3
      <4> QED
        BY <1>0, <3>1, <4>1
    <3>2. CASE i # n
      BY <2>1, <2>3, <3>2
    <3> QED
      BY <3>1, <3>2
  <2>5. h[0] = SlotNum /\ \A i \in 1 .. n : h[i] = h[i - 1] * SlotNum
    <3>1. h[0] = SlotNum
      BY <1>3, <2>1, <2>3
    <3>2. ASSUME NEW i \in 1 .. n PROVE h[i] = h[i - 1] * SlotNum
      <4>1. h[i - 1] = g[i - 1]
        BY <2>1
      <4>2. CASE i = n
        BY <4>1, <4>2
      <4>3. CASE i # n
        <5>1. i \in 1 .. n - 1 /\ h[i] = g[i]
          BY <2>1, <4>3
        <5> QED
          BY <2>3, <4>1, <5>1
      <4> QED
        BY <4>2, <4>3
    <3> QED
      BY <3>1, <3>2
  <2>6. h \in Turns(n)
    BY <2>4, <2>5 DEF Turns
  <2> QED
    BY <1>1, <2>6
<1> QED
  BY <1>2, <1>3

(* Two tables of turns agree as far as both go.                            *)
LEMMA TurnsAgree ==
    ASSUME NEW m \in Nat, NEW n \in Nat, m <= n, NEW g \in Turns(m), NEW h \in Turns(n)
    PROVE  \A i \in 0 .. m : g[i] = h[i]
<1> DEFINE Differ == {i \in 0 .. m : g[i] # h[i]}
<1> SUFFICES ASSUME Differ # {} PROVE FALSE
  OBVIOUS
<1>1. PICK i \in Differ : \A j \in Differ : i <= j
  <2>1. Differ \in SUBSET Nat
    OBVIOUS
  <2> QED
    BY <2>1, Least
<1>2. /\ g[0] = SlotNum /\ \A j \in 1 .. m : g[j] = g[j - 1] * SlotNum
      /\ h[0] = SlotNum /\ \A j \in 1 .. n : h[j] = h[j - 1] * SlotNum
  BY DEF Turns
<1>3. i # 0 /\ i \in 0 .. m /\ g[i] # h[i]
  BY <1>1, <1>2
<1>4. i - 1 \in 0 .. m /\ i \in 1 .. m /\ i \in 1 .. n
  BY <1>3
<1>5. g[i - 1] = h[i - 1]
  BY <1>1, <1>4
<1> QED
  BY <1>2, <1>3, <1>4, <1>5

(* The definition of TickNOneSlot is what it says.                         *)
LEMMA TickNOneSlotIs ==
    /\ TickNOneSlot \in [Nat -> Nat] /\ TickNOneSlot[0] = SlotNum
    /\ \A l \in Nat : TickNOneSlot[l + 1] = TickNOneSlot[l] * SlotNum
<1> DEFINE f == [n \in Nat |-> (CHOOSE g \in Turns(n) : TRUE)[n]]
<1>1. ASSUME NEW n \in Nat
      PROVE  /\ (CHOOSE g \in Turns(n) : TRUE) \in Turns(n)
             /\ f[n] \in Nat
  <2>1. (CHOOSE g \in Turns(n) : TRUE) \in Turns(n)
    BY TurnsExist
  <2>2. n \in 0 .. n
    OBVIOUS
  <2> QED
    BY <2>1, <2>2 DEF Turns
<1>2. f[0] = SlotNum
  BY <1>1 DEF Turns
<1>3. ASSUME NEW n \in Nat PROVE f[n + 1] = f[n] * SlotNum
  <2> DEFINE g == CHOOSE x \in Turns(n) : TRUE
             h == CHOOSE x \in Turns(n + 1) : TRUE
  <2>1. n + 1 \in Nat /\ g \in Turns(n) /\ h \in Turns(n + 1)
    BY <1>1
  <2>2. f[n] = g[n] /\ f[n + 1] = h[n + 1]
    BY <2>1
  <2> HIDE DEF f, g, h
  <2>3. g[n] = h[n]
    BY <2>1, TurnsAgree
  <2>4. h[n + 1] = h[n] * SlotNum
    <3>1. n + 1 \in 1 .. n + 1 /\ (n + 1) - 1 = n
      OBVIOUS
    <3> QED
      BY <2>1, <3>1 DEF Turns
  <2> QED
    BY <2>2, <2>3, <2>4
<1>4. f = [l \in Nat |-> IF l = 0 THEN SlotNum ELSE f[l - 1] * SlotNum]
  <2>1. ASSUME NEW l \in Nat PROVE f[l] = IF l = 0 THEN SlotNum ELSE f[l - 1] * SlotNum
    <3>1. CASE l = 0
      BY <1>2, <3>1
    <3>2. CASE l # 0
      <4>1. l - 1 \in Nat /\ (l - 1) + 1 = l
        BY <3>2
      <4>2. f[(l - 1) + 1] = f[l - 1] * SlotNum
        BY <1>3, <4>1
      <4> QED
        BY <3>2, <4>1, <4>2
    <3> QED
      BY <3>1, <3>2
  <2>2. f = [l \in Nat |-> f[l]]
    OBVIOUS
  <2> HIDE DEF f
  <2> QED
    BY <2>1, <2>2
<1>5. TickNOneSlot = [l \in Nat |-> IF l = 0 THEN SlotNum ELSE TickNOneSlot[l - 1] * SlotNum]
  <2> HIDE DEF f
  <2> QED
    BY <1>4 DEF TickNOneSlot
<1> HIDE DEF f
<1>6. TickNOneSlot[0] = SlotNum /\ \A l \in Nat : TickNOneSlot[l + 1] = TickNOneSlot[l] * SlotNum
  <2>1. TickNOneSlot[0] = SlotNum
    BY <1>5
  <2>2. ASSUME NEW l \in Nat PROVE TickNOneSlot[l + 1] = TickNOneSlot[l] * SlotNum
    <3>1. l + 1 \in Nat /\ l + 1 # 0 /\ (l + 1) - 1 = l
      OBVIOUS
    <3> QED
      BY <1>5, <3>1
  <2> QED
    BY <2>1, <2>2
<1>7. \A l \in Nat : TickNOneSlot[l] \in Nat
  <2> DEFINE Bad == {l \in Nat : TickNOneSlot[l] \notin Nat}
  <2> SUFFICES ASSUME Bad # {} PROVE FALSE
    OBVIOUS
  <2>1. PICK l \in Bad : \A m \in Bad : l <= m
    BY Least
  <2>2. l # 0
    BY <1>6, <2>1, Constants
  <2>3. l - 1 \in Nat /\ (l - 1) + 1 = l /\ l - 1 \notin Bad
    BY <2>1, <2>2
  <2>4. TickNOneSlot[l] = TickNOneSlot[l - 1] * SlotNum /\ TickNOneSlot[l - 1] \in Nat
    BY <1>6, <2>3
  <2> QED
    BY <2>1, <2>4, Constants
<1> QED
  BY <1>5, <1>6, <1>7

(* The wheels grow by a factor of SlotNum.                                 *)
LEMMA WheelsGrow ==
    /\ \A l \in Nat : TickNOneSlot[l] \in Nat /\ TickNOneSlot[l] >= SlotNum
    /\ TickNOneSlot[1] = SlotNum * SlotNum
    /\ \A l \in Nat : l >= 1 => TickNOneSlot[l] >= TickNOneSlot[1]
<1>0. /\ SlotNum \in Nat /\ SlotNum > 1 /\ TickNOneSlot[0] = SlotNum
      /\ \A l \in Nat : TickNOneSlot[l] \in Nat /\ TickNOneSlot[l + 1] = TickNOneSlot[l] * SlotNum
  BY Constants, TickNOneSlotIs
<1>1. \A x \in Nat : x * SlotNum >= x
  BY <1>0
<1>2. TickNOneSlot[1] = SlotNum * SlotNum
  <2>1. TickNOneSlot[0 + 1] = TickNOneSlot[0] * SlotNum
    BY <1>0
  <2> QED
    BY <1>0, <2>1
<1>3. ASSUME NEW k \in {0, 1} PROVE \A l \in Nat : l >= k => TickNOneSlot[l] >= TickNOneSlot[k]
  <2> DEFINE Bad == {l \in Nat : l >= k /\ ~(TickNOneSlot[l] >= TickNOneSlot[k])}
  <2> SUFFICES ASSUME Bad # {} PROVE FALSE
    OBVIOUS
  <2>1. PICK l \in Bad : \A m \in Bad : l <= m
    BY Least
  <2>2. k \in Nat /\ TickNOneSlot[k] \in Nat
    BY <1>0
  <2>3. l # k
    BY <2>1, <2>2
  <2>4. l - 1 \in Nat /\ (l - 1) + 1 = l /\ l - 1 >= k /\ l - 1 \notin Bad
    BY <2>1, <2>2, <2>3
  <2>5. TickNOneSlot[l] = TickNOneSlot[l - 1] * SlotNum /\ TickNOneSlot[l - 1] \in Nat
        /\ TickNOneSlot[l - 1] >= TickNOneSlot[k]
    BY <1>0, <2>4
  <2>6. TickNOneSlot[l] \in Nat /\ TickNOneSlot[l] >= TickNOneSlot[l - 1]
    BY <1>0, <1>1, <2>5
  <2> QED
    BY <2>1, <2>2, <2>5, <2>6
<1> QED
  BY <1>0, <1>2, <1>3

(* The wheel that a number of ticks needs, and its slots on it.            *)
LEMMA LevelIs ==
    ASSUME NEW n \in 1 .. TickNOneSlot[MaxLevel - 1] - 1
    PROVE  /\ LevelOf(n) \in Levels /\ TicksOfSlot(LevelOf(n)) \in Nat
           /\ n \div TicksOfSlot(LevelOf(n)) \in 1 .. SlotNum - 1
           /\ LevelOf(n) = 0 => n < SlotNum /\ n \div TicksOfSlot(LevelOf(n)) = n
           /\ n < SlotNum => LevelOf(n) = 0
           /\ LevelOf(n) = 1 => n >= SlotNum /\ n \div TicksOfSlot(LevelOf(n)) = n \div SlotNum
           /\ n < TickNOneSlot[1] => LevelOf(n) \in {0, 1}
<1>0. /\ SlotNum \in Nat /\ SlotNum > 1 /\ MaxLevel - 1 \in Nat /\ TickNOneSlot[0] = SlotNum
      /\ \A l \in Nat : TickNOneSlot[l] \in Nat /\ TickNOneSlot[l + 1] = TickNOneSlot[l] * SlotNum
      /\ n \in Nat /\ n >= 1 /\ n < TickNOneSlot[MaxLevel - 1] /\ MaxLevel \in Nat
  BY Constants, TickNOneSlotIs
<1> DEFINE Taker(l) == l \in Levels /\ TicksOfSlot(l) <= n /\ n < TickNOneSlot[l]
           Enough == {l \in Levels : n < TickNOneSlot[l]}
<1>1. PICK l \in Enough : \A m \in Enough : l <= m
  <2>1. MaxLevel - 1 \in Enough /\ Enough \in SUBSET Nat
    BY <1>0 DEF Levels
  <2> QED
    BY <2>1, Least
<1>2. l \in Levels /\ TicksOfSlot(l) <= n /\ n < TickNOneSlot[l]
  <2>1. CASE l = 0
    BY <1>0, <1>1, <2>1 DEF TicksOfSlot
  <2>2. CASE l # 0
    <3>1. l - 1 \in Levels /\ l - 1 \in Nat /\ l - 1 \notin Enough
      BY <1>0, <1>1, <2>2 DEF Levels
    <3>2. ~(n < TickNOneSlot[l - 1]) /\ TickNOneSlot[l - 1] \in Nat
      BY <1>0, <3>1
    <3> QED
      BY <1>0, <1>1, <2>2, <3>2 DEF TicksOfSlot
  <2> QED
    BY <2>1, <2>2
<1>3. LevelOf(n) \in Levels /\ TicksOfSlot(LevelOf(n)) <= n /\ n < TickNOneSlot[LevelOf(n)]
  BY <1>0, <1>2 DEF LevelOf
<1> DEFINE k == LevelOf(n)
<1> HIDE DEF k
<1>4. k \in Levels /\ TicksOfSlot(k) <= n /\ n < TickNOneSlot[k] /\ k \in Nat
  BY <1>0, <1>3 DEF k, Levels
<1>5. TicksOfSlot(k) \in Nat /\ TicksOfSlot(k) > 0 /\ n < TicksOfSlot(k) * SlotNum
  <2>1. CASE k = 0
    BY <1>0, <1>4, <2>1 DEF TicksOfSlot
  <2>2. CASE k # 0
    <3>1. k - 1 \in Nat /\ (k - 1) + 1 = k
      BY <1>4, <2>2
    <3>2. TickNOneSlot[k] = TickNOneSlot[k - 1] * SlotNum /\ TickNOneSlot[k - 1] >= SlotNum
          /\ TickNOneSlot[k - 1] \in Nat
      BY <1>0, <3>1, WheelsGrow
    <3> QED
      BY <1>0, <1>4, <2>2, <3>2 DEF TicksOfSlot
  <2> QED
    BY <2>1, <2>2
<1>6. n \div TicksOfSlot(k) \in 1 .. SlotNum - 1
  <2> DEFINE b == TicksOfSlot(k)
  <2>1. b \in Nat /\ b > 0 /\ b <= n /\ n < b * SlotNum
    BY <1>4, <1>5
  <2> HIDE DEF b
  <2>2. n \div b \in 1 .. SlotNum - 1
    BY <1>0, <2>1, Quotient
  <2> QED
    BY <2>2 DEF b
<1>7. k = 0 => TicksOfSlot(k) = 1 /\ n \div 1 = n /\ n < SlotNum
  BY <1>0, <1>4 DEF TicksOfSlot
<1>8. k = 1 => TicksOfSlot(k) = SlotNum /\ n >= SlotNum
  BY <1>0, <1>4 DEF TicksOfSlot
<1>9. n < SlotNum => k = 0
  <2> SUFFICES ASSUME k # 0, n < SlotNum PROVE FALSE
    OBVIOUS
  <2>1. k - 1 \in Nat /\ TicksOfSlot(k) = TickNOneSlot[k - 1]
    BY <1>4 DEF TicksOfSlot
  <2> QED
    BY <1>0, <1>4, <2>1, WheelsGrow
<1>10. n < TickNOneSlot[1] => k \in {0, 1}
  <2> SUFFICES ASSUME k \notin {0, 1}, n < TickNOneSlot[1] PROVE FALSE
    OBVIOUS
  <2>1. k - 1 \in Nat /\ k - 1 >= 1 /\ TicksOfSlot(k) = TickNOneSlot[k - 1]
    BY <1>4 DEF TicksOfSlot
  <2> QED
    BY <1>0, <1>4, <2>1, WheelsGrow
<1> QED
  BY <1>4, <1>5, <1>6, <1>7, <1>8, <1>9, <1>10 DEF k

-------------------------------------------------------------------------------
(* Slots.                                                                  *)

(* How far slot s of wheel l is ahead of the pointer.                      *)
Ahead(l, s) == IF s >= slotCur_[l] THEN s - slotCur_[l] ELSE s - slotCur_[l] + SlotNum

PointersOK == slotCur_ \in [Levels -> Slots]

(* A step of so many slots, round the wheel.                               *)
LEMMA Round ==
    ASSUME NEW a \in Slots, NEW b \in 0 .. SlotNum - 1
    PROVE  /\ (a + b) % SlotNum \in Slots
           /\ (a + b) % SlotNum = IF a + b < SlotNum THEN a + b ELSE a + b - SlotNum
<1>1. SlotNum \in Nat /\ SlotNum > 0 /\ a \in Nat /\ b \in Nat /\ a < SlotNum /\ b < SlotNum
  BY Constants DEF Slots
<1>2. (a + b) % SlotNum = IF a + b < SlotNum THEN a + b ELSE a + b - SlotNum
  <2>1. CASE a + b < SlotNum
    BY <1>1, <2>1
  <2>2. CASE ~(a + b < SlotNum)
    BY <1>1, <2>2
  <2> QED
    BY <2>1, <2>2
<1> QED
  BY <1>1, <1>2 DEF Slots

(* How far a slot lies ahead of the pointer of its wheel.                  *)
LEMMA AheadIs ==
    ASSUME PointersOK, NEW l \in Levels, NEW s \in Slots
    PROVE  /\ Ahead(l, s) \in 0 .. SlotNum - 1 /\ (Ahead(l, s) = 0 <=> s = slotCur_[l])
           /\ slotCur_[l] \in Slots /\ slotCur_[l] \in 0 .. SlotNum - 1
           /\ \A b \in 0 .. SlotNum - 1 : s = (slotCur_[l] + b) % SlotNum => Ahead(l, s) = b
<1>1. /\ slotCur_[l] \in Slots /\ slotCur_[l] \in 0 .. SlotNum - 1 /\ s \in 0 .. SlotNum - 1
      /\ SlotNum \in Nat
  BY Constants DEF PointersOK, Slots
<1>2. Ahead(l, s) \in 0 .. SlotNum - 1 /\ (Ahead(l, s) = 0 <=> s = slotCur_[l])
  BY <1>1 DEF Ahead
<1>3. ASSUME NEW b \in 0 .. SlotNum - 1, s = (slotCur_[l] + b) % SlotNum PROVE Ahead(l, s) = b
  <2>1. s = IF slotCur_[l] + b < SlotNum THEN slotCur_[l] + b ELSE slotCur_[l] + b - SlotNum
    BY <1>1, <1>3, Round
  <2> QED
    BY <1>1, <2>1 DEF Ahead
<1> QED
  BY <1>1, <1>2, <1>3

(* Where a timer is put: never into the slot that is being worked on.      *)
LEMMA SlotIs ==
    ASSUME PointersOK, NEW n \in 1 .. TickNOneSlot[MaxLevel - 1] - 1
    PROVE  /\ SlotOf(n) \in Slots
           /\ Ahead(LevelOf(n), SlotOf(n)) = n \div TicksOfSlot(LevelOf(n))
           /\ SlotOf(n) # slotCur_[LevelOf(n)]
<1> DEFINE l == LevelOf(n)
           q == n \div TicksOfSlot(l)
<1>1. l \in Levels /\ q \in 1 .. SlotNum - 1 /\ SlotOf(n) = (slotCur_[l] + q) % SlotNum
  BY LevelIs DEF SlotOf
<1> HIDE DEF l, q
<1>2. slotCur_[l] \in Slots /\ q \in 0 .. SlotNum - 1 /\ SlotNum \in Nat
  BY <1>1, Constants DEF PointersOK
<1>3. SlotOf(n) \in Slots
  BY <1>1, <1>2, Round
<1>4. Ahead(l, SlotOf(n)) = q /\ (Ahead(l, SlotOf(n)) = 0 <=> SlotOf(n) = slotCur_[l])
  BY <1>1, <1>2, <1>3, AheadIs
<1> QED
  BY <1>1, <1>2, <1>3, <1>4 DEF l, q

(* Where a timer goes that moves down.                                     *)
LEMMA LowerIs ==
    ASSUME PointersOK, NEW l \in Levels, NEW n \in Nat
    PROVE  /\ LowerLevel(l, n) \in Levels /\ LowerLevel(l, n) <= l /\ LowerSlot(l, n) \in Slots
           /\ l = 0 => LowerLevel(l, n) = 0 /\ Ahead(0, LowerSlot(l, n)) = n % SlotNum
<1>0. /\ SlotNum \in Nat /\ SlotNum > 0 /\ MaxLevel \in Nat /\ l \in Nat /\ l < MaxLevel
      /\ TickNOneSlot[0] = SlotNum
  BY Constants, TickNOneSlotIs DEF Levels
<1> DEFINE takers == {k \in 1 .. l : n % TickNOneSlot[k] # 0}
           k == LowerLevel(l, n)
<1>1. k \in 0 .. l /\ (l = 0 => k = 0)
  <2>1. CASE takers = {}
    BY <1>0, <2>1 DEF LowerLevel
  <2>2. CASE takers # {}
    <3>1. PICK d \in {l - m : m \in takers} : \A e \in {l - m : m \in takers} : d <= e
      <4>1. {l - m : m \in takers} \in SUBSET Nat /\ {l - m : m \in takers} # {}
        BY <1>0, <2>2
      <4> QED
        BY <4>1, Least
    <3>2. PICK m \in takers : d = l - m
      BY <3>1
    <3>3. \A j \in takers : j <= m
      <4> SUFFICES ASSUME NEW j \in takers PROVE j <= m
        OBVIOUS
      <4>1. d <= l - j /\ j \in Nat /\ m \in Nat
        BY <3>1
      <4> QED
        BY <1>0, <3>2, <4>1
    <3>4. k = CHOOSE i \in takers : \A j \in takers : j <= i
      BY <2>2 DEF LowerLevel
    <3>5. k \in takers
      <4> HIDE DEF takers, k
      <4> QED
        BY <3>2, <3>3, <3>4
    <3> QED
      BY <1>0, <3>5
  <2> QED
    BY <2>1, <2>2
<1>2. LowerSlot(l, n) = (slotCur_[k] + (n % TickNOneSlot[k])) % SlotNum
  BY DEF LowerSlot
<1> HIDE DEF k
<1>3. k \in Levels /\ k <= l /\ k \in Nat
  BY <1>0, <1>1 DEF Levels
<1>4. LowerSlot(l, n) \in Slots
  <2>1. TickNOneSlot[k] \in Nat /\ TickNOneSlot[k] > 0
    BY <1>0, <1>3, WheelsGrow
  <2>2. n % TickNOneSlot[k] \in Nat
    BY <2>1
  <2>3. slotCur_[k] \in Nat
    BY <1>3 DEF PointersOK, Slots
  <2>4. slotCur_[k] + (n % TickNOneSlot[k]) \in Nat
    BY <2>2, <2>3
  <2> QED
    BY <1>0, <1>2, <2>4, Division DEF Slots
<1>5. ASSUME l = 0 PROVE Ahead(0, LowerSlot(l, n)) = n % SlotNum
  <2>1. k = 0 /\ n % SlotNum \in 0 .. SlotNum - 1
    BY <1>0, <1>1, <1>5
  <2> QED
    BY <1>0, <1>2, <1>3, <1>4, <2>1, AheadIs
<1> QED
  BY <1>1, <1>3, <1>4, <1>5 DEF k

-------------------------------------------------------------------------------
(* The invariant.                                                          *)

TimerType ==
    [tickNum : Nat, slot : Slots, level : Levels,
     interval : 0 .. TickNOneSlot[MaxLevel - 1] - 1]

WheelsOK == PointersOK /\ slotVec_ \in [Levels -> [Slots -> SUBSET Timers]]

TimersOK ==
    /\ timer \in [Timers -> TimerType] /\ age \in [Timers -> 0 .. AgeLimit]
    /\ status \in [Timers -> {"new", "adding", "added", "raced", "done", "cancelled"}]

ThreadOK ==
    /\ pc \in {"idle", "check", "run", "clear", "advance", "ended", "gone"}
    /\ quit_ \in BOOLEAN /\ level \in Levels /\ ran \subseteq Timers

(* A timer as it is put into a wheel.                                      *)
Fresh(new) ==
    /\ new.tickNum \in 1 .. TickNOneSlot[MaxLevel - 1] - 1
    /\ new.level = LevelOf(new.tickNum) /\ new.slot = SlotOf(new.tickNum)

(* The other thread has at most one timer, and knows the right place for   *)
(* it while no tick has begun.                                             *)
AddingOK ==
    /\ adding \subseteq [t : Timers, timer : TimerType, raced : BOOLEAN]
    /\ \A a, b \in adding : a = b
    /\ \A a \in adding : status[a.t] = "adding" /\ (~a.raced => pc = "idle" /\ Fresh(a.timer))

(* The places of a timer: its home, and the slot that the loop of runSlot  *)
(* has passed it in and will clear.                                        *)
In(t, l, s) == t \in slotVec_[l][s]

Passed(t, l, s) == pc \in {"run", "clear"} /\ t \in ran /\ l = 0 /\ s = slotCur_[0]

Home(t, s) ==
    /\ In(t, timer[t].level, s) /\ ~Passed(t, timer[t].level, s)
    /\ \A k \in Levels, r \in Slots :
           In(t, k, r) => (k = timer[t].level /\ r = s) \/ Passed(t, k, r)

AddedPlace(t) == status[t] = "added" => \E s \in Slots : Home(t, s)

RacedPlace(t) ==
    status[t] = "raced" =>
        /\ t \notin ran
        /\ \A k \in Levels, r \in Slots : In(t, k, r) => k = timer[t].level
        /\ \A r, s \in Slots : In(t, timer[t].level, r) /\ In(t, timer[t].level, s) => r = s

OtherPlace(t) ==
    /\ status[t] \in {"new", "adding"} => t \notin ran
    /\ status[t] \in {"new", "adding", "done"} =>
           \A k \in Levels, r \in Slots : In(t, k, r) => Passed(t, k, r)

(* What is left of the delay, in the lowest wheel and in the next: there   *)
(* what the lowest wheel had turned when the timer was added is missing.   *)
DueLowest(n, a, d) == IF n < SlotNum THEN a + d = n ELSE n - SlotNum < a + d /\ a + d <= n

DueSecond(n, a, d, c) ==
    LET round == SlotNum * (n \div SlotNum)
    IN  round - SlotNum < a + (SlotNum * d - c) /\ a + (SlotNum * d - c) <= round

(* Timers in the current slot of wheel 1 have not moved down yet.          *)
BeforeMove == pc \in {"idle", "ended"} \/ (pc = "check" /\ level >= 1)

DueAt(t, s) ==
    LET n == timer[t].tickNum
    IN  \/ timer[t].level = 0 /\ DueLowest(n, age[t], Ahead(0, s))
        \/ /\ timer[t].level = 1 /\ n >= SlotNum
           /\ DueSecond(n, age[t], Ahead(1, s), slotCur_[0])
           /\ Ahead(1, s) = 0 => slotCur_[0] = 0 /\ BeforeMove

Due(t) ==
    status[t] = "added" /\ timer[t].tickNum < TickNOneSlot[1] =>
        \A s \in Slots : Home(t, s) => DueAt(t, s)

TimerInv(t) == AddedPlace(t) /\ RacedPlace(t) /\ OtherPlace(t) /\ Due(t)

(* runSlot leaves nothing behind but what others put there meanwhile.      *)
Phases ==
    /\ pc \notin {"run", "clear"} => ran = {}
    /\ pc \in {"run", "clear", "advance"} => level = 0
    /\ pc = "clear" => \A t \in Timers : status[t] = "added" /\ t \in Current(0) => t \in ran
    /\ pc = "advance" => \A t \in Timers : status[t] = "added" => t \notin Current(0)

IInv ==
    /\ WheelsOK /\ TimersOK /\ ThreadOK /\ AddingOK /\ Phases
    /\ pc # "gone" => \A t \in Timers : TimerInv(t)
    /\ pc = "gone" => NeverLate

-------------------------------------------------------------------------------
(* The steps.                                                              *)

(* The invariant holds at first.                                           *)
LEMMA InitIInv == Init => IInv
<1> SUFFICES ASSUME Init PROVE IInv
  OBVIOUS
<1> USE DEF Init
<1>1. 0 \in Slots /\ 0 \in Levels /\ 0 \in 0 .. TickNOneSlot[MaxLevel - 1] - 1 /\ 0 \in 0 .. AgeLimit
  <2>1. TickNOneSlot[MaxLevel - 1] \in Nat /\ TickNOneSlot[MaxLevel - 1] >= SlotNum
    BY Constants, WheelsGrow
  <2> QED
    BY <2>1, Constants DEF Slots, Levels
<1>2. WheelsOK /\ TimersOK /\ ThreadOK
  BY <1>1 DEF WheelsOK, PointersOK, TimersOK, ThreadOK, TimerType, NoTimer
<1>3. AddingOK /\ Phases
  BY DEF AddingOK, Phases
<1>4. ASSUME NEW t \in Timers PROVE TimerInv(t)
  BY DEF TimerInv, AddedPlace, RacedPlace, OtherPlace, Due, In
<1> QED
  BY <1>2, <1>3, <1>4 DEF IInv

(* A timer that a step does not touch.                                     *)
LEMMA Kept ==
    ASSUME NEW t \in Timers, TimerInv(t), timer[t].level \in Levels,
           slotCur_' = slotCur_, timer'[t] = timer[t], status'[t] = status[t], age'[t] = age[t],
           \A k \in Levels, r \in Slots :
               (In(t, k, r)' <=> In(t, k, r)) /\ (In(t, k, r) => (Passed(t, k, r)' <=> Passed(t, k, r))),
           t \in ran' => t \in ran,
           BeforeMove => BeforeMove' \/ \A r \in Slots : Home(t, r) /\ timer[t].level = 1 => Ahead(1, r) # 0
    PROVE  TimerInv(t)'
<1>1. ASSUME NEW s \in Slots PROVE Home(t, s)' <=> Home(t, s)
  BY DEF Home
<1>2. AddedPlace(t)' /\ RacedPlace(t)' /\ OtherPlace(t)'
  BY <1>1 DEF TimerInv, AddedPlace, RacedPlace, OtherPlace
<1>3. Due(t)'
  <2> SUFFICES ASSUME status[t] = "added", timer[t].tickNum < TickNOneSlot[1],
                      NEW s \in Slots, Home(t, s)
               PROVE  DueAt(t, s)'
    BY <1>1 DEF Due
  <2>1. DueAt(t, s)
    BY DEF TimerInv, Due
  <2> QED
    BY <2>1 DEF DueAt, Ahead
<1> QED
  BY <1>2, <1>3 DEF TimerInv

(* A timer put into a slot is there, and all others are where they were.   *)
LEMMA PutIs ==
    ASSUME WheelsOK, NEW u \in Timers, NEW k \in Levels, NEW r \in Slots,
           slotVec_' = Put(slotVec_, u, k, r)
    PROVE  /\ slotVec_' \in [Levels -> [Slots -> SUBSET Timers]]
           /\ \A t \in Timers, l \in Levels, s \in Slots :
                  In(t, l, s)' <=> In(t, l, s) \/ (t = u /\ l = k /\ s = r)
<1>1. slotVec_ \in [Levels -> [Slots -> SUBSET Timers]]
  BY DEF WheelsOK
<1>2. slotVec_' = [slotVec_ EXCEPT ![k] = [slotVec_[k] EXCEPT ![r] = slotVec_[k][r] \cup {u}]]
  BY DEF Put
<1>3. [slotVec_[k] EXCEPT ![r] = slotVec_[k][r] \cup {u}] \in [Slots -> SUBSET Timers]
  BY <1>1
<1>4. slotVec_' \in [Levels -> [Slots -> SUBSET Timers]]
  BY <1>1, <1>2, <1>3
<1>5. ASSUME NEW l \in Levels, NEW s \in Slots
      PROVE  slotVec_'[l][s] = IF l = k /\ s = r THEN slotVec_[l][s] \cup {u} ELSE slotVec_[l][s]
  BY <1>1, <1>2
<1> QED
  BY <1>4, <1>5 DEF In

(* A timer in its first place.                                             *)
LEMMA FreshIsDue ==
    ASSUME PointersOK, slotCur_' = slotCur_, NEW t \in Timers, NEW new, Fresh(new),
           timer'[t] = new, age'[t] = 0, new.tickNum < TickNOneSlot[1]
    PROVE  DueAt(t, new.slot)'
<1> DEFINE n == new.tickNum
<1>1. /\ LevelOf(n) \in {0, 1} /\ Ahead(LevelOf(n), SlotOf(n)) = n \div TicksOfSlot(LevelOf(n))
      /\ LevelOf(n) = 0 => n < SlotNum /\ n \div TicksOfSlot(LevelOf(n)) = n
      /\ LevelOf(n) = 1 => n >= SlotNum /\ n \div TicksOfSlot(LevelOf(n)) = n \div SlotNum
      /\ n \div TicksOfSlot(LevelOf(n)) \in 1 .. SlotNum - 1
      /\ new.level = LevelOf(n) /\ new.slot = SlotOf(n)
  BY LevelIs, SlotIs DEF Fresh
<1>2. 0 \in Levels
  BY Constants DEF Levels
<1>3. slotCur_[0] \in 0 .. SlotNum - 1 /\ SlotNum \in Nat /\ n \in Nat
  BY <1>2, Constants DEF PointersOK, Slots, Fresh
<1>4. CASE LevelOf(n) = 0
  <2>1. Ahead(0, new.slot) = n /\ n < SlotNum /\ new.level = 0
    BY <1>1, <1>4
  <2>2. DueLowest(n, 0, n)
    BY <1>3, <2>1 DEF DueLowest
  <2> QED
    BY <2>1, <2>2 DEF DueAt, Ahead
<1>5. CASE LevelOf(n) = 1
  <2>1. /\ Ahead(1, new.slot) = n \div SlotNum /\ n >= SlotNum /\ new.level = 1
        /\ n \div SlotNum \in 1 .. SlotNum - 1
    BY <1>1, <1>5
  <2>2. DueSecond(n, 0, n \div SlotNum, slotCur_[0])
    <3> DEFINE x == SlotNum * (n \div SlotNum)
    <3>1. x \in Int
      BY <1>3, <2>1
    <3> QED
      BY <1>3, <3>1 DEF DueSecond
  <2> QED
    BY <2>1, <2>2 DEF DueAt, Ahead
<1> QED
  BY <1>1, <1>4, <1>5

(* A timer just inserted is where its delay belongs.                       *)
LEMMA Inserted ==
    ASSUME PointersOK, slotCur_' = slotCur_, NEW t \in Timers, NEW new \in TimerType, Fresh(new),
           timer'[t] = new, status'[t] = "added", age'[t] = 0,
           In(t, new.level, new.slot)',
           \A k \in Levels, r \in Slots :
               In(t, k, r)' => (k = new.level /\ r = new.slot) \/ Passed(t, k, r)'
    PROVE  TimerInv(t)'
<1>1. new.slot \in Slots /\ new.level \in Levels /\ new.slot # slotCur_[new.level]
  BY SlotIs DEF Fresh, TimerType
<1>2. \A k \in Levels, r \in Slots : Passed(t, k, r)' => r = slotCur_[k]
  BY DEF Passed
<1>3. Home(t, new.slot)'
  BY <1>1, <1>2 DEF Home
<1>4. ASSUME NEW s \in Slots, Home(t, s)' PROVE s = new.slot
  BY <1>1, <1>4 DEF Home
<1>5. Due(t)'
  BY <1>4, FreshIsDue DEF Due
<1> QED
  BY <1>1, <1>3, <1>5 DEF TimerInv, AddedPlace, RacedPlace, OtherPlace

(* In time is not late.                                                    *)
LEMMA DueIsNotLate ==
    ASSUME PointersOK, TimersOK, NEW t \in Timers, TimerInv(t),
           status[t] = "added", timer[t].tickNum < TickNOneSlot[1]
    PROVE  age[t] <= timer[t].tickNum
<1> DEFINE n == timer[t].tickNum
           x == SlotNum * (n \div SlotNum)
<1>1. PICK s \in Slots : Home(t, s)
  BY DEF TimerInv, AddedPlace
<1>2. DueAt(t, s)
  BY <1>1 DEF TimerInv, Due
<1>3. n \in Nat /\ age[t] \in Nat /\ timer[t].level \in Levels /\ SlotNum \in Nat /\ SlotNum > 1
      /\ 0 \in Levels
  BY Constants DEF TimersOK, TimerType, Levels
<1>4. Ahead(0, s) \in 0 .. SlotNum - 1 /\ slotCur_[0] \in 0 .. SlotNum - 1
  BY <1>3, AheadIs
<1>5. CASE timer[t].level = 0 /\ DueLowest(n, age[t], Ahead(0, s))
  BY <1>3, <1>4, <1>5 DEF DueLowest
<1>6. CASE /\ timer[t].level = 1 /\ DueSecond(n, age[t], Ahead(1, s), slotCur_[0])
           /\ Ahead(1, s) = 0 => slotCur_[0] = 0
  <2>1. Ahead(1, s) \in 0 .. SlotNum - 1
    BY <1>3, <1>6, AheadIs
  <2> DEFINE d == Ahead(1, s)
             c == slotCur_[0]
  <2>2. age[t] + (SlotNum * d - c) <= x
    BY <1>6 DEF DueSecond
  <2>3. SlotNum * d \in Nat /\ SlotNum * d - c >= 0
    <3>1. CASE d = 0
      BY <1>3, <1>6, <3>1
    <3>2. CASE d # 0
      <4>1. d \in Nat /\ d >= 1
        BY <2>1, <3>2
      <4>2. SlotNum * d \in Nat /\ SlotNum * d >= SlotNum
        BY <1>3, <4>1
      <4> QED
        BY <1>3, <1>4, <4>2
    <3> QED
      BY <3>1, <3>2
  <2>4. x \in Nat /\ x <= n
    BY <1>3, Division
  <2> HIDE DEF x, d, c
  <2>5. c \in Int
    BY <1>4 DEF c
  <2> QED
    BY <1>3, <2>2, <2>3, <2>4, <2>5
<1> QED
  BY <1>2, <1>5, <1>6 DEF DueAt

(* Timers in their places are not late.                                    *)
LEMMA AllNotLate ==
    ASSUME PointersOK, TimersOK, \A t \in Timers : TimerInv(t)
    PROVE  NeverLate
  BY DueIsNotLate DEF NeverLate

(* The invariant in the form in which the steps use it, and come to it.    *)
LEMMA Facts ==
    IInv => /\ WheelsOK /\ PointersOK /\ TimersOK /\ ThreadOK /\ AddingOK /\ Phases
            /\ pc # "gone" => \A t \in Timers : TimerInv(t)
            /\ \A t \in Timers : timer[t] \in TimerType /\ timer[t].level \in Levels
            /\ slotVec_ \in [Levels -> [Slots -> SUBSET Timers]]
            /\ 0 \in Levels /\ \A l \in Levels : slotCur_[l] \in Slots
  BY Constants DEF IInv, WheelsOK, PointersOK, TimersOK, TimerType, Levels

(* The parts of the invariant are the invariant.                           *)
LEMMA Assembled ==
    ASSUME PointersOK', slotVec_' \in [Levels -> [Slots -> SUBSET Timers]], TimersOK', ThreadOK',
           AddingOK', Phases', \A t \in Timers : TimerInv(t)', pc' # "gone"
    PROVE  IInv'
  BY DEF IInv, WheelsOK

(* Clearing the slot drops only timers that have run.                      *)
LEMMA ClearSlotIInv == IInv /\ ClearSlot => IInv'
<1> SUFFICES ASSUME IInv, ClearSlot PROVE IInv'
  OBVIOUS
<1> USE DEF timerVars
<1>0. /\ WheelsOK /\ PointersOK /\ TimersOK /\ ThreadOK /\ AddingOK /\ Phases
      /\ pc # "gone" => \A t \in Timers : TimerInv(t)
      /\ \A t \in Timers : timer[t] \in TimerType /\ timer[t].level \in Levels
      /\ slotVec_ \in [Levels -> [Slots -> SUBSET Timers]]
      /\ 0 \in Levels /\ \A l \in Levels : slotCur_[l] \in Slots
  BY Facts
<1>1. /\ pc = "clear" /\ slotVec_' = [slotVec_ EXCEPT ![0][slotCur_[0]] = {}]
      /\ pc' = "advance" /\ ran' = {}
      /\ UNCHANGED <<slotCur_, timerVars, quit_, level, adding>>
  BY DEF ClearSlot
<1>2. /\ slotVec_' \in [Levels -> [Slots -> SUBSET Timers]]
      /\ \A k \in Levels, r \in Slots :
             slotVec_'[k][r] = IF k = 0 /\ r = slotCur_[0] THEN {} ELSE slotVec_[k][r]
  <2>1. slotVec_' = [slotVec_ EXCEPT ![0] = [slotVec_[0] EXCEPT ![slotCur_[0]] = {}]]
    BY <1>1
  <2>2. [slotVec_[0] EXCEPT ![slotCur_[0]] = {}] \in [Slots -> SUBSET Timers]
    BY <1>0
  <2> QED
    BY <1>0, <2>1, <2>2
<1>3. \A t \in Timers, k \in Levels, r \in Slots :
          /\ In(t, k, r)' <=> In(t, k, r) /\ ~(k = 0 /\ r = slotCur_[0])
          /\ ~Passed(t, k, r)'
  BY <1>1, <1>2 DEF In, Passed
<1>4. PointersOK' /\ TimersOK' /\ ThreadOK' /\ AddingOK'
  BY <1>0, <1>1 DEF PointersOK, TimersOK, ThreadOK, AddingOK
<1>5. Phases'
  <2>1. slotVec_'[0][slotCur_'[0]] = {}
    BY <1>0, <1>1, <1>2
  <2> QED
    BY <1>0, <1>1, <2>1 DEF Phases, Current
<1>6. ASSUME NEW t \in Timers PROVE TimerInv(t)'
  <2> DEFINE l == timer[t].level
  <2>0. l \in Levels /\ TimerInv(t) /\ timer'[t] = timer[t] /\ status'[t] = status[t] /\ age'[t] = age[t]
    BY <1>0, <1>1
  <2>1. ASSUME NEW s \in Slots, Home(t, s), status[t] = "added" PROVE Home(t, s)'
    <3>1. ~(l = 0 /\ s = slotCur_[0])
      <4> SUFFICES ASSUME l = 0, s = slotCur_[0] PROVE FALSE
        OBVIOUS
      <4>1. t \in Current(0)
        BY <2>1 DEF Home, In, Current
      <4>2. t \in ran
        BY <1>0, <1>1, <2>1, <4>1 DEF Phases
      <4> QED
        BY <1>1, <2>1, <4>2 DEF Home, Passed
    <3>2. \A k \in Levels, r \in Slots : Passed(t, k, r) => k = 0 /\ r = slotCur_[0]
      BY DEF Passed
    <3> QED
      BY <1>3, <2>0, <2>1, <3>1, <3>2 DEF Home
  <2>2. ASSUME NEW s \in Slots, Home(t, s)', status[t] = "added" PROVE Home(t, s)
    <3>1. PICK h \in Slots : Home(t, h)
      BY <2>0, <2>2 DEF TimerInv, AddedPlace
    <3>2. In(t, l, s) /\ ~(l = 0 /\ s = slotCur_[0])
      BY <1>3, <2>0, <2>2 DEF Home
    <3>3. ~Passed(t, l, s)
      BY <3>2 DEF Passed
    <3> QED
      BY <2>0, <3>1, <3>2, <3>3 DEF Home
  <2>3. AddedPlace(t)'
    BY <2>0, <2>1 DEF TimerInv, AddedPlace
  <2>4. RacedPlace(t)'
    BY <1>1, <1>3, <2>0 DEF TimerInv, RacedPlace
  <2>5. OtherPlace(t)'
    BY <1>1, <1>3, <2>0 DEF TimerInv, OtherPlace, Passed
  <2>6. Due(t)'
    <3> SUFFICES ASSUME status[t] = "added", timer[t].tickNum < TickNOneSlot[1],
                        NEW s \in Slots, Home(t, s)'
                 PROVE  DueAt(t, s)'
      BY <2>0 DEF Due
    <3>1. DueAt(t, s)
      BY <2>0, <2>2 DEF TimerInv, Due
    <3>2. ~BeforeMove
      BY <1>1 DEF BeforeMove
    <3> QED
      BY <1>1, <2>0, <3>1, <3>2 DEF DueAt, Ahead
  <2> QED
    BY <2>3, <2>4, <2>5, <2>6 DEF TimerInv
<1> QED
  BY <1>1, <1>2, <1>4, <1>5, <1>6, Assembled

(* A pointer that moves comes one slot nearer to all others.               *)
LEMMA Nearer ==
    ASSUME PointersOK, NEW l \in Levels, NEW s \in Slots, s # slotCur_[l],
           slotCur_'[l] = (slotCur_[l] + 1) % SlotNum
    PROVE  Ahead(l, s) >= 1 /\ Ahead(l, s)' = Ahead(l, s) - 1
<1>1. /\ slotCur_[l] \in Slots /\ slotCur_[l] \in 0 .. SlotNum - 1 /\ s \in 0 .. SlotNum - 1
      /\ SlotNum \in Nat /\ SlotNum > 1
  BY Constants DEF PointersOK, Slots
<1>2. slotCur_'[l] = IF slotCur_[l] + 1 < SlotNum THEN slotCur_[l] + 1 ELSE slotCur_[l] + 1 - SlotNum
  <2>1. 1 \in 0 .. SlotNum - 1
    BY <1>1
  <2> QED
    BY <1>1, <2>1, Round
<1>3. Ahead(l, s)' = IF s >= slotCur_'[l] THEN s - slotCur_'[l] ELSE s - slotCur_'[l] + SlotNum
  BY DEF Ahead
<1> DEFINE c == slotCur_[l]
           d == slotCur_'[l]
<1> HIDE DEF c, d
<1>4. CASE c + 1 < SlotNum
  BY <1>1, <1>2, <1>3, <1>4 DEF Ahead, c, d
<1>5. CASE ~(c + 1 < SlotNum)
  BY <1>1, <1>2, <1>3, <1>5 DEF Ahead, c, d
<1> QED
  BY <1>4, <1>5

(* Every pointer that moves brings its timers one slot nearer.             *)
LEMMA AdvanceIInv == IInv /\ Advance => IInv'
<1> SUFFICES ASSUME IInv, Advance PROVE IInv'
  OBVIOUS
<1>0. /\ WheelsOK /\ PointersOK /\ TimersOK /\ ThreadOK /\ AddingOK /\ Phases
      /\ pc # "gone" => \A t \in Timers : TimerInv(t)
      /\ \A t \in Timers : timer[t] \in TimerType /\ timer[t].level \in Levels
      /\ slotVec_ \in [Levels -> [Slots -> SUBSET Timers]]
      /\ 0 \in Levels /\ \A l \in Levels : slotCur_[l] \in Slots
  BY Facts
<1>1. /\ pc = "advance" /\ pc' \in {"idle", "ended"} /\ UNCHANGED <<slotVec_, timer, status, quit_, level, ran, adding>>
      /\ slotCur_' = [l \in Levels |->
                         IF Moves(l) THEN (slotCur_[l] + 1) % SlotNum ELSE slotCur_[l]]
      /\ age' = [t \in Timers |->
                    IF status[t] = "added" /\ age[t] < AgeLimit THEN age[t] + 1 ELSE age[t]]
  BY DEF Advance
<1>2. SlotNum \in Nat /\ SlotNum > 1 /\ AgeLimit \in Nat /\ MaxLevel \in Nat /\ TickNOneSlot[1] <= AgeLimit
      /\ TickNOneSlot[1] \in Nat
  BY Constants, WheelsGrow
<1>3. PointersOK'
  <2>1. \A l \in Levels : slotCur_'[l] \in Slots
    BY <1>0, <1>1, <1>2, Round
  <2> QED
    BY <1>1, <2>1 DEF PointersOK
<1>4. TimersOK'
  <2>1. \A t \in Timers : age[t] \in 0 .. AgeLimit
    BY <1>0 DEF TimersOK
  <2>2. \A t \in Timers : age'[t] \in 0 .. AgeLimit
    BY <1>1, <1>2, <2>1
  <2>3. age' \in [Timers -> 0 .. AgeLimit]
    BY <1>1, <2>2
  <2> QED
    BY <1>0, <1>1, <2>3 DEF TimersOK
<1>5. ThreadOK' /\ Phases'
  BY <1>0, <1>1 DEF ThreadOK, Phases
<1>6. AddingOK'
  <2>1. \A a \in adding : a.raced
    <3> SUFFICES ASSUME NEW a \in adding, ~a.raced PROVE FALSE
      OBVIOUS
    <3> QED
      BY <1>0, <1>1 DEF AddingOK
  <2> QED
    BY <1>0, <1>1, <2>1 DEF AddingOK
<1>7. ASSUME NEW t \in Timers PROVE TimerInv(t)'
  <2> DEFINE n == timer[t].tickNum
             c == slotCur_[0]
  <2>0. TimerInv(t) /\ timer'[t] = timer[t] /\ status'[t] = status[t] /\ timer[t].level \in Levels
        /\ n \in Nat /\ age[t] \in Nat /\ c \in 0 .. SlotNum - 1
    BY <1>0, <1>1, <1>2 DEF TimersOK, TimerType, Slots
  <2>1. \A k \in Levels, r \in Slots :
            (In(t, k, r)' <=> In(t, k, r)) /\ ~Passed(t, k, r) /\ ~Passed(t, k, r)'
    BY <1>1 DEF In, Passed
  <2>2. \A s \in Slots : Home(t, s)' <=> Home(t, s)
    BY <2>0, <2>1 DEF Home
  <2>3. AddedPlace(t)' /\ RacedPlace(t)' /\ OtherPlace(t)'
    BY <1>1, <2>0, <2>1, <2>2 DEF TimerInv, AddedPlace, RacedPlace, OtherPlace
  <2>4. Due(t)'
    <3> SUFFICES ASSUME status[t] = "added", n < TickNOneSlot[1], NEW s \in Slots, Home(t, s)
                 PROVE  DueAt(t, s)'
      BY <2>0, <2>2 DEF Due
    <3>1. DueAt(t, s) /\ In(t, timer[t].level, s)
      BY <2>0 DEF TimerInv, Due, Home
    <3>2. age[t] < n => age'[t] = age[t] + 1
      BY <1>1, <1>2, <2>0
    <3>3. slotCur_'[0] = (c + 1) % SlotNum
      BY <1>0, <1>1 DEF Moves, Levels
    <3>4. CASE timer[t].level = 0 /\ DueLowest(n, age[t], Ahead(0, s))
      <4>1. s # slotCur_[0]
        <5>1. s = slotCur_[0] => t \in Current(0)
          BY <3>1, <3>4 DEF In, Current
        <5> QED
          BY <1>0, <1>1, <5>1 DEF Phases
      <4>2. /\ Ahead(0, s) >= 1 /\ Ahead(0, s)' = Ahead(0, s) - 1 /\ Ahead(0, s) \in 0 .. SlotNum - 1
        BY <1>0, <3>3, <4>1, Nearer, AheadIs
      <4> DEFINE d == Ahead(0, s)
      <4> HIDE DEF d
      <4>3. d \in Nat /\ d >= 1 /\ Ahead(0, s)' = d - 1 /\ DueLowest(n, age[t], d)
        BY <1>2, <3>4, <4>2 DEF d
      <4>4. age[t] < n
        BY <1>2, <2>0, <4>3 DEF DueLowest
      <4>5. DueLowest(n, age[t] + 1, d - 1)
        BY <1>2, <2>0, <4>3 DEF DueLowest
      <4>6. DueLowest(n, age'[t], Ahead(0, s)')
        BY <3>2, <4>3, <4>4, <4>5
      <4> QED
        BY <2>0, <3>4, <4>6 DEF DueAt
    <3>5. CASE /\ timer[t].level = 1 /\ n >= SlotNum /\ DueSecond(n, age[t], Ahead(1, s), c)
               /\ Ahead(1, s) = 0 => c = 0 /\ BeforeMove
      <4>0. 1 \in Levels /\ Ahead(1, s) \in 0 .. SlotNum - 1
        BY <1>0, <2>0, <3>5, AheadIs
      <4>1. Ahead(1, s) # 0 /\ s # slotCur_[1]
        <5>1. ~BeforeMove
          BY <1>1 DEF BeforeMove
        <5> QED
          BY <1>0, <3>5, <4>0, <5>1, AheadIs
      <4> DEFINE d == Ahead(1, s)
                 x == SlotNum * (n \div SlotNum)
                 y == SlotNum * d
      <4>2. d \in Nat /\ d >= 1 /\ y \in Nat /\ y >= SlotNum
        <5>1. d \in Nat /\ d >= 1
          BY <1>2, <4>0, <4>1
        <5> HIDE DEF d
        <5> QED
          BY <1>2, <5>1
      <4>3. x \in Nat /\ x <= n
        BY <1>2, <2>0, Division
      <4>4. x - SlotNum < age[t] + (y - c) /\ age[t] + (y - c) <= x
        BY <3>5 DEF DueSecond
      <4>5. age[t] < n
        <5> HIDE DEF x, y, c, d
        <5> QED
          BY <1>2, <2>0, <4>2, <4>3, <4>4
      <4>6. Moves(1) <=> (c + 1) % SlotNum = 0
        BY <1>0 DEF Moves, Levels
      <4>7. (c + 1) % SlotNum = IF c + 1 < SlotNum THEN c + 1 ELSE c + 1 - SlotNum
        BY <1>0, <1>2, Round
      <4>8. CASE Moves(1)
        <5>1. Ahead(1, s)' = d - 1 /\ c = SlotNum - 1 /\ slotCur_'[0] = 0
          <6>1. slotCur_'[1] = (slotCur_[1] + 1) % SlotNum
            BY <1>1, <4>0, <4>8
          <6>2. Ahead(1, s)' = d - 1
            BY <1>0, <4>0, <4>1, <6>1, Nearer
          <6> HIDE DEF c
          <6> QED
            BY <1>2, <2>0, <3>3, <4>6, <4>7, <4>8, <6>2
        <5>2. SlotNum * (d - 1) = y - SlotNum
          <6> HIDE DEF d
          <6> QED
            BY <1>2, <4>2 DEF y
        <5>3. DueSecond(n, age'[t], d - 1, 0)
          <6>1. x - SlotNum < age'[t] + (SlotNum * (d - 1) - 0) /\ age'[t] + (SlotNum * (d - 1) - 0) <= x
            <7> HIDE DEF x, y, c, d
            <7> QED
              BY <1>2, <2>0, <3>2, <4>2, <4>3, <4>4, <4>5, <5>1, <5>2
          <6> QED
            BY <6>1 DEF DueSecond
        <5>4. BeforeMove'
          BY <1>1 DEF BeforeMove
        <5>5. DueSecond(n, age'[t], Ahead(1, s)', slotCur_'[0])
          BY <5>1, <5>3
        <5> QED
          BY <2>0, <3>5, <5>1, <5>4, <5>5 DEF DueAt
      <4>9. CASE ~Moves(1)
        <5>1. Ahead(1, s)' = d /\ slotCur_'[0] = c + 1
          <6>1. slotCur_'[1] = slotCur_[1]
            BY <1>1, <4>0, <4>9
          <6>2. Ahead(1, s)' = d
            BY <6>1 DEF Ahead
          <6> HIDE DEF c
          <6> QED
            BY <1>2, <2>0, <3>3, <4>6, <4>7, <4>9, <6>2
        <5>2. x - SlotNum < age'[t] + (y - (c + 1)) /\ age'[t] + (y - (c + 1)) <= x
          <6> HIDE DEF x, y, c, d
          <6> QED
            BY <1>2, <2>0, <3>2, <4>2, <4>3, <4>4, <4>5
        <5>3. DueSecond(n, age'[t], Ahead(1, s)', slotCur_'[0])
          BY <5>1, <5>2 DEF DueSecond
        <5>4. Ahead(1, s)' # 0
          BY <4>1, <5>1
        <5> QED
          BY <2>0, <3>5, <5>3, <5>4 DEF DueAt
      <4> QED
        BY <4>8, <4>9
    <3> QED
      BY <3>1, <3>4, <3>5 DEF DueAt
  <2> QED
    BY <2>3, <2>4 DEF TimerInv
<1> QED
  BY <1>0, <1>1, <1>3, <1>4, <1>5, <1>6, <1>7, Assembled

(* The timers of a slot go down a wheel with what is left of their delay.  *)
LEMMA checkCurSlotIInv == IInv /\ checkCurSlot => IInv'
<1> SUFFICES ASSUME IInv, checkCurSlot PROVE IInv'
  OBVIOUS
<1>0. /\ WheelsOK /\ PointersOK /\ TimersOK /\ ThreadOK /\ AddingOK /\ Phases
      /\ pc # "gone" => \A t \in Timers : TimerInv(t)
      /\ \A t \in Timers : timer[t] \in TimerType /\ timer[t].level \in Levels
      /\ slotVec_ \in [Levels -> [Slots -> SUBSET Timers]]
      /\ 0 \in Levels /\ \A l \in Levels : slotCur_[l] \in Slots
  BY Facts
<1> DEFINE to(t) == LowerLevel(level - 1, timer[t].tickNum)
           at(t) == LowerSlot(level - 1, timer[t].tickNum)
           left(l, s) == IF l = level /\ s = slotCur_[l] THEN {} ELSE slotVec_[l][s]
           comes(l, s) == {t \in Current(level) : to(t) = l /\ at(t) = s}
           moved == [t \in Timers |-> IF t \in Current(level) THEN [timer[t] EXCEPT !.level = to(t)] ELSE timer[t]]
<1>1. /\ pc = "check" /\ level > 0 /\ level' = level - 1 /\ timer' = moved
      /\ slotVec_' = [l \in Levels |-> [s \in Slots |-> left(l, s) \cup comes(l, s)]]
      /\ UNCHANGED <<slotCur_, status, age, quit_, pc, ran, adding>>
  BY DEF checkCurSlot
<1>2. /\ level \in Levels /\ level \in Nat /\ level - 1 \in Levels /\ level - 1 \in Nat
      /\ Current(level) \subseteq Timers
  BY <1>0, <1>1, Constants DEF ThreadOK, Levels, Current
<1>3. \A t \in Timers : /\ timer[t].tickNum \in Nat /\ to(t) \in Levels /\ to(t) <= level - 1
                        /\ to(t) # level /\ at(t) \in Slots
                        /\ level = 1 => to(t) = 0 /\ Ahead(0, at(t)) = timer[t].tickNum % SlotNum
  <2> SUFFICES ASSUME NEW t \in Timers
               PROVE  /\ timer[t].tickNum \in Nat /\ to(t) \in Levels /\ to(t) <= level - 1
                      /\ to(t) # level /\ at(t) \in Slots
                      /\ level = 1 => to(t) = 0 /\ Ahead(0, at(t)) = timer[t].tickNum % SlotNum
    OBVIOUS
  <2>1. timer[t].tickNum \in Nat
    BY <1>0 DEF TimerType
  <2>2. /\ to(t) \in Levels /\ to(t) <= level - 1 /\ at(t) \in Slots
        /\ level - 1 = 0 => to(t) = 0 /\ Ahead(0, at(t)) = timer[t].tickNum % SlotNum
    BY <1>0, <1>2, <2>1, LowerIs
  <2> HIDE DEF to, at
  <2> QED
    BY <1>2, <2>1, <2>2 DEF Levels
<1> HIDE DEF to, at
<1>4. \A t \in Timers, k \in Levels, r \in Slots :
          In(t, k, r)' <=> \/ In(t, k, r) /\ ~(k = level /\ r = slotCur_[k])
                           \/ t \in Current(level) /\ k = to(t) /\ r = at(t)
  BY <1>1 DEF In
<1>5. /\ \A t \in Timers : timer'[t] = IF t \in Current(level) THEN [timer[t] EXCEPT !.level = to(t)] ELSE timer[t]
      /\ \A t \in Timers : timer'[t] \in TimerType /\ timer'[t].tickNum = timer[t].tickNum
      /\ \A t \in Current(level) : timer'[t].level = to(t)
  <2>1. \A t \in Timers : timer'[t] = IF t \in Current(level) THEN [timer[t] EXCEPT !.level = to(t)] ELSE timer[t]
    BY <1>1
  <2> QED
    BY <1>0, <1>2, <1>3, <2>1 DEF TimerType
<1> HIDE DEF moved
<1>6. PointersOK' /\ ThreadOK' /\ Phases' /\ AddingOK'
  BY <1>0, <1>1, <1>2 DEF PointersOK, ThreadOK, Phases, AddingOK
<1>7. slotVec_' \in [Levels -> [Slots -> SUBSET Timers]]
  <2>1. \A l \in Levels, s \in Slots : left(l, s) \cup comes(l, s) \in SUBSET Timers
    BY <1>0, <1>2
  <2> HIDE DEF left, comes
  <2> QED
    BY <1>1, <2>1
<1>8. TimersOK'
  <2>1. timer' = [t \in Timers |-> timer'[t]]
    BY <1>1 DEF moved
  <2>2. timer' \in [Timers -> TimerType]
    BY <1>5, <2>1
  <2> QED
    BY <1>0, <1>1, <2>2 DEF TimersOK
<1>9. ASSUME NEW t \in Timers PROVE TimerInv(t)'
  <2>0. /\ TimerInv(t) /\ timer[t].level \in Levels /\ status'[t] = status[t] /\ age'[t] = age[t]
        /\ ran = {} /\ ran' = {}
        /\ \A k \in Levels, r \in Slots : ~Passed(t, k, r) /\ ~Passed(t, k, r)'
    BY <1>0, <1>1 DEF Passed, Phases
  <2>1. CASE t \notin Current(level)
    <3>1. timer'[t] = timer[t]
      BY <1>5, <2>1
    <3>2. \A k \in Levels, r \in Slots : In(t, k, r)' <=> In(t, k, r)
      BY <1>4, <2>1 DEF In, Current
    <3>3. BeforeMove => BeforeMove' \/ \A r \in Slots : Home(t, r) /\ timer[t].level = 1 => Ahead(1, r) # 0
      <4> SUFFICES ASSUME BeforeMove, ~BeforeMove', NEW r \in Slots, Home(t, r), timer[t].level = 1
                   PROVE  Ahead(1, r) # 0
        OBVIOUS
      <4>1. level = 1
        BY <1>1, <1>2 DEF BeforeMove
      <4>2. r # slotCur_[1]
        BY <2>1, <4>1 DEF Home, In, Current
      <4> QED
        BY <1>0, <2>0, <4>2, AheadIs
    <3> QED
      BY <1>1, <2>0, <3>1, <3>2, <3>3, Kept
  <2>2. CASE t \in Current(level)
    <3>0. In(t, level, slotCur_[level]) /\ slotCur_[level] \in Slots
      BY <1>0, <1>2, <2>2 DEF In, Current
    <3>1. timer'[t].level = to(t) /\ to(t) \in Levels /\ at(t) \in Slots /\ to(t) # level
      BY <1>3, <1>5, <2>2
    <3>2. ASSUME \A k \in Levels, r \in Slots : In(t, k, r) => k = level /\ r = slotCur_[level]
          PROVE  /\ \A s \in Slots : Home(t, s)' <=> s = at(t)
                 /\ \A k \in Levels, r \in Slots : In(t, k, r)' <=> k = timer'[t].level /\ r = at(t)
      <4>1. \A k \in Levels, r \in Slots : In(t, k, r)' <=> k = to(t) /\ r = at(t)
        BY <1>4, <2>2, <3>2
      <4>2. \A k \in Levels, r \in Slots : In(t, k, r)' <=> k = timer'[t].level /\ r = at(t)
        BY <3>1, <4>1
      <4> SUFFICES ASSUME NEW s \in Slots PROVE Home(t, s)' <=> s = at(t)
        BY <4>2
      <4>3. In(t, timer[t].level, s)' <=> s = at(t)
        BY <3>1, <4>2 DEF In
      <4>4. ~Passed(t, timer[t].level, s)'
        BY <1>1 DEF Passed
      <4>5. Home(t, s)' => s = at(t)
        BY <4>3 DEF Home
      <4>6. s = at(t) => Home(t, s)'
        BY <4>2, <4>3, <4>4 DEF Home
      <4> QED
        BY <4>5, <4>6
    <3>3. status[t] \notin {"new", "adding", "done"}
      BY <1>2, <2>0, <3>0 DEF TimerInv, OtherPlace
    <3>4. status[t] \in {"added", "raced"} =>
              /\ timer[t].level = level
              /\ \A k \in Levels, r \in Slots : In(t, k, r) => k = level /\ r = slotCur_[level]
      <4>1. CASE status[t] = "added"
        <5>1. PICK h \in Slots : Home(t, h)
          BY <2>0, <4>1 DEF TimerInv, AddedPlace
        <5> QED
          BY <1>2, <2>0, <3>0, <5>1 DEF Home
      <4>2. CASE status[t] = "raced"
        BY <1>2, <2>0, <3>0, <4>2 DEF TimerInv, RacedPlace
      <4> QED
        BY <4>1, <4>2
    <3>5. AddedPlace(t)'
      BY <2>0, <3>1, <3>2, <3>4 DEF AddedPlace
    <3>6. RacedPlace(t)'
      <4> SUFFICES ASSUME status[t] = "raced"
                   PROVE  /\ t \notin ran'
                          /\ \A k \in Levels, r \in Slots : In(t, k, r)' => k = timer'[t].level /\ r = at(t)
        BY <2>0, <3>1 DEF RacedPlace, In
      <4> QED
        BY <2>0, <3>2, <3>4
    <3>7. OtherPlace(t)'
      BY <2>0, <3>3 DEF OtherPlace
    <3>8. Due(t)'
      <4> DEFINE n == timer[t].tickNum
                 x == SlotNum * (n \div SlotNum)
      <4> SUFFICES ASSUME status[t] = "added", n < TickNOneSlot[1], NEW s \in Slots, Home(t, s)'
                   PROVE  DueAt(t, s)'
        BY <1>5, <2>0 DEF Due
      <4>1. s = at(t) /\ timer[t].level = level
        BY <3>2, <3>4
      <4>2. DueAt(t, slotCur_[level])
        <5>1. Home(t, slotCur_[level])
          BY <2>0, <3>0, <3>4 DEF Home
        <5> QED
          BY <2>0, <3>0, <5>1 DEF TimerInv, Due
      <4>3. /\ level = 1 /\ n >= SlotNum /\ DueSecond(n, age[t], Ahead(1, slotCur_[1]), slotCur_[0])
            /\ Ahead(1, slotCur_[1]) = 0 => slotCur_[0] = 0
        BY <1>1, <4>1, <4>2 DEF DueAt
      <4>4. Ahead(1, slotCur_[1]) = 0 /\ slotCur_[0] = 0
        BY <1>0, <1>2, <3>0, <4>3, AheadIs
      <4>5. SlotNum \in Nat /\ SlotNum > 1 /\ age[t] \in Nat /\ n \in Nat
        BY <1>0, <1>3, Constants DEF TimersOK
      <4>6. x - SlotNum < age[t] /\ age[t] <= x
        <5>1. DueSecond(n, age[t], 0, 0)
          BY <4>3, <4>4
        <5>2. x \in Nat
          BY <4>5, Division
        <5> HIDE DEF n
        <5> QED
          BY <4>5, <5>1, <5>2 DEF DueSecond
      <4>7. n = x + (n % SlotNum) /\ x \in Nat /\ n % SlotNum \in Nat
        BY <4>5, Division
      <4>8. DueLowest(n, age[t], n % SlotNum)
        <5>1. n - SlotNum < age[t] + (n % SlotNum) /\ age[t] + (n % SlotNum) <= n
          <6> HIDE DEF x, n
          <6> QED
            BY <4>5, <4>6, <4>7
        <5>2. ~(n < SlotNum)
          <6> HIDE DEF n
          <6> QED
            BY <4>3, <4>5
        <5> QED
          BY <5>1, <5>2, Zenon DEF DueLowest
      <4>9. timer'[t].level = 0 /\ timer'[t].tickNum = n /\ Ahead(0, s)' = n % SlotNum /\ age'[t] = age[t]
        <5>1. Ahead(0, s)' = Ahead(0, s)
          BY <1>1 DEF Ahead
        <5> QED
          BY <1>3, <1>5, <2>0, <2>2, <4>1, <4>3, <5>1
      <4>10. DueLowest(timer'[t].tickNum, age'[t], Ahead(0, s)')
        BY <4>8, <4>9
      <4> QED
        BY <4>9, <4>10 DEF DueAt
    <3> QED
      BY <3>5, <3>6, <3>7, <3>8 DEF TimerInv
  <2> QED
    BY <2>1, <2>2
<1> QED
  BY <1>1, <1>6, <1>7, <1>8, <1>9, Assembled

(* A timer that a step leaves alone while it puts, takes out or runs       *)
(* another one.                                                            *)
LEMMA OthersKept ==
    ASSUME NEW u \in Timers, NEW t \in Timers, t # u, TimerInv(t), timer[t].level \in Levels,
           slotCur_' = slotCur_, pc' = pc, level' = level, timer'[t] = timer[t],
           status'[t] = status[t], age'[t] = age[t], t \in ran' <=> t \in ran,
           \A k \in Levels, r \in Slots : In(t, k, r)' <=> In(t, k, r)
    PROVE  TimerInv(t)'
<1>1. \A k \in Levels, r \in Slots : Passed(t, k, r)' <=> Passed(t, k, r)
  BY DEF Passed
<1>2. BeforeMove' <=> BeforeMove
  BY DEF BeforeMove
<1> QED
  BY <1>1, <1>2, Kept

(* A new timer is put on a wheel its delay reaches.                        *)
LEMMA FreshIs ==
    ASSUME PointersOK, NEW n \in 1 .. TickNOneSlot[MaxLevel - 1] - 1,
           NEW i \in 0 .. TickNOneSlot[MaxLevel - 1] - 1
    PROVE  Timer(n, i) \in TimerType /\ Fresh(Timer(n, i))
<1>1. SlotOf(n) \in Slots /\ LevelOf(n) \in Levels /\ n \in Nat
  BY SlotIs, LevelIs
<1> QED
  BY <1>1 DEF Timer, TimerType, Fresh

(* A timer runs, and one that repeats is inserted anew.                    *)
LEMMA RunTimerIInv == ASSUME NEW u \in Timers PROVE IInv /\ RunTimer(u) => IInv'
<1> SUFFICES ASSUME IInv, RunTimer(u) PROVE IInv'
  OBVIOUS
<1>0. /\ WheelsOK /\ PointersOK /\ TimersOK /\ ThreadOK /\ AddingOK /\ Phases
      /\ pc # "gone" => \A t \in Timers : TimerInv(t)
      /\ \A t \in Timers : timer[t] \in TimerType /\ timer[t].level \in Levels
      /\ slotVec_ \in [Levels -> [Slots -> SUBSET Timers]]
      /\ 0 \in Levels /\ \A l \in Levels : slotCur_[l] \in Slots
  BY Facts
<1> DEFINE repeats == timer[u].level = 0 /\ isRepeated(u)
           again == Timer(timer[u].interval, timer[u].interval)
<1>1. /\ pc = "run" /\ u \in Current(0) /\ u \notin ran /\ ran' = ran \cup {u}
      /\ age' = [age EXCEPT ![u] = 0]
      /\ UNCHANGED <<slotCur_, quit_, pc, level, adding>>
      /\ repeats => /\ timer' = [timer EXCEPT ![u] = again]
                    /\ slotVec_' = Put(slotVec_, u, again.level, again.slot)
                    /\ status' = [status EXCEPT ![u] = IF status[u] = "raced" THEN "added" ELSE status[u]]
      /\ ~repeats =>
             /\ status' = [status EXCEPT ![u] =
                              IF timer[u].level = 0 /\ status[u] # "cancelled" THEN "done" ELSE status[u]]
             /\ UNCHANGED <<timer, slotVec_>>
  BY DEF RunTimer
<1>2. ASSUME repeats
      PROVE  /\ again \in TimerType /\ Fresh(again) /\ again.level \in Levels /\ again.slot \in Slots
             /\ slotVec_' \in [Levels -> [Slots -> SUBSET Timers]]
             /\ \A t \in Timers, l \in Levels, s \in Slots :
                    In(t, l, s)' <=> In(t, l, s) \/ (t = u /\ l = again.level /\ s = again.slot)
  <2>1. timer[u].interval \in 1 .. TickNOneSlot[MaxLevel - 1] - 1
        /\ timer[u].interval \in 0 .. TickNOneSlot[MaxLevel - 1] - 1
    <3>1. timer[u].interval \in 0 .. TickNOneSlot[MaxLevel - 1] - 1
      BY <1>0 DEF TimerType
    <3>2. timer[u].interval > 0
      BY <1>2 DEF isRepeated
    <3> QED
      BY <3>1, <3>2
  <2>2. again \in TimerType /\ Fresh(again)
    BY <1>0, <2>1, FreshIs
  <2>3. again.level \in Levels /\ again.slot \in Slots
    BY <2>2 DEF TimerType
  <2>4. slotVec_' = Put(slotVec_, u, again.level, again.slot)
    BY <1>1, <1>2
  <2> HIDE DEF again
  <2> QED
    BY <1>0, <2>2, <2>3, <2>4, PutIs
<1>3. ASSUME ~repeats PROVE \A t \in Timers, l \in Levels, s \in Slots : In(t, l, s)' <=> In(t, l, s)
  BY <1>1, <1>3 DEF In
<1> HIDE DEF again
(* Where it was.                                                           *)
<1>4. /\ TimerInv(u) /\ In(u, 0, slotCur_[0]) /\ \A k \in Levels, r \in Slots : ~Passed(u, k, r)
  BY <1>0, <1>1 DEF In, Current, Passed
<1>5. /\ status[u] \in {"added", "raced", "cancelled"}
      /\ status[u] \in {"added", "raced"} =>
             /\ timer[u].level = 0
             /\ \A k \in Levels, r \in Slots : In(u, k, r) => k = 0 /\ r = slotCur_[0]
  <2>1. status[u] \in {"added", "raced", "cancelled"}
    BY <1>0, <1>4 DEF TimersOK, TimerInv, OtherPlace
  <2>2. CASE status[u] = "added"
    <3>1. PICK h \in Slots : Home(u, h)
      BY <1>4, <2>2 DEF TimerInv, AddedPlace
    <3> QED
      BY <1>0, <1>4, <2>2, <3>1 DEF Home
  <2>3. CASE status[u] = "raced"
    BY <1>0, <1>4, <2>3 DEF TimerInv, RacedPlace
  <2> QED
    BY <2>1, <2>2, <2>3
<1>6. slotVec_' \in [Levels -> [Slots -> SUBSET Timers]] /\ PointersOK' /\ ThreadOK' /\ Phases'
  <2>1. slotVec_' \in [Levels -> [Slots -> SUBSET Timers]]
    BY <1>0, <1>1, <1>2
  <2> QED
    BY <1>0, <1>1, <2>1 DEF PointersOK, ThreadOK, Phases
<1>7. TimersOK'
  <2>1. timer' \in [Timers -> TimerType]
    BY <1>0, <1>1, <1>2 DEF TimersOK
  <2>2. age' \in [Timers -> 0 .. AgeLimit]
    <3>1. 0 \in 0 .. AgeLimit
      BY Constants
    <3> QED
      BY <1>0, <1>1, <3>1 DEF TimersOK
  <2>3. status' \in [Timers -> {"new", "adding", "added", "raced", "done", "cancelled"}]
    BY <1>0, <1>1 DEF TimersOK
  <2> QED
    BY <2>1, <2>2, <2>3 DEF TimersOK
<1>8. AddingOK'
  <2>1. \A a \in adding : a.raced /\ a.t # u /\ a.t \in Timers
    BY <1>0, <1>1, <1>5 DEF AddingOK
  <2>2. \A t \in Timers : t # u => status'[t] = status[t]
    BY <1>0, <1>1 DEF TimersOK
  <2> QED
    BY <1>0, <1>1, <2>1, <2>2 DEF AddingOK
<1>9. ASSUME NEW t \in Timers PROVE TimerInv(t)'
  <2>1. CASE t # u
    <3>1. timer'[t] = timer[t] /\ status'[t] = status[t] /\ age'[t] = age[t]
      BY <1>0, <1>1, <2>1 DEF TimersOK
    <3>2. \A k \in Levels, r \in Slots : In(t, k, r)' <=> In(t, k, r)
      BY <1>2, <1>3, <2>1
    <3> QED
      BY <1>0, <1>1, <2>1, <3>1, <3>2, OthersKept
  <2>2. CASE t = u /\ status[u] = "cancelled"
    <3>1. status'[t] = "cancelled"
      BY <1>0, <1>1, <2>2 DEF TimersOK
    <3> QED
      BY <3>1 DEF TimerInv, AddedPlace, RacedPlace, OtherPlace, Due
  <2>3. CASE t = u /\ status[u] # "cancelled" /\ repeats
    <3>1. timer'[t] = again /\ status'[t] = "added" /\ age'[t] = 0
      BY <1>0, <1>1, <1>5, <2>3 DEF TimersOK
    <3>2. PICK new : new = again
      OBVIOUS
    <3>3. /\ new \in TimerType /\ Fresh(new) /\ timer'[t] = new
          /\ In(t, new.level, new.slot)'
          /\ \A k \in Levels, r \in Slots :
                 In(t, k, r)' => (k = new.level /\ r = new.slot) \/ In(t, k, r)
      BY <1>2, <2>3, <3>1, <3>2
    <3>4. \A k \in Levels, r \in Slots :
              In(t, k, r)' => (k = new.level /\ r = new.slot) \/ Passed(t, k, r)'
      <4>1. \A k \in Levels, r \in Slots : In(t, k, r) => Passed(t, k, r)'
        BY <1>1, <1>5, <2>3 DEF Passed
      <4> QED
        BY <3>3, <4>1
    <3> QED
      BY <1>0, <1>1, <3>1, <3>3, <3>4, Inserted
  <2>4. CASE t = u /\ status[u] # "cancelled" /\ ~repeats
    <3>1. status'[t] = "done"
      BY <1>0, <1>1, <1>5, <2>4 DEF TimersOK
    <3>2. \A k \in Levels, r \in Slots : In(t, k, r)' => Passed(t, k, r)'
      BY <1>1, <1>3, <1>5, <2>4 DEF Passed
    <3> QED
      BY <3>1, <3>2 DEF TimerInv, AddedPlace, RacedPlace, OtherPlace, Due
  <2> QED
    BY <2>1, <2>2, <2>3, <2>4
<1> QED
  BY <1>1, <1>6, <1>7, <1>8, <1>9, Assembled

(* What addTimer makes of a call that it accepts.                          *)
LEMMA NewTimerIs ==
    ASSUME PointersOK, NEW r \in Accepted
    PROVE  NewTimer(r) \in TimerType /\ Fresh(NewTimer(r))
<1> DEFINE T == TickNOneSlot[MaxLevel - 1]
<1>0. /\ T \in Nat /\ T > 1 /\ TimerMax \in 1 .. T - 1 /\ Delays \subseteq 0 .. T - 1 /\ Times \subseteq Int
      /\ kMillisecondsPerSecond \in Nat /\ kMillisecondsPerSecond > 0 /\ MaxLag \in Nat
  <2>1. MaxLevel - 1 \in Nat
    BY Constants
  <2> QED
    BY <2>1, Constants, WheelsGrow
<1> HIDE DEF T
<1>1. PICK call \in runAt \cup runAfter \cup runEvery : r = [ticks |-> TicksOf(call), interval |-> call.interval]
  BY DEF Accepted, Requests
<1>2. call.at \in Int /\ call.now \in Int /\ call.interval \in 0 .. T - 1
  <2>1. CASE call \in runAt
    <3>1. call.at \in Times /\ call.now \in 0 .. MaxLag /\ call.interval = 0
      BY <2>1 DEF runAt, Readings
    <3>2. call.at \in Int
      BY <1>0, <3>1
    <3>3. call.now \in Int
      BY <1>0, <3>1
    <3>4. call.interval \in 0 .. T - 1
      BY <1>0, <3>1
    <3> QED
      BY <3>2, <3>3, <3>4
  <2>2. CASE call \in runAfter
    <3>1. PICK ms \in Delays, now \in Readings : call = [at |-> addTime(0, ms), interval |-> 0, now |-> now]
      BY <2>2 DEF runAfter
    <3>2. ms \in Nat /\ now \in Int
      BY <1>0 DEF Readings
    <3>3. addTime(0, ms) \in Int
      BY <1>0, <3>2 DEF addTime
    <3> QED
      BY <1>0, <3>1, <3>2, <3>3
  <2>3. CASE call \in runEvery
    <3>1. PICK ms \in Delays, now \in Readings : call = [at |-> addTime(0, ms), interval |-> ms, now |-> now]
      BY <2>3 DEF runEvery
    <3>2. ms \in Nat /\ now \in Int /\ ms \in 0 .. T - 1
      BY <1>0 DEF Readings
    <3>3. addTime(0, ms) \in Int
      BY <1>0, <3>2 DEF addTime
    <3> QED
      BY <1>0, <3>1, <3>2, <3>3
  <2> QED
    BY <1>1, <2>1, <2>2, <2>3
<1>3. TicksOf(call) \in Nat
  <2>1. (IF call.now > call.at THEN call.now - call.at ELSE call.at - call.now) \in Nat
    BY <1>2
  <2> DEFINE d == IF call.now > call.at THEN call.now - call.at ELSE call.at - call.now
  <2> HIDE DEF d
  <2>2. d \div kMillisecondsPerSecond \in Nat
    BY <1>0, <2>1, Division DEF d
  <2> QED
    BY <2>2 DEF TicksOf, timeDiffInMillSeconds, d
<1>4. r.ticks \in Nat /\ r.ticks <= TimerMax /\ r.interval \in 0 .. T - 1
  BY <1>1, <1>2, <1>3 DEF Accepted
<1> DEFINE n == IF r.ticks = 0 THEN 1 ELSE r.ticks
<1>5. n \in 1 .. T - 1
  BY <1>0, <1>4
<1> QED
  BY <1>4, <1>5, FreshIs DEF NewTimer, T

(* An insertion leaves the wheels well formed and other timers alone.      *)
LEMMA InsertKeeps ==
    ASSUME IInv, pc # "gone", NEW u \in Timers, status[u] \in {"new", "adding"},
           NEW new \in TimerType, NEW outcome \in {"added", "raced"}, Insert(u, new, outcome),
           outcome = "added" => Fresh(new) /\ pc \in {"idle", "run"}
    PROVE  /\ slotVec_' \in [Levels -> [Slots -> SUBSET Timers]] /\ PointersOK' /\ TimersOK' /\ ThreadOK'
           /\ Phases' /\ \A t \in Timers : TimerInv(t)'
           /\ \A t \in Timers : t # u => status'[t] = status[t]
<1>0. /\ WheelsOK /\ PointersOK /\ TimersOK /\ ThreadOK /\ AddingOK /\ Phases
      /\ \A t \in Timers : TimerInv(t)
      /\ \A t \in Timers : timer[t] \in TimerType /\ timer[t].level \in Levels
      /\ slotVec_ \in [Levels -> [Slots -> SUBSET Timers]]
      /\ 0 \in Levels /\ \A l \in Levels : slotCur_[l] \in Slots
  BY Facts
<1>1. /\ timer' = [timer EXCEPT ![u] = new] /\ slotVec_' = Put(slotVec_, u, new.level, new.slot)
      /\ status' = [status EXCEPT ![u] = outcome] /\ age' = [age EXCEPT ![u] = 0]
      /\ UNCHANGED <<slotCur_, quit_, pc, level, ran>>
  BY DEF Insert, threadVars
<1>2. /\ new.level \in Levels /\ new.slot \in Slots
      /\ slotVec_' \in [Levels -> [Slots -> SUBSET Timers]]
      /\ \A t \in Timers, l \in Levels, s \in Slots :
             In(t, l, s)' <=> In(t, l, s) \/ (t = u /\ l = new.level /\ s = new.slot)
  <2>1. new.level \in Levels /\ new.slot \in Slots
    BY DEF TimerType
  <2> QED
    BY <1>0, <1>1, <2>1, PutIs
<1>3. /\ timer'[u] = new /\ status'[u] = outcome /\ age'[u] = 0
      /\ \A t \in Timers : t # u => timer'[t] = timer[t] /\ status'[t] = status[t] /\ age'[t] = age[t]
  BY <1>0, <1>1 DEF TimersOK
<1>4. u \notin ran /\ \A k \in Levels, r \in Slots : ~In(u, k, r)
  BY <1>0 DEF TimerInv, OtherPlace, Passed
<1>5. TimersOK'
  <2>1. 0 \in 0 .. AgeLimit
    BY Constants
  <2> QED
    BY <1>0, <1>1, <2>1 DEF TimersOK
<1>6. Phases'
  <2>1. \A t \in Timers : status'[t] = "added" /\ pc \in {"clear", "advance"} => t # u /\ status[t] = "added"
    BY <1>3
  <2>2. \A t \in Timers : t # u => (t \in Current(0)' <=> t \in Current(0))
    <3> SUFFICES ASSUME NEW t \in Timers, t # u PROVE t \in Current(0)' <=> t \in Current(0)
      OBVIOUS
    <3>1. In(t, 0, slotCur_[0])' <=> In(t, 0, slotCur_[0])
      <4>1. \A c \in Slots : In(t, 0, c)' <=> In(t, 0, c)
        BY <1>0, <1>2
      <4> QED
        BY <1>0, <1>1, <4>1 DEF In
    <3> QED
      BY <3>1 DEF In, Current
  <2> QED
    BY <1>0, <1>1, <2>1, <2>2 DEF Phases
<1>7. ASSUME NEW t \in Timers PROVE TimerInv(t)'
  <2>1. CASE t # u
    <3>1. \A k \in Levels, r \in Slots : In(t, k, r)' <=> In(t, k, r)
      BY <1>2, <2>1
    <3> QED
      BY <1>0, <1>1, <1>3, <2>1, <3>1, OthersKept
  <2>2. CASE t = u /\ outcome = "added"
    <3>1. /\ In(u, new.level, new.slot)'
          /\ \A k \in Levels, r \in Slots : In(u, k, r)' => k = new.level /\ r = new.slot
      BY <1>2, <1>4
    <3> QED
      BY <1>0, <1>1, <1>3, <2>2, <3>1, Inserted
  <2>3. CASE t = u /\ outcome = "raced"
    <3>1. \A k \in Levels, r \in Slots : In(u, k, r)' => k = timer'[u].level /\ r = new.slot
      BY <1>2, <1>3, <1>4
    <3>2. RacedPlace(u)'
      BY <1>1, <1>2, <1>3, <1>4, <3>1 DEF RacedPlace, In
    <3> QED
      BY <1>3, <2>3, <3>2 DEF TimerInv, AddedPlace, OtherPlace, Due
  <2> QED
    BY <2>1, <2>2, <2>3
<1> QED
  BY <1>0, <1>1, <1>2, <1>3, <1>5, <1>6, <1>7 DEF PointersOK, ThreadOK

(* A timer function adds a timer.                                          *)
LEMMA AddFromTimerIInv ==
    ASSUME NEW u \in Timers, NEW r \in Accepted PROVE IInv /\ AddFromTimer(u, r) => IInv'
<1> SUFFICES ASSUME IInv, AddFromTimer(u, r) PROVE IInv'
  OBVIOUS
<1>0. PointersOK /\ AddingOK
  BY Facts
<1>1. /\ pc = "run" /\ status[u] = "new" /\ Insert(u, NewTimer(r), "added")
      /\ adding' = adding /\ pc' = pc
  BY DEF AddFromTimer, Insert, threadVars
<1>2. PICK new \in TimerType : new = NewTimer(r) /\ Fresh(new)
  BY <1>0, NewTimerIs
<1>3. Insert(u, new, "added")
  BY <1>1, <1>2
<1>4. /\ slotVec_' \in [Levels -> [Slots -> SUBSET Timers]] /\ PointersOK' /\ TimersOK' /\ ThreadOK'
      /\ Phases' /\ \A t \in Timers : TimerInv(t)'
      /\ \A t \in Timers : t # u => status'[t] = status[t]
  BY <1>1, <1>2, <1>3, InsertKeeps
<1>5. AddingOK'
  <2>1. \A a \in adding : a.raced /\ a.t \in Timers /\ a.t # u
    BY <1>0, <1>1 DEF AddingOK
  <2> QED
    BY <1>0, <1>1, <1>4, <2>1 DEF AddingOK
<1> QED
  BY <1>1, <1>4, <1>5, Assembled

(* Another thread reads the pointers for a new timer.                      *)
LEMMA AddReadsIInv ==
    ASSUME NEW u \in Timers, NEW r \in Accepted PROVE IInv /\ AddReads(u, r) => IInv'
<1> SUFFICES ASSUME IInv, AddReads(u, r) PROVE IInv'
  OBVIOUS
<1> USE DEF wheelVars, threadVars
<1>0. /\ WheelsOK /\ PointersOK /\ TimersOK /\ ThreadOK /\ AddingOK /\ Phases
      /\ pc # "gone" => \A t \in Timers : TimerInv(t)
      /\ \A t \in Timers : timer[t] \in TimerType /\ timer[t].level \in Levels
      /\ slotVec_ \in [Levels -> [Slots -> SUBSET Timers]]
      /\ 0 \in Levels /\ \A l \in Levels : slotCur_[l] \in Slots
  BY Facts
<1>1. /\ pc # "gone" /\ adding = {} /\ status[u] = "new"
      /\ adding' = {[t |-> u, timer |-> NewTimer(r), raced |-> pc # "idle"]}
      /\ status' = [status EXCEPT ![u] = "adding"]
      /\ UNCHANGED <<slotCur_, slotVec_, timer, age, quit_, pc, level, ran>>
  BY DEF AddReads
<1>2. /\ status'[u] = "adding" /\ \A t \in Timers : t # u => status'[t] = status[t]
  BY <1>0, <1>1 DEF TimersOK
<1>3. PointersOK' /\ TimersOK' /\ ThreadOK' /\ slotVec_' \in [Levels -> [Slots -> SUBSET Timers]]
  BY <1>0, <1>1 DEF PointersOK, TimersOK, ThreadOK
<1>4. Phases'
  BY <1>0, <1>1, <1>2 DEF Phases, Current
<1>5. AddingOK'
  <2>1. PICK new \in TimerType : new = NewTimer(r) /\ Fresh(new)
    BY <1>0, NewTimerIs
  <2>2. Fresh(new)'
    BY <1>1, <2>1 DEF Fresh, SlotOf
  <2>3. adding' = {[t |-> u, timer |-> new, raced |-> pc # "idle"]}
    BY <1>1, <2>1
  <2> DEFINE b == [t |-> u, timer |-> new, raced |-> pc # "idle"]
  <2>4. b \in [t : Timers, timer : TimerType, raced : BOOLEAN] /\ b.t = u /\ b.timer = new
        /\ (~b.raced => pc = "idle")
    OBVIOUS
  <2> HIDE DEF b
  <2>5. \A a \in adding' : a = b
    BY <2>3 DEF b
  <2> QED
    BY <1>1, <1>2, <2>2, <2>4, <2>5 DEF AddingOK
<1>6. ASSUME NEW t \in Timers PROVE TimerInv(t)'
  <2>1. \A k \in Levels, s \in Slots : (In(t, k, s)' <=> In(t, k, s)) /\ (Passed(t, k, s)' <=> Passed(t, k, s))
    BY <1>1 DEF In, Passed
  <2>2. CASE t # u
    BY <1>0, <1>1, <1>2, <2>1, <2>2, OthersKept
  <2>3. CASE t = u
    BY <1>0, <1>1, <1>2, <2>1, <2>3 DEF TimerInv, AddedPlace, RacedPlace, OtherPlace, Due
  <2> QED
    BY <2>2, <2>3
<1> QED
  BY <1>1, <1>3, <1>4, <1>5, <1>6, Assembled

(* Another thread inserts the timer it has computed a slot for.            *)
LEMMA AddInsertsIInv == IInv /\ AddInserts => IInv'
<1> SUFFICES ASSUME IInv, AddInserts PROVE IInv'
  OBVIOUS
<1>1. PICK a \in adding : Insert(a.t, a.timer, IF a.raced THEN "raced" ELSE "added")
  BY DEF AddInserts
<1>2. pc # "gone" /\ adding' = {} /\ pc' = pc
  BY <1>1 DEF AddInserts, Insert, threadVars
<1>3. /\ a.t \in Timers /\ a.timer \in TimerType /\ a.raced \in BOOLEAN /\ status[a.t] = "adding"
      /\ ~a.raced => pc = "idle" /\ Fresh(a.timer)
  BY Facts DEF AddingOK
<1>4. PICK u \in Timers, new \in TimerType, outcome \in {"added", "raced"} :
          /\ u = a.t /\ new = a.timer /\ outcome = IF a.raced THEN "raced" ELSE "added"
  BY <1>3
<1>5. Insert(u, new, outcome) /\ status[u] = "adding"
      /\ (outcome = "added" => Fresh(new) /\ pc \in {"idle", "run"})
  BY <1>1, <1>3, <1>4
<1>6. /\ slotVec_' \in [Levels -> [Slots -> SUBSET Timers]] /\ PointersOK' /\ TimersOK' /\ ThreadOK'
      /\ Phases' /\ \A t \in Timers : TimerInv(t)'
  BY <1>2, <1>5, InsertKeeps
<1>7. AddingOK'
  BY <1>2 DEF AddingOK
<1> QED
  BY <1>2, <1>6, <1>7, Assembled

(* A timer is deleted from the slot it names.                              *)
LEMMA delTimerIInv == ASSUME NEW u \in Timers PROVE IInv /\ delTimer(u) => IInv'
<1> SUFFICES ASSUME IInv, delTimer(u) PROVE IInv'
  OBVIOUS
<1>0. /\ WheelsOK /\ PointersOK /\ TimersOK /\ ThreadOK /\ AddingOK /\ Phases
      /\ pc # "gone" => \A t \in Timers : TimerInv(t)
      /\ \A t \in Timers : timer[t] \in TimerType /\ timer[t].level \in Levels
      /\ slotVec_ \in [Levels -> [Slots -> SUBSET Timers]]
      /\ 0 \in Levels /\ \A l \in Levels : slotCur_[l] \in Slots
  BY Facts
<1> DEFINE k == timer[u].level
           r == timer[u].slot
<1>1. /\ pc # "gone" /\ status[u] \in {"added", "raced"}
      /\ slotVec_' = Without(slotVec_, u, k, r)
      /\ status' = [status EXCEPT ![u] = "cancelled"] /\ age' = [age EXCEPT ![u] = 0]
      /\ UNCHANGED <<slotCur_, timer, quit_, pc, level, ran, adding>>
  BY DEF delTimer, threadVars
<1>2. k \in Levels /\ r \in Slots
  BY <1>0 DEF TimerType
<1> HIDE DEF k, r
<1>3. /\ slotVec_' \in [Levels -> [Slots -> SUBSET Timers]]
      /\ \A t \in Timers, l \in Levels, s \in Slots :
             In(t, l, s)' <=> In(t, l, s) /\ ~(t = u /\ l = k /\ s = r)
  <2>1. slotVec_' = [slotVec_ EXCEPT ![k] = [slotVec_[k] EXCEPT ![r] = slotVec_[k][r] \ {u}]]
    BY <1>1 DEF Without
  <2>2. [slotVec_[k] EXCEPT ![r] = slotVec_[k][r] \ {u}] \in [Slots -> SUBSET Timers]
    BY <1>0, <1>2
  <2>3. slotVec_' \in [Levels -> [Slots -> SUBSET Timers]]
    BY <1>0, <1>2, <2>1, <2>2
  <2>4. ASSUME NEW l \in Levels, NEW s \in Slots
        PROVE  slotVec_'[l][s] = IF l = k /\ s = r THEN slotVec_[l][s] \ {u} ELSE slotVec_[l][s]
    BY <1>0, <1>2, <2>1
  <2> QED
    BY <2>3, <2>4 DEF In
<1>4. /\ status'[u] = "cancelled"
      /\ \A t \in Timers : t # u => status'[t] = status[t] /\ age'[t] = age[t]
  BY <1>0, <1>1 DEF TimersOK
<1>5. TimersOK'
  <2>1. 0 \in 0 .. AgeLimit
    BY Constants
  <2> QED
    BY <1>0, <1>1, <2>1 DEF TimersOK
<1>6. AddingOK'
  <2>1. \A a \in adding : a.t # u /\ a.t \in Timers
    BY <1>0, <1>1 DEF AddingOK
  <2>2. \A a \in adding : Fresh(a.timer)' <=> Fresh(a.timer)
    BY <1>1 DEF Fresh, SlotOf
  <2> QED
    BY <1>0, <1>1, <1>4, <2>1, <2>2 DEF AddingOK
<1>7. Phases'
  <2>1. \A t \in Timers : status'[t] = "added" => t # u /\ status[t] = "added"
    BY <1>4
  <2>2. \A t \in Timers : t \in Current(0)' => t \in Current(0)
    <3> SUFFICES ASSUME NEW t \in Timers, t \in Current(0)' PROVE t \in Current(0)
      OBVIOUS
    <3>1. \A c \in Slots : In(t, 0, c)' => In(t, 0, c)
      BY <1>0, <1>3
    <3>2. In(t, 0, slotCur_[0])' => In(t, 0, slotCur_[0])
      BY <1>0, <1>1, <3>1 DEF In
    <3> QED
      BY <3>2 DEF In, Current
  <2> QED
    BY <1>0, <1>1, <2>1, <2>2 DEF Phases
<1>8. ASSUME NEW t \in Timers PROVE TimerInv(t)'
  <2>1. CASE t # u
    <3>1. \A l \in Levels, s \in Slots : In(t, l, s)' <=> In(t, l, s)
      BY <1>3, <2>1
    <3> QED
      BY <1>0, <1>1, <1>4, <2>1, <3>1, OthersKept
  <2>2. CASE t = u
    BY <1>4, <2>2 DEF TimerInv, AddedPlace, RacedPlace, OtherPlace, Due
  <2> QED
    BY <2>1, <2>2
<1> QED
  BY <1>0, <1>1, <1>3, <1>5, <1>6, <1>7, <1>8, Assembled DEF PointersOK, ThreadOK

(* Every step preserves the invariant.                                     *)
LEMMA NextIInv == IInv /\ [Next]_vars => IInv'
<1> SUFFICES ASSUME IInv, [Next]_vars PROVE IInv'
  OBVIOUS
<1>0. /\ WheelsOK /\ PointersOK /\ TimersOK /\ ThreadOK /\ AddingOK /\ Phases
      /\ pc # "gone" => \A t \in Timers : TimerInv(t)
      /\ \A t \in Timers : timer[t] \in TimerType /\ timer[t].level \in Levels
      /\ slotVec_ \in [Levels -> [Slots -> SUBSET Timers]]
      /\ 0 \in Levels /\ \A l \in Levels : slotCur_[l] \in Slots
  BY Facts
<1> USE DEF wheelVars, timerVars, threadVars
<1>a. ASSUME PointersOK', slotVec_' \in [Levels -> [Slots -> SUBSET Timers]], TimersOK', ThreadOK',
             AddingOK', Phases', \A t \in Timers : TimerInv(t)', pc' # "gone"
      PROVE  IInv'
  BY <1>a, Assembled
(* Nothing but where the thread is changes.                                *)
<1>b. ASSUME pc # "gone", UNCHANGED <<wheelVars, timerVars>>, ran' \subseteq ran,
             \A t \in Timers, k \in Levels, r \in Slots : Passed(t, k, r)' <=> Passed(t, k, r),
             ~BeforeMove \/ BeforeMove' \/ MaxLevel = 1
      PROVE  \A t \in Timers : TimerInv(t)'
  <2> SUFFICES ASSUME NEW t \in Timers PROVE TimerInv(t)'
    OBVIOUS
  <2>1. \A k \in Levels, r \in Slots : In(t, k, r)' <=> In(t, k, r)
    BY <1>b DEF In
  <2>2. MaxLevel = 1 => timer[t].level # 1
    BY <1>0 DEF Levels
  <2> QED
    BY <1>0, <1>b, <2>1, <2>2, Kept
<1>1. CASE StartTick
  <2>1. /\ pc = "idle" /\ pc' = "check" /\ level' = MaxLevel - 1
        /\ adding' = {[a EXCEPT !.raced = TRUE] : a \in adding}
        /\ UNCHANGED <<wheelVars, timerVars, quit_, ran>>
    BY <1>1 DEF StartTick
  <2>2. PointersOK' /\ slotVec_' \in [Levels -> [Slots -> SUBSET Timers]] /\ TimersOK'
    BY <1>0, <2>1 DEF PointersOK, TimersOK
  <2>3. ThreadOK' /\ Phases'
    BY <1>0, <2>1, Constants DEF ThreadOK, Phases, Levels
  <2>4. AddingOK'
    <3> DEFINE marked(a) == [a EXCEPT !.raced = TRUE]
    <3>1. ASSUME NEW a \in adding
          PROVE  /\ marked(a) \in [t : Timers, timer : TimerType, raced : BOOLEAN]
                 /\ marked(a).raced = TRUE /\ status'[marked(a).t] = "adding"
      <4>1. a \in [t : Timers, timer : TimerType, raced : BOOLEAN] /\ status[a.t] = "adding"
        BY <1>0 DEF AddingOK
      <4> QED
        BY <2>1, <4>1
    <3>2. \A a, b \in adding' : a = b
      BY <1>0, <2>1 DEF AddingOK
    <3> QED
      BY <2>1, <3>1, <3>2 DEF AddingOK
  <2>5. \A t \in Timers : TimerInv(t)'
    <3>1. \A t \in Timers, k \in Levels, r \in Slots : Passed(t, k, r)' <=> Passed(t, k, r)
      BY <2>1 DEF Passed
    <3>2. BeforeMove' \/ MaxLevel = 1
      BY <2>1, Constants DEF BeforeMove
    <3> QED
      BY <1>b, <2>1, <3>1, <3>2
  <2> QED
    BY <1>a, <2>1, <2>2, <2>3, <2>4, <2>5
<1>2. CASE StartRunSlot
  <2>1. /\ pc = "check" /\ level = 0 /\ pc' = "run" /\ ran' = {}
        /\ UNCHANGED <<wheelVars, timerVars, quit_, level, adding>>
    BY <1>2 DEF StartRunSlot
  <2>2. PointersOK' /\ slotVec_' \in [Levels -> [Slots -> SUBSET Timers]] /\ TimersOK'
    BY <1>0, <2>1 DEF PointersOK, TimersOK
  <2>3. ThreadOK' /\ Phases'
    BY <1>0, <2>1 DEF ThreadOK, Phases
  <2>4. AddingOK'
    BY <1>0, <2>1 DEF AddingOK
  <2>5. \A t \in Timers : TimerInv(t)'
    <3>1. \A t \in Timers, k \in Levels, r \in Slots : Passed(t, k, r)' <=> Passed(t, k, r)
      BY <2>1 DEF Passed
    <3>2. ~BeforeMove
      BY <2>1 DEF BeforeMove
    <3> QED
      BY <1>b, <2>1, <3>1, <3>2
  <2> QED
    BY <1>a, <2>1, <2>2, <2>3, <2>4, <2>5
<1>3. CASE EndRunSlot
  <2>1. /\ pc = "run" /\ Current(0) \subseteq ran /\ pc' = "clear"
        /\ UNCHANGED <<wheelVars, timerVars, quit_, level, ran, adding>>
    BY <1>3 DEF EndRunSlot
  <2>2. PointersOK' /\ slotVec_' \in [Levels -> [Slots -> SUBSET Timers]] /\ TimersOK'
    BY <1>0, <2>1 DEF PointersOK, TimersOK
  <2>3. ThreadOK' /\ Phases'
    BY <1>0, <2>1 DEF ThreadOK, Phases, Current
  <2>4. AddingOK'
    BY <1>0, <2>1 DEF AddingOK
  <2>5. \A t \in Timers : TimerInv(t)'
    <3>1. \A t \in Timers, k \in Levels, r \in Slots : Passed(t, k, r)' <=> Passed(t, k, r)
      BY <2>1 DEF Passed
    <3>2. ~BeforeMove
      BY <2>1 DEF BeforeMove
    <3> QED
      BY <1>b, <2>1, <3>1, <3>2
  <2> QED
    BY <1>a, <2>1, <2>2, <2>3, <2>4, <2>5
<1>4. CASE stop
  <2>1. /\ pc # "gone" /\ quit_' = TRUE
        /\ UNCHANGED <<wheelVars, timerVars, pc, level, ran, adding>>
    BY <1>4 DEF stop
  <2>2. PointersOK' /\ slotVec_' \in [Levels -> [Slots -> SUBSET Timers]] /\ TimersOK'
    BY <1>0, <2>1 DEF PointersOK, TimersOK
  <2>3. ThreadOK' /\ Phases'
    BY <1>0, <2>1 DEF ThreadOK, Phases, Current
  <2>4. AddingOK'
    <3>1. \A a \in adding : Fresh(a.timer) => Fresh(a.timer)'
      BY <2>1 DEF Fresh, SlotOf
    <3> QED
      BY <1>0, <2>1, <3>1 DEF AddingOK, Fresh, SlotOf
  <2>5. \A t \in Timers : TimerInv(t)'
    <3>1. \A t \in Timers, k \in Levels, r \in Slots : Passed(t, k, r)' <=> Passed(t, k, r)
      BY <2>1 DEF Passed
    <3>2. BeforeMove' <=> BeforeMove
      BY <2>1 DEF BeforeMove
    <3> QED
      BY <1>b, <2>1, <3>1, <3>2
  <2> QED
    BY <1>a, <2>1, <2>2, <2>3, <2>4, <2>5
<1>5. CASE delAll
  <2>1. /\ pc = "ended" /\ pc' = "gone" /\ slotVec_' = [l \in Levels |-> [s \in Slots |-> {}]]
        /\ UNCHANGED <<slotCur_, timerVars, quit_, level, ran, adding>>
    BY <1>5 DEF delAll
  <2>2. NeverLate'
    <3>1. NeverLate
      BY <1>0, <2>1, AllNotLate
    <3> QED
      BY <2>1, <3>1 DEF NeverLate
  <2>3. WheelsOK' /\ TimersOK' /\ ThreadOK' /\ Phases'
    BY <1>0, <2>1 DEF WheelsOK, PointersOK, TimersOK, ThreadOK, Phases
  <2>4. AddingOK'
    BY <1>0, <2>1 DEF AddingOK
  <2> QED
    BY <2>1, <2>2, <2>3, <2>4 DEF IInv
<1>6. CASE UNCHANGED vars
  <2>1. UNCHANGED <<wheelVars, timerVars, pc, quit_, level, ran, adding>>
    BY <1>6 DEF vars
  <2>2. PointersOK' /\ slotVec_' \in [Levels -> [Slots -> SUBSET Timers]] /\ TimersOK'
    BY <1>0, <2>1 DEF PointersOK, TimersOK
  <2>3. ThreadOK' /\ Phases'
    BY <1>0, <2>1 DEF ThreadOK, Phases, Current
  <2>4. AddingOK'
    BY <1>0, <2>1 DEF AddingOK, Fresh, SlotOf
  <2>5. CASE pc # "gone"
    <3>1. \A t \in Timers, k \in Levels, r \in Slots : Passed(t, k, r)' <=> Passed(t, k, r)
      BY <2>1 DEF Passed
    <3>2. BeforeMove' <=> BeforeMove
      BY <2>1 DEF BeforeMove
    <3>3. \A t \in Timers : TimerInv(t)'
      BY <1>b, <2>1, <2>5, <3>1, <3>2
    <3> QED
      BY <1>a, <2>1, <2>2, <2>3, <2>4, <2>5, <3>3
  <2>6. CASE pc = "gone"
    <3>1. NeverLate'
      BY <2>1, <2>6 DEF IInv, NeverLate
    <3> QED
      BY <2>1, <2>2, <2>3, <2>4, <2>6, <3>1 DEF IInv, WheelsOK
  <2> QED
    BY <2>5, <2>6
<1> QED
  BY <1>1, <1>2, <1>3, <1>4, <1>5, <1>6, ClearSlotIInv, AdvanceIInv, checkCurSlotIInv, RunTimerIInv,
     AddFromTimerIInv, AddReadsIInv, AddInsertsIInv, delTimerIInv
  DEF Next, WheelThread, Calls

-------------------------------------------------------------------------------
(* What follows.                                                           *)

(* The types follow.                                                       *)
LEMMA TypeFollows == IInv => TypeOK
<1> SUFFICES ASSUME IInv PROVE TypeOK
  OBVIOUS
<1>0. WheelsOK /\ TimersOK /\ ThreadOK /\ AddingOK
  BY DEF IInv
<1>1. Cardinality(adding) <= 1
  <2>1. CASE adding = {}
    BY <2>1, FS_EmptySet
  <2>2. CASE adding # {}
    <3>1. PICK a \in adding : adding = {a}
      BY <1>0, <2>2 DEF AddingOK
    <3> QED
      BY <3>1, FS_Singleton
  <2> QED
    BY <2>1, <2>2
<1> QED
  BY <1>0, <1>1 DEF TypeOK, WheelsOK, PointersOK, TimersOK, ThreadOK, TimerType

(* A timer in its place is in one place only.                              *)
LEMMA OnePlaceFollows == IInv => OnePlace
<1> SUFFICES ASSUME IInv, pc = "idle", NEW t \in Timers
             PROVE  /\ status[t] = "added" => \E s \in Slots : Places(t) = {<<timer[t].level, s>>}
                    /\ status[t] = "raced" => Cardinality(Places(t)) <= 1
                    /\ status[t] \in {"new", "adding", "done"} => Places(t) = {}
  BY DEF OnePlace
<1>1. TimerInv(t) /\ timer[t].level \in Levels /\ \A k \in Levels, r \in Slots : ~Passed(t, k, r)
  BY Facts DEF Passed
<1>2. /\ \A k \in Levels, r \in Slots : <<k, r>> \in Places(t) <=> In(t, k, r)
      /\ \A p \in Places(t) : \E k \in Levels, r \in Slots : p = <<k, r>> /\ In(t, k, r)
  BY DEF Places, In
<1>3. ASSUME status[t] = "added" PROVE \E s \in Slots : Places(t) = {<<timer[t].level, s>>}
  <2>1. PICK s \in Slots : Home(t, s)
    BY <1>1, <1>3 DEF TimerInv, AddedPlace
  <2>2. In(t, timer[t].level, s) /\ \A k \in Levels, r \in Slots : In(t, k, r) => k = timer[t].level /\ r = s
    BY <1>1, <2>1 DEF Home
  <2> QED
    BY <1>1, <1>2, <2>2
<1>4. ASSUME status[t] = "raced" PROVE Cardinality(Places(t)) <= 1
  <2>1. \A p, q \in Places(t) : p = q
    BY <1>1, <1>2, <1>4 DEF TimerInv, RacedPlace
  <2>2. CASE Places(t) = {}
    BY <2>2, FS_EmptySet
  <2>3. CASE Places(t) # {}
    <3>1. PICK p \in Places(t) : Places(t) = {p}
      BY <2>1, <2>3
    <3>2. Cardinality({p}) = 1
      BY FS_Singleton
    <3> QED
      BY <3>1, <3>2
  <2> QED
    BY <2>2, <2>3
<1>5. ASSUME status[t] \in {"new", "adding", "done"} PROVE Places(t) = {}
  BY <1>1, <1>2, <1>5 DEF TimerInv, OtherPlace
<1> QED
  BY <1>3, <1>4, <1>5

(* A timer in its place is due when it runs.                               *)
LEMMA RunsWhenDueFollows == IInv => RunsWhenDue
<1> SUFFICES ASSUME IInv PROVE RunsWhenDue
  OBVIOUS
<1>0. PointersOK /\ TimersOK /\ 0 \in Levels /\ slotCur_[0] \in Slots
  BY Facts
<1>1. NeverLate
  BY Facts, AllNotLate DEF IInv
<1>2. ASSUME NEW t \in Timers, Firing(t), timer[t].tickNum < TickNOneSlot[1]
      PROVE  DueLowest(timer[t].tickNum, age[t], 0)
  <2>1. /\ TimerInv(t) /\ status[t] = "added" /\ timer[t].level = 0 /\ t \notin ran
        /\ In(t, 0, slotCur_[0])
    BY <1>2, Facts DEF Firing, Current, In
  <2>2. PICK s \in Slots : Home(t, s)
    BY <2>1 DEF TimerInv, AddedPlace
  <2>3. s = slotCur_[0] /\ Ahead(0, s) = 0
    <3>1. s = slotCur_[0]
      BY <1>0, <2>1, <2>2 DEF Home, Passed
    <3> QED
      BY <1>0, <3>1, AheadIs
  <2>4. DueAt(t, s)
    BY <1>2, <2>1, <2>2 DEF TimerInv, Due
  <2> QED
    BY <2>1, <2>3, <2>4 DEF DueAt
<1>3. SlotNum \in Nat /\ SlotNum <= TickNOneSlot[1] /\ TickNOneSlot[1] \in Nat
  BY Constants, WheelsGrow
<1>4. \A t \in Timers : timer[t].tickNum \in Nat /\ age[t] \in Nat
  BY <1>0 DEF TimersOK, TimerType
<1>5. ExactInLowestWheel
  <2> SUFFICES ASSUME NEW t \in Timers, Firing(t), timer[t].tickNum < SlotNum
               PROVE  age[t] = timer[t].tickNum
    BY DEF ExactInLowestWheel
  <2>1. timer[t].tickNum < TickNOneSlot[1]
    BY <1>3, <1>4
  <2> QED
    BY <1>2, <1>4, <2>1 DEF DueLowest
<1>6. EarlyByLessThanARound
  <2> SUFFICES ASSUME NEW t \in Timers, Firing(t), timer[t].tickNum < TickNOneSlot[1]
               PROVE  timer[t].tickNum - age[t] < SlotNum
    BY DEF EarlyByLessThanARound
  <2> QED
    BY <1>2, <1>3, <1>4 DEF DueLowest
<1> QED
  BY <1>1, <1>5, <1>6 DEF RunsWhenDue

(* Inductive: where every timer is, how much of its delay is left there,   *)
(* and what the other thread knows of the wheels.                          *)
THEOREM SpecIInv == Spec => []IInv
  BY InitIInv, NextIInv, PTL DEF Spec

(* The wheels, pointers and timers keep their ranges: the arithmetic of    *)
(* calculatePosByTicks and addTimerToLower (TimerWheel.cc:16-67) never     *)
(* leaves the vectors.                                                     *)
THEOREM TypeCorrect == Spec => []TypeOK
  BY SpecIInv, TypeFollows, PTL

(* Between two ticks a timer that was added is in exactly one slot, of the *)
(* wheel its level_ names; nothing is left of one that is done; one whose  *)
(* addTimer overlapped a tick is not doubled (TimerWheel.cc:42-67, 85-95,  *)
(* 98-130).                                                                *)
THEOREM PlaceIsOne == Spec => []OnePlace
  BY SpecIInv, OnePlaceFollows, PTL

(* A timer of the two lowest wheels that was added between two ticks or by *)
(* a timer function runs exactly on time if it was put into the lowest     *)
(* wheel, and otherwise early by less than a round of it, never late       *)
(* (TimerWheel.cc:42-67, 177-187), whatever other timers do.               *)
THEOREM AlwaysRunsWhenDue == Spec => []RunsWhenDue
  BY SpecIInv, RunsWhenDueFollows, PTL
===============================================================================
