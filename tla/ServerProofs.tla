----------------------------- MODULE ServerProofs -----------------------------
(***************************************************************************)
(* For any number of threads, clients and descriptors: the pool hands out  *)
(* loops that exist, and hands them out evenly.                            *)
(***************************************************************************)
EXTENDS Server, SequenceTheorems, TLAPS

USE ThreadsOK DEF ThreadsOK

-------------------------------------------------------------------------------
(* The invariant.                                                          *)

OwnerPlaces == Places \cup {"listen", "baseLoop", "destroy", "quit", "join", "end"}

TypeOK ==
    /\ owner \in [at : OwnerPlaces, m : Nat]
    /\ running_ \in [Members -> BOOLEAN] /\ latch_ \in [Members -> Int]
    /\ loop_ \in [Members -> BOOLEAN] /\ quit_ \in [Members -> BOOLEAN]
    /\ at \in [Members -> {"none", "created", "run", "published", "looping", "left", "ended"}]
    /\ loops_ \in Seq(Loops) /\ nextLoopIndex_ \in Nat
    /\ served \in [AllLoops -> Nat]

Serving == owner.at \in Places \cup {"listen", "baseLoop"}

(* Until the pool is destroyed nobody tells a loop to quit, so that a loop *)
(* that has been published goes on.                                        *)
NobodyQuits ==
    Serving => \A m \in Members :
        /\ ~quit_[m] /\ at[m] \notin {"left", "ended"}
        /\ loop_[m] => at[m] \in {"published", "looping"}

(* The vector holds the loops of the threads in the order in which they    *)
(* are started, as far as the owner has come.                              *)
InOrder ==
    /\ \A k \in 1 .. Len(loops_) : loops_[k] = k
    /\ owner.at \in Places => owner.m \in Members /\ Len(loops_) = owner.m - 1
    /\ owner.at \notin Places => Len(loops_) = ThreadNum
    /\ Serving => \A k \in 1 .. Len(loops_) : loop_[k]

(* The threads behind the owner's have not been created.                   *)
NotYet(m) == m > owner.m \/ (m = owner.m /\ owner.at = "start")
RestNotCreated == owner.at \in Places => \A m \in Members : NotYet(m) => at[m] = "none"

(* The loops in front of the index are one round ahead of the others.      *)
Ahead(l) == IF l <= nextLoopIndex_ THEN 1 ELSE 0

InTurn ==
    /\ nextLoopIndex_ = 0 \/ (owner.at \notin Places /\ nextLoopIndex_ < ThreadNum)
    /\ handle # "out" => owner = Place("baseLoop", 0)
    /\ \A l, k \in Loops : served[l] + Ahead(k) = served[k] + Ahead(l)

IInv == TypeOK /\ NobodyQuits /\ InOrder /\ RestNotCreated /\ InTurn

-------------------------------------------------------------------------------
(* The owner's places.                                                     *)

(* The threads of the pool are numbered from 1.                            *)
LEMMA MembersAre == Members \subseteq Nat /\ Loops \subseteq Members /\ 0 \notin Members
  BY DEF Members, Loops, Wheels

(* When one thread has started the next is, or the pool is complete.       *)
LEMMA AfterStartIs ==
    ASSUME NEW m \in Nat, m = 0 \/ m \in Members
    PROVE  /\ AfterStart(m) \in [at : OwnerPlaces, m : Nat]
           /\ \/ AfterStart(m) = Place("start", m + 1) /\ m + 1 \in Members /\ (m = 0 \/ m \in Loops)
              \/ AfterStart(m) = Place("listen", 0) /\ m = (IF m \in Loops \/ m = 0 THEN ThreadNum ELSE Wheels)
  BY DEF AfterStart, Members, Loops, Wheels, Place, OwnerPlaces, Places

(* When one thread is destroyed the next is, or the pool is gone.          *)
LEMMA AfterDestroyedIs ==
    ASSUME NEW m \in Nat, m = 0 \/ m \in Members
    PROVE  /\ AfterDestroyed(m) \in [at : OwnerPlaces, m : Nat]
           /\ AfterDestroyed(m).at \in {"destroy", "end"}
<1>1. Wheels \in Nat /\ m + 1 \in Nat /\ Loops \subseteq Nat
  BY DEF Wheels, Loops
<1> QED
  BY <1>1 DEF AfterDestroyed, Place, OwnerPlaces, Places

-------------------------------------------------------------------------------
(* The steps.                                                              *)

(* The invariant holds at first.                                           *)
LEMMA InitIInv == Init => IInv
<1> SUFFICES ASSUME Init PROVE IInv
  OBVIOUS
<1> USE DEF Init, EmptyPool, NoThreads, NewThreads, NoObjects, NewAcceptor
<1>1. /\ owner \in [at : OwnerPlaces, m : Nat]
      /\ \/ owner = Place("start", 1) /\ 1 \in Members
         \/ owner = Place("listen", 0) /\ ThreadNum = 0
  BY AfterStartIs, MembersAre DEF Loops
<1>2. TypeOK
  BY <1>1 DEF TypeOK
<1>3. NobodyQuits
  BY <1>1 DEF NobodyQuits
<1>4. InOrder
  BY <1>1 DEF InOrder, Place, Places
<1>5. InTurn
  BY MembersAre DEF InTurn, Ahead, AllLoops, Loops
<1>6. RestNotCreated
  BY DEF RestNotCreated
<1> QED
  BY <1>2, <1>3, <1>4, <1>5, <1>6 DEF IInv

(* What the invariant has left to see to when the pool and the connections *)
(* are as they were.                                                       *)
LEMMA PoolKept ==
    ASSUME IInv, UNCHANGED <<poolVars, served>>, owner' \in [at : OwnerPlaces, m : Nat],
           handle' # "out" => owner' = Place("baseLoop", 0),
           owner'.at \in Places => owner.at \in Places /\ owner'.m = owner.m,
           owner.at \in Places => owner'.at \in Places,
           Serving' => Serving,
           \A k \in Loops : loop_[k] /\ Serving' => loop_'[k]
    PROVE  InOrder' /\ InTurn'
<1>1. /\ loops_ \in Seq(Loops) /\ UNCHANGED <<loops_, nextLoopIndex_, served>>
      /\ InOrder /\ InTurn
  BY DEF IInv, TypeOK, poolVars
<1>2. \A k \in 1 .. Len(loops_) : loops_[k] = k /\ k \in Loops
  BY <1>1 DEF InOrder
<1> QED
  BY <1>1, <1>2 DEF InOrder, InTurn, Ahead

(* Every step preserves the invariant.                                     *)
LEMMA NextIInv == IInv /\ [Next]_vars => IInv'
<1> SUFFICES ASSUME IInv, [Next]_vars PROVE IInv'
  OBVIOUS
<1>0. TypeOK /\ NobodyQuits /\ InOrder /\ RestNotCreated /\ InTurn
  BY DEF IInv
<1> USE DEF threadVars, poolVars
<1>1. ASSUME NEW m \in Members, Start(m), UNCHANGED <<acceptVars, connVars>> PROVE IInv'
  <2>0. m \in Nat /\ UNCHANGED <<handle, served>>
    BY <1>1, MembersAre DEF acceptVars, connVars
  <2>1. CASE StartThread(m)
    <3>1. /\ owner = Place("start", m) /\ owner' = Place("latch", m)
          /\ UNCHANGED <<latch_, loop_, quit_, loops_, nextLoopIndex_>>
          /\ \/ UNCHANGED <<running_, at>>
             \/ running_' = [running_ EXCEPT ![m] = TRUE] /\ at' = [at EXCEPT ![m] = "created"]
      BY <1>1, <2>1 DEF StartThread, Start, Started, GotLoop, OwnerGoes, Place
    <3>2. owner.at = "start" /\ owner.m = m /\ owner'.at = "latch" /\ owner'.m = m
      BY <3>1 DEF Place
    <3>3. TypeOK'
      BY <1>0, <2>0, <3>1 DEF TypeOK, OwnerPlaces, Places, Place
    <3>4. ~loop_[m] /\ \A k \in Members : k # m => at'[k] = at[k]
      BY <1>0, <3>1, <3>2 DEF RestNotCreated, NobodyQuits, NotYet, Serving, Places, TypeOK
    <3>5. at'[m] \in {at[m], "created"} /\ at[m] = "none"
      BY <1>0, <3>1, <3>2 DEF RestNotCreated, NotYet, Places, TypeOK
    <3>6. NobodyQuits'
      BY <1>0, <3>1, <3>2, <3>4, <3>5 DEF NobodyQuits, Serving, Places
    <3>7. RestNotCreated'
      BY <1>0, <2>0, <3>2, <3>4, MembersAre DEF RestNotCreated, NotYet, Places
    <3>8. InOrder' /\ InTurn'
      BY <1>0, <2>0, <3>1, <3>2, <3>3, PoolKept DEF Serving, Places, TypeOK, InTurn, Place
    <3> QED
      BY <3>3, <3>6, <3>7, <3>8 DEF IInv
  <2>2. CASE LatchWait(m) \/ LoopWait(m)
    <3>1. /\ UNCHANGED <<threadVars, poolVars>>
          /\ owner.at \in Places \ {"start"} /\ owner'.at \in Places \ {"start"}
          /\ owner.m = m /\ owner'.m = m /\ owner' \in [at : OwnerPlaces, m : Nat]
      BY <1>1, <2>0, <2>2
         DEF LatchWait, LoopWait, Start, Started, GotLoop, OwnerGoes, Place, Places, OwnerPlaces
    <3>2. TypeOK' /\ NobodyQuits' /\ RestNotCreated'
      BY <1>0, <2>0, <3>1 DEF TypeOK, NobodyQuits, RestNotCreated, NotYet, Serving
    <3>3. handle = "out"
      BY <1>0, <3>1 DEF InTurn, Place, Places
    <3>4. InOrder' /\ InTurn'
      BY <1>0, <2>0, <3>1, <3>3, PoolKept DEF Serving
    <3> QED
      BY <3>2, <3>4 DEF IInv
  <2>3. CASE Started(m)
    <3>1. /\ owner = Place("loop", m) /\ owner' = AfterStart(m) /\ loop_[m]
          /\ UNCHANGED <<threadVars, nextLoopIndex_>>
          /\ loops_' = IF m \in Loops THEN Append(loops_, m) ELSE loops_
      BY <2>3 DEF Started, GotLoop, OwnerGoes
    <3>2. /\ owner.at = "loop" /\ owner.m = m /\ owner' \in [at : OwnerPlaces, m : Nat]
          /\ \/ owner' = Place("start", m + 1) /\ m + 1 \in Members /\ m \in Loops
             \/ owner' = Place("listen", 0) /\ m = (IF m \in Loops THEN ThreadNum ELSE Wheels)
      BY <2>0, <3>1, AfterStartIs, MembersAre DEF Place
    <3>3. /\ loops_ \in Seq(Loops) /\ Len(loops_) = m - 1 /\ Len(loops_) \in Nat
          /\ \A k \in 1 .. Len(loops_) : loops_[k] = k /\ loop_[k]
      BY <1>0, <3>2 DEF TypeOK, InOrder, Places, Serving
    <3>4. /\ loops_' \in Seq(Loops) /\ Len(loops_') = (IF m \in Loops THEN m ELSE m - 1)
          /\ \A k \in 1 .. Len(loops_') : loops_'[k] = k /\ loop_[k]
      <4>1. CASE m \in Loops
        <5>1. /\ loops_' \in Seq(Loops) /\ Len(loops_') = Len(loops_) + 1
              /\ \A k \in 1 .. Len(loops_) : loops_'[k] = loops_[k]
              /\ loops_'[Len(loops_) + 1] = m
          BY <3>1, <3>3, <4>1, AppendProperties
        <5> QED
          BY <2>0, <3>1, <3>3, <4>1, <5>1
      <4>2. CASE m \notin Loops
        BY <3>1, <3>3, <4>2
      <4> QED
        BY <4>1, <4>2
    <3>5. TypeOK' /\ NobodyQuits'
      BY <1>0, <2>0, <3>1, <3>2, <3>4 DEF TypeOK, NobodyQuits, Serving, Places
    <3>6. InOrder'
      BY <2>0, <3>1, <3>2, <3>4 DEF InOrder, Place, Places, Serving, Loops, Wheels
    <3>7. RestNotCreated'
      BY <1>0, <2>0, <3>1, <3>2, MembersAre DEF RestNotCreated, NotYet, Place, Places
    <3>8. InTurn'
      BY <1>0, <2>0, <3>1, <3>2 DEF InTurn, Ahead, Place, Places
    <3> QED
      BY <3>5, <3>6, <3>7, <3>8 DEF IInv
  <2> QED
    BY <1>1, <2>1, <2>2, <2>3 DEF Start
<1>2. ASSUME owner = Place("listen", 0) \/ (owner = Place("baseLoop", 0) /\ handle = "out"),
             UNCHANGED <<threadVars, poolVars, served>>, handle' = handle,
             owner' = Place("baseLoop", 0) \/ owner' = AfterDestroyed(0)
      PROVE  IInv'
  <2>1. owner' \in [at : OwnerPlaces, m : Nat] /\ owner'.at \notin Places /\ owner.at \notin Places
    BY <1>2, AfterDestroyedIs DEF Place, OwnerPlaces, Places
  <2>2. Serving /\ handle = "out"
    BY <1>0, <1>2 DEF InTurn, Serving, Place
  <2>3. TypeOK' /\ NobodyQuits' /\ RestNotCreated'
    BY <1>0, <1>2, <2>1, <2>2 DEF TypeOK, NobodyQuits, RestNotCreated
  <2>4. InOrder' /\ InTurn'
    BY <1>2, <2>1, <2>2, PoolKept
  <2> QED
    BY <2>3, <2>4 DEF IInv
<1>3. CASE newConnection
  <2>1. /\ UNCHANGED <<owner, threadVars, loops_, handle>> /\ handle # "out"
        /\ served' = [served EXCEPT ![getLoop] = @ + 1] /\ nextLoopIndex_' = NextIndex
    BY <1>3 DEF newConnection, accept, HandleGoes
  <2>2. /\ owner.at = "baseLoop" /\ Len(loops_) = ThreadNum /\ loops_ \in Seq(Loops)
        /\ \A k \in 1 .. ThreadNum : loops_[k] = k
        /\ nextLoopIndex_ = 0 \/ nextLoopIndex_ < ThreadNum
        /\ nextLoopIndex_ \in Nat
    BY <1>0, <2>1 DEF TypeOK, InOrder, InTurn, Place, Places
  <2>3. NobodyQuits' /\ InOrder' /\ RestNotCreated'
    BY <1>0, <2>1 DEF NobodyQuits, InOrder, RestNotCreated, NotYet, Serving
  <2>4. CASE ThreadNum = 0
    <3>1. Loops = {} /\ loops_ = <<>>
      BY <2>2, <2>4 DEF Loops
    <3>2. getLoop = Base /\ nextLoopIndex_' = nextLoopIndex_
      BY <2>1, <3>1 DEF getLoop, NextIndex
    <3>3. TypeOK'
      BY <1>0, <2>1, <3>2 DEF TypeOK, AllLoops
    <3>4. InTurn'
      BY <1>0, <2>1, <3>1, <3>2 DEF InTurn
    <3> QED
      BY <2>3, <3>3, <3>4 DEF IInv
  <2>5. CASE ThreadNum # 0
    <3>1. loops_ # <<>> /\ nextLoopIndex_ + 1 \in 1 .. ThreadNum
      BY <2>2, <2>5
    <3>2. getLoop = nextLoopIndex_ + 1 /\ getLoop \in Loops
      BY <2>2, <3>1 DEF getLoop, Loops
    <3>3. nextLoopIndex_' = IF nextLoopIndex_ + 1 >= ThreadNum THEN 0 ELSE nextLoopIndex_ + 1
      BY <2>1, <2>2, <3>1 DEF NextIndex
    <3>4. /\ served' \in [AllLoops -> Nat]
          /\ \A l \in Loops : /\ served[l] \in Nat
                              /\ served'[l] = IF l = nextLoopIndex_ + 1 THEN served[l] + 1 ELSE served[l]
      BY <1>0, <2>1, <3>2 DEF TypeOK, AllLoops
    <3>5. TypeOK'
      BY <1>0, <2>1, <2>2, <3>3, <3>4 DEF TypeOK
    <3>6. \A l, k \in Loops : served'[l] + Ahead(k)' = served'[k] + Ahead(l)'
      <4> SUFFICES ASSUME NEW l \in Loops, NEW k \in Loops
                   PROVE  served'[l] + Ahead(k)' = served'[k] + Ahead(l)'
        OBVIOUS
      <4>1. served[l] + Ahead(k) = served[k] + Ahead(l) /\ l \in 1 .. ThreadNum /\ k \in 1 .. ThreadNum
        BY <1>0 DEF InTurn, Loops
      <4> QED
        BY <2>2, <3>1, <3>3, <3>4, <4>1 DEF Ahead
    <3>7. InTurn'
      BY <1>0, <2>1, <2>2, <3>1, <3>3, <3>6 DEF InTurn, Places
    <3> QED
      BY <2>3, <3>5, <3>7 DEF IInv
  <2> QED
    BY <2>4, <2>5
<1>4. ASSUME UNCHANGED <<owner, threadVars, poolVars, served>>,
             handle' = handle \/ owner = Place("baseLoop", 0)
      PROVE  IInv'
  <2>1. TypeOK' /\ NobodyQuits' /\ RestNotCreated'
    BY <1>0, <1>4 DEF TypeOK, NobodyQuits, RestNotCreated, NotYet, Serving
  <2>2. InOrder' /\ InTurn'
    BY <1>0, <1>4 DEF InOrder, InTurn, Ahead, Serving
  <2> QED
    BY <2>1, <2>2 DEF IInv
<1>5. ASSUME NEW m \in Members, Destruct(m), UNCHANGED <<acceptVars, connVars>> PROVE IInv'
  <2>0. m \in Nat /\ UNCHANGED <<handle, served, poolVars>>
    BY <1>5, MembersAre DEF acceptVars, connVars, Destruct
  <2>1. /\ owner.at \in {"destroy", "quit", "join"} /\ owner'.at \in {"destroy", "quit", "join", "end"}
        /\ owner' \in [at : OwnerPlaces, m : Nat]
        /\ UNCHANGED <<running_, latch_, loop_, at>>
        /\ quit_' = quit_ \/ quit_' = [quit_ EXCEPT ![m] = TRUE]
    BY <1>5, <2>0, AfterDestroyedIs
       DEF Destruct, Destroy, quitLoop, Join, OwnerGoes, Place, OwnerPlaces, Places
  <2>2. ~Serving /\ ~Serving' /\ owner.at \notin Places /\ owner'.at \notin Places /\ handle = "out"
    BY <1>0, <2>1 DEF Serving, Places, InTurn, Place
  <2>3. TypeOK' /\ NobodyQuits' /\ RestNotCreated'
    BY <1>0, <2>0, <2>1, <2>2 DEF TypeOK, NobodyQuits, RestNotCreated
  <2>4. InOrder' /\ InTurn'
    BY <2>0, <2>1, <2>2, PoolKept
  <2> QED
    BY <2>3, <2>4 DEF IInv
<1>6. ASSUME NEW m \in Members, ThreadStep(m), UNCHANGED <<poolVars, acceptVars, connVars>> PROVE IInv'
  <2>0. m \in Nat /\ UNCHANGED <<handle, served, running_>>
    BY <1>6, MembersAre DEF acceptVars, connVars, ThreadStep, ThreadRun, Publish, Begin, Leave, End
  <2>1. \/ owner' = owner
        \/ /\ owner.at \in {"latchWait", "loopWait"} /\ owner'.at \in {"latch", "loop"}
           /\ owner'.m = owner.m /\ owner' \in [at : OwnerPlaces, m : Nat]
    BY <1>6, <2>0
       DEF ThreadStep, ThreadRun, Publish, Begin, Leave, End, notifyAll, Place, OwnerPlaces, Places
  <2>2. /\ owner' \in [at : OwnerPlaces, m : Nat] /\ owner'.m = owner.m
        /\ Serving' <=> Serving
        /\ owner'.at \in Places <=> owner.at \in Places
        /\ owner'.at = "start" <=> owner.at = "start"
        /\ handle # "out" => owner' = Place("baseLoop", 0)
    BY <1>0, <2>1 DEF TypeOK, Serving, Places, InTurn, Place
  <2>3. /\ latch_' \in [Members -> Int] /\ loop_' \in [Members -> BOOLEAN] /\ quit_' \in [Members -> BOOLEAN]
        /\ at' \in [Members -> {"none", "created", "run", "published", "looping", "left", "ended"}]
        /\ \A k \in Members \ {m} :
               at'[k] = at[k] /\ loop_'[k] = loop_[k] /\ quit_'[k] = quit_[k]
    <3>1. \E to \in {"run", "published", "looping", "left", "ended"} : at' = [at EXCEPT ![m] = to]
      BY <1>6 DEF ThreadStep, ThreadRun, Publish, Begin, Leave, End, ThreadGoes
    <3>2. UNCHANGED latch_ \/ latch_' = [latch_ EXCEPT ![m] = @ - 1]
      BY <1>6 DEF ThreadStep, ThreadRun, Publish, Begin, Leave, End
    <3>3. UNCHANGED loop_ \/ \E b \in BOOLEAN : loop_' = [loop_ EXCEPT ![m] = b]
      BY <1>6 DEF ThreadStep, ThreadRun, Publish, Begin, Leave, End
    <3>4. UNCHANGED quit_ \/ quit_' = [quit_ EXCEPT ![m] = FALSE]
      BY <1>6 DEF ThreadStep, ThreadRun, Publish, Begin, Leave, End
    <3>5. /\ at' \in [Members -> {"none", "created", "run", "published", "looping", "left", "ended"}]
          /\ \A k \in Members \ {m} : at'[k] = at[k]
      BY <1>0, <3>1 DEF TypeOK
    <3>6. latch_' \in [Members -> Int]
      BY <1>0, <3>2 DEF TypeOK
    <3>7. loop_' \in [Members -> BOOLEAN] /\ \A k \in Members \ {m} : loop_'[k] = loop_[k]
      BY <1>0, <3>3 DEF TypeOK
    <3>8. quit_' \in [Members -> BOOLEAN] /\ \A k \in Members \ {m} : quit_'[k] = quit_[k]
      BY <1>0, <3>4 DEF TypeOK
    <3> QED
      BY <3>5, <3>6, <3>7, <3>8
  <2>4. TypeOK'
    BY <1>0, <1>6, <2>0, <2>2, <2>3 DEF TypeOK
  <2>5. ASSUME Serving
        PROVE  /\ ~quit_'[m] /\ at'[m] \notin {"left", "ended"}
               /\ loop_'[m] => at'[m] \in {"published", "looping"}
               /\ loop_[m] => loop_'[m]
    <3>1. ~quit_[m] /\ at[m] \notin {"left", "ended"} /\ (loop_[m] => at[m] \in {"published", "looping"})
      BY <1>0, <2>5 DEF NobodyQuits
    <3>2. ~Leave(m) /\ ~End(m)
      BY <3>1 DEF Leave, End, ThreadGoes
    <3>3. CASE ThreadRun(m)
      <4>1. at[m] = "created" /\ at'[m] = "run" /\ UNCHANGED <<loop_, quit_>>
        BY <1>0, <3>3 DEF ThreadRun, ThreadGoes, TypeOK
      <4> QED
        BY <3>1, <4>1
    <3>4. CASE Publish(m)
      BY <1>0, <3>1, <3>4 DEF Publish, ThreadGoes, TypeOK
    <3>5. CASE Begin(m)
      BY <1>0, <3>1, <3>5 DEF Begin, ThreadGoes, TypeOK
    <3> QED
      BY <1>6, <3>2, <3>3, <3>4, <3>5 DEF ThreadStep
  <2>6. NobodyQuits'
    BY <1>0, <2>2, <2>3, <2>5 DEF NobodyQuits
  <2>7. RestNotCreated'
    <3>1. at[m] # "none"
      BY <1>6 DEF ThreadStep, ThreadRun, Publish, Begin, Leave, End, ThreadGoes
    <3> QED
      BY <1>0, <2>2, <2>3, <3>1 DEF RestNotCreated, NotYet
  <2>8. InOrder' /\ InTurn'
    <3>1. \A k \in Loops : loop_[k] /\ Serving => loop_'[k]
      BY <2>3, <2>5, MembersAre
    <3> QED
      BY <1>6, <2>0, <2>2, <3>1, PoolKept
  <2> QED
    BY <2>4, <2>6, <2>7, <2>8 DEF IInv
<1>7. CASE StartPool
  BY <1>1, <1>7 DEF StartPool
<1>8. CASE Listen
  BY <1>2, <1>8 DEF Listen, OwnerGoes, connVars, listen
<1>9. CASE BaseQuits
  BY <1>2, <1>9 DEF BaseQuits, BaseLoop, connVars, acceptVars
<1>10. CASE Accepting \/ connectionCloseInLoop \/ Environment \/ \E l \in AllLoops : Close(l)
  BY <1>4, <1>10
     DEF Accepting, connectionCloseInLoop, Environment, Close, connVars, acceptVars, BaseLoop,
         Arrive, OthersOpen, OthersClose
<1>11. CASE DestroyPool
  BY <1>5, <1>11 DEF DestroyPool
<1>12. ASSUME NEW m \in Members, Thread(m) PROVE IInv'
  BY <1>6, <1>12 DEF Thread
<1>13. CASE UNCHANGED vars
  BY <1>4, <1>13 DEF vars, connVars, acceptVars
<1> QED
  BY <1>3, <1>7, <1>8, <1>9, <1>10, <1>11, <1>12, <1>13 DEF Next, OwnerStep

(* The threads of the pool are created and published in order, the vector  *)
(* holds those published, and the index goes round, in every execution.    *)
THEOREM SpecIInv == Spec => []IInv
<1> QED
  BY InitIInv, NextIInv, PTL DEF Spec

-------------------------------------------------------------------------------
(* The results.                                                            *)

(* From the time a loop is in the pool's vector until the destructor runs, *)
(* its thread is in threadFunc with the loop on its stack, and getLoop     *)
(* never reads behind the vector.                                          *)
THEOREM LoopsAlwaysExist == Spec => []LoopsExist
<1>1. ASSUME IInv PROVE LoopsExist
  <2> SUFFICES ASSUME Serving
               PROVE  /\ \A k \in 1 .. Len(loops_) :
                             loops_[k] \in Loops /\ at[loops_[k]] \in {"published", "looping"}
                      /\ loops_ # <<>> => nextLoopIndex_ + 1 \in DOMAIN loops_
    BY DEF LoopsExist, Serving
  <2>1. loops_ \in Seq(Loops) /\ nextLoopIndex_ \in Nat
    BY <1>1 DEF IInv, TypeOK
  <2>2. ASSUME NEW k \in 1 .. Len(loops_)
        PROVE  loops_[k] \in Loops /\ at[loops_[k]] \in {"published", "looping"}
    <3>1. loops_[k] = k /\ k \in Loops /\ loop_[k]
      BY <1>1, <2>1 DEF IInv, InOrder
    <3> QED
      BY <1>1, <3>1, MembersAre DEF IInv, NobodyQuits
  <2>3. ASSUME loops_ # <<>> PROVE nextLoopIndex_ + 1 \in 1 .. Len(loops_)
    BY <1>1, <2>1, <2>3 DEF IInv, InTurn, InOrder
  <2> QED
    BY <2>1, <2>2, <2>3
<1> QED
  BY SpecIInv, <1>1, PTL

(* No loop of the pool is given two connections more than another.         *)
THEOREM AlwaysBalanced == Spec => []Balanced
<1>1. ASSUME IInv PROVE Balanced
  <2> SUFFICES ASSUME NEW l \in Loops, NEW k \in Loops PROVE served[l] <= served[k] + 1
    BY DEF Balanced
  <2>1. served[l] \in Nat /\ served[k] \in Nat /\ served[l] + Ahead(k) = served[k] + Ahead(l)
    BY <1>1 DEF IInv, TypeOK, InTurn, AllLoops
  <2> QED
    BY <2>1 DEF Ahead
<1> QED
  BY SpecIInv, <1>1, PTL
===============================================================================
