-------------------------------- MODULE Server --------------------------------
(***************************************************************************)
(* A TcpServer from TcpServer::start to its destruction: the thread that   *)
(* owns it starts the pool, listens, runs the base loop, in which the      *)
(* acceptor's handleRead gives every connection to a loop of the pool, and *)
(* in the end destroys the pool.  What becomes of a connection while it is *)
(* open is in TcpServer.tla; here it has a descriptor, which it gives back *)
(* when the base loop has erased it.                                       *)
(***************************************************************************)
EXTENDS EventLoopThreadPool, Acceptor

VARIABLES
    served,     (* connections each loop has been given                    *)
    open,       (* and those of them that are open                         *)
    closed      (* connections that wait in the queue of the base loop for *)
                (* connectionCloseInLoop                                   *)

connVars == <<served, open, closed>>
vars == <<owner, threadVars, poolVars, acceptVars, connVars>>

AllLoops == Loops \cup {Base}

Init ==
    /\ EmptyPool /\ NewAcceptor
    /\ owner = AfterStart(0)
    /\ served = [l \in AllLoops |-> 0] /\ open = [l \in AllLoops |-> 0] /\ closed = 0

(* The owner is in the base loop, and not in a handler.                    *)
BaseLoop == owner = Place("baseLoop", 0) /\ handle = "out"

StartPool ==
    /\ \E m \in Members : Start(m)
    /\ UNCHANGED <<acceptVars, connVars>>

(* With no other thread listen is called on the base loop at once.         *)
Listen ==
    /\ OwnerGoes(0, "listen", Place("baseLoop", 0))
    /\ listen
    /\ UNCHANGED <<threadVars, poolVars, connVars>>

(* accept has returned a descriptor.                                       *)
newConnection ==
    /\ accept
    /\ served' = [served EXCEPT ![getLoop] = @ + 1]
    /\ open' = [open EXCEPT ![getLoop] = @ + 1]
    /\ nextLoopIndex_' = NextIndex
    /\ UNCHANGED <<owner, threadVars, loops_, closed>>

Accepting ==
    /\ owner = Place("baseLoop", 0)
    /\ AcceptorStep
    /\ UNCHANGED <<owner, threadVars, poolVars, connVars>>

(* A connection closes on its own loop, which must be running.             *)
Close(l) ==
    /\ open[l] > 0 /\ IF l = Base THEN BaseLoop ELSE at[l] = "looping"
    /\ open' = [open EXCEPT ![l] = @ - 1]
    /\ closed' = closed + 1
    /\ UNCHANGED <<owner, threadVars, poolVars, acceptVars, served>>

connectionCloseInLoop ==
    /\ BaseLoop
    /\ closed > 0 /\ closed' = closed - 1
    /\ free' = free + 1
    /\ UNCHANGED <<owner, threadVars, poolVars, queueVars, idleFd_, handle, errorVars,
                   otherVars, served, open>>

(* Somebody calls quitLoop of the base loop, and main returns.             *)
BaseQuits ==
    /\ BaseLoop
    /\ owner' = AfterDestroyed(0)
    /\ UNCHANGED <<threadVars, poolVars, acceptVars, connVars>>

DestroyPool ==
    /\ \E m \in Members : Destruct(m)
    /\ UNCHANGED <<acceptVars, connVars>>

Thread(m) == ThreadStep(m) /\ UNCHANGED <<poolVars, acceptVars, connVars>>

Environment == 
    /\ Arrive \/ OthersOpen \/ OthersClose
    /\ UNCHANGED <<owner, threadVars, poolVars, connVars>>

OwnerStep ==
    StartPool \/ Listen \/ newConnection \/ Accepting \/ connectionCloseInLoop \/ DestroyPool

Next ==
    \/ OwnerStep \/ BaseQuits \/ Environment
    \/ \E m \in Members : Thread(m)
    \/ \E l \in AllLoops : Close(l)

Spec == Init /\ [][Next]_vars

(* All threads are scheduled; other threads close what they have opened.   *)
(* No client has to come or go.                                            *)
FairSpec ==
    /\ Spec
    /\ WF_vars(OwnerStep)
    /\ \A m \in Members : WF_vars(Thread(m))
    /\ WF_vars(OthersClose /\ UNCHANGED <<owner, threadVars, poolVars, connVars>>)

-------------------------------------------------------------------------------
Places == {"start", "latch", "latchWait", "loop", "loopWait"}

(* The loops the pool may hand out exist from the time they are in its     *)
(* vector until the pool is destroyed, and getLoop stays inside the vector *)
(* (EventLoopThread.cc:22-50, EventLoopThreadPool.cc:41-49).               *)
LoopsExist ==
    owner.at \in Places \cup {"listen", "baseLoop"} =>
        /\ \A k \in 1 .. Len(loops_) :
               loops_[k] \in Loops /\ at[loops_[k]] \in {"published", "looping"}
        /\ loops_ # <<>> => nextLoopIndex_ + 1 \in DOMAIN loops_

(* getLoop spreads the connections evenly (EventLoopThreadPool.cc:44-46).  *)
Balanced == \A l, k \in Loops : served[l] <= served[k] + 1

(* start() comes back, with all loops in the vector, unless a thread could *)
(* not be created: then the owner waits for ever (Thread.cc:26-29).        *)
Failed(m) == owner.m = m /\ owner.at # "start" /\ ~running_[m]
StartEnds ==
    owner.at \in Places ~>
        (owner.at \notin Places /\ Len(loops_) = ThreadNum) \/ \E m \in Members : Failed(m)

(* A client does not stay in the queue: edge triggering is enough.  It is  *)
(* accepted, or dropped when there are no descriptors, unless another      *)
(* error has ended handleRead (Acceptor.cc:67-70), or another thread has   *)
(* opened a descriptor while the reserve was closed (:63-66) and there is  *)
(* none.                                                                   *)
ReserveLost == ~idleFd_ /\ free = 0
ClientsAreTaken ==
    backlog > 0 ~> (backlog = 0 \/ broke \/ ReserveLost \/ owner.at # "baseLoop")

(* A destructor that finds the loop running comes back                     *)
(* (EventLoopThread.cc:15-20); one that is too early, between the thread's *)
(* loop_ = &loop and the first line of loop(), need not.                   *)
JoinEnds ==
    \A m \in Members :
        (owner = Place("join", m) /\ quit_[m] /\ at[m] = "looping") ~> owner # Place("join", m)

(* Acceptor.h:34: the reserve is there for the time when the descriptors   *)
(* have run out.  The code disagrees: without a descriptor accept never    *)
(* fails with EAGAIN, so handleRead does not return, and as long as it     *)
(* does not the base loop destroys no connection: it goes on when all      *)
(* clients have left.                                                      *)
AcceptLoopEnds ==
    (handle # "out" /\ backlog = 0 /\ others = 0 /\ \A l \in AllLoops : open[l] = 0)
        ~> handle = "out"
===============================================================================
