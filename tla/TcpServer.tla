------------------------------- MODULE TcpServer -------------------------------
(***************************************************************************)
(* The life of the connections of a TcpServer: TcpServer.cc, the parts of  *)
(* Connection.cc, Channel.cc and Epoller.cc that keep a Connection alive   *)
(* or let it die.  Starting and stopping is in Server.tla.                 *)
(*                                                                         *)
(* Thread 0 runs the base loop (acceptor, connectionMap_); threads 1 to    *)
(* ThreadNum run an io loop each; with ThreadNum = 0 the base loop serves  *)
(* the connections itself.  A round of a loop is the one of EventLoop.tla: *)
(* poll, handle the active channels, swap the queue, run the batch, whose  *)
(* functions (and the shared_ptrs bound into them) are destroyed together  *)
(* when all have run.  One more thread, the worker, uses the shared_ptrs   *)
(* that the application keeps.                                             *)
(*                                                                         *)
(* A Connection is destroyed by whoever gives up the last shared_ptr to    *)
(* it.  The references are spelled out in Alive; channels (activeChannels_ *)
(* and epoll) and the functions bound to a bare "this" hold none.          *)
(*                                                                         *)
(* The application keeps some shared_ptrs for good, and gives up others;   *)
(* which calls other threads make on them is a parameter for each kind.    *)
(*                                                                         *)
(* Bounds: MaxConns connections are accepted; another thread adds to the   *)
(* queue of a loop while it is shorter than MaxPending.                    *)
(***************************************************************************)
EXTENDS Integers, Sequences, FiniteSets

CONSTANTS
    ThreadNum,
    Kept,           (* the connections the application keeps for good      *)
    KeptOps,        (* what is called on them from outside their callbacks *)
    WorkerOps,      (* on the others, what the worker calls ...            *)
    CrossOps,       (* ... and what callbacks of other connections call    *)
    MaxConns, MaxPending

Ops == {"send", "shutDown", "forceClose"}

ASSUME ConstantsOK ==
    /\ ThreadNum \in Nat /\ MaxConns \in Nat /\ MaxPending \in Nat
    /\ \A c \in Kept : c \in Nat
    /\ KeptOps \cup WorkerOps \cup CrossOps \subseteq Ops

Threads == 0 .. ThreadNum
Conns == 1 .. MaxConns

VARIABLES
    connectionId_,      (* connections accepted so far                     *)
    connectionMap_,
    loop_,              (* the thread that serves a connection             *)
    state_,             (* Connection::State                               *)
    channel,            (* the channel's state in the epoller              *)
    held,               (* connections the application keeps a shared_ptr  *)
                        (* to, outside the callbacks                       *)
    pc,                 (* where each loop is                              *)
    activeChannels_,    (* bare pointers                                   *)
    locals,             (* shared_ptrs on the stack: the guard of          *)
                        (* handleEvent, arguments of callbacks             *)
    pending,            (* pendingFunctions_ of each loop                  *)
    batch, done,        (* the swapped batch, and how much of it has run   *)
    worker              (* the call the worker is in                       *)

connVars == <<connectionMap_, state_, channel>>
poolVars == <<connectionId_, loop_>>
batchVars == <<batch, done>>
vars == <<connVars, poolVars, held, pc, activeChannels_, locals, pending, batchVars, worker>>

Idle == [op |-> "idle", conn |-> 0]

Init ==
    /\ connectionId_ = 0
    /\ connectionMap_ = {} /\ held = {}
    /\ loop_ = [c \in Conns |-> 0]
    /\ state_ = [c \in Conns |-> "Connecting"]
    /\ channel = [c \in Conns |-> "CNew"]
    /\ pc = [t \in Threads |-> "poll"]
    /\ activeChannels_ = [t \in Threads |-> {}]
    /\ locals = [t \in Threads |-> {}]
    /\ pending = [t \in Threads |-> <<>>]
    /\ batch = [t \in Threads |-> <<>>] /\ done = [t \in Threads |-> 0]
    /\ worker = Idle

-------------------------------------------------------------------------------
(* Ownership.                                                              *)

Function(op, c) == [op |-> op, conn |-> c]

(* With a mistake: forceClose binds "this" too.                          *)
BareForceClose(functions) ==
    {functions[i].conn : i \in {j \in 1 .. Len(functions) :
                                    functions[j].op \notin Ops}}

(* send and shutDown bind "this", all other functions a shared_ptr.        *)
Owning(functions) ==
    {functions[i].conn : i \in {j \in 1 .. Len(functions) :
                                    functions[j].op \notin {"send", "shutDown"}}}

Created == 1 .. connectionId_

Alive(c) ==
    /\ c \in Created
    /\ \/ c \in connectionMap_ \cup held
       \/ worker.conn = c
       \/ \E t \in Threads : c \in locals[t] \cup Owning(pending[t]) \cup Owning(batch[t])

-------------------------------------------------------------------------------
(* The base loop's acceptor has a new connection.                          *)

(* getLoop hands out the loops in turn (EventLoopThreadPool.tla).          *)
getLoop == IF ThreadNum = 0 THEN 0 ELSE (connectionId_ % ThreadNum) + 1

(* With a mistake: the connection is not put into the map.               *)
Unmapped ==
    LET c == connectionId_ + 1
    IN  /\ pc[0] = "events" /\ connectionId_ < MaxConns
        /\ connectionId_' = c
        /\ loop_' = [loop_ EXCEPT ![c] = getLoop]
        /\ pending' = [pending EXCEPT ![getLoop] = Append(@, Function("connectEstablished", c))]
        /\ UNCHANGED <<connVars, held, pc, activeChannels_, locals, batchVars, worker>>

newConnection ==
    LET c == connectionId_ + 1
    IN  /\ pc[0] = "events" /\ connectionId_ < MaxConns
        /\ connectionId_' = c
        /\ loop_' = [loop_ EXCEPT ![c] = getLoop]
        /\ connectionMap_' = connectionMap_ \cup {c}
        /\ pending' = [pending EXCEPT ![getLoop] = Append(@, Function("connectEstablished", c))]
        /\ UNCHANGED <<state_, channel, held, pc, activeChannels_, locals, batchVars, worker>>

(* connectionClose: in the base loop at once, else through its queue.      *)
connectionClose(t, c) ==
    IF t = 0
    THEN connectionMap_' = connectionMap_ \ {c} /\ UNCHANGED pending
    ELSE /\ pending' = [pending EXCEPT ![0] = Append(@, Function("connectionClose", c))]
         /\ UNCHANGED connectionMap_

(* With a mistake: handleClose leaves the channel in epoll.              *)
KeepsChannel(t, c) ==
    /\ state_' = [state_ EXCEPT ![c] = "Disconnected"]
    /\ UNCHANGED channel
    /\ connectionClose(t, c)

(* handleClose on the connection's own loop t.                             *)
handleClose(t, c) ==
    /\ state_' = [state_ EXCEPT ![c] = "Disconnected"]
    /\ channel' = [channel EXCEPT ![c] = "CDeleted"]
    /\ connectionClose(t, c)

Open(c) == state_[c] \in {"Connected", "Disconnecting"}

-------------------------------------------------------------------------------
(* A round of loop t.                                                      *)

Go(t, from, to) ==
    /\ pc[t] = from /\ pc' = [pc EXCEPT ![t] = to]
    /\ UNCHANGED <<poolVars, worker>>

(* Any of the channels in epoll may have an event; closing a descriptor    *)
(* takes it out of epoll.                                                  *)
Poll(t) ==
    /\ Go(t, "poll", "events")
    /\ \E S \in SUBSET {c \in Conns : loop_[c] = t /\ channel[c] = "CAdded" /\ Alive(c)} :
           activeChannels_' = [activeChannels_ EXCEPT ![t] = S]
    /\ UNCHANGED <<connVars, held, locals, pending, batchVars>>

(* handleEvent: the guard, then the callbacks.                             *)
Handle(t, c, to) ==
    /\ Go(t, "events", to)
    /\ c \in activeChannels_[t] /\ Alive(c)
    /\ activeChannels_' = [activeChannels_ EXCEPT ![t] = @ \ {c}]
    /\ locals' = [locals EXCEPT ![t] = {c}]
    /\ UNCHANGED <<held, batchVars>>

(* Data arrived: the user's callback runs.                                 *)
HandleMessage(t, c) ==
    /\ Handle(t, c, "callback")
    /\ UNCHANGED <<connVars, pending>>

(* The rest of the output was written: messageSendCallBack_ is queued.     *)
HandleWritten(t, c) ==
    /\ Handle(t, c, "return")
    /\ Len(pending[t]) < MaxPending
    /\ pending' = [pending EXCEPT ![t] = Append(@, Function("messageSent", c))]
    /\ UNCHANGED connVars

(* End of stream, or a hang-up.                                            *)
HandleEnd(t, c) ==
    /\ Handle(t, c, "return")
    /\ handleClose(t, c)

(* The handler or callback returns and gives up its shared_ptrs.           *)
Return(t) ==
    /\ \E from \in {"callback", "return"} :
           Go(t, from, IF batch[t] = <<>> THEN "events" ELSE "functions")
    /\ locals' = [locals EXCEPT ![t] = {}]
    /\ UNCHANGED <<connVars, held, activeChannels_, pending, batchVars>>

SwapPending(t) ==
    /\ Go(t, "events", IF pending[t] = <<>> THEN "poll" ELSE "functions")
    /\ activeChannels_[t] = {}
    /\ batch' = [batch EXCEPT ![t] = pending[t]]
    /\ pending' = [pending EXCEPT ![t] = <<>>]
    /\ done' = [done EXCEPT ![t] = 0]
    /\ UNCHANGED <<connVars, held, activeChannels_, locals>>

(* With a mistake: the batch is not destroyed when it has run.           *)
KeepsBatch(t) ==
    /\ Go(t, "functions", "poll")
    /\ done[t] = Len(batch[t])
    /\ UNCHANGED <<connVars, held, activeChannels_, locals, pending, batchVars>>

BatchDone(t) ==
    /\ Go(t, "functions", "poll")
    /\ done[t] = Len(batch[t])
    /\ batch' = [batch EXCEPT ![t] = <<>>]
    /\ done' = [done EXCEPT ![t] = 0]
    /\ UNCHANGED <<connVars, held, activeChannels_, locals, pending>>

-------------------------------------------------------------------------------
(* The functions of a batch.                                               *)

NextFunction(t) == batch[t][done[t] + 1]

Run(t, op, to) ==
    /\ Go(t, "functions", to)
    /\ done[t] < Len(batch[t])
    /\ NextFunction(t).op = op /\ Alive(NextFunction(t).conn)
    /\ done' = [done EXCEPT ![t] = @ + 1]
    /\ UNCHANGED <<activeChannels_, batch>>

(* The application may store the shared_ptr it is given.                   *)
connectEstablished(t) ==
    LET c == NextFunction(t).conn
    IN  /\ Run(t, "connectEstablished", "callback")
        /\ state_' = [state_ EXCEPT ![c] = "Connected"]
        /\ channel' = [channel EXCEPT ![c] = "CAdded"]
        /\ locals' = [locals EXCEPT ![t] = {c}]
        /\ \/ held' = held \cup {c}
           \/ c \notin Kept /\ UNCHANGED held
        /\ UNCHANGED <<connectionMap_, pending>>

messageSent(t) ==
    /\ Run(t, "messageSent", "callback")
    /\ locals' = [locals EXCEPT ![t] = {NextFunction(t).conn}]
    /\ UNCHANGED <<connVars, held, pending>>

(* sendInLoop does not look at state_: if the write is not complete it     *)
(* listens for writability, also on a closed connection.                   *)
sendInLoop(t) ==
    LET c == NextFunction(t).conn
    IN  /\ Run(t, "send", "functions")
        /\ \/ channel' = [channel EXCEPT ![c] = "CAdded"]
           \/ UNCHANGED channel
        /\ UNCHANGED <<connectionMap_, state_, held, locals, pending>>

shutDownInLoop(t) ==
    /\ Run(t, "shutDown", "functions")
    /\ UNCHANGED <<connVars, held, locals, pending>>

forceCloseInLoop(t) ==
    LET c == NextFunction(t).conn
    IN  /\ Run(t, "forceClose", "functions")
        /\ IF Open(c) THEN handleClose(t, c) ELSE UNCHANGED <<connVars, pending>>
        /\ UNCHANGED <<held, locals>>

connectionCloseInLoop(t) ==
    /\ Run(t, "connectionClose", "functions")
    /\ connectionMap_' = connectionMap_ \ {NextFunction(t).conn}
    /\ UNCHANGED <<state_, channel, held, locals, pending>>

-------------------------------------------------------------------------------
(* Calls of the public functions.                                          *)

(* The calls on c from outside its callbacks.                              *)
OpsOn(c, others) == IF c \in Kept THEN KeptOps ELSE others

(* The state in which the call does something.                             *)
Allowed(c, op) == IF op = "forceClose" THEN Open(c) ELSE state_[c] = "Connected"

(* What the caller does itself, before the function is in the loop.        *)
StateAfter(c, op) ==
    IF op = "shutDown" THEN [state_ EXCEPT ![c] = "Disconnecting"] ELSE state_

queueInLoop(c, op) ==
    /\ Len(pending[loop_[c]]) < MaxPending
    /\ pending' = [pending EXCEPT ![loop_[c]] = Append(@, Function(op, c))]

(* A callback on thread t calls into c: its own connection, or one that    *)
(* the application keeps.  On c's own loop the function runs at once.      *)
CallFromCallback(t, c, op) ==
    /\ pc[t] = "callback"
    /\ (c \in locals[t] /\ loop_[c] = t) \/ (c \in held /\ op \in OpsOn(c, CrossOps))
    /\ Allowed(c, op)
    /\ locals' = [locals EXCEPT ![t] = @ \cup {c}]
    /\ IF loop_[c] = t /\ op = "forceClose"
       THEN handleClose(t, c)
       ELSE /\ state_' = StateAfter(c, op)
            /\ IF loop_[c] = t THEN UNCHANGED pending ELSE queueInLoop(c, op)
            /\ UNCHANGED <<connectionMap_, channel>>
    /\ UNCHANGED <<poolVars, held, pc, activeChannels_, batchVars, worker>>

(* The worker copies a shared_ptr and looks at state_ ...                  *)
WorkerChecks(c, op) ==
    /\ worker = Idle
    /\ c \in held /\ op \in OpsOn(c, WorkerOps) /\ Allowed(c, op)
    /\ worker' = Function(op, c)
    /\ UNCHANGED <<connVars, poolVars, held, pc, activeChannels_, locals, pending, batchVars>>

(* ... then acts on what it saw, and lets go of the shared_ptr.            *)
WorkerQueues ==
    /\ worker # Idle
    /\ queueInLoop(worker.conn, worker.op)
    /\ state_' = StateAfter(worker.conn, worker.op)
    /\ worker' = Idle
    /\ UNCHANGED <<connectionMap_, channel, poolVars, held, pc, activeChannels_,
                   locals, batchVars>>

(* The application gives up a shared_ptr it kept.                          *)
AppDrops(c) ==
    /\ c \in held \ Kept /\ held' = held \ {c}
    /\ UNCHANGED <<connVars, poolVars, pc, activeChannels_, locals, pending, batchVars, worker>>

-------------------------------------------------------------------------------
Step(t) ==
    \/ Poll(t) \/ Return(t) \/ SwapPending(t) \/ BatchDone(t)
    \/ \E c \in activeChannels_[t] :
           HandleMessage(t, c) \/ HandleWritten(t, c) \/ HandleEnd(t, c)
    \/ connectEstablished(t) \/ messageSent(t) \/ sendInLoop(t)
    \/ shutDownInLoop(t) \/ forceCloseInLoop(t) \/ connectionCloseInLoop(t)

Next ==
    \/ newConnection
    \/ \E t \in Threads : Step(t)
    \/ \E t \in Threads, c \in Created, op \in Ops : CallFromCallback(t, c, op)
    \/ \E c \in Created, op \in Ops : WorkerChecks(c, op)
    \/ WorkerQueues
    \/ \E c \in Created : AppDrops(c)

Spec == Init /\ [][Next]_vars

(* Loops keep being scheduled and callbacks return; the application does   *)
(* not keep the other connections forever.  In the code the worker can     *)
(* always go on; in the model it may have to wait for MaxPending, hence SF.*)
FairSpec ==
    /\ Spec
    /\ \A t \in Threads : WF_vars(Step(t))
    /\ SF_vars(WorkerQueues)
    /\ \A c \in Conns : SF_vars(AppDrops(c))
-------------------------------------------------------------------------------
(* Nothing uses a destroyed Connection: whatever a loop is still going to  *)
(* handle in this round is alive ...                                       *)
ActiveChannelsAlive == \A t \in Threads : \A c \in activeChannels_[t] : Alive(c)

(* ... and so is the object of the function it runs next.                  *)
FunctionObjectAlive ==
    \A t \in Threads :
        pc[t] = "functions" /\ done[t] < Len(batch[t]) => Alive(NextFunction(t).conn)

(* The server does not forget a connection that is not closed              *)
(* (TcpServer.cc:45,61).  "Disconnecting" does not say that it is open: a  *)
(* shutDown of another thread may write it over "Disconnected"             *)
(* (Connection.cc:46-50).                                                  *)
MapHoldsOpen ==
    \A c \in Created : state_[c] \in {"Connecting", "Connected"} => c \in connectionMap_

(* A connection is out of epoll before it is destroyed.                    *)
DestroyedUnregistered == \A c \in Created : ~Alive(c) => channel[c] = "CDeleted"

(* A closed connection that is not kept is eventually destroyed.           *)
ClosedIsDestroyed ==
    \A c \in Conns \ Kept : (c \in Created /\ state_[c] = "Disconnected") ~> ~Alive(c)
===============================================================================
