---------------------------- MODULE TcpServerProofs ----------------------------
(***************************************************************************)
(* For any number of loops and of connections: a server never forgets an   *)
(* open connection, and, as long as other threads only force connections   *)
(* to close that the application does not keep, no destroyed Connection is *)
(* used.                                                                   *)
(***************************************************************************)
EXTENDS TcpServer, SequenceTheorems, TLAPS

USE ConstantsOK DEF ConstantsOK

-------------------------------------------------------------------------------
(* The functions a loop has not run yet.                                   *)

FunctionOps == Ops \cup {"connectEstablished", "messageSent", "connectionClose"}

Functions == [op : FunctionOps, conn : Conns]

(* The functions of a queue from a place on.                               *)
Elements(functions, from) == {functions[i] : i \in from .. Len(functions)}

(* No connection is established twice by them.                             *)
EstablishesOnce(functions, from) ==
    \A i, j \in from .. Len(functions) :
        functions[i] = functions[j] /\ functions[i].op = "connectEstablished" => i = j

PendingOn(t) == Elements(pending[t], 1)
RestOn(t) == Elements(batch[t], done[t] + 1)
LeftOn(t) == PendingOn(t) \cup RestOn(t)

-------------------------------------------------------------------------------
(* The invariant of every server.                                          *)

TypeOK ==
    /\ connectionId_ \in 0 .. MaxConns
    /\ connectionMap_ \subseteq Created /\ held \subseteq Created
    /\ loop_ \in [Conns -> Threads]
    /\ state_ \in [Conns -> {"Connecting", "Connected", "Disconnecting", "Disconnected"}]
    /\ channel \in [Conns -> {"CNew", "CAdded", "CDeleted"}]
    /\ pc \in [Threads -> {"poll", "events", "callback", "return", "functions"}]
    /\ activeChannels_ \in [Threads -> SUBSET Conns]
    /\ locals \in [Threads -> SUBSET Conns]
    /\ pending \in [Threads -> Seq(Functions)]
    /\ batch \in [Threads -> Seq(Functions)] /\ done \in [Threads -> Nat]
    /\ worker = Idle \/ worker \in [op : Ops, conn : Created]

Connecting(c) == state_[c] = "Connecting"

(* Only a connection that has been accepted can be established, and then   *)
(* it has been registered with its loop's epoll.                           *)
Registration ==
    /\ \A c \in Conns : channel[c] = "CNew" <=> Connecting(c)
    /\ \A c \in Conns \ Created : Connecting(c)
    /\ worker # Idle => ~Connecting(worker.conn)

(* A loop runs through its active channels before it swaps its queue.      *)
Rounds ==
    \A t \in Threads :
        /\ \A c \in activeChannels_[t] : c \in Created /\ loop_[c] = t /\ ~Connecting(c)
        /\ pc[t] \in {"poll", "functions"} \/ batch[t] # <<>> => activeChannels_[t] = {}
        /\ pc[t] \in {"poll", "events"} => batch[t] = <<>>

(* What a function that is left to run on t says of its connection.        *)
Waits(t, f) ==
    /\ f \in Functions /\ f.conn \in Created
    /\ f.op # "connectionClose" => loop_[f.conn] = t
    /\ f.op = "connectEstablished" <=> Connecting(f.conn)
    /\ f.op = "connectionClose" => state_[f.conn] # "Connected"

Waiting == \A t \in Threads : \A f \in LeftOn(t) : Waits(t, f)

Once ==
    \A t \in Threads :
        /\ EstablishesOnce(pending[t], 1) /\ EstablishesOnce(batch[t], done[t] + 1)
        /\ \A f \in PendingOn(t) \cap RestOn(t) : f.op # "connectEstablished"

IInv == TypeOK /\ Registration /\ Rounds /\ Waiting /\ Once /\ MapHoldsOpen

-------------------------------------------------------------------------------
(* The invariant of a server whose connections, unless they are kept, are  *)
(* used by other threads in no other way than to force them to close, and  *)
(* not at all by callbacks of other connections.                           *)

CarefulUse == CrossOps = {} /\ WorkerOps \subseteq {"forceClose"}

(* Functions bound to "this" are on kept connections, which are held ...   *)
BoundToKept ==
    /\ \A c \in Created \cap Kept : ~Connecting(c) => c \in held
    /\ \A t \in Threads : \A f \in LeftOn(t) : f.op \in {"send", "shutDown"} => f.conn \in Kept
    /\ worker.op \in {"send", "shutDown"} => worker.conn \in Kept

(* ... all others are in the map until they have left epoll ...            *)
MapHoldsRegistered ==
    /\ \A c \in Created \ Kept : channel[c] # "CDeleted" => c \in connectionMap_
    /\ \A t \in Threads : \A f \in LeftOn(t) :
           f.op = "connectionClose" => channel[f.conn] = "CDeleted" \/ f.conn \in Kept

(* ... and stay there while a loop is going to handle their events: the    *)
(* only calls that close at once are on connections that it is handling.   *)
ActiveRegistered ==
    \A t \in Threads :
        /\ \A c \in activeChannels_[t] \ Kept : channel[c] = "CAdded" /\ c \notin locals[t]
        /\ pc[t] \notin {"callback", "return"} => locals[t] = {}

LInv == BoundToKept /\ MapHoldsRegistered /\ ActiveRegistered

-------------------------------------------------------------------------------
(* Queues.                                                                 *)

(* The empty queue.                                                        *)
LEMMA NothingQueued ==
    ASSUME NEW n \in Nat \ {0}
    PROVE  Elements(<<>>, n) = {} /\ EstablishesOnce(<<>>, n)
  BY DEF Elements, EstablishesOnce

(* A function is put at the end: a new one, or one that does not establish.*)
LEMMA OneMore ==
    ASSUME NEW q \in Seq(Functions), NEW f \in Functions
    PROVE  /\ Append(q, f) \in Seq(Functions)
           /\ Elements(Append(q, f), 1) = Elements(q, 1) \cup {f}
           /\ EstablishesOnce(q, 1) /\ (f.op # "connectEstablished" \/ f \notin Elements(q, 1))
                  => EstablishesOnce(Append(q, f), 1)
<1> DEFINE r == Append(q, f)
<1>1. /\ r \in Seq(Functions) /\ Len(r) = Len(q) + 1 /\ Len(q) \in Nat
      /\ \A i \in 1 .. Len(q) : r[i] = q[i]
      /\ r[Len(q) + 1] = f
  BY AppendProperties
<1> HIDE DEF r
<1>2. \A i \in 1 .. Len(r) : (i \in 1 .. Len(q) /\ r[i] = q[i]) \/ (i = Len(r) /\ r[i] = f)
  BY <1>1
<1>3. Elements(r, 1) = Elements(q, 1) \cup {f}
  <2>1. \A i \in 1 .. Len(q) : i \in 1 .. Len(r)
    BY <1>1
  <2>2. Len(r) \in 1 .. Len(r) /\ r[Len(r)] = f
    BY <1>1
  <2> QED
    BY <1>1, <1>2, <2>1, <2>2 DEF Elements
<1>4. ASSUME EstablishesOnce(q, 1), f.op # "connectEstablished" \/ f \notin Elements(q, 1)
      PROVE  EstablishesOnce(r, 1)
  BY <1>2, <1>4 DEF EstablishesOnce, Elements
<1> QED
  BY <1>1, <1>3, <1>4 DEF r

(* The first one is run.                                                   *)
LEMMA OneLess ==
    ASSUME NEW q \in Seq(Functions), NEW n \in Nat, n < Len(q)
    PROVE  /\ q[n + 1] \in Functions /\ q[n + 1] \in Elements(q, n + 1)
           /\ Elements(q, (n + 1) + 1) \subseteq Elements(q, n + 1)
           /\ EstablishesOnce(q, n + 1) =>
                  /\ EstablishesOnce(q, (n + 1) + 1)
                  /\ q[n + 1].op = "connectEstablished" => q[n + 1] \notin Elements(q, (n + 1) + 1)
<1>1. Len(q) \in Nat /\ n + 1 \in 1 .. Len(q) /\ n + 1 \in (n + 1) .. Len(q)
  OBVIOUS
<1>2. \A i \in (n + 1) + 1 .. Len(q) : i \in (n + 1) .. Len(q) /\ i # n + 1
  BY <1>1
<1>3. Elements(q, (n + 1) + 1) \subseteq Elements(q, n + 1)
  BY <1>2 DEF Elements
<1>4. ASSUME EstablishesOnce(q, n + 1)
      PROVE  /\ EstablishesOnce(q, (n + 1) + 1)
             /\ q[n + 1].op = "connectEstablished" => q[n + 1] \notin Elements(q, (n + 1) + 1)
  BY <1>1, <1>2, <1>4 DEF Elements, EstablishesOnce
<1> QED
  BY <1>1, <1>3, <1>4 DEF Elements

(* What a loop has left to run of its batch gets less.                     *)
BatchShrinks ==
    \A t \in Threads : RestOn(t)' \subseteq RestOn(t) /\ EstablishesOnce(batch[t], done[t] + 1)'

(* A step that runs no function leaves the batches alone.                  *)
LEMMA BatchUntouched == ASSUME Once, UNCHANGED batchVars PROVE BatchShrinks
  BY DEF Once, batchVars, BatchShrinks, RestOn

(* Run takes the next function of the batch.                               *)
LEMMA BatchRuns ==
    ASSUME TypeOK, Once, NEW t \in Threads, done[t] < Len(batch[t]),
           done' = [done EXCEPT ![t] = @ + 1], UNCHANGED batch
    PROVE  /\ BatchShrinks /\ done' \in [Threads -> Nat]
           /\ NextFunction(t) \in Functions /\ NextFunction(t) \in LeftOn(t)
           /\ NextFunction(t).op = "connectEstablished" =>
                  NextFunction(t) \notin PendingOn(t) \cup RestOn(t)'
<1>1. batch[t] \in Seq(Functions) /\ done[t] \in Nat /\ EstablishesOnce(batch[t], done[t] + 1)
          /\ done \in [Threads -> Nat]
  BY DEF TypeOK, Once
<1>2. /\ NextFunction(t) \in Functions /\ NextFunction(t) \in RestOn(t)
      /\ Elements(batch[t], (done[t] + 1) + 1) \subseteq RestOn(t)
      /\ EstablishesOnce(batch[t], (done[t] + 1) + 1)
      /\ NextFunction(t).op = "connectEstablished" =>
             NextFunction(t) \notin Elements(batch[t], (done[t] + 1) + 1)
  BY <1>1, OneLess DEF NextFunction, RestOn
<1>3. done' \in [Threads -> Nat] /\ \A u \in Threads : done'[u] = IF u = t THEN done[t] + 1 ELSE done[u]
  BY <1>1
<1>4. RestOn(t)' = Elements(batch[t], (done[t] + 1) + 1)
  BY <1>3 DEF RestOn
<1>5. BatchShrinks
  <2> SUFFICES ASSUME NEW u \in Threads
               PROVE  RestOn(u)' \subseteq RestOn(u) /\ EstablishesOnce(batch'[u], done'[u] + 1)
    BY DEF BatchShrinks
  <2>1. CASE u = t
    BY <1>2, <1>3, <1>4, <2>1
  <2>2. CASE u # t
    BY <1>3, <2>2 DEF RestOn, Once
  <2> QED
    BY <2>1, <2>2
<1> QED
  BY <1>2, <1>3, <1>4, <1>5 DEF Once, LeftOn

(* Nothing is queued.                                                      *)
LEMMA QueuesShrink ==
    ASSUME Once, BatchShrinks, UNCHANGED pending
    PROVE  Once' /\ \A t \in Threads : LeftOn(t)' \subseteq LeftOn(t)
  BY DEF Once, BatchShrinks, LeftOn, PendingOn

(* A function is queued in loop u.                                         *)
LEMMA QueueGrows ==
    ASSUME TypeOK, Once, BatchShrinks, NEW u \in Threads, NEW f \in Functions,
           pending' = [pending EXCEPT ![u] = Append(@, f)],
           f.op # "connectEstablished" \/ f \notin LeftOn(u)
    PROVE  /\ Once' /\ pending' \in [Threads -> Seq(Functions)]
           /\ \A t \in Threads : LeftOn(t)' \subseteq LeftOn(t) \cup (IF t = u THEN {f} ELSE {})
<1>1. pending[u] \in Seq(Functions) /\ pending \in [Threads -> Seq(Functions)]
          /\ EstablishesOnce(pending[u], 1)
  BY DEF TypeOK, Once
<1>2. /\ Append(pending[u], f) \in Seq(Functions)
      /\ Elements(Append(pending[u], f), 1) = PendingOn(u) \cup {f}
      /\ EstablishesOnce(Append(pending[u], f), 1)
  BY <1>1, OneMore DEF PendingOn, LeftOn
<1>3. /\ pending' \in [Threads -> Seq(Functions)]
      /\ \A t \in Threads : pending'[t] = IF t = u THEN Append(pending[u], f) ELSE pending[t]
  BY <1>1, <1>2
<1>4. \A t \in Threads : PendingOn(t)' = PendingOn(t) \cup (IF t = u THEN {f} ELSE {})
  BY <1>2, <1>3 DEF PendingOn
<1>5. \A t \in Threads : LeftOn(t)' \subseteq LeftOn(t) \cup (IF t = u THEN {f} ELSE {})
  BY <1>4 DEF LeftOn, BatchShrinks
<1>6. Once'
  <2> SUFFICES ASSUME NEW t \in Threads
               PROVE  /\ EstablishesOnce(pending'[t], 1) /\ EstablishesOnce(batch'[t], done'[t] + 1)
                      /\ \A g \in PendingOn(t)' \cap RestOn(t)' : g.op # "connectEstablished"
    BY DEF Once
  <2>1. EstablishesOnce(pending'[t], 1) /\ EstablishesOnce(batch'[t], done'[t] + 1)
    BY <1>2, <1>3 DEF Once, BatchShrinks
  <2>2. \A g \in PendingOn(t)' \cap RestOn(t)' : g.op # "connectEstablished"
    BY <1>4 DEF Once, BatchShrinks, LeftOn
  <2> QED
    BY <2>1, <2>2
<1> QED
  BY <1>3, <1>5, <1>6

-------------------------------------------------------------------------------
(* Steps that accept and establish no connection.                          *)

(* The state of a connection that has been established goes one way.       *)
StateMoves ==
    /\ UNCHANGED poolVars
    /\ \/ UNCHANGED state_
       \/ \E c \in Created : \E to \in {"Disconnecting", "Disconnected"} :
              ~Connecting(c) /\ state_' = [state_ EXCEPT ![c] = to]

ChannelMoves ==
    \/ UNCHANGED channel
    \/ \E c \in Created : \E to \in {"CAdded", "CDeleted"} :
           ~Connecting(c) /\ channel' = [channel EXCEPT ![c] = to]

(* A state that goes one way keeps the types, and who has been created.    *)
LEMMA StatesKeep ==
    ASSUME TypeOK, StateMoves
    PROVE  /\ state_' \in [Conns -> {"Connecting", "Connected", "Disconnecting", "Disconnected"}]
           /\ Created' = Created /\ Created \subseteq Conns /\ UNCHANGED loop_
           /\ \A c \in Conns : Connecting(c)' <=> Connecting(c)
           /\ \A c \in Conns : state_'[c] = "Connected" => state_[c] = "Connected"
           /\ \A t, f : Waits(t, f) => Waits(t, f)'
<1>1. /\ Created' = Created /\ Created \subseteq Conns /\ UNCHANGED loop_
  BY DEF StateMoves, poolVars, Created, TypeOK, Conns
<1>2. /\ state_' \in [Conns -> {"Connecting", "Connected", "Disconnecting", "Disconnected"}]
      /\ \A c \in Conns : Connecting(c)' <=> Connecting(c)
      /\ \A c \in Conns : state_'[c] = "Connected" => state_[c] = "Connected"
  BY <1>1 DEF TypeOK, StateMoves, Connecting
<1>3. ASSUME NEW t, NEW f, Waits(t, f) PROVE Waits(t, f)'
  BY <1>1, <1>2, <1>3 DEF Waits, Functions
<1> QED
  BY <1>1, <1>2, <1>3

(* A channel that goes one way keeps its type.                             *)
LEMMA ChannelsKeep ==
    ASSUME TypeOK, ChannelMoves, Registration
    PROVE  /\ channel' \in [Conns -> {"CNew", "CAdded", "CDeleted"}]
           /\ \A c \in Conns : channel'[c] = "CNew" <=> channel[c] = "CNew"
<1>1. Created \subseteq Conns
  BY DEF Created, TypeOK, Conns
<1>2. channel \in [Conns -> {"CNew", "CAdded", "CDeleted"}]
  BY DEF TypeOK
<1>3. CASE UNCHANGED channel
  BY <1>2, <1>3
<1>4. ASSUME NEW c \in Created, NEW to \in {"CAdded", "CDeleted"}, ~Connecting(c),
             channel' = [channel EXCEPT ![c] = to]
      PROVE  /\ channel' \in [Conns -> {"CNew", "CAdded", "CDeleted"}]
             /\ \A d \in Conns : channel'[d] = "CNew" <=> channel[d] = "CNew"
  <2>1. c \in Conns /\ channel[c] # "CNew"
    BY <1>1, <1>4 DEF Registration
  <2> QED
    BY <1>2, <1>4, <2>1
<1> QED
  BY <1>3, <1>4 DEF ChannelMoves

ActiveServed ==
    \A t \in Threads : \A c \in activeChannels_[t] :
        c \in Created /\ loop_[c] = t /\ ~Connecting(c)

(* A connection leaves the map when it is closed, a function is left to    *)
(* run if it was or if it suits the connection.                            *)
Ordinary ==
    /\ StateMoves /\ ChannelMoves
    /\ connectionMap_' \subseteq connectionMap_
    /\ \A c \in connectionMap_ \ connectionMap_' : state_'[c] \notin {"Connecting", "Connected"}
    /\ worker' = Idle \/ worker' = worker \/ (worker'.conn \in Conns /\ ~Connecting(worker'.conn))
    /\ \A t \in Threads : activeChannels_'[t] \subseteq activeChannels_[t]
    /\ \A t \in Threads : \A f \in LeftOn(t)' : f \in LeftOn(t) \/ Waits(t, f)'

(* What such a step leaves of the invariant once the queues are seen to.   *)
LEMMA MostSteps ==
    ASSUME IInv, Ordinary
    PROVE  Registration' /\ Waiting' /\ MapHoldsOpen' /\ ActiveServed'
<1> USE DEF Ordinary
<1>1. /\ Created' = Created /\ Created \subseteq Conns /\ UNCHANGED loop_
      /\ \A c \in Conns : Connecting(c)' <=> Connecting(c)
      /\ \A c \in Conns : state_'[c] = "Connected" => state_[c] = "Connected"
      /\ \A t, f : Waits(t, f) => Waits(t, f)'
  BY StatesKeep DEF IInv
<1>2. \A c \in Conns : channel'[c] = "CNew" <=> channel[c] = "CNew"
  BY ChannelsKeep DEF IInv
<1>3. Registration'
  <2>1. worker # Idle => worker.conn \in Conns
    BY <1>1 DEF IInv, TypeOK
  <2> QED
    BY <1>1, <1>2, <2>1 DEF IInv, Registration
<1>4. Waiting'
  BY <1>1 DEF IInv, Waiting
<1>5. MapHoldsOpen'
  <2> SUFFICES ASSUME NEW c \in Created, state_'[c] \in {"Connecting", "Connected"}
               PROVE  c \in connectionMap_'
    BY <1>1 DEF MapHoldsOpen
  <2>1. state_[c] \in {"Connecting", "Connected"}
    BY <1>1 DEF Connecting
  <2> QED
    BY <2>1 DEF IInv, MapHoldsOpen
<1>6. ActiveServed'
  BY <1>1 DEF IInv, Rounds, ActiveServed
<1> QED
  BY <1>3, <1>4, <1>5, <1>6

-------------------------------------------------------------------------------
(* The steps.                                                              *)

(* The invariant holds at first.                                           *)
LEMMA InitIInv == Init => IInv
<1> SUFFICES ASSUME Init PROVE IInv
  OBVIOUS
<1> USE DEF Init
<1>1. Created = {}
  BY DEF Created
<1>2. TypeOK
  BY <1>1 DEF TypeOK, Threads
<1>3. \A t \in Threads : /\ PendingOn(t) = {} /\ RestOn(t) = {}
                         /\ EstablishesOnce(pending[t], 1) /\ EstablishesOnce(batch[t], done[t] + 1)
  BY NothingQueued DEF PendingOn, RestOn
<1>4. Once /\ Waiting
  BY <1>3 DEF Once, Waiting, LeftOn
<1>5. Registration /\ Rounds /\ MapHoldsOpen
  BY <1>1 DEF Registration, Rounds, MapHoldsOpen, Connecting
<1> QED
  BY <1>2, <1>4, <1>5 DEF IInv

(* handleClose of a connection that has been established; the function     *)
(* that it may queue finds a connection that is not connected.             *)
LEMMA HandleCloseKeeps ==
    ASSUME IInv, NEW t \in Threads, NEW c \in Created, ~Connecting(c), handleClose(t, c),
           UNCHANGED poolVars, BatchShrinks
    PROVE  /\ StateMoves /\ ChannelMoves /\ Once'
           /\ connectionMap_' \subseteq connectionMap_
           /\ \A d \in connectionMap_ \ connectionMap_' : state_'[d] \notin {"Connecting", "Connected"}
           /\ pending' \in [Threads -> Seq(Functions)]
           /\ \A u \in Threads : \A f \in LeftOn(u)' :
                 f \in LeftOn(u) \/ (f.op = "connectionClose" /\ f.conn = c /\ Waits(u, f)')
<1> DEFINE f == Function("connectionClose", c)
<1>1. c \in Conns /\ Created' = Created /\ 0 \in Threads
  BY DEF IInv, TypeOK, Created, Conns, poolVars, Threads
<1>2. StateMoves /\ ChannelMoves
  BY DEF handleClose, StateMoves, ChannelMoves
<1>3. state_'[c] = "Disconnected" /\ TypeOK /\ Once
  BY <1>1 DEF handleClose, IInv, TypeOK
<1>4. ~Connecting(c)' /\ f \in Functions /\ f.op = "connectionClose" /\ f.conn = c
  BY <1>1, <1>3 DEF Connecting, Function, Functions, FunctionOps
<1>5. Waits(0, f)'
  BY <1>1, <1>3, <1>4 DEF Waits
<1> HIDE DEF f
<1>6. CASE t = 0
  <2>1. connectionMap_' = connectionMap_ \ {c} /\ UNCHANGED pending
    BY <1>6 DEF handleClose, connectionClose
  <2>2. Once' /\ \A u \in Threads : LeftOn(u)' \subseteq LeftOn(u)
    BY <1>3, <2>1, QueuesShrink
  <2> QED
    BY <1>2, <1>3, <2>1, <2>2 DEF TypeOK
<1>7. CASE t # 0
  <2>1. pending' = [pending EXCEPT ![0] = Append(@, f)] /\ UNCHANGED connectionMap_
    BY <1>7 DEF handleClose, connectionClose, f
  <2>2. /\ Once' /\ pending' \in [Threads -> Seq(Functions)]
        /\ \A u \in Threads : LeftOn(u)' \subseteq LeftOn(u) \cup (IF u = 0 THEN {f} ELSE {})
    BY <1>1, <1>3, <1>4, <2>1, QueueGrows
  <2> QED
    BY <1>2, <1>4, <1>5, <2>1, <2>2
<1> QED
  BY <1>6, <1>7

(* A function of an established connection is queued where it is served.   *)
LEMMA CallQueued ==
    ASSUME IInv, StateMoves, BatchShrinks, NEW c \in Created, ~Connecting(c),
           NEW op \in Ops \cup {"messageSent"},
           pending' = [pending EXCEPT ![loop_[c]] = Append(@, Function(op, c))]
    PROVE  /\ Once' /\ pending' \in [Threads -> Seq(Functions)]
           /\ \A u \in Threads : \A f \in LeftOn(u)' :
                 f \in LeftOn(u) \/ (f = Function(op, c) /\ Waits(u, f)')
<1> DEFINE f == Function(op, c)
<1>1. c \in Conns /\ loop_[c] \in Threads /\ TypeOK /\ Once
  BY SMTT(30) DEF IInv, TypeOK, Created, Conns
<1>2. f \in Functions /\ f.op \notin {"connectEstablished", "connectionClose"} /\ f.conn = c
  BY <1>1 DEF Function, Functions, FunctionOps, Ops
<1>3. Waits(loop_[c], f)'
  BY <1>1, <1>2, StatesKeep DEF Waits
<1>5. UNCHANGED loop_
  BY <1>1, StatesKeep
<1> HIDE DEF f
<1>4. /\ Once' /\ pending' \in [Threads -> Seq(Functions)]
      /\ \A u \in Threads : LeftOn(u)' \subseteq LeftOn(u) \cup (IF u = loop_[c] THEN {f} ELSE {})
  BY <1>1, <1>2, QueueGrows DEF f
<1> QED
  BY <1>3, <1>4, <1>5 DEF f

(* A loop goes on to another part of its round.                            *)
LEMMA RoundsKept ==
    ASSUME TypeOK, Rounds, ActiveServed', NEW t \in Threads, NEW to,
           to \in {"poll", "events", "callback", "return", "functions"},
           pc' = [pc EXCEPT ![t] = to],
           \A u \in Threads : activeChannels_'[u] \subseteq activeChannels_[u],
           \A u \in Threads \ {t} : batch'[u] = batch[u],
           to \in {"poll", "functions"} \/ batch'[t] # <<>> => activeChannels_'[t] = {},
           to \in {"poll", "events"} => batch'[t] = <<>>
    PROVE  Rounds' /\ pc' \in [Threads -> {"poll", "events", "callback", "return", "functions"}]
<1>1. /\ pc' \in [Threads -> {"poll", "events", "callback", "return", "functions"}]
      /\ \A u \in Threads : pc'[u] = IF u = t THEN to ELSE pc[u]
  BY DEF TypeOK
<1> QED
  BY <1>1 DEF Rounds, ActiveServed

(* Every step preserves the invariant.                                     *)
LEMMA NextIInv == IInv /\ [Next]_vars => IInv'
<1> SUFFICES ASSUME IInv, [Next]_vars PROVE IInv'
  OBVIOUS
<1>0. TypeOK /\ Registration /\ Rounds /\ Waiting /\ Once /\ MapHoldsOpen /\ Created \subseteq Conns
  BY DEF IInv, TypeOK, Created, Conns
<1> USE DEF connVars, poolVars
<1>1. ASSUME NEW t \in Threads, Poll(t) PROVE IInv'
  <2>1. UNCHANGED <<connVars, poolVars, held, locals, pending, batchVars, worker>>
    BY <1>1 DEF Poll, Go, batchVars
  <2>2. PICK S \in SUBSET {c \in Conns : loop_[c] = t /\ channel[c] = "CAdded" /\ Alive(c)} :
            activeChannels_' = [activeChannels_ EXCEPT ![t] = S]
    BY <1>1 DEF Poll
  <2>3. \A c \in S : c \in Conns /\ c \in Created /\ loop_[c] = t /\ ~Connecting(c)
    BY <1>0, <2>2 DEF Alive, Registration
  <2>4. Once' /\ \A u \in Threads : LeftOn(u)' = LeftOn(u)
    BY <1>0, <2>1 DEF Once, LeftOn, PendingOn, RestOn, batchVars
  <2>5. Registration' /\ Waiting' /\ MapHoldsOpen'
    BY <1>0, <2>1, <2>4 DEF Registration, Waiting, Waits, MapHoldsOpen, Created, Connecting
  <2>6. TypeOK'
    BY <1>0, <1>1, <2>1, <2>2, <2>3 DEF TypeOK, Created, batchVars, Poll, Go
  <2>7. Rounds'
    <3>1. /\ pc[t] = "poll" /\ batch' = batch
          /\ \A u \in Threads : pc'[u] = IF u = t THEN "events" ELSE pc[u]
      BY <1>0, <1>1, <2>1 DEF Poll, Go, TypeOK, batchVars
    <3>2. \A u \in Threads : activeChannels_'[u] = IF u = t THEN S ELSE activeChannels_[u]
      BY <1>0, <2>2 DEF TypeOK
    <3>3. ActiveServed'
      BY <1>0, <2>1, <2>3, <3>2 DEF Rounds, ActiveServed, Created, Connecting
    <3> QED
      BY <1>0, <3>1, <3>2, <3>3 DEF Rounds, ActiveServed
  <2> QED
    BY <2>4, <2>5, <2>6, <2>7 DEF IInv
<1>2. ASSUME NEW t \in Threads, NEW c \in activeChannels_[t],
             HandleMessage(t, c) \/ HandleWritten(t, c) \/ HandleEnd(t, c)
      PROVE IInv'
  <2>1. PICK to \in {"callback", "return"} : Handle(t, c, to)
    BY <1>2 DEF HandleMessage, HandleWritten, HandleEnd
  <2>2. c \in Created /\ c \in Conns /\ loop_[c] = t /\ ~Connecting(c) /\ batch[t] = <<>>
    BY <1>0, <1>2, <2>1 DEF Rounds, Handle, Go
  <2>3. /\ UNCHANGED <<poolVars, worker, held, batchVars>> /\ pc' = [pc EXCEPT ![t] = to]
        /\ activeChannels_' = [activeChannels_ EXCEPT ![t] = @ \ {c}]
        /\ locals' = [locals EXCEPT ![t] = {c}]
    BY <2>1 DEF Handle, Go
  <2>4. BatchShrinks
    BY <1>0, <2>3, BatchUntouched
  <2>5. /\ StateMoves /\ ChannelMoves /\ Once'
        /\ connectionMap_' \subseteq connectionMap_
        /\ \A d \in connectionMap_ \ connectionMap_' : state_'[d] \notin {"Connecting", "Connected"}
        /\ pending' \in [Threads -> Seq(Functions)]
        /\ \A u \in Threads : \A f \in LeftOn(u)' : f \in LeftOn(u) \/ Waits(u, f)'
    <3>1. CASE HandleMessage(t, c)
      BY <1>0, <2>3, <2>4, <3>1, QueuesShrink DEF HandleMessage, StateMoves, ChannelMoves, TypeOK
    <3>2. CASE HandleWritten(t, c)
      <4>1. StateMoves /\ ChannelMoves /\ UNCHANGED connectionMap_
        BY <2>3, <3>2 DEF HandleWritten, StateMoves, ChannelMoves
      <4>2. pending' = [pending EXCEPT ![loop_[c]] = Append(@, Function("messageSent", c))]
        BY <2>2, <3>2 DEF HandleWritten
      <4> QED
        BY <2>2, <2>4, <4>1, <4>2, CallQueued
    <3>3. CASE HandleEnd(t, c)
      <4>1. handleClose(t, c) /\ UNCHANGED poolVars
        BY <2>3, <3>3 DEF HandleEnd
      <4> QED
        BY <2>2, <2>4, <4>1, HandleCloseKeeps
    <3> QED
      BY <1>2, <3>1, <3>2, <3>3
  <2>6. \A u \in Threads : activeChannels_'[u] \subseteq activeChannels_[u]
    BY <1>0, <2>3 DEF TypeOK
  <2>7. Registration' /\ Waiting' /\ MapHoldsOpen' /\ ActiveServed'
    <3>1. Ordinary
      BY <2>3, <2>5, <2>6 DEF Ordinary
    <3> QED
      BY <3>1, MostSteps
  <2>8. TypeOK'
    BY ZenonT(60), <1>0, <2>2, <2>3, <2>5, StatesKeep, ChannelsKeep DEF TypeOK, batchVars
  <2>9. Rounds'
    BY <1>0, <2>2, <2>3, <2>6, <2>7, RoundsKept DEF batchVars
  <2> QED
    BY <2>5, <2>7, <2>8, <2>9 DEF IInv
<1>3. ASSUME NEW t \in Threads, Return(t) PROVE IInv'
  <2>1. /\ UNCHANGED <<connVars, poolVars, worker, held, activeChannels_, pending, batchVars>>
        /\ locals' = [locals EXCEPT ![t] = {}]
        /\ pc' = [pc EXCEPT ![t] = IF batch[t] = <<>> THEN "events" ELSE "functions"]
    BY <1>3 DEF Return, Go
  <2>2. Once' /\ \A u \in Threads : LeftOn(u)' \subseteq LeftOn(u)
    BY <1>0, <2>1, BatchUntouched, QueuesShrink
  <2>3. Ordinary
    BY <2>1, <2>2 DEF Ordinary, StateMoves, ChannelMoves
  <2>4. Registration' /\ Waiting' /\ MapHoldsOpen' /\ ActiveServed'
    BY <2>3, MostSteps
  <2>5. batch[t] # <<>> => activeChannels_[t] = {}
    BY <1>0 DEF Rounds
  <2>6. Rounds'
    BY <1>0, <2>1, <2>4, <2>5, RoundsKept DEF batchVars
  <2>7. TypeOK'
    BY <1>0, <2>1 DEF TypeOK, batchVars, Created
  <2> QED
    BY <2>2, <2>4, <2>6, <2>7 DEF IInv
<1>4. ASSUME NEW t \in Threads, SwapPending(t) PROVE IInv'
  <2>1. /\ UNCHANGED <<connVars, poolVars, worker, held, activeChannels_, locals>>
        /\ pc' = [pc EXCEPT ![t] = IF pending[t] = <<>> THEN "poll" ELSE "functions"]
        /\ activeChannels_[t] = {}
        /\ batch' = [batch EXCEPT ![t] = pending[t]]
        /\ pending' = [pending EXCEPT ![t] = <<>>] /\ done' = [done EXCEPT ![t] = 0]
    BY <1>4 DEF SwapPending, Go
  <2>2. /\ batch' \in [Threads -> Seq(Functions)] /\ pending' \in [Threads -> Seq(Functions)]
        /\ done' \in [Threads -> Nat]
        /\ \A u \in Threads :
               /\ batch'[u] = IF u = t THEN pending[t] ELSE batch[u]
               /\ pending'[u] = IF u = t THEN <<>> ELSE pending[u]
               /\ done'[u] = IF u = t THEN 0 ELSE done[u]
    BY <1>0, <2>1 DEF TypeOK
  <2>3. \A u \in Threads :
            IF u = t THEN PendingOn(u)' = {} /\ RestOn(u)' = PendingOn(t)
                     ELSE PendingOn(u)' = PendingOn(u) /\ RestOn(u)' = RestOn(u)
    BY <2>2, NothingQueued DEF PendingOn, RestOn
  <2>4. Once'
    <3> SUFFICES ASSUME NEW u \in Threads
                 PROVE  /\ EstablishesOnce(pending'[u], 1) /\ EstablishesOnce(batch'[u], done'[u] + 1)
                        /\ \A f \in PendingOn(u)' \cap RestOn(u)' : f.op # "connectEstablished"
      BY DEF Once
    <3>1. CASE u = t
      <4>1. pending'[u] = <<>> /\ batch'[u] = pending[t] /\ done'[u] + 1 = 1
        BY <2>2, <3>1
      <4> QED
        BY <1>0, <2>3, <3>1, <4>1, NothingQueued DEF Once
    <3>2. CASE u # t
      BY <1>0, <2>2, <2>3, <3>2 DEF Once
    <3> QED
      BY <3>1, <3>2
  <2>5. Ordinary
    BY <2>1, <2>3 DEF Ordinary, StateMoves, ChannelMoves, LeftOn
  <2>6. Registration' /\ Waiting' /\ MapHoldsOpen' /\ ActiveServed'
    BY <2>5, MostSteps
  <2>7. Rounds'
    BY <1>0, <2>1, <2>2, <2>6, RoundsKept
  <2>8. TypeOK'
    BY <1>0, <2>1, <2>2 DEF TypeOK, Created
  <2> QED
    BY <2>4, <2>6, <2>7, <2>8 DEF IInv
<1>5. ASSUME NEW t \in Threads, BatchDone(t) PROVE IInv'
  <2>1. /\ UNCHANGED <<connVars, poolVars, worker, held, activeChannels_, locals, pending>>
        /\ pc[t] = "functions" /\ pc' = [pc EXCEPT ![t] = "poll"]
        /\ batch' = [batch EXCEPT ![t] = <<>>] /\ done' = [done EXCEPT ![t] = 0]
    BY <1>5 DEF BatchDone, Go
  <2>2. /\ batch' \in [Threads -> Seq(Functions)] /\ done' \in [Threads -> Nat]
        /\ \A u \in Threads :
               /\ batch'[u] = IF u = t THEN <<>> ELSE batch[u]
               /\ done'[u] = IF u = t THEN 0 ELSE done[u]
    BY <1>0, <2>1 DEF TypeOK
  <2>3. BatchShrinks
    <3> SUFFICES ASSUME NEW u \in Threads
                 PROVE  RestOn(u)' \subseteq RestOn(u) /\ EstablishesOnce(batch'[u], done'[u] + 1)
      BY DEF BatchShrinks
    <3>1. CASE u = t
      <4>1. batch'[u] = <<>> /\ done'[u] + 1 = 1
        BY <2>2, <3>1
      <4> QED
        BY <4>1, NothingQueued DEF RestOn
    <3>2. CASE u # t
      BY <1>0, <2>2, <3>2 DEF Once, RestOn
    <3> QED
      BY <3>1, <3>2
  <2>4. Once' /\ \A u \in Threads : LeftOn(u)' \subseteq LeftOn(u)
    BY <1>0, <2>1, <2>3, QueuesShrink
  <2>5. Ordinary
    BY <2>1, <2>4 DEF Ordinary, StateMoves, ChannelMoves
  <2>6. Registration' /\ Waiting' /\ MapHoldsOpen' /\ ActiveServed'
    BY <2>5, MostSteps
  <2>7. activeChannels_[t] = {}
    BY <1>0, <2>1 DEF Rounds
  <2>8. Rounds'
    BY <1>0, <2>1, <2>2, <2>6, <2>7, RoundsKept
  <2>9. TypeOK'
    BY <1>0, <2>1, <2>2 DEF TypeOK, Created
  <2> QED
    BY <2>4, <2>6, <2>8, <2>9 DEF IInv
<1>6. ASSUME NEW t \in Threads, connectEstablished(t) PROVE IInv'
  <2> DEFINE f == NextFunction(t)
             c == f.conn
  <2>1. /\ UNCHANGED <<poolVars, worker, activeChannels_, batch, connectionMap_, pending>>
        /\ pc[t] = "functions" /\ pc' = [pc EXCEPT ![t] = "callback"]
        /\ done[t] < Len(batch[t]) /\ done' = [done EXCEPT ![t] = @ + 1]
        /\ f.op = "connectEstablished"
        /\ state_' = [state_ EXCEPT ![c] = "Connected"]
        /\ channel' = [channel EXCEPT ![c] = "CAdded"]
        /\ locals' = [locals EXCEPT ![t] = {c}]
        /\ held' = held \/ held' = held \cup {c}
    BY <1>6 DEF connectEstablished, Run, Go
  <2>2. /\ BatchShrinks /\ done' \in [Threads -> Nat]
        /\ f \in Functions /\ f \in LeftOn(t)
        /\ f \notin PendingOn(t) \cup RestOn(t)'
    BY <1>0, <2>1, BatchRuns
  <2>3. c \in Created /\ c \in Conns /\ Connecting(c) /\ loop_[c] = t
    BY <1>0, <2>1, <2>2 DEF Waiting, Waits
  <2>4. f = Function("connectEstablished", c)
    BY <2>1, <2>2 DEF Functions, Function
  <2> HIDE DEF f
  <2>5. Once' /\ \A u \in Threads : LeftOn(u)' \subseteq LeftOn(u)
    BY <1>0, <2>1, <2>2, QueuesShrink
  <2>6. f \notin LeftOn(t)'
    BY <2>1, <2>2 DEF LeftOn, PendingOn
  <2>7. \A d \in Conns : state_'[d] = IF d = c THEN "Connected" ELSE state_[d]
    BY <1>0, <2>1, <2>3 DEF TypeOK
  <2>8. \A d \in Conns : channel'[d] = IF d = c THEN "CAdded" ELSE channel[d]
    BY <1>0, <2>1, <2>3 DEF TypeOK
  <2>9. Waiting'
    <3> SUFFICES ASSUME NEW u \in Threads, NEW g \in LeftOn(u)'
                 PROVE  Waits(u, g)'
      BY DEF Waiting
    <3>1. Waits(u, g)
      BY <1>0, <2>5 DEF Waiting
    <3>2. g.conn # c
      <4>1. g.conn = c => g.op = "connectEstablished" /\ u = t
        BY <2>3, <3>1 DEF Waits
      <4>2. g.conn = c => g = f
        BY <2>4, <3>1, <4>1 DEF Waits, Functions, Function
      <4> QED
        BY <2>6, <4>1, <4>2
    <3> QED
      BY <1>0, <2>1, <2>7, <3>1, <3>2 DEF Waits, Created, Connecting
  <2>10. Registration' /\ MapHoldsOpen' /\ ActiveServed'
    BY SMTT(30), <1>0, <2>1, <2>3, <2>7, <2>8
       DEF Registration, MapHoldsOpen, ActiveServed, Rounds, Connecting, Created, TypeOK, Idle
  <2>11. activeChannels_[t] = {}
    BY <1>0, <2>1 DEF Rounds
  <2>12. Rounds'
    BY <1>0, <2>1, <2>10, <2>11, RoundsKept
  <2>13. TypeOK'
    BY <1>0, <2>1, <2>2, <2>3 DEF TypeOK, Created
  <2> QED
    BY <2>5, <2>9, <2>10, <2>12, <2>13 DEF IInv
<1>7. ASSUME NEW t \in Threads,
             messageSent(t) \/ sendInLoop(t) \/ shutDownInLoop(t)
                 \/ forceCloseInLoop(t) \/ connectionCloseInLoop(t)
      PROVE  IInv'
  <2> DEFINE f == NextFunction(t)
             c == f.conn
  <2>1. PICK op \in FunctionOps \ {"connectEstablished"}, to \in {"callback", "functions"} : Run(t, op, to)
    BY <1>7 DEF messageSent, sendInLoop, shutDownInLoop, forceCloseInLoop, connectionCloseInLoop,
                FunctionOps, Ops
  <2>2. /\ UNCHANGED <<poolVars, worker, activeChannels_, batch>>
        /\ pc[t] = "functions" /\ pc' = [pc EXCEPT ![t] = to]
        /\ done[t] < Len(batch[t]) /\ done' = [done EXCEPT ![t] = @ + 1]
        /\ f.op = op /\ op # "connectEstablished"
    BY <2>1 DEF Run, Go
  <2>3. /\ BatchShrinks /\ done' \in [Threads -> Nat]
        /\ f \in Functions /\ f \in LeftOn(t)
    BY <1>0, <2>2, BatchRuns
  <2>4. c \in Created /\ c \in Conns /\ ~Connecting(c) /\ (f.op = "connectionClose" => state_[c] # "Connected")
    BY <1>0, <2>2, <2>3 DEF Waiting, Waits
  <2> HIDE DEF f
  <2>5. /\ StateMoves /\ ChannelMoves /\ Once'
        /\ connectionMap_' \subseteq connectionMap_
        /\ \A d \in connectionMap_ \ connectionMap_' : state_'[d] \notin {"Connecting", "Connected"}
        /\ pending' \in [Threads -> Seq(Functions)]
        /\ \A u \in Threads : \A g \in LeftOn(u)' : g \in LeftOn(u) \/ Waits(u, g)'
    <3>1. CASE messageSent(t) \/ shutDownInLoop(t) \/ sendInLoop(t)
      <4>1. StateMoves /\ ChannelMoves /\ UNCHANGED <<connectionMap_, pending>>
        BY <2>2, <2>4, <3>1 DEF messageSent, shutDownInLoop, sendInLoop, StateMoves, ChannelMoves, f
      <4> QED
        BY <1>0, <2>3, <4>1, QueuesShrink DEF TypeOK
    <3>2. CASE forceCloseInLoop(t) /\ Open(c)
      <4>1. handleClose(t, c) /\ UNCHANGED poolVars
        BY <2>2, <3>2 DEF forceCloseInLoop, f
      <4> QED
        BY <2>3, <2>4, <4>1, HandleCloseKeeps
    <3>3. CASE forceCloseInLoop(t) /\ ~Open(c)
      <4>1. UNCHANGED <<connVars, pending, poolVars>>
        BY <2>2, <3>3 DEF forceCloseInLoop, f
      <4> QED
        BY <1>0, <2>3, <4>1, QueuesShrink DEF TypeOK, StateMoves, ChannelMoves
    <3>4. CASE connectionCloseInLoop(t)
      <4>1. /\ UNCHANGED <<state_, channel, pending, poolVars>> /\ connectionMap_' = connectionMap_ \ {c}
            /\ f.op = "connectionClose"
        BY <2>2, <3>4 DEF connectionCloseInLoop, f, Run
      <4>2. state_[c] \notin {"Connecting", "Connected"}
        BY <2>4, <4>1 DEF Connecting
      <4> QED
        BY <1>0, <2>3, <4>1, <4>2, QueuesShrink DEF TypeOK, StateMoves, ChannelMoves
    <3> QED
      BY <1>7, <3>1, <3>2, <3>3, <3>4
  <2>6. Ordinary
    BY <2>2, <2>5 DEF Ordinary
  <2>7. Registration' /\ Waiting' /\ MapHoldsOpen' /\ ActiveServed'
    BY <2>6, MostSteps
  <2>8. activeChannels_[t] = {}
    BY <1>0, <2>2 DEF Rounds
  <2>9. Rounds'
    BY <1>0, <2>2, <2>7, <2>8, RoundsKept
  <2>10. UNCHANGED held /\ locals' \in [Threads -> SUBSET Conns]
    <3>1. UNCHANGED held
      BY <1>7 DEF messageSent, sendInLoop, shutDownInLoop, forceCloseInLoop, connectionCloseInLoop, f
    <3>2. UNCHANGED locals \/ locals' = [locals EXCEPT ![t] = {c}]
      BY <1>7 DEF messageSent, sendInLoop, shutDownInLoop, forceCloseInLoop, connectionCloseInLoop, f
    <3>3. locals \in [Threads -> SUBSET Conns]
      BY <1>0 DEF TypeOK
    <3> QED
      BY <2>4, <3>1, <3>2, <3>3
  <2>11. TypeOK'
    BY <1>0, <2>2, <2>3, <2>5, <2>9, <2>10, StatesKeep, ChannelsKeep, RoundsKept DEF TypeOK, Created
  <2> QED
    BY <2>5, <2>7, <2>9, <2>11 DEF IInv
<1>8. CASE newConnection
  <2> DEFINE c == connectionId_ + 1
             f == Function("connectEstablished", c)
             u == getLoop
  <2>1. /\ UNCHANGED <<state_, channel, held, pc, activeChannels_, locals, batchVars, worker>>
        /\ connectionId_ < MaxConns /\ connectionId_' = c
        /\ loop_' = [loop_ EXCEPT ![c] = u]
        /\ connectionMap_' = connectionMap_ \cup {c}
        /\ pending' = [pending EXCEPT ![u] = Append(@, f)]
    BY <1>8 DEF newConnection
  <2>2. /\ c \in Conns /\ c \notin Created /\ Created' = Created \cup {c} /\ c \in 0 .. MaxConns
        /\ connectionId_ \in Nat
    BY <1>0, <2>1 DEF TypeOK, Conns, Created
  <2>3. u \in Threads
    BY <2>2 DEF getLoop, Threads
  <2>4. f \in Functions /\ f.conn = c /\ f.op = "connectEstablished" /\ f \notin LeftOn(u)
    <3>1. f \in Functions /\ f.conn = c /\ f.op = "connectEstablished"
      BY <2>2 DEF Function, Functions, FunctionOps
    <3>2. f \notin LeftOn(u)
      BY <1>0, <2>2, <2>3, <3>1 DEF Waiting, Waits
    <3> QED
      BY <3>1, <3>2
  <2> HIDE DEF c, f, u
  <2>5. BatchShrinks
    BY <1>0, <2>1, BatchUntouched
  <2>6. /\ Once' /\ pending' \in [Threads -> Seq(Functions)]
        /\ \A t \in Threads : LeftOn(t)' \subseteq LeftOn(t) \cup (IF t = u THEN {f} ELSE {})
    BY <1>0, <2>1, <2>3, <2>4, <2>5, QueueGrows
  <2>7. \A d \in Conns : loop_'[d] = IF d = c THEN u ELSE loop_[d]
    BY <1>0, <2>1, <2>2 DEF TypeOK
  <2>8. Connecting(c)
    BY <1>0, <2>2 DEF Registration
  <2>9. Waiting'
    <3> SUFFICES ASSUME NEW t \in Threads, NEW g \in LeftOn(t)'
                 PROVE  Waits(t, g)'
      BY DEF Waiting
    <3>1. CASE g \in LeftOn(t)
      <4>1. Waits(t, g)
        BY <1>0, <3>1 DEF Waiting
      <4> QED
        BY <1>0, <2>1, <2>2, <2>7, <4>1 DEF Waits, Connecting
    <3>2. CASE t = u /\ g = f
      BY <2>1, <2>2, <2>4, <2>7, <2>8, <3>2 DEF Waits, Connecting
    <3> QED
      BY <2>6, <3>1, <3>2
  <2>10. Registration' /\ MapHoldsOpen' /\ Rounds'
    BY <1>0, <2>1, <2>2, <2>7 DEF Registration, MapHoldsOpen, Rounds, Connecting, batchVars
  <2>11. TypeOK'
    BY <1>0, <2>1, <2>2, <2>3, <2>6 DEF TypeOK, batchVars
  <2> QED
    BY <2>6, <2>9, <2>10, <2>11 DEF IInv
<1>9. ASSUME NEW t \in Threads, NEW c \in Created, NEW op \in Ops, CallFromCallback(t, c, op)
      PROVE  IInv'
  <2>1. /\ UNCHANGED <<poolVars, held, pc, activeChannels_, batchVars, worker>>
        /\ Allowed(c, op) /\ locals' = [locals EXCEPT ![t] = @ \cup {c}]
    BY <1>9 DEF CallFromCallback
  <2>2. ~Connecting(c) /\ c \in Conns
    BY <1>0, <2>1 DEF Allowed, Open, Connecting
  <2>3. BatchShrinks
    BY <1>0, <2>1, BatchUntouched
  <2>4. /\ StateMoves /\ ChannelMoves /\ Once'
        /\ connectionMap_' \subseteq connectionMap_
        /\ \A d \in connectionMap_ \ connectionMap_' : state_'[d] \notin {"Connecting", "Connected"}
        /\ pending' \in [Threads -> Seq(Functions)]
        /\ \A u \in Threads : \A g \in LeftOn(u)' : g \in LeftOn(u) \/ Waits(u, g)'
    <3>1. CASE loop_[c] = t /\ op = "forceClose"
      <4>1. handleClose(t, c) /\ UNCHANGED poolVars
        BY <1>9, <2>1, <3>1 DEF CallFromCallback
      <4> QED
        BY <2>2, <2>3, <4>1, HandleCloseKeeps
    <3>2. CASE ~(loop_[c] = t /\ op = "forceClose")
      <4>1. /\ state_' = StateAfter(c, op) /\ UNCHANGED <<connectionMap_, channel, poolVars>>
            /\ IF loop_[c] = t THEN UNCHANGED pending ELSE queueInLoop(c, op)
        BY <1>9, <2>1, <3>2 DEF CallFromCallback
      <4>2. StateMoves /\ ChannelMoves
        BY <2>2, <4>1 DEF StateMoves, ChannelMoves, StateAfter
      <4>3. CASE loop_[c] = t
        BY <1>0, <2>3, <4>1, <4>2, <4>3, QueuesShrink DEF TypeOK
      <4>4. CASE loop_[c] # t
        <5>1. pending' = [pending EXCEPT ![loop_[c]] = Append(@, Function(op, c))]
          BY <4>1, <4>4 DEF queueInLoop
        <5> QED
          BY <2>2, <2>3, <4>1, <4>2, <5>1, CallQueued
      <4> QED
        BY <4>3, <4>4
    <3> QED
      BY <3>1, <3>2
  <2>5. Ordinary
    BY <2>1, <2>4 DEF Ordinary
  <2>6. Registration' /\ Waiting' /\ MapHoldsOpen' /\ ActiveServed'
    BY <2>5, MostSteps
  <2>7. Rounds'
    BY <1>0, <2>1, <2>6 DEF Rounds, ActiveServed, batchVars
  <2>8. TypeOK'
    <3>1. locals' \in [Threads -> SUBSET Conns]
      BY <1>0, <2>1, <2>2 DEF TypeOK
    <3> QED
      BY <1>0, <2>1, <2>4, <3>1, StatesKeep, ChannelsKeep DEF TypeOK, batchVars, Created
  <2> QED
    BY <2>4, <2>6, <2>7, <2>8 DEF IInv
<1>10. ASSUME NEW c \in Created, NEW op \in Ops, WorkerChecks(c, op) PROVE IInv'
  <2>1. /\ UNCHANGED <<connVars, poolVars, held, pc, activeChannels_, locals, pending, batchVars>>
        /\ worker' = Function(op, c) /\ Allowed(c, op)
    BY <1>10 DEF WorkerChecks
  <2>2. /\ ~Connecting(c) /\ c \in Conns /\ worker'.conn = c
        /\ worker' \in [op : Ops, conn : Created]
    BY <1>0, <2>1 DEF Allowed, Open, Connecting, Function
  <2>3. Once' /\ \A u \in Threads : LeftOn(u)' \subseteq LeftOn(u)
    BY <1>0, <2>1, BatchUntouched, QueuesShrink
  <2>4. Ordinary
    BY <2>1, <2>2, <2>3 DEF Ordinary, StateMoves, ChannelMoves
  <2>5. Registration' /\ Waiting' /\ MapHoldsOpen' /\ ActiveServed'
    BY <2>4, MostSteps
  <2>6. Rounds' /\ TypeOK'
    BY <1>0, <2>1, <2>2, <2>5 DEF Rounds, ActiveServed, TypeOK, batchVars, Created
  <2> QED
    BY <2>3, <2>5, <2>6 DEF IInv
<1>11. CASE WorkerQueues
  <2> DEFINE c == worker.conn
             op == worker.op
  <2>1. /\ UNCHANGED <<connectionMap_, channel, poolVars, held, pc, activeChannels_, locals, batchVars>>
        /\ worker # Idle /\ worker' = Idle /\ state_' = StateAfter(c, op)
        /\ pending' = [pending EXCEPT ![loop_[c]] = Append(@, Function(op, c))]
    BY <1>11 DEF WorkerQueues, queueInLoop
  <2>2. c \in Created /\ op \in Ops /\ ~Connecting(c)
    BY <1>0, <2>1 DEF TypeOK, Registration
  <2> HIDE DEF c, op
  <2>3. StateMoves /\ ChannelMoves
    BY <2>1, <2>2 DEF StateMoves, ChannelMoves, StateAfter
  <2>4. BatchShrinks
    BY <1>0, <2>1, BatchUntouched
  <2>5. /\ Once' /\ pending' \in [Threads -> Seq(Functions)]
        /\ \A u \in Threads : \A f \in LeftOn(u)' :
               f \in LeftOn(u) \/ (f = Function(op, c) /\ Waits(u, f)')
    BY <2>1, <2>2, <2>3, <2>4, CallQueued
  <2>6. Ordinary
    BY <2>1, <2>3, <2>5 DEF Ordinary
  <2>7. Registration' /\ Waiting' /\ MapHoldsOpen' /\ ActiveServed'
    BY <2>6, MostSteps
  <2>8. Rounds' /\ TypeOK'
    BY <1>0, <2>1, <2>3, <2>5, <2>7, StatesKeep DEF Rounds, ActiveServed, TypeOK, batchVars, Created
  <2> QED
    BY <2>5, <2>7, <2>8 DEF IInv
<1>12. ASSUME NEW c \in Created, AppDrops(c) PROVE IInv'
  <2>1. /\ UNCHANGED <<connVars, poolVars, pc, activeChannels_, locals, pending, batchVars, worker>>
        /\ held' = held \ {c}
    BY <1>12 DEF AppDrops
  <2>2. Once' /\ \A u \in Threads : LeftOn(u)' \subseteq LeftOn(u)
    BY <1>0, <2>1, BatchUntouched, QueuesShrink
  <2>3. Ordinary
    BY <2>1, <2>2 DEF Ordinary, StateMoves, ChannelMoves
  <2>4. Registration' /\ Waiting' /\ MapHoldsOpen' /\ ActiveServed'
    BY <2>3, MostSteps
  <2>5. Rounds' /\ TypeOK'
    BY <1>0, <2>1, <2>4 DEF Rounds, ActiveServed, TypeOK, batchVars, Created
  <2> QED
    BY <2>2, <2>4, <2>5 DEF IInv
<1>13. CASE UNCHANGED vars
  <2>1. UNCHANGED <<connVars, poolVars, pc, activeChannels_, locals, pending, batchVars, worker, held>>
    BY <1>13 DEF vars
  <2>2. Once' /\ \A u \in Threads : LeftOn(u)' \subseteq LeftOn(u)
    BY <1>0, <2>1, BatchUntouched, QueuesShrink
  <2>3. Ordinary
    BY <2>1, <2>2 DEF Ordinary, StateMoves, ChannelMoves
  <2>4. Registration' /\ Waiting' /\ MapHoldsOpen' /\ ActiveServed'
    BY <2>3, MostSteps
  <2>5. Rounds' /\ TypeOK'
    BY <1>0, <2>1, <2>4 DEF Rounds, ActiveServed, TypeOK, batchVars, Created
  <2> QED
    BY <2>2, <2>4, <2>5 DEF IInv
<1> QED
  BY <1>1, <1>2, <1>3, <1>4, <1>5, <1>6, <1>7, <1>8, <1>9, <1>10, <1>11, <1>12, <1>13 DEF Next, Step

(* Every connection is registered, waiting or in the map as its state says *)
(* in every execution, whatever is called from where.                      *)
THEOREM SpecIInv == Spec => []IInv
<1> QED
  BY InitIInv, NextIInv, PTL DEF Spec

(* Whatever the application and its threads call, the server's map holds   *)
(* every connection that waits to be established or is connected.          *)
THEOREM MapAlwaysHoldsOpen == Spec => []MapHoldsOpen
<1>1. IInv => MapHoldsOpen
  BY DEF IInv
<1> QED
  BY SpecIInv, <1>1, PTL

-------------------------------------------------------------------------------
(* Careful use.                                                            *)

(* The invariant of careful use holds at first.                            *)
LEMMA InitLInv == Init => LInv
<1> SUFFICES ASSUME Init PROVE LInv
  OBVIOUS
<1> USE DEF Init
<1>1. Created = {} /\ worker = Idle
  BY DEF Created
<1>2. \A t \in Threads : LeftOn(t) = {}
  BY NothingQueued DEF LeftOn, PendingOn, RestOn
<1> QED
  BY <1>1, <1>2 DEF LInv, BoundToKept, MapHoldsRegistered, ActiveRegistered, Idle

(* A step that touches no connection but c, which is kept, and queues      *)
(* nothing that is new or binds "this" to another connection.              *)
Careful ==
    /\ StateMoves /\ UNCHANGED held
    /\ \A c \in Created \ Kept : channel'[c] = channel[c] /\ (c \in connectionMap_ => c \in connectionMap_')
    /\ worker' = worker \/ worker' = Idle
    /\ \A t \in Threads : \A f \in LeftOn(t)' :
          \/ f \in LeftOn(t)
          \/ f.op # "connectionClose" /\ (f.op \in {"send", "shutDown"} => f.conn \in Kept)

(* Steps that drop no reference and bind "this" only on kept connections.  *)
LEMMA CarefulSteps ==
    ASSUME IInv, LInv, Careful
    PROVE  BoundToKept' /\ MapHoldsRegistered'
<1>1. /\ TypeOK /\ Created' = Created /\ \A c \in Created : c \in Conns /\ (Connecting(c)' <=> Connecting(c))
  BY StatesKeep DEF IInv, Careful
<1>2. \A t \in Threads : \A f \in LeftOn(t) : f.conn \in Created
  BY DEF IInv, Waiting, Waits
<1>3. BoundToKept'
  BY <1>1 DEF LInv, BoundToKept, Careful, Idle
<1>4. MapHoldsRegistered'
  BY <1>1, <1>2 DEF LInv, MapHoldsRegistered, Careful
<1> QED
  BY <1>3, <1>4

(* handleClose: the connection has left epoll when it leaves the map.      *)
LEMMA HandleCloseCareful ==
    ASSUME IInv, LInv, NEW t \in Threads, NEW c \in Created, ~Connecting(c), handleClose(t, c),
           UNCHANGED <<poolVars, held, worker>>, BatchShrinks
    PROVE  /\ BoundToKept' /\ MapHoldsRegistered'
           /\ \A d \in Conns \ {c} : channel'[d] = channel[d]
<1>1. /\ TypeOK /\ UNCHANGED poolVars /\ StateMoves
      /\ \A u \in Threads : \A f \in LeftOn(u)' :
             f \in LeftOn(u) \/ (f.op = "connectionClose" /\ f.conn = c)
  BY HandleCloseKeeps DEF IInv
<1>2. /\ Created' = Created /\ Created \subseteq Conns
      /\ \A d \in Conns : Connecting(d)' <=> Connecting(d)
  BY <1>1, StatesKeep
<1>3. \A d \in Conns : channel'[d] = IF d = c THEN "CDeleted" ELSE channel[d]
  BY <1>1, <1>2 DEF handleClose, TypeOK
<1>4. \A d \in Conns \ {c} : d \in connectionMap_ => d \in connectionMap_'
  BY DEF handleClose, connectionClose
<1>5. \A u \in Threads : \A f \in LeftOn(u) : f.conn \in Conns
  BY <1>2 DEF IInv, Waiting, Waits
<1>6. BoundToKept'
  BY <1>1, <1>2 DEF LInv, BoundToKept
<1>7. MapHoldsRegistered'
  BY <1>1, <1>2, <1>3, <1>4, <1>5 DEF LInv, MapHoldsRegistered
<1> QED
  BY <1>3, <1>6, <1>7

(* Under careful use every step preserves its invariant.                   *)
LEMMA NextLInv ==
    ASSUME CarefulUse
    PROVE  IInv /\ LInv /\ [Next]_vars => LInv'
<1> SUFFICES ASSUME IInv, LInv, [Next]_vars PROVE LInv'
  OBVIOUS
<1>0. /\ TypeOK /\ Registration /\ Rounds /\ Waiting /\ Once /\ MapHoldsOpen /\ Created \subseteq Conns
      /\ BoundToKept /\ MapHoldsRegistered /\ ActiveRegistered
  BY DEF IInv, TypeOK, Created, Conns, LInv
<1> USE DEF connVars, poolVars
<1>1. ASSUME NEW t \in Threads, Poll(t) PROVE LInv'
  <2>1. /\ UNCHANGED <<connVars, poolVars, held, locals, pending, batchVars, worker>>
        /\ pc[t] = "poll" /\ pc' = [pc EXCEPT ![t] = "events"]
    BY <1>1 DEF Poll, Go, batchVars
  <2>2. PICK S \in SUBSET {c \in Conns : loop_[c] = t /\ channel[c] = "CAdded" /\ Alive(c)} :
            activeChannels_' = [activeChannels_ EXCEPT ![t] = S]
    BY <1>1 DEF Poll
  <2>3. \A u \in Threads : LeftOn(u)' \subseteq LeftOn(u)
    BY <1>0, <2>1, BatchUntouched, QueuesShrink
  <2>4. Careful
    BY <2>1, <2>3 DEF Careful, StateMoves
  <2>5. /\ \A u \in Threads : pc'[u] = IF u = t THEN "events" ELSE pc[u]
        /\ \A u \in Threads : activeChannels_'[u] = IF u = t THEN S ELSE activeChannels_[u]
    BY <1>0, <2>1, <2>2 DEF TypeOK
  <2>6. ActiveRegistered'
    BY <1>0, <2>1, <2>2, <2>5 DEF ActiveRegistered
  <2> QED
    BY <2>4, <2>6, CarefulSteps DEF LInv
<1>2. ASSUME NEW t \in Threads, NEW c \in activeChannels_[t],
             HandleMessage(t, c) \/ HandleWritten(t, c) \/ HandleEnd(t, c)
      PROVE LInv'
  <2>1. PICK to \in {"callback", "return"} : Handle(t, c, to)
    BY <1>2 DEF HandleMessage, HandleWritten, HandleEnd
  <2>2. c \in Created /\ c \in Conns /\ loop_[c] = t /\ ~Connecting(c)
    BY <1>0, <1>2 DEF Rounds
  <2>3. /\ UNCHANGED <<poolVars, worker, held, batchVars>> /\ pc' = [pc EXCEPT ![t] = to]
        /\ activeChannels_' = [activeChannels_ EXCEPT ![t] = @ \ {c}]
        /\ locals' = [locals EXCEPT ![t] = {c}]
    BY <2>1 DEF Handle, Go
  <2>4. BatchShrinks
    BY <1>0, <2>3, BatchUntouched
  <2>5. BoundToKept' /\ MapHoldsRegistered' /\ \A d \in Conns \ {c} : channel'[d] = channel[d]
    <3>1. CASE HandleMessage(t, c) \/ HandleWritten(t, c)
      <4>1. StateMoves /\ UNCHANGED connVars
        BY <2>3, <3>1 DEF HandleMessage, HandleWritten, StateMoves
      <4>2. CASE UNCHANGED pending
        <5>1. \A u \in Threads : LeftOn(u)' \subseteq LeftOn(u)
          BY <1>0, <2>4, <4>2, QueuesShrink
        <5>2. Careful
          BY <2>3, <4>1, <5>1 DEF Careful
        <5> QED
          BY <4>1, <5>2, CarefulSteps
      <4>3. CASE pending' = [pending EXCEPT ![loop_[c]] = Append(@, Function("messageSent", c))]
        <5>1. \A u \in Threads : \A f \in LeftOn(u)' :
                  f \in LeftOn(u) \/ f = Function("messageSent", c)
          BY <2>2, <2>4, <4>1, <4>3, CallQueued
        <5>2. Careful
          BY <2>3, <4>1, <5>1 DEF Careful, Function
        <5> QED
          BY <4>1, <5>2, CarefulSteps
      <4> QED
        BY <2>2, <3>1, <4>2, <4>3 DEF HandleMessage, HandleWritten
    <3>2. CASE HandleEnd(t, c)
      <4>1. handleClose(t, c)
        BY <3>2 DEF HandleEnd
      <4> QED
        BY <2>2, <2>3, <2>4, <4>1, HandleCloseCareful
    <3> QED
      BY <1>2, <3>1, <3>2
  <2>6. /\ \A u \in Threads : pc'[u] = IF u = t THEN to ELSE pc[u]
        /\ \A u \in Threads : locals'[u] = IF u = t THEN {c} ELSE locals[u]
        /\ \A u \in Threads : activeChannels_'[u] = IF u = t THEN activeChannels_[u] \ {c} ELSE activeChannels_[u]
    BY <1>0, <2>3 DEF TypeOK
  <2>7. \A u \in Threads : \A d \in activeChannels_'[u] :
            d \in activeChannels_[u] /\ d \in Conns /\ channel'[d] = channel[d]
    <3> SUFFICES ASSUME NEW u \in Threads, NEW d \in activeChannels_'[u]
                 PROVE  d \in activeChannels_[u] /\ d \in Conns /\ channel'[d] = channel[d]
      OBVIOUS
    <3>1. d \in activeChannels_[u] /\ (u = t => d # c)
      BY <2>6
    <3>2. d \in Conns /\ loop_[d] = u
      BY <1>0, <3>1 DEF Rounds
    <3> QED
      BY <2>2, <2>5, <3>1, <3>2
  <2>8. ActiveRegistered'
    BY <1>0, <2>6, <2>7 DEF ActiveRegistered
  <2> QED
    BY <2>5, <2>8 DEF LInv
<1>3. ASSUME NEW t \in Threads, Return(t) PROVE LInv'
  <2>1. /\ UNCHANGED <<connVars, poolVars, worker, held, activeChannels_, pending, batchVars>>
        /\ locals' = [locals EXCEPT ![t] = {}]
        /\ pc' = [pc EXCEPT ![t] = IF batch[t] = <<>> THEN "events" ELSE "functions"]
    BY <1>3 DEF Return, Go
  <2>2. \A u \in Threads : LeftOn(u)' \subseteq LeftOn(u)
    BY <1>0, <2>1, BatchUntouched, QueuesShrink
  <2>3. Careful
    BY <2>1, <2>2 DEF Careful, StateMoves
  <2>4. \A u \in Threads : u # t => pc'[u] = pc[u]
    BY <1>0, <2>1 DEF TypeOK
  <2>5. \A u \in Threads : locals'[u] = IF u = t THEN {} ELSE locals[u]
    BY <1>0, <2>1 DEF TypeOK
  <2>6. ActiveRegistered'
    BY <1>0, <2>1, <2>4, <2>5 DEF ActiveRegistered
  <2> QED
    BY <2>3, <2>6, CarefulSteps DEF LInv
<1>4. ASSUME NEW t \in Threads, SwapPending(t) \/ BatchDone(t) PROVE LInv'
  <2>1. /\ UNCHANGED <<connVars, poolVars, worker, held, activeChannels_, locals>>
        /\ pc[t] \in {"events", "functions"}
        /\ \E to \in {"poll", "functions"} : pc' = [pc EXCEPT ![t] = to]
    BY <1>4 DEF SwapPending, BatchDone, Go
  <2>2. \A u \in Threads : LeftOn(u)' \subseteq LeftOn(u)
    <3>1. CASE SwapPending(t)
      <4>1. /\ batch' = [batch EXCEPT ![t] = pending[t]]
            /\ pending' = [pending EXCEPT ![t] = <<>>] /\ done' = [done EXCEPT ![t] = 0]
        BY <3>1 DEF SwapPending
      <4>2. \A u \in Threads :
                /\ batch'[u] = IF u = t THEN pending[t] ELSE batch[u]
                /\ pending'[u] = IF u = t THEN <<>> ELSE pending[u]
                /\ done'[u] = IF u = t THEN 0 ELSE done[u]
        BY <1>0, <4>1 DEF TypeOK
      <4> QED
        BY <4>2, NothingQueued DEF LeftOn, PendingOn, RestOn
    <3>2. CASE BatchDone(t)
      <4>1. /\ batch' = [batch EXCEPT ![t] = <<>>] /\ UNCHANGED pending
            /\ done' = [done EXCEPT ![t] = 0]
        BY <3>2 DEF BatchDone
      <4>2. \A u \in Threads :
                /\ batch'[u] = IF u = t THEN <<>> ELSE batch[u]
                /\ done'[u] = IF u = t THEN 0 ELSE done[u]
        BY <1>0, <4>1 DEF TypeOK
      <4> QED
        BY <4>1, <4>2, NothingQueued DEF LeftOn, PendingOn, RestOn
    <3> QED
      BY <1>4, <3>1, <3>2
  <2>3. Careful
    BY <2>1, <2>2 DEF Careful, StateMoves
  <2>4. ActiveRegistered'
    BY <1>0, <2>1 DEF ActiveRegistered, TypeOK
  <2> QED
    BY <2>3, <2>4, CarefulSteps DEF LInv
<1>5. ASSUME NEW t \in Threads, connectEstablished(t) PROVE LInv'
  <2> DEFINE f == NextFunction(t)
             c == f.conn
  <2>1. /\ UNCHANGED <<poolVars, worker, activeChannels_, batch, connectionMap_, pending>>
        /\ pc[t] = "functions" /\ pc' = [pc EXCEPT ![t] = "callback"]
        /\ done[t] < Len(batch[t]) /\ done' = [done EXCEPT ![t] = @ + 1]
        /\ f.op = "connectEstablished"
        /\ state_' = [state_ EXCEPT ![c] = "Connected"]
        /\ channel' = [channel EXCEPT ![c] = "CAdded"]
        /\ locals' = [locals EXCEPT ![t] = {c}]
        /\ held' = held \cup {c} \/ (c \notin Kept /\ held' = held)
    BY <1>5 DEF connectEstablished, Run, Go
  <2>2. BatchShrinks /\ f \in LeftOn(t)
    BY <1>0, <2>1, BatchRuns
  <2>3. c \in Created /\ c \in Conns /\ Connecting(c) /\ Created' = Created
    BY <1>0, <2>1, <2>2 DEF Waiting, Waits, Created
  <2> HIDE DEF f
  <2>4. \A u \in Threads : LeftOn(u)' \subseteq LeftOn(u)
    BY <1>0, <2>1, <2>2, QueuesShrink
  <2>5. /\ \A d \in Conns : state_'[d] = IF d = c THEN "Connected" ELSE state_[d]
        /\ \A d \in Conns : channel'[d] = IF d = c THEN "CAdded" ELSE channel[d]
        /\ \A u \in Threads : locals'[u] = IF u = t THEN {c} ELSE locals[u]
        /\ \A u \in Threads : pc'[u] = IF u = t THEN "callback" ELSE pc[u]
    BY <1>0, <2>1, <2>3 DEF TypeOK
  <2>6. BoundToKept'
    BY <1>0, <2>1, <2>3, <2>4, <2>5 DEF BoundToKept, Connecting
  <2>7. MapHoldsRegistered'
    <3>1. \A d \in Created' \ Kept : channel'[d] # "CDeleted" => d \in connectionMap_'
      BY <1>0, <2>1, <2>3, <2>5 DEF MapHoldsRegistered, MapHoldsOpen, Connecting
    <3>2. ASSUME NEW u \in Threads, NEW g \in LeftOn(u)', g.op = "connectionClose"
          PROVE  channel'[g.conn] = "CDeleted" \/ g.conn \in Kept
      <4>1. g \in LeftOn(u) /\ g.conn \in Conns /\ ~Connecting(g.conn)
        BY <1>0, <2>4, <3>2 DEF Waiting, Waits
      <4> QED
        BY <1>0, <2>3, <2>5, <3>2, <4>1 DEF MapHoldsRegistered
    <3> QED
      BY <3>1, <3>2 DEF MapHoldsRegistered
  <2>8. ActiveRegistered'
    <3>1. activeChannels_[t] = {}
      BY <1>0, <2>1 DEF Rounds
    <3>2. \A u \in Threads : \A d \in activeChannels_[u] : d \in Conns /\ ~Connecting(d)
      BY <1>0 DEF Rounds
    <3> QED
      BY <1>0, <2>1, <2>3, <2>5, <3>1, <3>2 DEF ActiveRegistered
  <2> QED
    BY <2>6, <2>7, <2>8 DEF LInv
<1>6. ASSUME NEW t \in Threads,
             messageSent(t) \/ sendInLoop(t) \/ shutDownInLoop(t)
                 \/ forceCloseInLoop(t) \/ connectionCloseInLoop(t)
      PROVE  LInv'
  <2> DEFINE f == NextFunction(t)
             c == f.conn
  <2>1. PICK op \in FunctionOps \ {"connectEstablished"}, to \in {"callback", "functions"} :
            /\ Run(t, op, to)
            /\ to = "callback" \/ UNCHANGED locals
    BY <1>6 DEF messageSent, sendInLoop, shutDownInLoop, forceCloseInLoop, connectionCloseInLoop,
                FunctionOps, Ops
  <2>2. /\ UNCHANGED <<poolVars, worker, activeChannels_, batch>>
        /\ pc[t] = "functions" /\ pc' = [pc EXCEPT ![t] = to]
        /\ done[t] < Len(batch[t]) /\ done' = [done EXCEPT ![t] = @ + 1]
        /\ f.op = op /\ op # "connectEstablished"
    BY <2>1 DEF Run, Go
  <2>3. BatchShrinks /\ f \in LeftOn(t)
    BY <1>0, <2>2, BatchRuns
  <2>4. c \in Created /\ c \in Conns /\ ~Connecting(c) /\ (f.op # "connectionClose" => loop_[c] = t)
    BY <1>0, <2>2, <2>3 DEF Waiting, Waits
  <2>5. /\ UNCHANGED held
        /\ UNCHANGED locals \/ locals' = [locals EXCEPT ![t] = {c}]
    BY <1>6 DEF messageSent, sendInLoop, shutDownInLoop, forceCloseInLoop, connectionCloseInLoop
  <2> HIDE DEF f
  <2>6. /\ BoundToKept' /\ MapHoldsRegistered'
        /\ \A d \in Conns \ Kept : channel'[d] = channel[d] \/ (d = c /\ loop_[c] = t)
    <3>1. CASE UNCHANGED pending
      <4>1. \A u \in Threads : LeftOn(u)' \subseteq LeftOn(u)
        BY <1>0, <2>3, <3>1, QueuesShrink
      <4>2. CASE UNCHANGED <<connectionMap_, channel, state_>>
        <5>1. Careful
          BY <2>2, <2>5, <4>1, <4>2 DEF Careful, StateMoves
        <5> QED
          BY <4>2, <5>1, CarefulSteps
      <4>3. CASE sendInLoop(t)
        <5>1. /\ UNCHANGED <<connectionMap_, state_>> /\ f.op = "send"
              /\ UNCHANGED channel \/ channel' = [channel EXCEPT ![c] = "CAdded"]
          BY <4>3 DEF sendInLoop, Run, f
        <5>2. c \in Kept
          BY <1>0, <2>3, <5>1 DEF BoundToKept
        <5>3. \A d \in Conns \ Kept : channel'[d] = channel[d]
          BY <1>0, <5>1, <5>2 DEF TypeOK
        <5>4. Careful
          BY <1>0, <2>2, <2>5, <4>1, <5>1, <5>3 DEF Careful, StateMoves
        <5> QED
          BY <5>3, <5>4, CarefulSteps
      <4>4. CASE connectionCloseInLoop(t)
        <5>1. UNCHANGED <<state_, channel>> /\ connectionMap_' = connectionMap_ \ {c} /\ f.op = "connectionClose"
          BY <4>4 DEF connectionCloseInLoop, f, Run
        <5>2. channel[c] = "CDeleted" \/ c \in Kept
          BY <1>0, <2>3, <5>1 DEF MapHoldsRegistered
        <5>3. Created' = Created
          BY <2>2 DEF Created
        <5>4. BoundToKept' /\ MapHoldsRegistered'
          BY <1>0, <2>2, <2>5, <4>1, <5>1, <5>2, <5>3
             DEF BoundToKept, MapHoldsRegistered, Connecting
        <5> QED
          BY <5>1, <5>4
      <4>5. CASE handleClose(t, c) /\ loop_[c] = t
        BY <2>2, <2>3, <2>4, <2>5, <4>5, HandleCloseCareful
      <4> QED
        BY <1>6, <4>2, <4>3, <4>4, <4>5, <2>4
           DEF messageSent, shutDownInLoop, forceCloseInLoop, Run, f
    <3>2. CASE ~UNCHANGED pending
      <4>1. handleClose(t, c) /\ loop_[c] = t
        BY <1>6, <2>4, <3>2
           DEF messageSent, sendInLoop, shutDownInLoop, forceCloseInLoop, connectionCloseInLoop, Run, f
      <4> QED
        BY <2>2, <2>3, <2>4, <2>5, <4>1, HandleCloseCareful
    <3> QED
      BY <3>1, <3>2
  <2>7. ActiveRegistered'
    <3>1. /\ activeChannels_[t] = {}
          /\ \A u \in Threads : \A d \in activeChannels_[u] : d \in Conns /\ loop_[d] = u
      BY <1>0, <2>2 DEF Rounds
    <3>2. /\ \A u \in Threads : pc'[u] = IF u = t THEN to ELSE pc[u]
          /\ \A u \in Threads : u # t => locals'[u] = locals[u]
      BY <1>0, <2>2, <2>5 DEF TypeOK
    <3>3. \A u \in Threads : \A d \in activeChannels_[u] \ Kept : u # t /\ channel'[d] = channel[d]
      BY <2>6, <3>1
    <3>4. pc'[t] \notin {"callback", "return"} => locals'[t] = {}
      BY <1>0, <2>1, <2>2, <3>2 DEF ActiveRegistered
    <3> QED
      BY <1>0, <2>2, <3>1, <3>2, <3>3, <3>4 DEF ActiveRegistered
  <2> QED
    BY <2>6, <2>7 DEF LInv
<1>7. CASE newConnection
  <2> DEFINE c == connectionId_ + 1
             f == Function("connectEstablished", c)
             u == getLoop
  <2>1. /\ UNCHANGED <<state_, channel, held, pc, activeChannels_, locals, batchVars, worker>>
        /\ connectionId_ < MaxConns /\ connectionId_' = c
        /\ connectionMap_' = connectionMap_ \cup {c}
        /\ pending' = [pending EXCEPT ![u] = Append(@, f)]
    BY <1>7 DEF newConnection
  <2>2. /\ c \in Conns /\ c \notin Created /\ Created' = Created \cup {c} /\ connectionId_ \in Nat
    BY <1>0, <2>1 DEF TypeOK, Conns, Created
  <2>3. u \in Threads
    BY <2>2 DEF getLoop, Threads
  <2>4. f \in Functions /\ f.conn = c /\ f.op = "connectEstablished"
    BY <2>2 DEF Function, Functions, FunctionOps
  <2>5. f \notin LeftOn(u)
    BY <1>0, <2>2, <2>3, <2>4 DEF Waiting, Waits
  <2> HIDE DEF c, f, u
  <2>6. BatchShrinks
    BY <1>0, <2>1, BatchUntouched
  <2>7. \A t \in Threads : LeftOn(t)' \subseteq LeftOn(t) \cup (IF t = u THEN {f} ELSE {})
    BY <1>0, <2>1, <2>3, <2>4, <2>5, <2>6, QueueGrows
  <2>8. Connecting(c)
    BY <1>0, <2>2 DEF Registration
  <2>9. BoundToKept'
    BY <1>0, <2>1, <2>2, <2>4, <2>7, <2>8 DEF BoundToKept, Connecting
  <2>10. MapHoldsRegistered'
    BY <1>0, <2>1, <2>2, <2>4, <2>7 DEF MapHoldsRegistered
  <2>11. ActiveRegistered'
    BY <1>0, <2>1 DEF ActiveRegistered
  <2> QED
    BY <2>9, <2>10, <2>11 DEF LInv
<1>8. ASSUME NEW t \in Threads, NEW c \in Created, NEW op \in Ops, CallFromCallback(t, c, op)
      PROVE  LInv'
  <2>1. /\ UNCHANGED <<poolVars, held, pc, activeChannels_, batchVars, worker>>
        /\ pc[t] = "callback" /\ Allowed(c, op) /\ locals' = [locals EXCEPT ![t] = @ \cup {c}]
        /\ (c \in locals[t] /\ loop_[c] = t) \/ (c \in held /\ op \in OpsOn(c, CrossOps))
    BY <1>8 DEF CallFromCallback
  <2>2. ~Connecting(c) /\ c \in Conns
    BY <1>0, <2>1 DEF Allowed, Open, Connecting
  <2>3. (c \in locals[t] /\ loop_[c] = t) \/ c \in Kept
    BY <2>1 DEF OpsOn, CarefulUse
  <2>4. BatchShrinks
    BY <1>0, <2>1, BatchUntouched
  <2>5. BoundToKept' /\ MapHoldsRegistered' /\ \A d \in Conns \ {c} : channel'[d] = channel[d]
    <3>1. CASE loop_[c] = t /\ op = "forceClose"
      <4>1. handleClose(t, c)
        BY <1>8, <3>1 DEF CallFromCallback
      <4> QED
        BY <2>1, <2>2, <2>4, <4>1, HandleCloseCareful
    <3>2. CASE ~(loop_[c] = t /\ op = "forceClose")
      <4>1. /\ state_' = StateAfter(c, op) /\ UNCHANGED <<connectionMap_, channel>>
            /\ IF loop_[c] = t THEN UNCHANGED pending ELSE queueInLoop(c, op)
        BY <1>8, <3>2 DEF CallFromCallback
      <4>2. StateMoves
        BY <2>1, <2>2, <4>1 DEF StateMoves, StateAfter
      <4>3. \A u \in Threads : \A f \in LeftOn(u)' :
                f \in LeftOn(u) \/ (loop_[c] # t /\ f = Function(op, c))
        <5>1. CASE loop_[c] = t
          BY <1>0, <2>4, <4>1, <5>1, QueuesShrink
        <5>2. CASE loop_[c] # t
          <6>1. pending' = [pending EXCEPT ![loop_[c]] = Append(@, Function(op, c))]
            BY <4>1, <5>2 DEF queueInLoop
          <6> QED
            BY <2>2, <2>4, <4>2, <5>2, <6>1, CallQueued
        <5> QED
          BY <5>1, <5>2
      <4>4. Careful
        BY <2>1, <2>3, <4>1, <4>2, <4>3 DEF Careful, Function, Ops
      <4> QED
        BY <4>1, <4>4, CarefulSteps
    <3> QED
      BY <3>1, <3>2
  <2>6. ActiveRegistered'
    <3>1. \A u \in Threads : locals'[u] = IF u = t THEN locals[u] \cup {c} ELSE locals[u]
      BY <1>0, <2>1 DEF TypeOK
    <3>2. \A u \in Threads : \A d \in activeChannels_[u] \ Kept :
              d \in Conns /\ (d = c => u # t \/ d \notin locals[u])
      BY <1>0 DEF Rounds, ActiveRegistered
    <3>3. \A u \in Threads : \A d \in activeChannels_[u] \ Kept : d # c
      BY <1>0, <2>3 DEF Rounds, ActiveRegistered
    <3> QED
      BY <1>0, <2>1, <2>5, <3>1, <3>2, <3>3 DEF ActiveRegistered
  <2> QED
    BY <2>5, <2>6 DEF LInv
<1>9. ASSUME NEW c \in Created, NEW op \in Ops, WorkerChecks(c, op) PROVE LInv'
  <2>1. /\ UNCHANGED <<connVars, poolVars, held, pc, activeChannels_, locals, pending, batchVars>>
        /\ worker' = Function(op, c) /\ op \in OpsOn(c, WorkerOps)
    BY <1>9 DEF WorkerChecks
  <2>2. \A u \in Threads : LeftOn(u)' \subseteq LeftOn(u)
    BY <1>0, <2>1, BatchUntouched, QueuesShrink
  <2>3. worker'.op = op /\ worker'.conn = c /\ (op \in {"send", "shutDown"} => c \in Kept)
    BY <2>1 DEF Function, OpsOn, CarefulUse
  <2>4. Created' = Created
    BY <2>1 DEF Created
  <2>5. BoundToKept'
    BY <1>0, <2>1, <2>2, <2>3, <2>4 DEF BoundToKept, Connecting
  <2>6. MapHoldsRegistered' /\ ActiveRegistered'
    BY <1>0, <2>1, <2>2, <2>4 DEF MapHoldsRegistered, ActiveRegistered
  <2> QED
    BY <2>5, <2>6 DEF LInv
<1>10. CASE WorkerQueues
  <2> DEFINE c == worker.conn
             op == worker.op
  <2>1. /\ UNCHANGED <<connectionMap_, channel, poolVars, held, pc, activeChannels_, locals, batchVars>>
        /\ worker # Idle /\ worker' = Idle /\ state_' = StateAfter(c, op)
        /\ pending' = [pending EXCEPT ![loop_[c]] = Append(@, Function(op, c))]
    BY <1>10 DEF WorkerQueues, queueInLoop
  <2>2. c \in Created /\ op \in Ops /\ ~Connecting(c)
    BY <1>0, <2>1 DEF TypeOK, Registration
  <2>3. op \in {"send", "shutDown"} => c \in Kept
    BY <1>0 DEF BoundToKept
  <2> HIDE DEF c, op
  <2>4. StateMoves
    BY <2>1, <2>2 DEF StateMoves, StateAfter
  <2>5. BatchShrinks
    BY <1>0, <2>1, BatchUntouched
  <2>6. \A u \in Threads : \A f \in LeftOn(u)' : f \in LeftOn(u) \/ f = Function(op, c)
    BY <2>1, <2>2, <2>4, <2>5, CallQueued
  <2>7. Careful
    BY <2>1, <2>2, <2>3, <2>4, <2>6 DEF Careful, Function, Ops
  <2>8. ActiveRegistered'
    BY <1>0, <2>1 DEF ActiveRegistered
  <2> QED
    BY <2>7, <2>8, CarefulSteps DEF LInv
<1>11. ASSUME NEW c \in Created, AppDrops(c) PROVE LInv'
  <2>1. /\ UNCHANGED <<connVars, poolVars, pc, activeChannels_, locals, pending, batchVars, worker>>
        /\ held' = held \ {c} /\ c \notin Kept
    BY <1>11 DEF AppDrops
  <2>2. (\A u \in Threads : LeftOn(u)' \subseteq LeftOn(u)) /\ Created' = Created
    BY <1>0, <2>1, BatchUntouched, QueuesShrink DEF Created
  <2>3. BoundToKept' /\ MapHoldsRegistered' /\ ActiveRegistered'
    BY <1>0, <2>1, <2>2 DEF BoundToKept, MapHoldsRegistered, ActiveRegistered, Connecting
  <2> QED
    BY <2>3 DEF LInv
<1>12. CASE UNCHANGED vars
  <2>1. UNCHANGED <<connVars, poolVars, pc, activeChannels_, locals, pending, batchVars, worker, held>>
    BY <1>12 DEF vars
  <2>2. \A u \in Threads : LeftOn(u)' \subseteq LeftOn(u)
    BY <1>0, <2>1, BatchUntouched, QueuesShrink
  <2>3. Careful
    BY <2>1, <2>2 DEF Careful, StateMoves
  <2>4. ActiveRegistered'
    BY <1>0, <2>1 DEF ActiveRegistered
  <2> QED
    BY <2>3, <2>4, CarefulSteps DEF LInv
<1> QED
  BY <1>1, <1>2, <1>3, <1>4, <1>5, <1>6, <1>7, <1>8, <1>9, <1>10, <1>11, <1>12 DEF Next, Step

(* The invariant of careful use.                                           *)
THEOREM SpecLInv ==
    ASSUME CarefulUse
    PROVE  Spec => []LInv
<1>1. IInv /\ LInv /\ [Next]_vars => LInv'
  BY NextLInv
<1> QED
  BY InitLInv, SpecIInv, <1>1, PTL DEF Spec

(* Careful use: a loop handles the events of no destroyed connection,      *)
(* although the poller gave it bare pointers to their channels.            *)
THEOREM ActiveChannelsAreAlive ==
    ASSUME CarefulUse
    PROVE  Spec => []ActiveChannelsAlive
<1>1. ASSUME IInv, LInv PROVE ActiveChannelsAlive
  <2> SUFFICES ASSUME NEW t \in Threads, NEW c \in activeChannels_[t] PROVE Alive(c)
    BY DEF ActiveChannelsAlive
  <2>1. c \in Created /\ ~Connecting(c)
    BY <1>1 DEF IInv, Rounds
  <2>2. CASE c \in Kept
    BY <1>1, <2>1, <2>2 DEF LInv, BoundToKept, Alive
  <2>3. CASE c \notin Kept
    BY <1>1, <2>1, <2>3 DEF LInv, ActiveRegistered, MapHoldsRegistered, Alive
  <2> QED
    BY <2>2, <2>3
<1> QED
  BY SpecIInv, SpecLInv, <1>1, PTL

(* Careful use: the connection whose function a loop runs next is not      *)
(* destroyed, also if only "this" is bound into it.                        *)
THEOREM FunctionObjectIsAlive ==
    ASSUME CarefulUse
    PROVE  Spec => []FunctionObjectAlive
<1>1. ASSUME IInv, LInv PROVE FunctionObjectAlive
  <2> SUFFICES ASSUME NEW t \in Threads, done[t] < Len(batch[t]) PROVE Alive(NextFunction(t).conn)
    BY DEF FunctionObjectAlive
  <2> DEFINE f == NextFunction(t)
  <2>1. batch[t] \in Seq(Functions) /\ done[t] \in Nat
    BY <1>1 DEF IInv, TypeOK
  <2>2. done[t] + 1 \in 1 .. Len(batch[t]) /\ f = batch[t][done[t] + 1]
    BY <2>1 DEF NextFunction
  <2>3. f \in LeftOn(t)
    BY <2>1, OneLess DEF NextFunction, LeftOn, RestOn
  <2>4. f.conn \in Created /\ (f.op \in {"send", "shutDown"} => ~Connecting(f.conn))
    BY <1>1, <2>3 DEF IInv, Waiting, Waits
  <2>5. CASE f.op \in {"send", "shutDown"}
    BY <1>1, <2>3, <2>4, <2>5 DEF LInv, BoundToKept, Alive
  <2>6. CASE f.op \notin {"send", "shutDown"}
    <3>1. f.conn \in Owning(batch[t])
      BY <2>2, <2>6 DEF Owning
    <3> QED
      BY <2>4, <3>1 DEF Alive
  <2> QED
    BY <2>5, <2>6
<1> QED
  BY SpecIInv, SpecLInv, <1>1, PTL

(* Careful use: a connection is out of epoll before it is destroyed.       *)
THEOREM DestroyedIsUnregistered ==
    ASSUME CarefulUse
    PROVE  Spec => []DestroyedUnregistered
<1>1. ASSUME IInv, LInv PROVE DestroyedUnregistered
  <2> SUFFICES ASSUME NEW c \in Created, channel[c] # "CDeleted" PROVE Alive(c)
    BY DEF DestroyedUnregistered
  <2>1. c \in Conns
    BY <1>1 DEF IInv, TypeOK, Created, Conns
  <2>2. CASE Connecting(c)
    BY <1>1, <2>2 DEF IInv, MapHoldsOpen, Connecting, Alive
  <2>3. CASE c \in Kept /\ ~Connecting(c)
    BY <1>1, <2>3 DEF LInv, BoundToKept, Alive
  <2>4. CASE c \notin Kept
    BY <1>1, <2>4 DEF LInv, MapHoldsRegistered, Alive
  <2> QED
    BY <2>2, <2>3, <2>4
<1> QED
  BY SpecIInv, SpecLInv, <1>1, PTL
===============================================================================
