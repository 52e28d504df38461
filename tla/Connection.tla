------------------------------ MODULE Connection ------------------------------
(***************************************************************************)
(* One TCP connection (muduoZ/net/tcpServer/Connection.{h,cc}) with its    *)
(* Channel and its entry in epoll (Channel.cc, Epoller.cc): the io loop    *)
(* that runs its handlers and the user's callbacks, one other thread that  *)
(* calls send, shutDown and forceClose, the kernel's socket, and the peer. *)
(*                                                                         *)
(* The io loop is used as Executor.tla describes it (EventLoop.tla is      *)
(* shown to implement that): functions run in FIFO order, one at a time,   *)
(* I/O events between them.  A handler runs without interruption up to the *)
(* point where it calls the user's code, which makes at most MaxCalls      *)
(* calls into the connection and returns.                                  *)
(*                                                                         *)
(* Data is counted in units; a unit that is sent is its number in the      *)
(* order of the sendInLoop calls, a unit that is received only counts.     *)
(* The object is alive throughout: when it dies is TcpServer's business.   *)
(*                                                                         *)
(* Bounds: no send once MaxSend units are sent, MaxReceive units received, *)
(* MaxLen units per message, MaxQueue functions in the loop's queue when   *)
(* the other thread adds one, MaxCalls calls per callback.                 *)
(***************************************************************************)
EXTENDS Integers, Sequences

CONSTANTS
    SendBuffer,         (* units the kernel's send buffer holds            *)
    WorkerOps,          (* what the other thread calls                     *)
    PeerAborts,         (* may the peer reset the connection at any time?  *)
    MaxSend, MaxReceive, MaxLen, MaxQueue, MaxCalls

ASSUME ConstantsOK ==
    /\ SendBuffer \in Nat \ {0} /\ PeerAborts \in BOOLEAN
    /\ WorkerOps \subseteq {"send", "shutDown", "forceClose"}
    /\ MaxSend \in Nat /\ MaxReceive \in Nat /\ MaxLen \in Nat \ {0}
    /\ MaxQueue \in Nat /\ MaxCalls \in Nat

VARIABLES
    state_,             (* Connection::State                               *)
    outputBuffer_,      (* units accepted and not yet written              *)
    event_,             (* Channel: what it listens to, "in" and "out"     *)
    channelState,       (* Channel: CNew, CAdded or CDeleted               *)
    edge,               (* epoll: something happened since the last report *)
    sock,               (* the kernel's socket                             *)
    peer,               (* the other end, and the units it has sent        *)
    pc,                 (* the io loop: "idle" or a part of handleEvent    *)
    activeEvent_,       (* the events epoll reported                       *)
    calls,              (* calls the running user code may still make, -1  *)
                        (* when none is running                            *)
    queue,              (* functions handed to the io loop                 *)
    workerPc,           (* what the other thread is in the middle of       *)
    sent,               (* units handed to sendInLoop so far               *)
    killed              (* SIGPIPE has ended the process                   *)

connVars   == <<state_, outputBuffer_>>
channelVars == <<event_, channelState, edge>>
loopVars   == <<pc, activeEvent_, calls>>
vars == <<connVars, channelVars, sock, peer, loopVars, queue, workerPc, sent, killed>>

(* A new Channel listens to nothing.                                       *)
NewChannel == event_ = {} /\ channelState = "CNew" /\ edge = FALSE

(* snd: in the send buffer; got: the last unit the peer has read; noSpace: *)
(* a write did not fit, so the next free space is an event; err: an error  *)
(* not yet returned by any call.                                           *)
Init ==
    /\ state_ = "Connecting" /\ outputBuffer_ = <<>>
    /\ NewChannel
    /\ sock = [rcv |-> 0, fin |-> FALSE, snd |-> <<>>, got |-> 0, noSpace |-> FALSE,
               wrShut |-> FALSE, dead |-> FALSE, err |-> "none"]
    /\ peer = [st |-> "open", sent |-> 0]
    /\ pc = "idle" /\ activeEvent_ = {} /\ calls = -1
    /\ queue = <<<<"connectEstablished", 0>>>>
    /\ workerPc = "idle" /\ sent = 0 /\ killed = FALSE

-------------------------------------------------------------------------------
(* The peer and the network.                                               *)

Environment ==
    /\ ~killed
    /\ UNCHANGED <<connVars, event_, channelState, loopVars, queue, workerPc, sent, killed>>

PeerSends ==
    /\ Environment
    /\ peer.st = "open" /\ peer.sent < MaxReceive
    /\ peer' = [peer EXCEPT !.sent = @ + 1]
    /\ sock' = [sock EXCEPT !.rcv = @ + 1]
    /\ edge' = TRUE

(* The peer closes one direction, or both: either way a FIN arrives.       *)
PeerCloses(st) ==
    /\ Environment
    /\ peer.st # "closed" /\ peer.st # st
    /\ peer' = [peer EXCEPT !.st = st]
    /\ sock' = [sock EXCEPT !.fin = TRUE]
    /\ edge' = (edge \/ ~sock.fin)

(* The peer reads; a writer that found the buffer full hears of it.        *)
PeerReads ==
    /\ Environment
    /\ peer.st # "closed" /\ sock.snd # <<>>
    /\ sock' = [sock EXCEPT !.got = Head(sock.snd), !.snd = Tail(@), !.noSpace = FALSE]
    /\ edge' = (edge \/ sock.noSpace)
    /\ UNCHANGED peer

(* A RST: data reached an end that is closed, or the peer aborts.          *)
Reset ==
    /\ Environment
    /\ ~sock.dead
    /\ PeerAborts \/ (peer.st = "closed" /\ sock.snd # <<>>)
    /\ peer' = [peer EXCEPT !.st = "closed"]
    /\ sock' = [sock EXCEPT !.dead = TRUE, !.snd = <<>>,
                            !.err = IF sock.fin THEN "EPIPE" ELSE "ECONNRESET"]
    /\ edge' = TRUE

-------------------------------------------------------------------------------
(* System calls on the socket.                                             *)

(* What epoll would report now.                                            *)
ReadyEvents ==
    (IF sock.rcv > 0 \/ sock.fin \/ sock.dead THEN {"in"} ELSE {})
    \cup (IF Len(sock.snd) < SendBuffer \/ sock.wrShut \/ sock.dead THEN {"out"} ELSE {})
    \cup (IF sock.dead \/ (sock.fin /\ sock.wrShut) THEN {"hup"} ELSE {})
    \cup (IF sock.err # "none" THEN {"err"} ELSE {})

Reported == ReadyEvents \cap (event_ \cup {"hup", "err"})

(* write of the sequence data; written is how much of it the kernel took.  *)
Broken == sock.dead \/ sock.wrShut

Written(data) ==
    LET free == SendBuffer - Len(sock.snd)
    IN  IF Broken THEN 0 ELSE IF Len(data) <= free THEN Len(data) ELSE free

write(data) ==
    LET n == Written(data)
    IN  /\ sock' = IF Broken THEN [sock EXCEPT !.err = "none"]
                   ELSE [sock EXCEPT !.snd = @ \o SubSeq(data, 1, n),
                                     !.noSpace = @ \/ n < Len(data)]
        /\ killed' = (Broken /\ sock.err # "ECONNRESET")

(* shutdown(SHUT_WR); on a half-closed socket epoll reports a hang-up.     *)
shutdownWrite ==
    /\ sock' = [sock EXCEPT !.wrShut = @ \/ ~sock.dead]
    /\ edge' = (edge \/ (sock.fin /\ ~sock.wrShut))

-------------------------------------------------------------------------------
(* Channel::updateChannel and Epoller::updateChannel.  Adding or modifying *)
(* an entry makes epoll look at the descriptor again.                      *)
updateChannel(event) ==
    /\ event_' = event
    /\ channelState' = CASE channelState = "CNew" -> "CAdded"
                         [] channelState = "CAdded" /\ event = {} -> "CDeleted"
                         [] channelState = "CDeleted" /\ event # {} -> "CAdded"
                         [] OTHER -> channelState
    /\ edge' = (channelState' = "CAdded")

disableAll == updateChannel({})
enableReadEvent == updateChannel(event_ \cup {"in"})
enableWriteEvent == updateChannel(event_ \cup {"out"})
disableWriteEvent == updateChannel(event_ \ {"out"})

handleClose ==
    /\ state_' = "Disconnected"
    /\ disableAll
    /\ UNCHANGED outputBuffer_

(* The units of a message of the given length.                             *)
Message(len) == [i \in 1 .. len |-> sent + i]

(* With a mistake: every send is written at once.                        *)
DirectAlways == TRUE

(* Sends the message at once if nothing is waiting to be written, and what *)
(* is left goes into the buffer, unless write failed: that it failed only  *)
(* because the send buffer is full makes no difference.                    *)
Direct == "out" \notin event_ /\ outputBuffer_ = <<>>

sendInLoop(len) ==
    LET msg   == Message(len)
        n     == Written(msg)
        rest  == IF Direct THEN SubSeq(msg, n + 1, len) ELSE msg
        error == Direct /\ n = 0
    IN  /\ sent' = sent + len
        /\ IF Direct THEN write(msg) ELSE UNCHANGED <<sock, killed>>
        /\ IF error \/ rest = <<>>
           THEN UNCHANGED <<outputBuffer_, channelVars>>
           ELSE /\ outputBuffer_' = outputBuffer_ \o rest
                /\ IF "out" \in event_ THEN UNCHANGED channelVars
                                       ELSE enableWriteEvent
        /\ UNCHANGED state_

(* The whole message went out at once: messageSendCallBack_ is called.     *)
SentAtOnce(len) == Direct /\ Written(Message(len)) = len

(* With a mistake: shutDown does not wait for the output.                *)
ShutDownAtOnce ==
    /\ shutdownWrite
    /\ UNCHANGED <<outputBuffer_, event_, channelState>>

shutDownInLoop ==
    /\ IF "out" \in event_ THEN UNCHANGED <<sock, edge>> ELSE shutdownWrite
    /\ UNCHANGED <<outputBuffer_, event_, channelState>>

-------------------------------------------------------------------------------
(* The io loop: epoll_wait reports the channel, handleEvent goes through   *)
(* the kinds of events in its order: close, read, write.                   *)

Loop(from, to) ==
    /\ ~killed /\ calls = -1
    /\ pc = from /\ pc' = to
    /\ UNCHANGED <<peer, workerPc>>

(* With "in" goes EPOLLET: the report is made once.                        *)
Poll ==
    /\ Loop("idle", "close")
    /\ channelState = "CAdded" /\ edge /\ Reported # {}
    /\ activeEvent_' = Reported
    /\ edge' = ("in" \notin event_)
    /\ UNCHANGED <<connVars, event_, channelState, sock, calls, queue, sent, killed>>

(* Hung up, and nothing to read.                                           *)
HungUp == "hup" \in activeEvent_ /\ "in" \notin activeEvent_

(* Between this and the read comes callBackError_, which does nothing.     *)
HandleHangUp ==
    /\ Loop("close", "read")
    /\ IF HungUp
       THEN handleClose
       ELSE UNCHANGED <<connVars, channelVars>>
    /\ UNCHANGED <<sock, activeEvent_, calls, queue, sent, killed>>

(* With a mistake: readFd reads once only.                               *)
ReadOnce == sock' = [sock EXCEPT !.rcv = IF @ = 0 THEN 0 ELSE @ - 1, !.err = "none"]

(* handleRead: readFd reads until a call returns 0 or an error, and only   *)
(* the number of units read counts.                                        *)
readFd == sock' = [sock EXCEPT !.rcv = 0, !.err = "none"]

(* With a mistake: reading 0 does not close.                             *)
HandleReadIgnoresEnd ==
    /\ Loop("read", "write")
    /\ IF "in" \notin activeEvent_
       THEN UNCHANGED <<sock, calls>>
       ELSE readFd /\ IF sock.rcv > 0 THEN calls' = MaxCalls ELSE UNCHANGED calls
    /\ UNCHANGED <<connVars, channelVars, activeEvent_, queue, sent, killed>>

HandleRead ==
    /\ Loop("read", "write")
    /\ IF "in" \notin activeEvent_
       THEN UNCHANGED <<connVars, channelVars, sock, calls>>
       ELSE /\ readFd
            /\ IF sock.rcv > 0
               THEN calls' = MaxCalls /\ UNCHANGED <<connVars, channelVars>>
               ELSE handleClose /\ UNCHANGED calls
    /\ UNCHANGED <<activeEvent_, queue, sent, killed>>

(* Buffer::writeFd.                                                        *)
writeFd == write(outputBuffer_)

(* With a mistake: the channel goes on listening for "out".              *)
KeepListening ==
    /\ sock' = [sock EXCEPT !.snd = @ \o outputBuffer_,
                            !.wrShut = @ \/ state_ = "Disconnecting"]
    /\ outputBuffer_' = <<>>
    /\ queue' = Append(queue, <<"messageSent", 0>>)
    /\ UNCHANGED <<channelVars, killed>>

(* With a mistake: a shutDown that was waiting is forgotten.             *)
ForgetShutDown ==
    /\ sock' = [sock EXCEPT !.snd = @ \o outputBuffer_]
    /\ outputBuffer_' = <<>>
    /\ disableWriteEvent
    /\ queue' = Append(queue, <<"messageSent", 0>>)
    /\ UNCHANGED killed

(* handleWrite: one write of all that is buffered; when that empties the   *)
(* buffer, stop listening, and finish a shutDown that was waiting.         *)
AllWritten ==
    /\ sock' = [sock EXCEPT !.snd = @ \o outputBuffer_,
                            !.wrShut = @ \/ state_ = "Disconnecting"]
    /\ outputBuffer_' = <<>>
    /\ disableWriteEvent
    /\ queue' = Append(queue, <<"messageSent", 0>>)
    /\ UNCHANGED killed

(* With a mistake: listening stops after a part of the output.           *)
StopAfterPart(n) ==
    /\ writeFd
    /\ outputBuffer_' = SubSeq(outputBuffer_, n + 1, Len(outputBuffer_))
    /\ disableWriteEvent
    /\ UNCHANGED queue

PartWritten(n) ==
    /\ writeFd
    /\ outputBuffer_' = SubSeq(outputBuffer_, n + 1, Len(outputBuffer_))
    /\ UNCHANGED <<channelVars, queue>>

handleWrite ==
    LET n == Written(outputBuffer_)
    IN  IF n > 0 /\ n = Len(outputBuffer_) THEN AllWritten ELSE PartWritten(n)

HandleWrite ==
    /\ Loop("write", "idle")
    /\ IF "out" \in activeEvent_
       THEN handleWrite
       ELSE UNCHANGED <<outputBuffer_, channelVars, sock, queue, killed>>
    /\ UNCHANGED <<state_, activeEvent_, calls, sent>>

-------------------------------------------------------------------------------
(* The io loop: the functions of its queue.                                *)

Function(name, len) ==
    /\ Loop("idle", "idle")
    /\ queue # <<>> /\ Head(queue) = <<name, len>>
    /\ queue' = Tail(queue)
    /\ UNCHANGED activeEvent_

connectEstablished ==
    /\ Function("connectEstablished", 0)
    /\ state_' = "Connected"
    /\ enableReadEvent
    /\ calls' = MaxCalls
    /\ UNCHANGED <<outputBuffer_, sock, sent, killed>>

messageSendCallBack ==
    /\ Function("messageSent", 0)
    /\ calls' = MaxCalls
    /\ UNCHANGED <<connVars, channelVars, sock, sent, killed>>

QueuedSend(len) ==
    /\ Function("send", len)
    /\ sendInLoop(len)
    /\ calls' = IF SentAtOnce(len) THEN MaxCalls ELSE calls

QueuedShutDown ==
    /\ Function("shutDown", 0)
    /\ shutDownInLoop
    /\ UNCHANGED <<state_, calls, sent, killed>>

Open == state_ \in {"Connected", "Disconnecting"}

QueuedForceClose ==
    /\ Function("forceClose", 0)
    /\ IF Open THEN handleClose ELSE UNCHANGED <<connVars, channelVars>>
    /\ UNCHANGED <<sock, calls, sent, killed>>

-------------------------------------------------------------------------------
(* The user's code inside a callback, on the loop's thread: runInLoop      *)
(* calls the function at once.                                             *)

User ==
    /\ ~killed /\ calls > 0
    /\ calls' = calls - 1
    /\ UNCHANGED <<pc, activeEvent_, peer, queue, workerPc>>

(* With a mistake: send does not look at state_.                         *)
SendUnchecked(len) ==
    /\ User
    /\ sent + len <= MaxSend
    /\ sendInLoop(len)

UserSend(len) ==
    /\ User
    /\ state_ = "Connected" /\ sent + len <= MaxSend
    /\ sendInLoop(len)

ShutDownUnchecked ==
    /\ User
    /\ state_' = "Disconnecting"
    /\ shutDownInLoop
    /\ UNCHANGED <<sent, killed>>

UserShutDown ==
    /\ User
    /\ state_ = "Connected" /\ state_' = "Disconnecting"
    /\ shutDownInLoop
    /\ UNCHANGED <<sent, killed>>

UserForceClose ==
    /\ User
    /\ Open /\ handleClose
    /\ UNCHANGED <<sock, sent, killed>>

UserReturns ==
    /\ ~killed /\ calls >= 0
    /\ calls' = -1
    /\ UNCHANGED <<connVars, channelVars, sock, peer, pc, activeEvent_, queue,
                   workerPc, sent, killed>>

-------------------------------------------------------------------------------
(* The other thread: looks at state_ first, then queues the function;      *)
(* shutDown sets state_ in between.                                        *)

Worker(from, to) ==
    /\ ~killed
    /\ workerPc = from /\ workerPc' = to
    /\ UNCHANGED <<outputBuffer_, channelVars, sock, peer, loopVars, sent, killed>>

queueInLoop(name, len) ==
    /\ Len(queue) < MaxQueue
    /\ queue' = Append(queue, <<name, len>>)

WorkerChecks(op) ==
    /\ Worker("idle", op)
    /\ op \in WorkerOps
    /\ IF op = "forceClose" THEN Open ELSE state_ = "Connected"
    /\ UNCHANGED <<state_, queue>>

WorkerSetsState ==
    /\ Worker("shutDown", "queueShutDown")
    /\ state_' = "Disconnecting"
    /\ UNCHANGED queue

WorkerQueues(name, len) ==
    /\ \/ name = "send" /\ Worker("send", "idle") /\ len > 0 /\ sent + len <= MaxSend
       \/ name = "shutDown" /\ len = 0 /\ Worker("queueShutDown", "idle")
       \/ name = "forceClose" /\ len = 0 /\ Worker("forceClose", "idle")
    /\ queueInLoop(name, len)
    /\ UNCHANGED state_

-------------------------------------------------------------------------------
Lengths == 1 .. MaxLen

LoopThread ==
    \/ HandleHangUp \/ HandleRead \/ HandleWrite
    \/ UserReturns \/ UserShutDown \/ UserForceClose
    \/ \E len \in Lengths : UserSend(len)

RunFunction ==
    \/ connectEstablished \/ messageSendCallBack
    \/ QueuedShutDown \/ QueuedForceClose
    \/ \E len \in Lengths : QueuedSend(len)

OtherThread ==
    \/ \E op \in WorkerOps : WorkerChecks(op)
    \/ WorkerSetsState
    \/ \E op \in WorkerOps, len \in 0 .. MaxLen : WorkerQueues(op, len)

PeerAndNetwork ==
    \/ PeerSends \/ PeerReads \/ Reset
    \/ PeerCloses("half") \/ PeerCloses("closed")

Next == LoopThread \/ Poll \/ RunFunction \/ OtherThread \/ PeerAndNetwork

Spec == Init /\ [][Next]_vars

(* Every descriptor with an event is reported and every queued function    *)
(* runs, however the two alternate (EventLoop.tla: KeepsPolling and        *)
(* EveryFunctionRuns); handlers and callbacks return; a peer that has not  *)
(* closed keeps reading, and data sent to one that has is answered by RST. *)
FairSpec ==
    /\ Spec
    /\ WF_vars(LoopThread) /\ SF_vars(Poll) /\ SF_vars(RunFunction)
    /\ WF_vars(PeerReads) /\ WF_vars(Reset /\ peer.st = "closed" /\ sock.snd # <<>>)
    /\ WF_vars(WorkerSetsState) /\ WF_vars(\E op \in WorkerOps, len \in 0 .. MaxLen : WorkerQueues(op, len))
-------------------------------------------------------------------------------
TypeOK ==
    /\ state_ \in {"Connecting", "Connected", "Disconnecting", "Disconnected"}
    /\ outputBuffer_ \in Seq(Nat \ {0})
    /\ event_ \subseteq {"in", "out"} /\ edge \in BOOLEAN
    /\ channelState \in {"CNew", "CAdded", "CDeleted"}
    /\ sock \in [rcv : Nat, fin : BOOLEAN, snd : Seq(Nat \ {0}), got : Nat,
                 noSpace : BOOLEAN, wrShut : BOOLEAN, dead : BOOLEAN,
                 err : {"none", "ECONNRESET", "EPIPE"}]
    /\ peer \in [st : {"open", "half", "closed"}, sent : Nat]
    /\ pc \in {"idle", "close", "read", "write"}
    /\ activeEvent_ \subseteq {"in", "out", "hup", "err"}
    /\ calls \in -1 .. MaxCalls
    /\ queue \in Seq({"connectEstablished", "messageSent", "send", "shutDown", "forceClose"}
                      \X (0 .. MaxLen))
    /\ workerPc \in {"idle", "send", "shutDown", "queueShutDown", "forceClose"}
    /\ sent \in Nat /\ killed \in BOOLEAN

(* What the peer has not read yet, in the order in which it will.          *)
Stream == sock.snd \o outputBuffer_

(* The peer gets the units in the order of the sends, and none twice,      *)
(* whatever went through the buffer and whatever was written directly.     *)
StreamInOrder ==
    \A i \in 1 .. Len(Stream) :
        /\ Stream[i] > (IF i = 1 THEN sock.got ELSE Stream[i - 1])
        /\ Stream[i] <= sent

(* As long as the channel is in epoll, it listens for writability exactly  *)
(* when there is something to write.  (handleWrite relies on it to be      *)
(* called, shutDownInLoop to know that all is written.)  That holds even   *)
(* if a late send puts the channel of a closed connection back into epoll. *)
Registered == channelState = "CAdded"
WriteInterest == Registered => ("out" \in event_ <=> outputBuffer_ # <<>>)

(* A graceful shutDown ends the sending direction only when all that was   *)
(* accepted has been given to the kernel.                                  *)
ShutDownLosesNothing ==
    [][sock'.wrShut /\ ~sock.wrShut /\ Registered => outputBuffer_' = <<>>]_vars

(* If all calls are made by callbacks, a closed connection is never        *)
(* listened to again ...                                                   *)
ClosedForGood == state_ = "Disconnected" => ~Registered

(* ... and no send writes to a socket whose sending direction the loop has *)
(* shut down, which would end the process with SIGPIPE.  (Neither holds    *)
(* once another thread calls send: state_ is looked at long before.)       *)
NoWriteAfterShutdown == ~(killed /\ sock.wrShut)

(* Edge triggering loses nothing that is received: readFd reads until the  *)
(* socket is empty each time.                                              *)
Over == state_ = "Disconnected" \/ killed
EverythingIsRead == sock.rcv > 0 ~> (sock.rcv = 0 \/ Over)

(* What is buffered gets written, as long as the peer reads.               *)
OutputDrains == outputBuffer_ # <<>> ~> (outputBuffer_ = <<>> \/ Over)

(* A shutDown reaches the kernel, however much is still to be written.     *)
ShutDownCompletes == state_ = "Disconnecting" ~> (sock.wrShut \/ sock.dead \/ Over)

(* A FIN that finds the receive buffer read closes the connection.         *)
LoneCloseIsSeen == (sock.fin /\ sock.rcv = 0 /\ edge) ~> Over

(* The connection implements the stream promised to its users: what the    *)
(* peer will still get is what the kernel and the buffer hold, and only    *)
(* the kernel's part of it once nothing more can be written.  So whatever  *)
(* goes directly, through the buffer, or is queued by the other thread,    *)
(* messages arrive whole and in order, unless dropped (Connection.cc:69-97)*)
Underway == IF Broken THEN sock.snd ELSE Stream

Bytes == INSTANCE ByteStream
             WITH Capacity <- SendBuffer, accepted <- sent, waiting <- Underway, got <- sock.got,
                  ended <- sock.wrShut, broken <- sock.dead, attached <- Registered

ByteStreamSpec == Bytes!Spec

-------------------------------------------------------------------------------
(* A statement of the notes that the code does not meet: the peer's FIN is *)
(* read as 0 and closes the connection.  readFd returns the sum of all     *)
(* reads, which is not 0 when the FIN came with data.                      *)
PassiveCloseIsSeen == sock.fin ~> Over
===============================================================================
