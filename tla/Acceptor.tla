------------------------------- MODULE Acceptor -------------------------------
(***************************************************************************)
(* The acceptor (net/tcpServer/Acceptor.cc with Socket.cc): handleRead     *)
(* accepts until the queue of the listening socket is empty, and keeps a   *)
(* descriptor in reserve for the time when there are no others.            *)
(*                                                                         *)
(* The kernel: accept fails with EMFILE when the process has no descriptor *)
(* left, also if nobody is waiting to be accepted, because it looks for a  *)
(* descriptor first; epoll reports the edge-triggered socket when another  *)
(* connection has arrived.  Other threads of the process open and close    *)
(* descriptors too (the log thread its files).                             *)
(*                                                                         *)
(* Bounds: MaxClients connect, other threads open MaxOpens descriptors in  *)
(* all, accept fails MaxErrors times for some other reason.                *)
(***************************************************************************)
EXTENDS Integers

CONSTANTS Descriptors, MaxClients, MaxOpens, MaxErrors

ASSUME AcceptorOK == {Descriptors, MaxClients, MaxOpens, MaxErrors} \subseteq Nat

VARIABLES
    bound,          (* has bind succeeded?                                 *)
    listening,
    clients,        (* arrived so far                                      *)
    backlog,        (* of them waiting to be accepted                      *)
    edge,           (* has an arrival not been reported yet?               *)
    free,           (* descriptors the process may still open              *)
    idleFd_,        (* is it open?                                         *)
    handle,         (* where handleRead is; "out" if not called            *)
    broke,          (* did an error end the last handleRead?               *)
    errors,
    opened, others  (* by other threads: in all, and now open              *)

queueVars == <<bound, listening, clients, backlog, edge>>
fdVars == <<free, idleFd_>>
errorVars == <<broke, errors>>
otherVars == <<opened, others>>
acceptVars == <<queueVars, fdVars, handle, errorVars, otherVars>>

(* Socket::bind and Socket::listen close the socket if they fail.          *)
bind == bound \in BOOLEAN

socketListen == listening' \in BOOLEAN /\ (listening' => bound)

NewAcceptor ==
    /\ bind
    /\ listening = FALSE /\ clients = 0 /\ backlog = 0 /\ edge = FALSE
    /\ free = Descriptors /\ idleFd_ = TRUE
    /\ handle = "out" /\ broke = FALSE /\ errors = 0
    /\ opened = 0 /\ others = 0

(* Nobody looks at the result -1: if the socket does not listen, nothing   *)
(* will ever arrive.                                                       *)
listen ==
    /\ socketListen
    /\ UNCHANGED <<bound, clients, backlog, edge, fdVars, handle, errorVars, otherVars>>

Arrive ==
    /\ listening /\ clients < MaxClients
    /\ clients' = clients + 1 /\ backlog' = backlog + 1 /\ edge' = TRUE
    /\ UNCHANGED <<bound, listening, fdVars, handle, errorVars, otherVars>>

OthersOpen ==
    /\ opened < MaxOpens /\ free > 0
    /\ opened' = opened + 1 /\ others' = others + 1 /\ free' = free - 1
    /\ UNCHANGED <<queueVars, idleFd_, handle, errorVars>>

OthersClose ==
    /\ others > 0
    /\ others' = others - 1 /\ free' = free + 1
    /\ UNCHANGED <<queueVars, idleFd_, handle, errorVars, opened>>

-------------------------------------------------------------------------------
(* handleRead.                                                             *)

HandleGoes(from, to) == handle = from /\ handle' = to /\ UNCHANGED otherVars

HandleRead ==
    /\ HandleGoes("out", "accept")
    /\ edge /\ edge' = FALSE
    /\ broke' = FALSE
    /\ UNCHANGED <<bound, listening, clients, backlog, fdVars, errors>>

(* With a mistake: one connection is accepted in each call.              *)
AcceptOne ==
    /\ HandleGoes("accept", "out")
    /\ free > 0 /\ backlog > 0
    /\ free' = free - 1 /\ backlog' = backlog - 1
    /\ UNCHANGED <<bound, listening, clients, edge, idleFd_, errorVars>>

accept ==
    /\ HandleGoes("accept", "accept")
    /\ free > 0 /\ backlog > 0
    /\ free' = free - 1 /\ backlog' = backlog - 1
    /\ UNCHANGED <<bound, listening, clients, edge, idleFd_, errorVars>>

(* EAGAIN.                                                                 *)
WouldBlock ==
    /\ HandleGoes("accept", "out")
    /\ free > 0 /\ backlog = 0
    /\ UNCHANGED <<queueVars, fdVars, errorVars>>

(* Any other error but EMFILE: the rest of the queue is left.              *)
AcceptError ==
    /\ HandleGoes("accept", "out")
    /\ errors < MaxErrors /\ errors' = errors + 1 /\ broke' = TRUE
    /\ UNCHANGED <<queueVars, fdVars>>

(* The reserve is closed or opened, if there is one, if there can be.      *)
CloseIdle(from, to) ==
    /\ HandleGoes(from, to)
    /\ idleFd_' = FALSE
    /\ free' = IF idleFd_ THEN free + 1 ELSE free
    /\ UNCHANGED <<queueVars, errorVars>>

OpenIdle(from, to) ==
    /\ HandleGoes(from, to)
    /\ idleFd_' = (free > 0)
    /\ free' = IF free > 0 THEN free - 1 ELSE free
    /\ UNCHANGED <<queueVars, errorVars>>

(* EMFILE: the reserve is closed ...                                       *)
OutOfDescriptors == free = 0 /\ CloseIdle("accept", "closed")

(* ... and takes one connection, if it is still there and anybody waits,   *)
(* which is closed at once ...                                             *)
AcceptToClose ==
    \/ backlog > 0 /\ free > 0
       /\ HandleGoes("closed", "taken")
       /\ idleFd_' = TRUE /\ free' = free - 1 /\ backlog' = backlog - 1
       /\ UNCHANGED <<bound, listening, clients, edge, errorVars>>
    \/ ~(backlog > 0 /\ free > 0)
       /\ HandleGoes("closed", "taken")
       /\ UNCHANGED <<queueVars, fdVars, errorVars>>

CloseAccepted == CloseIdle("taken", "reopen")

(* ... then there is a reserve again, unless another thread was faster.    *)
Reopen == OpenIdle("reopen", "accept")

(* All of handleRead but what accept needs of the server.                  *)
AcceptorStep ==
    \/ HandleRead \/ WouldBlock \/ AcceptError
    \/ OutOfDescriptors \/ AcceptToClose \/ CloseAccepted \/ Reopen
===============================================================================
