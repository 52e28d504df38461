------------------------------ MODULE ByteStream ------------------------------
(***************************************************************************)
(* What a Connection promises to the two ends of one direction: the units  *)
(* of the messages reach the reader in the order of the sends, each at     *)
(* most once.  A message is taken or dropped as a whole, and it is only    *)
(* dropped when the stream has ended, is broken, or has as much under way  *)
(* as the kernel holds.  What has been taken is lost only by a break, or   *)
(* if the stream is ended while its connection is out of the event loop.   *)
(*                                                                         *)
(* Nothing is said here of the output buffer, of the interest in writing   *)
(* or of threads: Connection.tla models those, and implements this.        *)
(***************************************************************************)
EXTENDS Naturals, Sequences

CONSTANTS
    Capacity,       (* units the kernel holds                              *)
    Lengths         (* of the messages                                     *)

VARIABLES
    accepted,       (* units of all messages so far, also of dropped ones  *)
    waiting,        (* what the reader will still get                      *)
    got,            (* the last unit it has got                            *)
    ended,          (* the sender has ended the stream                     *)
    broken,         (* the network or the reader has                       *)
    attached        (* is the connection in the event loop?                *)

streamVars == <<accepted, waiting, got, ended, broken>>

Init ==
    /\ accepted = 0 /\ waiting = <<>> /\ got = 0
    /\ ended = FALSE /\ broken = FALSE /\ attached = FALSE

Units(len) == [i \in 1 .. len |-> accepted + i]

Refused == ended \/ broken \/ Len(waiting) >= Capacity

Send(len) ==
    /\ accepted' = accepted + len
    /\ \/ ~ended /\ ~broken /\ waiting' = waiting \o Units(len)
       \/ Refused /\ UNCHANGED waiting
    /\ UNCHANGED <<got, ended, broken>>

Read ==
    /\ waiting # <<>>
    /\ got' = Head(waiting) /\ waiting' = Tail(waiting)
    /\ UNCHANGED <<accepted, ended, broken>>

(* What the kernel does not have by then does not reach the reader.        *)
End ==
    /\ ~ended /\ ~broken
    /\ ended' = TRUE
    /\ \E n \in 0 .. Len(waiting) :
           /\ n <= Capacity /\ (attached => n = Len(waiting))
           /\ waiting' = SubSeq(waiting, 1, n)
    /\ UNCHANGED <<accepted, got, broken>>

Break ==
    /\ ~broken
    /\ broken' = TRUE /\ waiting' = <<>>
    /\ UNCHANGED <<accepted, got, ended>>

(* The connection comes and goes as it likes, also together with a step.   *)
Next ==
    /\ attached' \in BOOLEAN
    /\ \/ \E len \in Lengths : Send(len)
       \/ Read \/ End \/ Break
       \/ UNCHANGED streamVars

Spec == Init /\ [][Next]_<<streamVars, attached>>
===============================================================================
