-------------------------------- MODULE Journal --------------------------------
(***************************************************************************)
(* What the log promises to those who write lines to it: no buffers, no    *)
(* threads, no files.  Bytes are numbered in the order in which they are   *)
(* entered and wait in that order; what is on disk only grows, at its end, *)
(* by what has waited longest.  What never gets there has been given up: a *)
(* line when it was entered, a piece when a write failed, or because too   *)
(* much was waiting.  There is a bound to both below which nothing is.     *)
(***************************************************************************)
EXTENDS Integers, Sequences, SequencesExt

CONSTANTS
    Lengths,            (* of the lines                                    *)
    Room,               (* no line is refused that comes to less than this *)
                        (* with all that waits                             *)
    Enough              (* nothing is discarded while less waits           *)

VARIABLES
    entered,            (* how many bytes were                             *)
    waiting,
    disk,
    lost,
    failed              (* writes                                          *)

Init == entered = 0 /\ waiting = <<>> /\ disk = <<>> /\ lost = {} /\ failed = 0

NewLine(len) == [i \in 1 .. len |-> entered + i]

Enter(len) ==
    /\ entered' = entered + len
    /\ \/ waiting' = waiting \o NewLine(len) /\ lost' = lost
       \/ /\ Len(waiting) + len >= Room
          /\ waiting' = waiting /\ lost' = lost \cup ToSet(NewLine(len))
    /\ UNCHANGED <<disk, failed>>

(* Behind the first n bytes those up to the m-th are given up, and the     *)
(* first n go to the disk or go on waiting.                                *)
Without(n, m) ==
    /\ lost' = lost \cup ToSet(SubSeq(waiting, n + 1, m))
    /\ entered' = entered
    /\ \/ /\ disk' = disk \o SubSeq(waiting, 1, n)
          /\ waiting' = SubSeq(waiting, m + 1, Len(waiting))
       \/ /\ disk' = disk
          /\ waiting' = SubSeq(waiting, 1, n) \o SubSeq(waiting, m + 1, Len(waiting))

Write(n) == Without(n, n) /\ failed' = failed

Fail(n, m) == Without(n, m) /\ failed' = failed + 1

Discard(n, m) == Without(n, m) /\ failed' = failed /\ Len(waiting) >= Enough /\ disk' = disk

Next ==
    \/ \E len \in Lengths : Enter(len)
    \/ \E n \in 0 .. Len(waiting) :
           \/ Write(n)
           \/ \E m \in n + 1 .. Len(waiting) : Fail(n, m) \/ Discard(n, m)

Spec == Init /\ [][Next]_<<entered, waiting, disk, lost, failed>>
===============================================================================
