-------------------------------- MODULE LogFile --------------------------------
(***************************************************************************)
(* The files of the log (muduoZ/base/LogFile.cc): LogFile with its         *)
(* AppendFile.  Only the log thread uses it, so mutex_ is left out.        *)
(*                                                                         *)
(* A file is named by the second in which it is opened, is opened for      *)
(* appending, and is left for a new one when more than rollSize_ bytes     *)
(* were written through the AppendFile: rolled twice in a second, the same *)
(* file is opened again and the count starts at 0.  The clock does not go  *)
(* back.  Of the buffer of stdio the model assumes the worst: nothing is   *)
(* on disk before it is flushed.                                           *)
(*                                                                         *)
(* Bounds: MaxSeconds on the clock, MaxErrors failing writes.              *)
(***************************************************************************)
EXTENDS Integers, Sequences

CONSTANTS RollSize, MaxSeconds, MaxErrors

ASSUME FileConstantsOK == {RollSize, MaxSeconds, MaxErrors} \subseteq Nat /\ MaxSeconds > 0

VARIABLES
    now,                (* the second                                      *)
    files,              (* what is on disk, by the second in the name      *)
    name,               (* of the open file                                *)
    unflushed,          (* in its buffer_                                  *)
    writtenBytes_,
    errors              (* writes that have failed                         *)

fileVars == <<now, files, name, unflushed, writtenBytes_, errors>>

NoFiles ==
    /\ now = 1 /\ name = 1 /\ files = [s \in 1 .. MaxSeconds |-> <<>>]
    /\ unflushed = <<>> /\ writtenBytes_ = 0 /\ errors = 0

Tick ==
    /\ now < MaxSeconds /\ now' = now + 1
    /\ UNCHANGED <<files, name, unflushed, writtenBytes_, errors>>

(* The constructor of AppendFile, with the name from getFileName.          *)
OpenFile == name' = now /\ unflushed' = <<>> /\ writtenBytes_' = 0

(* With a mistake: the file is not flushed.                              *)
NoFlush == UNCHANGED fileVars

flush ==
    /\ files' = [files EXCEPT ![name] = @ \o unflushed]
    /\ unflushed' = <<>>
    /\ UNCHANGED <<now, name, writtenBytes_, errors>>

(* With a mistake: the buffer is divided where the file is full.         *)
SplitsBuffer(data, n) ==
    LET room == IF RollSize > writtenBytes_ THEN RollSize - writtenBytes_ ELSE 0
    IN  /\ n = Len(data)
        /\ IF n > room
           THEN /\ files' = [files EXCEPT ![name] = @ \o unflushed \o SubSeq(data, 1, room)]
                /\ name' = now /\ unflushed' = SubSeq(data, room + 1, n)
                /\ writtenBytes_' = n - room
           ELSE /\ unflushed' = unflushed \o data /\ writtenBytes_' = writtenBytes_ + n
                /\ UNCHANGED <<files, name>>
        /\ UNCHANGED <<now, errors>>

(* fwrite takes n bytes; if these are not all there was an error: append   *)
(* gives up and does not count them.  The new file is opened before the    *)
(* old one is closed, and thereby flushed.                                 *)
output(data, n) ==
    LET written == writtenBytes_ + (IF n = Len(data) THEN n ELSE 0)
        taken == unflushed \o SubSeq(data, 1, n)
    IN  /\ errors' = IF n = Len(data) THEN errors ELSE errors + 1
        /\ errors' <= MaxErrors
        /\ IF written > RollSize
           THEN files' = [files EXCEPT ![name] = @ \o taken] /\ OpenFile
           ELSE /\ unflushed' = taken /\ writtenBytes_' = written
                /\ UNCHANGED <<files, name>>
        /\ UNCHANGED now
===============================================================================
