-------------------------------- MODULE Buffer --------------------------------
(***************************************************************************)
(* The input buffer of a connection (muduoZ/net/tcpServer/Buffer.{h,cc}):  *)
(* a vector with two indices and the ways data is put into it.  A buffer   *)
(* is a record, the operations are operators that return the new one.      *)
(* Indices count from 0, as in the code; a cell is a byte.                 *)
(*                                                                         *)
(* readIndex_ may get past writeIndex_ (see HttpServer.tla): lengths are   *)
(* then negative here and very large in the code, where they are unsigned. *)
(***************************************************************************)
EXTENDS Integers, Sequences

CONSTANTS
    BufferSize,     (* cells of a new buffer, 1024 in the code             *)
    ExtraSize       (* cells of the array on the stack of readFd, 65536    *)

ASSUME SizesOK == BufferSize \in Nat \ {0} /\ ExtraSize \in Nat \ {0}

NewBuffer ==
    [buffer_ |-> [i \in 1 .. BufferSize |-> "NUL"], writeIndex_ |-> 0, readIndex_ |-> 0]

getWriteableLen(b) == Len(b.buffer_) - b.writeIndex_
getReadableLen(b) == b.writeIndex_ - b.readIndex_

(* What there is to read.                                                  *)
Readable(b) == SubSeq(b.buffer_, b.readIndex_ + 1, b.writeIndex_)

haveReadForLen(b, len) == [b EXCEPT !.readIndex_ = @ + len]

(* The vector with cells copied to index at.                               *)
Copied(vector, at, cells) ==
    [i \in 1 .. Len(vector) |->
        IF at < i /\ i <= at + Len(cells) THEN cells[i - at] ELSE vector[i]]

(* With a mistake: the data moves and readIndex_ does not.                 *)
MovesDataOnly(b, len) ==
    [b EXCEPT !.buffer_ = Copied(@, 0, Readable(b)), !.writeIndex_ = getReadableLen(b)]

(* The data moves to the front of the vector ...                           *)
MoveToFront(b, len) ==
    [buffer_     |-> Copied(b.buffer_, 0, Readable(b)),
     writeIndex_ |-> getReadableLen(b),
     readIndex_  |-> 0]

(* ... unless there is still no room for len cells; then it is enlarged.   *)
Enlarges(b, len) == getWriteableLen(b) + b.readIndex_ < len

makeSpace(b, len) ==
    IF Enlarges(b, len)
    THEN [b EXCEPT !.buffer_ = @ \o [i \in 1 .. len - getWriteableLen(b) |-> "NUL"]]
    ELSE MoveToFront(b, len)

(* With a mistake: no room is made.                                        *)
AppendsAnyway(b, cells) ==
    [b EXCEPT !.buffer_ = Copied(@, b.writeIndex_, cells), !.writeIndex_ = @ + Len(cells)]

append(b, cells) ==
    LET c == IF getWriteableLen(b) < Len(cells) THEN makeSpace(b, Len(cells)) ELSE b
    IN  [c EXCEPT !.buffer_ = Copied(@, c.writeIndex_, cells), !.writeIndex_ = @ + Len(cells)]

(* The iovec of readFd, filled in once before its loop: the free part of   *)
(* the vector from index base on, and the array behind it unless there is  *)
(* plenty of room.  size tells whether the vector has been enlarged since. *)
Iovec(b) ==
    [base |-> b.writeIndex_, room |-> getWriteableLen(b), size |-> Len(b.buffer_)]

Capacity(iov) == IF iov.room < ExtraSize THEN iov.room + ExtraSize ELSE iov.room

(* One turn of the loop: readv has put cells into the iovec.  What went    *)
(* into the array is appended.  The iovec is not filled in again: from the *)
(* second turn on, the first cells go where the previous turn put its own. *)
Received(b, iov, cells) ==
    LET fits == Len(cells) <= iov.room
        direct == IF fits THEN cells ELSE SubSeq(cells, 1, iov.room)
        c == [b EXCEPT !.buffer_ = Copied(@, iov.base, direct)]
    IN  IF fits
        THEN [c EXCEPT !.writeIndex_ = @ + Len(cells)]
        ELSE append([c EXCEPT !.writeIndex_ = Len(c.buffer_)],
                    SubSeq(cells, iov.room + 1, Len(cells)))

(* Is the data lost?  In a second turn readv overwrites what the first one *)
(* read, or, if the first one moved the data to the front, writeIndex_     *)
(* jumps over a gap; only if the vector had been full and was enlarged is  *)
(* all well.  And makeSpace may have to move data of a negative length     *)
(* (memmove then runs off the heap).                                       *)
Garbles(b, iov, cells, again) ==
    \/ again /\ (iov.room > 0 \/ getWriteableLen(b) > 0)
    \/ Len(cells) > iov.room /\ b.readIndex_ > Len(b.buffer_)
===============================================================================
