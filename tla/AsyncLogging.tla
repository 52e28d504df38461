----------------------------- MODULE AsyncLogging -----------------------------
(***************************************************************************)
(* The asynchronous log (muduoZ/base/AsyncLogging.cc with FixedBuffer.h,   *)
(* Thread.cc and CountDownLatch.h): threads append to the front buffers,   *)
(* the log thread swaps them with its own and writes them to the file; the *)
(* owner starts and stops the log thread.                                  *)
(*                                                                         *)
(* mutex_ is held for the whole of append and for the swap, except while   *)
(* the log thread waits on cond_, so each is one step.  The wait may end   *)
(* at any time: notified, timed out or for no reason.  running_ is a plain *)
(* variable that both threads use without the lock.                        *)
(*                                                                         *)
(* A message is a line of Logger.tla, of which only the length matters     *)
(* here; a buffer is the sequence of the bytes in it, numbered in the      *)
(* order of the appends.  LogFile.tla takes what is written.               *)
(*                                                                         *)
(* Bound: MaxLines lines are appended.                                     *)
(***************************************************************************)
EXTENDS Logger, LogFile

CONSTANTS
    BufferSize,         (* bigBufferSize, 4000000                          *)
    Lengths,            (* of the lines that are appended                  *)
    MaxBuffers,         (* buffers written in one go, 25                   *)
    MaxLines

KeptBuffers == 2

ASSUME ConstantsOK ==
    /\ BufferSize \in Nat /\ SmallSize < BufferSize
    /\ Lengths \subseteq {Len(Line(m)) : m \in Messages}
    /\ MaxBuffers \in Nat /\ MaxBuffers >= KeptBuffers /\ MaxLines \in Nat

VARIABLES
    bufferCurrent_,
    bufferNext_,        (* is there one, or has it been moved away?        *)
    bufferVector_,
    bufferBack1, bufferBack2,   (* are there?                              *)
    bufferBackVec,
    outputs,            (* how many of them are written                    *)
    running_,
    owner,              (* "new", "starting", "latched", "started" or      *)
                        (* "stopping", "joined"                            *)
    latches,            (* counts of Thread::latch_ and AsyncLogging::latch_*)
    pc,                 (* the log thread                                  *)
    ends,               (* the last byte of each line appended so far      *)
    lost                (* bytes given up by FixedBuffer::append, run and  *)
                        (* AppendFile::append                              *)

frontVars == <<bufferCurrent_, bufferNext_, bufferVector_>>
backVars  == <<bufferBack1, bufferBack2, bufferBackVec, outputs>>
ownerVars == <<running_, owner, latches>>
lineVars  == <<ends, lost>>
vars == <<frontVars, backVars, ownerVars, fileVars, lineVars, pc>>

Init ==
    /\ bufferCurrent_ = <<>> /\ bufferNext_ = TRUE /\ bufferVector_ = <<>>
    /\ bufferBack1 = TRUE /\ bufferBack2 = TRUE /\ bufferBackVec = <<>> /\ outputs = 0
    /\ running_ = FALSE /\ owner = "new"
    /\ latches = [thread |-> 1, run |-> 1]
    /\ pc = "none" /\ ends = <<>> /\ lost = {} /\ NoFiles

-------------------------------------------------------------------------------
(* append, by any thread.                                                  *)

appended == IF ends = <<>> THEN 0 ELSE Last(ends)

Message(len) == [i \in 1 .. len |-> appended + i]

(* getRemainLen() >= len, but FixedBuffer::append wants one more.          *)
Fits(len) == BufferSize - Len(bufferCurrent_) >= len

BufferTakes(buffer, len) == len < BufferSize - Len(buffer)

(* The full buffer goes into the vector; the spare one or a new one takes  *)
(* its place.                                                              *)
Replace(len) ==
    /\ bufferVector_' = Append(bufferVector_, bufferCurrent_)
    /\ bufferNext_' = FALSE
    /\ bufferCurrent_' = Message(len)
    /\ UNCHANGED lost

append(len) ==
    /\ Len(ends) < MaxLines
    /\ ends' = Append(ends, appended + len)
    /\ IF ~Fits(len)
       THEN Replace(len)
       ELSE /\ IF BufferTakes(bufferCurrent_, len)
               THEN bufferCurrent_' = bufferCurrent_ \o Message(len) /\ UNCHANGED lost
               ELSE lost' = lost \cup ToSet(Message(len)) /\ UNCHANGED bufferCurrent_
            /\ UNCHANGED <<bufferNext_, bufferVector_>>
    /\ UNCHANGED <<backVars, ownerVars, fileVars, pc>>

-------------------------------------------------------------------------------
(* start, stop, and the thread in between.                                 *)

Owner(from, to) ==
    /\ owner = from /\ owner' = to
    /\ UNCHANGED <<frontVars, backVars, fileVars, lineVars>>

start ==
    /\ Owner("new", "starting")
    /\ running_' = TRUE /\ pc' = "thread"
    /\ UNCHANGED latches

(* Thread::start waits for the new thread, then AsyncLogging::start does.  *)
ThreadStarted ==
    /\ Owner("starting", "latched")
    /\ latches.thread = 0
    /\ UNCHANGED <<running_, latches, pc>>

Started ==
    /\ Owner("latched", "started")
    /\ latches.run = 0
    /\ UNCHANGED <<running_, latches, pc>>

stop ==
    /\ Owner("started", "stopping")
    /\ running_' = FALSE
    /\ UNCHANGED <<latches, pc>>

Join ==
    /\ Owner("stopping", "joined")
    /\ pc = "ended"
    /\ UNCHANGED <<running_, latches, pc>>

-------------------------------------------------------------------------------
(* The log thread.                                                         *)

Go(from, to) ==
    /\ pc = from /\ pc' = to
    /\ UNCHANGED owner

(* ThreadData::run.                                                        *)
ThreadRun ==
    /\ Go("thread", "run")
    /\ latches' = [latches EXCEPT !.thread = @ - 1]
    /\ UNCHANGED <<frontVars, backVars, running_, fileVars, lineVars>>

(* The start of run(): the latch, then the LogFile.                        *)
RunBegins ==
    /\ Go("run", "test")
    /\ latches' = [latches EXCEPT !.run = @ - 1]
    /\ OpenFile
    /\ UNCHANGED <<frontVars, backVars, running_, lineVars, now, files, errors>>

(* With a mistake: the latch is counted down in every round.             *)
TestCountsDown ==
    /\ Go("test", IF running_ THEN "lock" ELSE "ended")
    /\ latches' = [latches EXCEPT !.run = @ - 1]
    /\ UNCHANGED <<frontVars, backVars, running_, fileVars, lineVars>>

(* while(running_); behind it the last flush, and the file is closed.      *)
Test ==
    /\ Go("test", IF running_ THEN "lock" ELSE "ended")
    /\ IF running_ THEN UNCHANGED fileVars ELSE flush
    /\ UNCHANGED <<frontVars, backVars, running_, latches, lineVars>>

(* Takes mutex_; with nothing in the vector it waits on cond_ ...          *)
Wait ==
    /\ Go("lock", "wait")
    /\ bufferVector_ = <<>>
    /\ UNCHANGED <<frontVars, backVars, running_, latches, fileVars, lineVars>>

SwapFrom(from) ==
    /\ Go(from, "erase")
    /\ bufferVector_' = <<>> /\ bufferCurrent_' = <<>>
    /\ bufferBack1' = FALSE /\ bufferNext_' = TRUE
    /\ outputs' = 0
    /\ UNCHANGED <<running_, latches, fileVars, lineVars>>

(* With a mistake: the current buffer goes in front of the full ones.    *)
SwapCurrentFirst ==
    /\ SwapFrom("wait") \/ (SwapFrom("lock") /\ bufferVector_ # <<>>)
    /\ bufferBackVec' = <<bufferCurrent_>> \o bufferVector_
    /\ bufferBack2' = (bufferBack2 /\ bufferNext_)

(* With a mistake: bufferNext_ is replaced even when there is one.       *)
SwapBothAlways ==
    /\ SwapFrom("wait") \/ (SwapFrom("lock") /\ bufferVector_ # <<>>)
    /\ bufferBackVec' = Append(bufferVector_, bufferCurrent_)
    /\ bufferBack2' = FALSE

(* With a mistake: the wait goes on until a buffer is full.              *)
SwapWhenFull ==
    /\ SwapFrom("wait") \/ SwapFrom("lock")
    /\ bufferVector_ # <<>>
    /\ bufferBackVec' = Append(bufferVector_, bufferCurrent_)
    /\ bufferBack2' = (bufferBack2 /\ bufferNext_)

(* ... then the buffers change hands.                                      *)
Swap ==
    /\ SwapFrom("wait") \/ (SwapFrom("lock") /\ bufferVector_ # <<>>)
    /\ bufferBackVec' = Append(bufferVector_, bufferCurrent_)
    /\ bufferBack2' = (bufferBack2 /\ bufferNext_)

Bytes(buffers) == UNION {ToSet(buffers[i]) : i \in DOMAIN buffers}

(* If there are too many, all but the first two are thrown away.           *)
Kept == IF Len(bufferBackVec) > MaxBuffers THEN SubSeq(bufferBackVec, 1, KeptBuffers)
        ELSE bufferBackVec

Erase ==
    /\ Go("erase", "write")
    /\ bufferBackVec' = Kept
    /\ lost' = lost \cup (Bytes(bufferBackVec) \ Bytes(Kept))
    /\ UNCHANGED <<frontVars, bufferBack1, bufferBack2, outputs, running_, latches,
                   ends, fileVars>>

(* The next buffer goes to the LogFile, which takes n bytes of it: all, or *)
(* none, or all but the last.                                              *)
Write(n) ==
    LET data == bufferBackVec[outputs + 1]
    IN  /\ Go("write", "write")
        /\ outputs < Len(bufferBackVec) /\ n \in {0, Len(data) - 1, Len(data)} \cap Nat
        /\ output(data, n)
        /\ outputs' = outputs + 1
        /\ lost' = lost \cup ToSet(SubSeq(data, n + 1, Len(data)))
        /\ UNCHANGED <<frontVars, bufferBack1, bufferBack2, bufferBackVec, running_, latches, ends>>

(* What the log thread takes back from the vector, cut to two, to be its   *)
(* own buffers.                                                            *)
Needed == (IF bufferBack1 THEN 0 ELSE 1) + (IF bufferBack2 THEN 0 ELSE 1)

Recycle ==
    /\ Go("write", "test")
    /\ outputs = Len(bufferBackVec)
    /\ bufferBack1' = TRUE /\ bufferBack2' = TRUE
    /\ bufferBackVec' = <<>> /\ outputs' = 0
    /\ flush
    /\ UNCHANGED <<frontVars, running_, latches, lineVars>>

-------------------------------------------------------------------------------
LogThread ==
    \/ ThreadRun \/ RunBegins \/ Test \/ Wait \/ Swap \/ Erase \/ Recycle
    \/ \E n \in 0 .. BufferSize : Write(n)

Next ==
    \/ \E len \in Lengths : append(len)
    \/ start \/ ThreadStarted \/ Started \/ stop \/ Join
    \/ LogThread
    \/ Tick /\ UNCHANGED <<frontVars, backVars, ownerVars, lineVars, pc>>

Spec == Init /\ [][Next]_vars

(* The log thread is scheduled, and its wait ends after interval_ at the   *)
(* latest.  Nobody has to append, to start or to stop; who has begun to do *)
(* so goes on.                                                             *)
FairSpec ==
    /\ Spec
    /\ WF_vars(LogThread) /\ WF_vars(ThreadStarted \/ Started \/ Join)

-------------------------------------------------------------------------------
TypeOK ==
    /\ bufferCurrent_ \in Seq(Nat) /\ Len(bufferCurrent_) <= BufferSize
    /\ bufferVector_ \in Seq(Seq(Nat)) /\ bufferBackVec \in Seq(Seq(Nat))
    /\ {bufferNext_, bufferBack1, bufferBack2, running_} \subseteq BOOLEAN
    /\ outputs \in 0 .. Len(bufferBackVec)
    /\ owner \in {"new", "starting", "latched", "started", "stopping", "joined"}
    /\ latches \in [thread : {0, 1}, run : {0, 1}]
    /\ pc \in {"none", "thread", "run", "test", "lock", "wait", "erase", "write", "ended"}
    /\ ends \in Seq(Nat) /\ lost \subseteq 1 .. appended
    /\ {now, name} \subseteq 1 .. MaxSeconds /\ name <= now
    /\ files \in [1 .. MaxSeconds -> Seq(Nat)] /\ unflushed \in Seq(Nat)
    /\ writtenBytes_ \in 0 .. RollSize /\ errors \in 0 .. MaxErrors

(* From the files, in the order of their names, to the current buffer,     *)
(* everything there is.                                                    *)
Unwritten == SubSeq(bufferBackVec, outputs + 1, Len(bufferBackVec))
Log == files \o <<unflushed>> \o Unwritten \o bufferVector_ \o <<bufferCurrent_>>

Increasing(buffer) == \A i, j \in DOMAIN buffer : i < j => buffer[i] < buffer[j]

Before(S, T) == \A b \in S, c \in T : b < c

InOrder(buffers) ==
    /\ \A i \in DOMAIN buffers : Increasing(buffers[i])
    /\ \A i, j \in DOMAIN buffers : i < j => Before(ToSet(buffers[i]), ToSet(buffers[j]))

(* The log is in the order of the appends, without repetition, and lacks   *)
(* nothing but what was given up, whichever buffers have changed hands and *)
(* whenever the file was rolled.                                           *)
LogComplete == InOrder(Log) /\ Bytes(Log) = (1 .. appended) \ lost

(* To those who append, the log is a journal (Journal.tla): from the       *)
(* buffer of the file to the current one, bytes wait in the order in which *)
(* they were appended; the files, one after another, only grow at the end. *)
(* A line is only refused if it fills the current buffer, and buffers are  *)
(* only thrown away if more than MaxBuffers wait, of which all but the     *)
(* last had no room for another line (AsyncLogging.cc:35-50, 78-91).       *)
Waiting == unflushed \o FlattenSeq(Unwritten) \o FlattenSeq(bufferVector_) \o bufferCurrent_

FullLength == BufferSize - SmallSize + 2

Promise == INSTANCE Journal WITH
    Room <- BufferSize, Enough <- MaxBuffers * FullLength,
    entered <- appended, waiting <- Waiting, disk <- FlattenSeq(files), failed <- errors

JournalSpec == Promise!Spec

(* No line begins in one file and goes on in the next (LogFile.cc:63-69,   *)
(* AsyncLogging.cc:89-91), unless a write failed.                          *)
WholeLines(S) == \A b \in S : b + 1 \in S \/ b \in ToSet(ends)

FilesHoldWholeLines == errors = 0 => \A s \in DOMAIN files : WholeLines(ToSet(files[s]))

(* run() calls back() on a vector that holds enough buffers: the spare one *)
(* is only missing in front when the vector there is not empty, also when  *)
(* buffers were erased (AsyncLogging.cc:78-84, 86, 93-107).                *)
VectorHoldsNeeded ==
    pc = "write" => (IF Len(bufferBackVec) > 2 THEN 2 ELSE Len(bufferBackVec)) >= Needed

(* Logger.tla's statement about its lines, for every message: it does not  *)
(* depend on the state and is looked at in the first one.                  *)
LinesInTheLog == owner = "new" /\ ends = <<>> /\ now = 1 => LinesAreSpelledOut

(* A line is on disk or given up in the end, though nobody appends another *)
(* (loggerTest.cc:26: flushed by time), unless the log is stopped.         *)
EverythingIsWritten ==
    \A i \in 1 .. MaxLines :
        (Len(ends) >= i /\ owner # "new")
            ~> (~running_ \/ (i <= Len(ends) /\ ends[i] \in Bytes(files) \cup lost))

(* stop() comes back: the log thread ends.                                 *)
StopEnds == owner = "stopping" ~> owner = "joined"
===============================================================================
