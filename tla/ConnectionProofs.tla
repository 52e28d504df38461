---------------------------- MODULE ConnectionProofs ----------------------------
(***************************************************************************)
(* For every size of the send buffer, every message length and whatever    *)
(* the other thread calls: the inductive invariant of Connection.          *)
(***************************************************************************)
EXTENDS Connection, SequenceTheorems, TLAPS

USE ConstantsOK DEF ConstantsOK

-------------------------------------------------------------------------------
(* The inductive invariant.                                                *)

LaterFunctions == {"messageSent", "send", "shutDown", "forceClose"} \X (0 .. MaxLen)

(* connectEstablished is the first function of the queue and runs once;    *)
(* before it has run nothing else can happen to the connection.            *)
Established ==
    IF state_ = "Connecting"
    THEN /\ queue = <<<<"connectEstablished", 0>>>>
         /\ channelState = "CNew" /\ event_ = {} /\ outputBuffer_ = <<>>
         /\ pc = "idle" /\ calls = -1 /\ workerPc = "idle"
    ELSE queue \in Seq(LaterFunctions) /\ channelState # "CNew"

(* The kernel never has more than fits into its buffer.                    *)
SendBufferHolds == Len(sock.snd) <= SendBuffer

(* The units in a sequence increase, from above lo up to hi.               *)
Increases(lo, units, hi) ==
    /\ \A i \in 1 .. Len(units) : lo < units[i] /\ units[i] <= hi
    /\ \A i, j \in 1 .. Len(units) : i < j => units[i] < units[j]

(* StreamInOrder with the kernel's part and the buffer's told apart, and   *)
(* every unit above the last one read: a reset drops the kernel's part.    *)
PartsInOrder ==
    /\ sock.got <= sent
    /\ Increases(sock.got, sock.snd, sent)
    /\ Increases(sock.got, outputBuffer_, sent)
    /\ \A i \in 1 .. Len(sock.snd), j \in 1 .. Len(outputBuffer_) :
           sock.snd[i] < outputBuffer_[j]

IInv == TypeOK /\ Established /\ SendBufferHolds /\ WriteInterest /\ PartsInOrder

CallbackFunctions == {"connectEstablished", "messageSent"} \X (0 .. MaxLen)

(* What holds besides when all calls are made by callbacks.                *)
CallbacksOnly ==
    /\ workerPc = "idle"
    /\ queue \in Seq(CallbackFunctions)
    /\ Open => Registered /\ "in" \in event_
    /\ ClosedForGood /\ (state_ = "Disconnected" => event_ = {})
    /\ state_ \in {"Connecting", "Connected"} => ~sock.wrShut
    /\ sock.wrShut => outputBuffer_ = <<>>
    /\ pc # "idle" /\ "out" \in activeEvent_ => outputBuffer_ # <<>>
    /\ NoWriteAfterShutdown

-------------------------------------------------------------------------------
(* Sequences that increase.                                                *)

(* A part of a sequence that increases increases.                          *)
LEMMA IncreasesSubSeq ==
    ASSUME NEW lo \in Nat, NEW hi \in Nat, NEW s \in Seq(Nat \ {0}), Increases(lo, s, hi),
           NEW m \in 1 .. Len(s) + 1, NEW n \in 0 .. Len(s)
    PROVE  /\ SubSeq(s, m, n) \in Seq(Nat \ {0})
           /\ Increases(lo, SubSeq(s, m, n), hi)
<1> DEFINE part == SubSeq(s, m, n)
<1>1. \A i \in m .. n : s[i] \in Nat \ {0}
  OBVIOUS
<1>2. /\ part \in Seq(Nat \ {0})
      /\ Len(part) = IF m <= n THEN n - m + 1 ELSE 0
      /\ \A i \in 1 .. n - m + 1 : part[i] = s[m + i - 1]
  BY <1>1, SubSeqProperties
<1> HIDE DEF part
<1>3. \A i \in 1 .. Len(part) : part[i] = s[m + i - 1] /\ m + i - 1 \in 1 .. Len(s)
  BY <1>2
<1>4. \A i \in 1 .. Len(part) : lo < part[i] /\ part[i] <= hi
  BY <1>3 DEF Increases
<1>5. \A i, j \in 1 .. Len(part) : i < j => part[i] < part[j]
  <2> SUFFICES ASSUME NEW i \in 1 .. Len(part), NEW j \in 1 .. Len(part), i < j
               PROVE  part[i] < part[j]
    OBVIOUS
  <2>1. m + i - 1 < m + j - 1
    BY <1>2
  <2> QED
    BY <1>3, <2>1 DEF Increases
<1>6. Increases(lo, part, hi)
  BY <1>4, <1>5 DEF Increases
<1> QED
  BY <1>2, <1>6 DEF part

(* What is left of a sequence without its first n elements.                *)
LEMMA RestOf ==
    ASSUME NEW s \in Seq(Nat \ {0}), NEW n \in 0 .. Len(s)
    PROVE  /\ Len(SubSeq(s, n + 1, Len(s))) = Len(s) - n
           /\ \A i \in 1 .. Len(SubSeq(s, n + 1, Len(s))) :
                  n + i \in 1 .. Len(s) /\ SubSeq(s, n + 1, Len(s))[i] = s[n + i]
<1> DEFINE size == Len(s)
<1>1. size \in Nat /\ n \in Nat /\ n <= size /\ \A i \in n + 1 .. size : s[i] \in Nat \ {0}
  OBVIOUS
<1>2. /\ Len(SubSeq(s, n + 1, size)) = IF n + 1 <= size THEN size - (n + 1) + 1 ELSE 0
      /\ \A i \in 1 .. size - (n + 1) + 1 : SubSeq(s, n + 1, size)[i] = s[(n + 1) + i - 1]
  BY <1>1, SubSeqProperties
<1> QED
  BY <1>1, <1>2

(* Without its first element it lies above that one.                       *)
LEMMA IncreasesTail ==
    ASSUME NEW lo \in Nat, NEW hi \in Nat, NEW s \in Seq(Nat \ {0}), Increases(lo, s, hi), s # <<>>
    PROVE  /\ Tail(s) \in Seq(Nat \ {0}) /\ Len(Tail(s)) = Len(s) - 1
           /\ Head(s) \in Nat /\ Head(s) = s[1] /\ lo < Head(s) /\ Head(s) <= hi
           /\ Increases(Head(s), Tail(s), hi)
           /\ \A i \in 1 .. Len(Tail(s)) : i + 1 \in 1 .. Len(s) /\ Tail(s)[i] = s[i + 1]
<1> DEFINE t == Tail(s)
<1>1. /\ t \in Seq(Nat \ {0}) /\ Len(t) = Len(s) - 1
      /\ \A i \in 1 .. Len(t) : t[i] = s[i + 1]
  BY HeadTailProperties
<1>2. Len(s) \in Nat /\ 1 \in 1 .. Len(s) /\ Head(s) = s[1] /\ s[1] \in Nat
  BY EmptySeq
<1> HIDE DEF t
<1>3. \A i \in 1 .. Len(t) : i + 1 \in 1 .. Len(s) /\ 1 < i + 1 /\ t[i] = s[i + 1]
  BY <1>1, <1>2
<1>4. \A i \in 1 .. Len(t) : s[1] < t[i] /\ t[i] <= hi
  BY <1>2, <1>3 DEF Increases
<1>5. \A i, j \in 1 .. Len(t) : i < j => t[i] < t[j]
  <2> SUFFICES ASSUME NEW i \in 1 .. Len(t), NEW j \in 1 .. Len(t), i < j
               PROVE  t[i] < t[j]
    OBVIOUS
  <2>1. i + 1 < j + 1
    OBVIOUS
  <2> QED
    BY <1>3, <2>1 DEF Increases
<1>6. Increases(s[1], t, hi)
  BY <1>4, <1>5 DEF Increases
<1> QED
  BY <1>1, <1>2, <1>3, <1>6 DEF t, Increases

(* Two of them, the second above the first, increase together.             *)
LEMMA IncreasesConcat ==
    ASSUME NEW lo \in Nat, NEW hi \in Nat,
           NEW s \in Seq(Nat \ {0}), Increases(lo, s, hi),
           NEW t \in Seq(Nat \ {0}), Increases(lo, t, hi),
           \A i \in 1 .. Len(s), j \in 1 .. Len(t) : s[i] < t[j]
    PROVE  /\ s \o t \in Seq(Nat \ {0})
           /\ Increases(lo, s \o t, hi)
<1>1. /\ s \o t \in Seq(Nat \ {0})
      /\ Len(s \o t) = Len(s) + Len(t)
      /\ \A i \in 1 .. Len(s) + Len(t) : (s \o t)[i] = IF i <= Len(s) THEN s[i] ELSE t[i - Len(s)]
  BY ConcatProperties
<1>2. Len(s) \in Nat /\ Len(t) \in Nat
  OBVIOUS
<1> DEFINE both == s \o t
<1> HIDE DEF both
<1>3. \A i \in 1 .. Len(both) :
          IF i <= Len(s) THEN both[i] = s[i] ELSE i - Len(s) \in 1 .. Len(t) /\ both[i] = t[i - Len(s)]
  BY <1>1, <1>2 DEF both
<1>4. ASSUME NEW i \in 1 .. Len(both)
      PROVE  lo < both[i] /\ both[i] <= hi
  <2>1. CASE i <= Len(s)
    <3>1. i \in 1 .. Len(s)
      BY <1>2, <2>1
    <3> QED
    BY <1>3, <2>1, <3>1 DEF Increases
  <2>2. CASE ~(i <= Len(s))
    <3>1. i - Len(s) \in 1 .. Len(t) /\ both[i] = t[i - Len(s)]
      BY <1>3, <2>2
    <3>2. lo < t[i - Len(s)] /\ t[i - Len(s)] <= hi
      BY <3>1 DEF Increases
    <3> QED
    BY <3>1, <3>2
  <2> QED
    BY <2>1, <2>2
<1>5. \A i, j \in 1 .. Len(both) : i < j => both[i] < both[j]
  <2> SUFFICES ASSUME NEW i \in 1 .. Len(both), NEW j \in 1 .. Len(both), i < j
               PROVE  both[i] < both[j]
    OBVIOUS
  <2>1. CASE j <= Len(s)
    BY <1>2, <1>3, <2>1 DEF Increases
  <2>2. CASE i > Len(s)
    <3>1. i - Len(s) < j - Len(s) /\ j > Len(s)
      BY <1>2, <2>2
    <3>2. /\ i - Len(s) \in 1 .. Len(t) /\ both[i] = t[i - Len(s)]
          /\ j - Len(s) \in 1 .. Len(t) /\ both[j] = t[j - Len(s)]
      BY <1>2, <1>3, <2>2, <3>1
    <3>3. t[i - Len(s)] < t[j - Len(s)]
      BY <3>1, <3>2 DEF Increases
    <3> QED
      BY <3>2, <3>3
  <2>3. CASE i <= Len(s) /\ j > Len(s)
    BY <1>2, <1>3, <2>3
  <2> QED
    BY SMTT(30), <1>1, <1>2, <2>1, <2>2, <2>3 DEF both
<1>6. Increases(lo, both, hi)
  BY <1>4, <1>5 DEF Increases
<1> QED
  BY <1>1, <1>6 DEF both

(* What is below both parts of a sequence, or above, is so for the whole.  *)
LEMMA BelowConcat ==
    ASSUME NEW r \in Seq(Nat \ {0}), NEW s \in Seq(Nat \ {0}), NEW t \in Seq(Nat \ {0}),
           \A i \in 1 .. Len(r), j \in 1 .. Len(s) : r[i] < s[j],
           \A i \in 1 .. Len(r), j \in 1 .. Len(t) : r[i] < t[j]
    PROVE  \A i \in 1 .. Len(r), j \in 1 .. Len(s \o t) : r[i] < (s \o t)[j]
<1>1. \A j \in 1 .. Len(s \o t) :
          \/ j \in 1 .. Len(s) /\ (s \o t)[j] = s[j]
          \/ j - Len(s) \in 1 .. Len(t) /\ (s \o t)[j] = t[j - Len(s)]
  BY ConcatProperties
<1> QED
  BY <1>1

(* Two sequences below a third are below it together.                      *)
LEMMA ConcatBelow ==
    ASSUME NEW r \in Seq(Nat \ {0}), NEW s \in Seq(Nat \ {0}), NEW t \in Seq(Nat \ {0}),
           \A i \in 1 .. Len(r), j \in 1 .. Len(t) : r[i] < t[j],
           \A i \in 1 .. Len(s), j \in 1 .. Len(t) : s[i] < t[j]
    PROVE  \A i \in 1 .. Len(r \o s), j \in 1 .. Len(t) : (r \o s)[i] < t[j]
<1>1. \A i \in 1 .. Len(r \o s) :
          \/ i \in 1 .. Len(r) /\ (r \o s)[i] = r[i]
          \/ i - Len(r) \in 1 .. Len(s) /\ (r \o s)[i] = s[i - Len(r)]
  BY ConcatProperties
<1> QED
  BY <1>1

(* Other units may be sent later.                                          *)
LEMMA IncreasesUpTo ==
    ASSUME NEW lo \in Nat, NEW hi \in Nat, NEW top \in Nat, hi <= top,
           NEW s \in Seq(Nat \ {0}), Increases(lo, s, hi)
    PROVE  Increases(lo, s, top)
  BY DEF Increases

(* The units of a message are new.                                         *)
LEMMA MessageIncreases ==
    ASSUME sent \in Nat, NEW lo \in Nat, lo <= sent, NEW len \in Nat
    PROVE  /\ Message(len) \in Seq(Nat \ {0})
           /\ Len(Message(len)) = len
           /\ \A i \in 1 .. len : Message(len)[i] > sent
           /\ Increases(lo, Message(len), sent + len)
  BY DEF Message, Increases

-------------------------------------------------------------------------------
(* The operations that several actions have in common.                     *)

Sockets == [rcv : Nat, fin : BOOLEAN, snd : Seq(Nat \ {0}), got : Nat,
            noSpace : BOOLEAN, wrShut : BOOLEAN, dead : BOOLEAN,
            err : {"none", "ECONNRESET", "EPIPE"}]

(* The channel's part of TypeOK, and what is not CNew any more.            *)
ChannelOK == event_ \subseteq {"in", "out"} /\ edge \in BOOLEAN
                /\ channelState \in {"CAdded", "CDeleted"}

(* The kernel takes a part of the data that fits, none when it is broken.  *)
LEMMA WrittenFits ==
    ASSUME sock \in Sockets, SendBufferHolds, NEW data \in Seq(Nat \ {0})
    PROVE  /\ Written(data) \in 0 .. Len(data)
           /\ Broken => Written(data) = 0
           /\ ~Broken => Len(sock.snd) + Written(data) <= SendBuffer
<1>1. Len(sock.snd) \in Nat /\ Len(data) \in Nat
  BY DEF Sockets
<1> QED
  BY <1>1 DEF Written, SendBufferHolds, Sockets

(* write puts that part behind what is in the send buffer.                 *)
LEMMA WriteAppends ==
    ASSUME sock \in Sockets, SendBufferHolds, NEW data \in Seq(Nat \ {0}), write(data)
    PROVE  /\ sock' \in Sockets /\ SendBufferHolds' /\ killed' \in BOOLEAN
           /\ sock'.got = sock.got /\ sock'.wrShut = sock.wrShut
           /\ SubSeq(data, 1, Written(data)) \in Seq(Nat \ {0})
           /\ sock'.snd = IF Broken THEN sock.snd ELSE sock.snd \o SubSeq(data, 1, Written(data))
<1> DEFINE part == SubSeq(data, 1, Written(data))
<1>1. /\ Written(data) \in 0 .. Len(data)
      /\ ~Broken => Len(sock.snd) + Written(data) <= SendBuffer
  BY WrittenFits
<1>2. part \in Seq(Nat \ {0}) /\ Len(part) = Written(data)
  BY <1>1, SubSeqProperties
<1> HIDE DEF part
<1>3. /\ sock.snd \o part \in Seq(Nat \ {0})
      /\ Len(sock.snd \o part) = Len(sock.snd) + Written(data)
  <2>1. sock.snd \in Seq(Nat \ {0})
    BY DEF Sockets
  <2> QED
    BY <1>2, <2>1, ConcatProperties
<1>4. CASE Broken
  BY <1>2, <1>4 DEF write, Sockets, SendBufferHolds, part
<1>5. CASE ~Broken
  <2>1. sock' = [sock EXCEPT !.snd = sock.snd \o part,
                             !.noSpace = sock.noSpace \/ Written(data) < Len(data)]
    BY <1>5 DEF write, part
  <2>2. killed' = FALSE
    BY <1>5 DEF write
  <2>3. sock' \in Sockets /\ sock'.snd = sock.snd \o part /\ sock'.got = sock.got
            /\ sock'.wrShut = sock.wrShut
    BY <1>3, <2>1 DEF Sockets
  <2> QED
    BY <1>1, <1>2, <1>3, <1>5, <2>2, <2>3 DEF SendBufferHolds, part
<1> QED
  BY <1>4, <1>5

(* It does not end the sending direction; a SIGPIPE comes from a write     *)
(* after that, or from a connection that has been reset.                   *)
LEMMA WriteKeepsDirection ==
    ASSUME sock \in Sockets, NEW data, write(data)
    PROVE  /\ sock'.wrShut = sock.wrShut
           /\ killed' => sock.dead \/ sock.wrShut
  BY DEF write, Broken, Sockets

(* A channel that was registered once listens to what it is told; it is    *)
(* in epoll again if that is anything.                                     *)
LEMMA UpdateChannelOK ==
    ASSUME event_ \subseteq {"in", "out"}, channelState \in {"CNew", "CAdded", "CDeleted"},
           NEW event \in SUBSET {"in", "out"}, updateChannel(event)
    PROVE  ChannelOK' /\ event_' = event
  BY DEF updateChannel, ChannelOK

(* sendInLoop keeps every part of the invariant.                           *)
LEMMA SendInLoopKeeps ==
    ASSUME IInv, NEW len \in Lengths, sendInLoop(len), state_ # "Connecting"
    PROVE  /\ sock' \in Sockets /\ outputBuffer_' \in Seq(Nat \ {0})
           /\ sent' \in Nat /\ ChannelOK' /\ UNCHANGED state_
           /\ killed' \in BOOLEAN
           /\ SendBufferHolds' /\ WriteInterest' /\ PartsInOrder'
<1> DEFINE msg == Message(len)
           n == Written(msg)
           first == SubSeq(msg, 1, n)
           last == SubSeq(msg, n + 1, len)
<1> USE DEF IInv, TypeOK, Lengths
<1>1. /\ sock \in Sockets /\ sent \in Nat /\ outputBuffer_ \in Seq(Nat \ {0})
      /\ sock.got \in Nat /\ sock.snd \in Seq(Nat \ {0}) /\ len \in Nat \ {0}
  BY DEF Sockets
<1>2. sent' = sent + len /\ sent' \in Nat /\ UNCHANGED state_
  BY <1>1 DEF sendInLoop
<1>3. /\ msg \in Seq(Nat \ {0}) /\ Len(msg) = len
      /\ \A i \in 1 .. len : msg[i] > sent
      /\ Increases(sock.got, msg, sent + len)
  BY <1>1, MessageIncreases DEF PartsInOrder
<1>4. n \in 0 .. len
  BY <1>1, <1>3, WrittenFits
<1>5. /\ Increases(sock.got, sock.snd, sent + len)
      /\ Increases(sock.got, outputBuffer_, sent + len)
  BY <1>1, IncreasesUpTo DEF PartsInOrder
<1> HIDE DEF msg, n
<1>6. /\ \A i \in 1 .. Len(sock.snd) : sock.snd[i] \in Nat /\ sock.snd[i] <= sent
      /\ \A i \in 1 .. Len(outputBuffer_) : outputBuffer_[i] \in Nat /\ outputBuffer_[i] <= sent
  BY SMTT(30), <1>1 DEF PartsInOrder, Increases
<1>7. ChannelOK
  BY DEF ChannelOK, Established
<1>8. \A i \in 1 .. len : msg[i] \in Nat /\ msg[i] > sent
  BY SMTT(30), <1>3
<1>9. CASE Direct
  <2>1. write(msg) /\ outputBuffer_ = <<>> /\ "out" \notin event_
    BY <1>9 DEF sendInLoop, Direct, msg
  <2>2. /\ sock' \in Sockets /\ SendBufferHolds' /\ killed' \in BOOLEAN
        /\ sock'.got = sock.got /\ first \in Seq(Nat \ {0})
        /\ sock'.snd = IF Broken THEN sock.snd ELSE sock.snd \o first
    BY <1>1, <1>3, <2>1, WriteAppends DEF n
  <2>3. /\ first \in Seq(Nat \ {0}) /\ Increases(sock.got, first, sent + len)
        /\ last \in Seq(Nat \ {0}) /\ Increases(sock.got, last, sent + len)
    <3>1. sent + len \in Nat /\ 1 \in 1 .. Len(msg) + 1 /\ n + 1 \in 1 .. Len(msg) + 1
              /\ n \in 0 .. Len(msg) /\ len \in 0 .. Len(msg)
      BY <1>1, <1>3, <1>4
    <3>2. Increases(sock.got, first, sent + len)
      BY <1>1, <1>3, <3>1, IncreasesSubSeq
    <3>3. last \in Seq(Nat \ {0}) /\ Increases(sock.got, last, sent + len)
      BY <1>1, <1>3, <3>1, IncreasesSubSeq
    <3> QED
      BY <2>2, <3>2, <3>3
  <2>4. \A i \in 1 .. Len(first) : i \in 1 .. n /\ first[i] = msg[i]
    BY <1>3, <1>4, SubSeqProperties
  <2>5. \A i \in 1 .. Len(last) : n + i \in 1 .. len /\ last[i] = msg[n + i]
    BY <1>3, <1>4, SubSeqProperties
  <2> HIDE DEF first, last
  <2>6. \/ outputBuffer_' = <<>> /\ UNCHANGED channelVars
        \/ outputBuffer_' = last /\ last # <<>> /\ enableWriteEvent /\ n # 0
    <3>1. CASE n = 0 \/ last = <<>>
      BY <1>9, <2>1, <3>1 DEF sendInLoop, last, n, msg
    <3>2. CASE ~(n = 0 \/ last = <<>>)
      <4>1. outputBuffer_' = outputBuffer_ \o last /\ enableWriteEvent
        BY <1>9, <2>1, <3>2 DEF sendInLoop, last, n, msg
      <4>2. <<>> \o last = last
        BY <2>3, ConcatEmptySeq
      <4> QED
        BY <2>1, <3>2, <4>1, <4>2
    <3> QED
      BY <3>1, <3>2
  <2>7. Broken => n = 0
    BY <1>1, <1>3, WrittenFits DEF n
  <2>8. Increases(sock.got, sock'.snd, sent + len)
    <3>1. \A i \in 1 .. Len(sock.snd), j \in 1 .. Len(first) : sock.snd[i] < first[j]
      <4>1. ASSUME NEW j \in 1 .. Len(first)
            PROVE  first[j] > sent /\ first[j] \in Nat
        <5>1. j \in 1 .. len /\ first[j] = msg[j]
          BY <1>1, <1>4, <2>4
        <5> QED
          BY SMTT(30), <1>3, <5>1
      <4> QED
        BY SMTT(30), <1>1, <1>6, <4>1
    <3>2. Increases(sock.got, sock.snd \o first, sent + len)
      BY <1>1, <1>5, <2>3, <3>1, IncreasesConcat
    <3> QED
      BY <1>5, <2>2, <3>2
  <2>9. Increases(sock.got, outputBuffer_', sent + len)
    BY <1>5, <2>1, <2>3, <2>6
  <2>10. \A i \in 1 .. Len(sock'.snd), j \in 1 .. Len(outputBuffer_') :
             sock'.snd[i] < outputBuffer_'[j]
    <3>1. CASE outputBuffer_' = <<>>
      BY <3>1
    <3>2. CASE outputBuffer_' = last /\ n # 0
      <4>1. sock.snd \o first = sock'.snd
        BY <2>2, <2>7, <3>2
      <4>2. ASSUME NEW j \in 1 .. Len(last)
            PROVE  last[j] = msg[n + j] /\ n + j \in 1 .. len /\ last[j] > sent /\ last[j] \in Nat
        <5>1. n + j \in 1 .. len /\ last[j] = msg[n + j]
          BY <2>5
        <5> QED
          BY <1>8, <5>1
      <4>3. ASSUME NEW i \in 1 .. Len(first), NEW j \in 1 .. Len(last)
            PROVE  first[i] < last[j]
        <5>1. i \in 1 .. n /\ first[i] = msg[i] /\ i < n + j /\ i \in 1 .. len
          BY <1>4, <2>4
        <5>2. msg[i] < msg[n + j]
          BY <1>3, <4>2, <5>1 DEF Increases
        <5> QED
          BY <4>2, <5>1, <5>2
      <4>4. \A i \in 1 .. Len(sock.snd), j \in 1 .. Len(last) : sock.snd[i] < last[j]
        BY SMTT(30), <1>1, <1>6, <4>2
      <4>5. \A i \in 1 .. Len(sock.snd \o first), j \in 1 .. Len(last) : (sock.snd \o first)[i] < last[j]
        BY <1>1, <2>3, <4>3, <4>4, ConcatBelow
      <4> QED
        BY <3>2, <4>1, <4>5
    <3> QED
      BY <2>6, <3>1, <3>2
  <2>11. ChannelOK' /\ WriteInterest'
    <3>1. CASE outputBuffer_' = <<>> /\ UNCHANGED channelVars
      BY <1>7, <2>1, <3>1 DEF ChannelOK, WriteInterest, Registered, channelVars
    <3>2. CASE outputBuffer_' = last /\ last # <<>> /\ enableWriteEvent
      <4>1. ChannelOK' /\ event_' = event_ \cup {"out"}
        BY <3>2, UpdateChannelOK DEF enableWriteEvent
      <4> QED
        BY <3>2, <4>1 DEF WriteInterest
    <3> QED
      BY <2>6, <3>1, <3>2
  <2>12. PartsInOrder'
    BY <1>1, <1>2, <2>2, <2>8, <2>9, <2>10 DEF PartsInOrder
  <2>13. outputBuffer_' \in Seq(Nat \ {0})
    <3>1. CASE outputBuffer_' = <<>>
      BY <3>1, EmptySeq
    <3> QED
      BY <2>3, <2>6, <3>1
  <2> QED
    BY <1>2, <2>2, <2>11, <2>12, <2>13
<1>10. CASE ~Direct
  <2>1. /\ outputBuffer_' = outputBuffer_ \o msg /\ UNCHANGED <<sock, killed>>
        /\ IF "out" \in event_ THEN UNCHANGED channelVars ELSE enableWriteEvent
    <3>1. msg # <<>>
      BY <1>1, <1>3
    <3> QED
      BY <1>10, <3>1 DEF sendInLoop, msg
  <2>3. /\ \A i \in 1 .. Len(outputBuffer_), j \in 1 .. Len(msg) : outputBuffer_[i] < msg[j]
        /\ \A i \in 1 .. Len(sock.snd), j \in 1 .. Len(msg) : sock.snd[i] < msg[j]
    <3>1. \A i \in 1 .. Len(outputBuffer_), j \in 1 .. len : outputBuffer_[i] < msg[j]
      BY <1>1, <1>6, <1>8
    <3>2. \A i \in 1 .. Len(sock.snd), j \in 1 .. len : sock.snd[i] < msg[j]
      BY <1>1, <1>6, <1>8
    <3> QED
      BY <1>3, <3>1, <3>2
  <2>4. /\ outputBuffer_' \in Seq(Nat \ {0})
        /\ Increases(sock.got, outputBuffer_', sent + len)
    BY <1>1, <1>2, <1>3, <1>5, <2>1, <2>3, IncreasesConcat
  <2>5. \A i \in 1 .. Len(sock.snd), j \in 1 .. Len(outputBuffer_') : sock.snd[i] < outputBuffer_'[j]
    BY <1>1, <1>3, <2>1, <2>3, BelowConcat DEF PartsInOrder
  <2>6. PartsInOrder' /\ SendBufferHolds'
    BY SMTT(30), <1>1, <1>2, <1>5, <2>1, <2>4, <2>5 DEF PartsInOrder, SendBufferHolds
  <2>7. outputBuffer_' # <<>>
    BY <1>1, <1>3, <2>1, ConcatProperties
  <2>8. ChannelOK' /\ WriteInterest'
    <3>1. CASE "out" \in event_
      BY <1>7, <2>1, <2>7, <3>1 DEF ChannelOK, WriteInterest, channelVars
    <3>2. CASE "out" \notin event_
      <4>1. ChannelOK' /\ event_' = event_ \cup {"out"}
        BY <2>1, <3>2, UpdateChannelOK DEF enableWriteEvent
      <4> QED
        BY <2>7, <4>1 DEF WriteInterest
    <3> QED
      BY <3>1, <3>2
  <2> QED
    BY <1>1, <1>2, <2>1, <2>4, <2>6, <2>8
<1>. QED
  BY <1>9, <1>10

(* handleWrite keeps every part of the invariant.                          *)
LEMMA HandleWriteKeeps ==
    ASSUME IInv, handleWrite, state_ # "Connecting", UNCHANGED <<state_, sent>>
    PROVE  /\ sock' \in Sockets /\ outputBuffer_' \in Seq(Nat \ {0})
           /\ ChannelOK' /\ killed' \in BOOLEAN
           /\ queue' \in {queue, Append(queue, <<"messageSent", 0>>)}
           /\ SendBufferHolds' /\ WriteInterest' /\ PartsInOrder'
<1> DEFINE n == Written(outputBuffer_)
           size == Len(outputBuffer_)
           first == SubSeq(outputBuffer_, 1, n)
           last == SubSeq(outputBuffer_, n + 1, size)
<1> USE DEF IInv, TypeOK
<1>1. /\ sock \in Sockets /\ sent \in Nat /\ outputBuffer_ \in Seq(Nat \ {0})
      /\ sock.got \in Nat /\ sock.snd \in Seq(Nat \ {0})
      /\ Len(sock.snd) \in Nat /\ size \in Nat
  BY DEF Sockets
<1>2. /\ n \in 0 .. size /\ (Broken => n = 0)
      /\ ~Broken => Len(sock.snd) + n <= SendBuffer
  BY <1>1, WrittenFits
<1>3. ChannelOK
  BY DEF ChannelOK, Established
<1>4. /\ Increases(sock.got, sock.snd, sent) /\ Increases(sock.got, outputBuffer_, sent)
      /\ \A i \in 1 .. Len(sock.snd), j \in 1 .. size : sock.snd[i] < outputBuffer_[j]
  BY DEF PartsInOrder
<1>5. CASE n > 0 /\ n = size
  <2>1. AllWritten /\ ~Broken
    BY <1>2, <1>5 DEF handleWrite
  <2>2. /\ sock.snd \o outputBuffer_ \in Seq(Nat \ {0})
        /\ Len(sock.snd \o outputBuffer_) = Len(sock.snd) + size
        /\ Increases(sock.got, sock.snd \o outputBuffer_, sent)
    <3>1. sock.got \in Nat /\ sent \in Nat /\ sock.snd \in Seq(Nat \ {0}) /\ outputBuffer_ \in Seq(Nat \ {0})
      BY <1>1
    <3>2. /\ sock.snd \o outputBuffer_ \in Seq(Nat \ {0})
          /\ Len(sock.snd \o outputBuffer_) = Len(sock.snd) + size
      BY <3>1, ConcatProperties
    <3>3. Increases(sock.got, sock.snd \o outputBuffer_, sent)
      BY ONLY <1>4, <3>1, IncreasesConcat
    <3> QED
      BY <3>2, <3>3
  <2>3. /\ sock' \in Sockets /\ sock'.snd = sock.snd \o outputBuffer_
        /\ sock'.got = sock.got
    BY <1>1, <2>1, <2>2 DEF AllWritten, Sockets
  <2>4. ChannelOK' /\ event_' = event_ \ {"out"} /\ outputBuffer_' = <<>>
    BY <2>1, UpdateChannelOK DEF AllWritten, disableWriteEvent
  <2>5. SendBufferHolds' /\ WriteInterest'
    BY <1>2, <1>5, <2>1, <2>2, <2>3, <2>4 DEF SendBufferHolds, WriteInterest
  <2>6. PartsInOrder'
    BY SMTT(30), <1>1, <2>2, <2>3, <2>4 DEF PartsInOrder, Increases
  <2> QED
    BY <2>1, <2>3, <2>4, <2>5, <2>6, EmptySeq DEF AllWritten
<1>6. CASE ~(n > 0 /\ n = size)
  <2>1. write(outputBuffer_) /\ outputBuffer_' = last /\ UNCHANGED <<channelVars, queue>>
    BY <1>6 DEF handleWrite, PartWritten, writeFd
  <2>2. /\ sock' \in Sockets /\ SendBufferHolds' /\ killed' \in BOOLEAN
        /\ sock'.got = sock.got
        /\ sock'.snd = IF Broken THEN sock.snd ELSE sock.snd \o first
    BY <1>1, <2>1, WriteAppends
  <2>3. /\ first \in Seq(Nat \ {0}) /\ Increases(sock.got, first, sent)
        /\ last \in Seq(Nat \ {0}) /\ Increases(sock.got, last, sent)
    <3>1. /\ 1 \in 1 .. size + 1 /\ n + 1 \in 1 .. size + 1 /\ size \in 0 .. size
      BY <1>1, <1>2
    <3>2. first \in Seq(Nat \ {0}) /\ Increases(sock.got, first, sent)
      BY <1>1, <1>2, <1>4, <3>1, IncreasesSubSeq
    <3>3. last \in Seq(Nat \ {0}) /\ Increases(sock.got, last, sent)
      BY <1>1, <1>2, <1>4, <3>1, IncreasesSubSeq
    <3> QED
      BY <3>2, <3>3
  <2>4. \A i \in 1 .. Len(first) : i \in 1 .. n /\ i \in 1 .. size /\ first[i] = outputBuffer_[i]
    BY <1>1, <1>2, SubSeqProperties
  <2>5. /\ Len(last) = size - n
        /\ \A i \in 1 .. Len(last) : n + i \in 1 .. size /\ last[i] = outputBuffer_[n + i]
    BY ZenonT(60), <1>1, <1>2, RestOf
  <2> HIDE DEF n, size, first, last
  <2>6. \A i \in 1 .. Len(sock.snd), j \in 1 .. Len(last) : sock.snd[i] < last[j]
    BY <1>4, <2>5
  <2>7. ASSUME NEW i \in 1 .. Len(first), NEW j \in 1 .. Len(last)
        PROVE  first[i] < last[j]
    <3>1. /\ i \in 1 .. size /\ first[i] = outputBuffer_[i] /\ i < n + j
          /\ n + j \in 1 .. size /\ last[j] = outputBuffer_[n + j]
      BY <1>2, <2>4, <2>5
    <3>2. outputBuffer_[i] < outputBuffer_[n + j]
      BY <1>4, <3>1 DEF Increases, size
    <3> QED
      BY <3>1, <3>2
  <2>8. PartsInOrder'
    <3>1. CASE Broken
      BY <1>1, <1>4, <2>1, <2>2, <2>3, <2>6, <3>1 DEF PartsInOrder
    <3>2. CASE ~Broken
      <4>1. Increases(sock.got, sock.snd \o first, sent)
        <5>1. \A i \in 1 .. Len(sock.snd), j \in 1 .. Len(first) : sock.snd[i] < first[j]
          BY <1>4, <2>4
        <5> QED
          BY <1>1, <1>4, <2>3, <5>1, IncreasesConcat
      <4>2. \A i \in 1 .. Len(sock.snd \o first), j \in 1 .. Len(last) : (sock.snd \o first)[i] < last[j]
        BY <1>1, <2>3, <2>6, <2>7, ConcatBelow
      <4>3. sock'.snd = sock.snd \o first
        BY <2>2, <3>2
      <4> QED
        BY <1>1, <2>1, <2>2, <2>3, <4>1, <4>2, <4>3 DEF PartsInOrder
    <3> QED
      BY <3>1, <3>2
  <2>9. WriteInterest'
    <3>1. last = <<>> <=> outputBuffer_ = <<>>
      <4>1. (last = <<>> <=> Len(last) = 0) /\ (outputBuffer_ = <<>> <=> size = 0)
        BY <1>1, <2>3, EmptySeq DEF size
      <4> QED
        BY <1>1, <1>2, <1>6, <2>5, <4>1
    <3> QED
      BY <2>1, <3>1 DEF WriteInterest, Registered, channelVars
  <2>10. ChannelOK'
    BY <1>3, <2>1 DEF ChannelOK, channelVars
  <2> QED
    BY <2>1, <2>2, <2>3, <2>8, <2>9, <2>10
<1> QED
  BY <1>5, <1>6

(* shutDownInLoop changes nothing but the kernel's end of the sending      *)
(* direction, and only where nothing is left to write.                     *)
LEMMA ShutDownInLoopKeeps ==
    ASSUME IInv, shutDownInLoop, state_ # "Connecting", UNCHANGED sent
    PROVE  /\ sock' \in Sockets /\ UNCHANGED <<outputBuffer_, event_, channelState>>
           /\ ChannelOK' /\ SendBufferHolds' /\ WriteInterest' /\ PartsInOrder'
           /\ (sock'.wrShut /\ ~sock.wrShut /\ Registered) => outputBuffer_' = <<>>
<1>1. ChannelOK /\ sock \in Sockets
  BY DEF ChannelOK, Established, IInv, TypeOK, Sockets
<1>2. sock' \in Sockets /\ sock'.snd = sock.snd /\ sock'.got = sock.got /\ edge' \in BOOLEAN
  BY <1>1 DEF shutDownInLoop, shutdownWrite, Sockets, ChannelOK
<1>3. ("out" \in event_) => sock' = sock
  BY DEF shutDownInLoop
<1>4. UNCHANGED <<outputBuffer_, event_, channelState>>
  BY DEF shutDownInLoop
<1> QED
  BY <1>1, <1>2, <1>3, <1>4 DEF IInv, ChannelOK, SendBufferHolds, WriteInterest, PartsInOrder, Registered

(* handleClose too: nothing is written any more.                           *)
LEMMA HandleCloseKeeps ==
    ASSUME IInv, handleClose, state_ # "Connecting", UNCHANGED <<sock, sent>>
    PROVE  /\ state_' = "Disconnected" /\ UNCHANGED outputBuffer_
           /\ ChannelOK' /\ SendBufferHolds' /\ PartsInOrder'
           /\ WriteInterest'
<1>1. ChannelOK' /\ channelState' = "CDeleted"
  BY DEF handleClose, disableAll, updateChannel, ChannelOK, Established, IInv, TypeOK
<1> QED
  BY <1>1 DEF IInv, handleClose, SendBufferHolds, WriteInterest, PartsInOrder, Registered

-------------------------------------------------------------------------------
(* The steps.                                                              *)

Functions == {"connectEstablished", "messageSent", "send", "shutDown", "forceClose"}
                 \X (0 .. MaxLen)

(* The loop takes a function out of its queue: until connectEstablished    *)
(* has run it is that one, and never afterwards.                           *)
LEMMA FunctionTaken ==
    ASSUME IInv, NEW name, NEW len, Function(name, len)
    PROVE  /\ queue' \in Seq(Functions) /\ queue' \in Seq(LaterFunctions)
           /\ state_ = "Connecting" <=> name = "connectEstablished"
<1>1. queue # <<>> /\ queue' = Tail(queue) /\ Head(queue) = <<name, len>>
  BY DEF Function
<1>2. queue \in Seq(Functions)
  BY DEF IInv, TypeOK, Functions
<1>3. CASE state_ = "Connecting"
  <2>1. queue = <<<<"connectEstablished", 0>>>>
    BY <1>3 DEF IInv, Established
  <2>2. queue' = <<>> /\ name = "connectEstablished"
    BY <1>1, <2>1
  <2> QED
    BY <1>3, <2>2, EmptySeq
<1>4. CASE state_ # "Connecting"
  <2>1. queue \in Seq(LaterFunctions)
    BY <1>4 DEF IInv, Established
  <2>2. Head(queue) \in LaterFunctions /\ Tail(queue) \in Seq(LaterFunctions)
    BY <1>1, <2>1, HeadTailProperties
  <2>3. name # "connectEstablished"
    BY <1>1, <2>2 DEF LaterFunctions
  <2>4. Tail(queue) \in Seq(Functions)
    BY <1>1, <1>2, HeadTailProperties
  <2> QED
    BY <1>1, <1>4, <2>2, <2>3, <2>4
<1> QED
  BY <1>3, <1>4

(* Another one is put at the end.                                          *)
LEMMA FunctionQueued ==
    ASSUME IInv, state_ # "Connecting", NEW f \in LaterFunctions
    PROVE  /\ Append(queue, f) \in Seq(Functions)
           /\ Append(queue, f) \in Seq(LaterFunctions)
<1>1. queue \in Seq(Functions) /\ queue \in Seq(LaterFunctions)
  BY DEF IInv, TypeOK, Functions, Established
<1>2. f \in Functions
  BY DEF Functions, LaterFunctions
<1> QED
  BY <1>1, <1>2, AppendProperties

(* The invariant holds at first.                                           *)
LEMMA InitIInv == Init => IInv
<1> SUFFICES ASSUME Init PROVE IInv
  OBVIOUS
<1> USE DEF Init, NewChannel
<1>1. sock \in Sockets /\ sock.snd = <<>> /\ sock.got = 0 /\ outputBuffer_ \in Seq(Nat \ {0})
  BY EmptySeq DEF Sockets
<1>2. queue \in Seq(Functions)
  BY DEF Functions
<1>3. TypeOK
  <2>1. /\ peer \in [st : {"open", "half", "closed"}, sent : Nat]
        /\ calls \in -1 .. MaxCalls /\ sent \in Nat
    OBVIOUS
  <2>2. outputBuffer_ \in Seq(Nat \ {0}) /\ queue \in Seq(Functions)
    BY <1>1, <1>2
  <2> QED
    BY <1>1, <2>1, <2>2 DEF TypeOK, Sockets, Functions
<1>4. Len(sock.snd) = 0 /\ Len(outputBuffer_) = 0
  BY <1>1, EmptySeq
<1>5. SendBufferHolds /\ PartsInOrder
  BY <1>1, <1>4 DEF SendBufferHolds, PartsInOrder, Increases
<1> QED
  BY <1>3, <1>5 DEF IInv, Established, WriteInterest, Registered

(* A step that leaves the two buffers alone.                               *)
LEMMA BuffersKept ==
    ASSUME IInv, UNCHANGED <<outputBuffer_, event_, channelState, sent>>,
           sock'.snd = sock.snd, sock'.got = sock.got
    PROVE  SendBufferHolds' /\ WriteInterest' /\ PartsInOrder'
  BY DEF IInv, SendBufferHolds, WriteInterest, PartsInOrder, Registered

(* More data arrives.                                                      *)
LEMMA PeerSendsKeeps ==
    ASSUME sock \in Sockets, sock' = [sock EXCEPT !.rcv = @ + 1]
    PROVE  sock' \in Sockets /\ sock'.snd = sock.snd /\ sock'.got = sock.got
<1>1. sock.rcv + 1 \in Nat
  BY DEF Sockets
<1> QED
  BY <1>1 DEF Sockets

(* The peer reads the first unit of the send buffer.                       *)
LEMMA PeerReadsKeeps ==
    ASSUME IInv, PeerReads
    PROVE  sock' \in Sockets /\ SendBufferHolds' /\ PartsInOrder'
<1> DEFINE snd == sock.snd
<1>1. /\ snd \in Seq(Nat \ {0}) /\ Len(snd) \in Nat /\ sock.got \in Nat
      /\ sock \in Sockets /\ sent \in Nat /\ Len(snd) <= SendBuffer
      /\ outputBuffer_ \in Seq(Nat \ {0})
  BY DEF IInv, TypeOK, Sockets, SendBufferHolds
<1>2. /\ Increases(sock.got, snd, sent) /\ Increases(sock.got, outputBuffer_, sent)
      /\ \A i \in 1 .. Len(snd), j \in 1 .. Len(outputBuffer_) : snd[i] < outputBuffer_[j]
  BY DEF IInv, PartsInOrder
<1>3. /\ snd # <<>> /\ UNCHANGED <<outputBuffer_, sent>>
      /\ sock' = [sock EXCEPT !.got = Head(snd), !.snd = Tail(snd), !.noSpace = FALSE]
  BY DEF PeerReads, Environment, connVars
<1> HIDE DEF snd
<1>4. /\ Head(snd) \in Nat /\ Head(snd) <= sent /\ Head(snd) = snd[1]
      /\ Tail(snd) \in Seq(Nat \ {0}) /\ Len(Tail(snd)) = Len(snd) - 1
      /\ Increases(Head(snd), Tail(snd), sent)
      /\ \A i \in 1 .. Len(Tail(snd)) : i + 1 \in 1 .. Len(snd) /\ Tail(snd)[i] = snd[i + 1]
  BY SMTT(30), <1>1, <1>2, <1>3, IncreasesTail
<1>5. sock' \in Sockets /\ sock'.snd = Tail(snd) /\ sock'.got = Head(snd)
  BY <1>1, <1>3, <1>4 DEF Sockets
<1>6. \A j \in 1 .. Len(outputBuffer_) : Head(snd) < outputBuffer_[j]
  <2>1. 1 \in 1 .. Len(snd)
    BY <1>1, <1>3, EmptySeq
  <2> QED
    BY <1>2, <1>4, <2>1
<1>7. Increases(Head(snd), outputBuffer_, sent)
  BY <1>2, <1>6 DEF Increases
<1>8. \A i \in 1 .. Len(Tail(snd)), j \in 1 .. Len(outputBuffer_) : Tail(snd)[i] < outputBuffer_[j]
  BY <1>2, <1>4
<1>9. PartsInOrder'
  BY <1>3, <1>4, <1>5, <1>7, <1>8 DEF PartsInOrder
<1>10. SendBufferHolds'
  BY <1>1, <1>4, <1>5 DEF SendBufferHolds
<1> QED
  BY <1>5, <1>9, <1>10

(* Every step keeps the invariant: the handlers, the user's calls, the     *)
(* functions of the queue, the other thread, and the peer.                 *)
LEMMA NextIInv == IInv /\ [Next]_vars => IInv'
<1> SUFFICES ASSUME IInv, [Next]_vars PROVE IInv'
  OBVIOUS
<1>0. /\ sock \in Sockets /\ queue \in Seq(Functions) /\ sent \in Nat
      /\ pc # "idle" \/ calls # -1 \/ workerPc # "idle" => state_ # "Connecting"
      /\ state_ # "Connecting" => ChannelOK /\ queue \in Seq(LaterFunctions)
  BY DEF IInv, TypeOK, Established, Sockets, Functions, ChannelOK
<1> DEFINE Parts == SendBufferHolds /\ WriteInterest /\ PartsInOrder
<1> USE DEF IInv, TypeOK, Established, Sockets, Functions, ChannelOK, connVars, channelVars, loopVars
<1>1. CASE HandleHangUp
  <2> USE <1>1 DEF HandleHangUp, Loop
  <2>1. state_ # "Connecting"
    BY <1>0
  <2>2. CASE HungUp
    <3>1. handleClose /\ UNCHANGED <<sock, sent>>
      BY <2>2
    <3>2. /\ state_' = "Disconnected" /\ UNCHANGED outputBuffer_
          /\ ChannelOK' /\ Parts'
      BY <2>1, <3>1, HandleCloseKeeps
    <3> QED
      BY <1>0, <2>1, <3>2
  <2>3. CASE ~HungUp
    <3>1. UNCHANGED <<state_, outputBuffer_, event_, channelState, edge>>
      BY <2>3
    <3>2. Parts'
      BY <3>1, BuffersKept
    <3> QED
      BY <1>0, <2>1, <3>1, <3>2
  <2> QED
    BY <2>2, <2>3
<1>2. CASE HandleRead
  <2> USE <1>2 DEF HandleRead, Loop
  <2>1. state_ # "Connecting"
    BY <1>0
  <2>2. CASE "in" \notin activeEvent_
    <3>1. Parts'
      BY <2>2, BuffersKept
    <3> QED
      BY <1>0, <2>1, <2>2, <3>1
  <2>3. CASE "in" \in activeEvent_
    <3>1. sock' \in Sockets /\ sock'.snd = sock.snd /\ sock'.got = sock.got
      <4>1. sock' = [sock EXCEPT !.rcv = 0, !.err = "none"]
        BY <2>3 DEF readFd
      <4> HIDE DEF HandleRead
      <4> QED
        BY <1>0, <4>1
    <3>2. CASE sock.rcv > 0
      <4>1. calls' = MaxCalls /\ UNCHANGED <<state_, outputBuffer_, event_, channelState, edge>>
        BY <2>3, <3>2
      <4>2. Parts'
        BY <3>1, <4>1, BuffersKept
      <4> QED
        BY <1>0, <2>1, <3>1, <4>1, <4>2
    <3>3. CASE ~(sock.rcv > 0)
      <4>1. state_' = "Disconnected" /\ UNCHANGED outputBuffer_ /\ ChannelOK'
                /\ channelState' = "CDeleted"
        BY <1>0, <2>1, <2>3, <3>3 DEF handleClose, disableAll, updateChannel
      <4>2. Parts'
        BY <3>1, <4>1 DEF SendBufferHolds, WriteInterest, PartsInOrder, Registered
      <4> QED
        BY <1>0, <2>1, <2>3, <3>1, <3>3, <4>1, <4>2
    <3> QED
      BY <3>2, <3>3
  <2> QED
    BY <2>2, <2>3
<1>3. CASE HandleWrite
  <2> USE <1>3 DEF HandleWrite, Loop
  <2>1. state_ # "Connecting"
    BY <1>0
  <2>2. CASE "out" \in activeEvent_
    <3>1. /\ sock' \in Sockets /\ outputBuffer_' \in Seq(Nat \ {0})
          /\ ChannelOK' /\ killed' \in BOOLEAN
          /\ queue' \in {queue, Append(queue, <<"messageSent", 0>>)}
          /\ Parts'
      BY <2>1, <2>2, HandleWriteKeeps
    <3>2. queue' \in Seq(Functions) /\ queue' \in Seq(LaterFunctions)
      <4>1. <<"messageSent", 0>> \in LaterFunctions
        BY DEF LaterFunctions
      <4>2. /\ Append(queue, <<"messageSent", 0>>) \in Seq(Functions)
            /\ Append(queue, <<"messageSent", 0>>) \in Seq(LaterFunctions)
        BY <2>1, <4>1, FunctionQueued
      <4> QED
        BY <1>0, <2>1, <3>1, <4>2
    <3> QED
      BY <1>0, <2>1, <3>1, <3>2
  <2>3. CASE "out" \notin activeEvent_
    <3>1. Parts'
      BY <2>3, BuffersKept
    <3> QED
      BY <1>0, <2>1, <2>3, <3>1
  <2> QED
    BY <2>2, <2>3
<1>4. CASE UserReturns
  <2>1. Parts'
    BY <1>4, BuffersKept DEF UserReturns
  <2> QED
    BY <1>0, <1>4, <2>1 DEF UserReturns
<1>5. CASE UserShutDown
  <2> USE <1>5 DEF UserShutDown, User
  <2>1. sock' \in Sockets /\ UNCHANGED outputBuffer_ /\ ChannelOK' /\ Parts'
    BY ShutDownInLoopKeeps
  <2> QED
    BY <1>0, <2>1
<1>6. CASE UserForceClose
  <2> USE <1>6 DEF UserForceClose, User
  <2>1. state_' = "Disconnected" /\ UNCHANGED outputBuffer_ /\ ChannelOK' /\ Parts'
    BY HandleCloseKeeps DEF Open
  <2> QED
    BY <1>0, <2>1 DEF Open
<1>7. CASE \E len \in Lengths : UserSend(len)
  <2> PICK len \in Lengths : UserSend(len)
    BY <1>7
  <2> USE DEF UserSend, User
  <2>1. /\ sock' \in Sockets /\ outputBuffer_' \in Seq(Nat \ {0})
        /\ sent' \in Nat /\ ChannelOK' /\ UNCHANGED state_ /\ killed' \in BOOLEAN /\ Parts'
    BY SendInLoopKeeps
  <2> QED
    BY <1>0, <2>1
<1>8. CASE Poll
  <2> USE <1>8 DEF Poll, Loop
  <2>1. state_ # "Connecting"
    OBVIOUS
  <2>2. Parts'
    BY BuffersKept
  <2>3. Reported \subseteq {"in", "out", "hup", "err"}
    BY DEF Reported, ReadyEvents
  <2> QED
    BY <1>0, <2>1, <2>2, <2>3
<1>9. CASE connectEstablished
  <2> USE <1>9 DEF connectEstablished
  <2>1. /\ state_ = "Connecting" /\ queue' \in Seq(Functions) /\ queue' \in Seq(LaterFunctions)
    BY FunctionTaken
  <2>2. ChannelOK' /\ event_' = event_ \cup {"in"}
    BY UpdateChannelOK DEF enableReadEvent
  <2>3. Parts'
    BY <2>1, <2>2 DEF SendBufferHolds, WriteInterest, PartsInOrder
  <2> QED
    BY <1>0, <2>1, <2>2, <2>3 DEF Function, Loop
<1>10. CASE messageSendCallBack
  <2> USE <1>10 DEF messageSendCallBack
  <2>1. /\ state_ # "Connecting" /\ queue' \in Seq(Functions) /\ queue' \in Seq(LaterFunctions)
    BY FunctionTaken
  <2>2. Parts'
    BY BuffersKept
  <2> QED
    BY <1>0, <2>1, <2>2 DEF Function, Loop
<1>11. CASE QueuedShutDown
  <2> USE <1>11 DEF QueuedShutDown
  <2>1. /\ state_ # "Connecting" /\ queue' \in Seq(Functions) /\ queue' \in Seq(LaterFunctions)
    BY FunctionTaken
  <2>2. sock' \in Sockets /\ UNCHANGED outputBuffer_ /\ ChannelOK' /\ Parts'
    BY <2>1, ShutDownInLoopKeeps
  <2> QED
    BY <1>0, <2>1, <2>2 DEF Function, Loop
<1>12. CASE QueuedForceClose
  <2> USE <1>12 DEF QueuedForceClose
  <2>1. /\ state_ # "Connecting" /\ queue' \in Seq(Functions) /\ queue' \in Seq(LaterFunctions)
    BY FunctionTaken
  <2>2. CASE Open
    <3>1. state_' = "Disconnected" /\ UNCHANGED outputBuffer_ /\ ChannelOK' /\ Parts'
      BY <2>1, <2>2, HandleCloseKeeps
    <3> QED
      BY <1>0, <2>1, <3>1 DEF Function, Loop
  <2>3. CASE ~Open
    <3>1. UNCHANGED <<state_, outputBuffer_, event_, channelState, edge>>
      BY <2>3
    <3>2. Parts'
      BY <3>1, BuffersKept
    <3> QED
      BY <1>0, <2>1, <3>1, <3>2 DEF Function, Loop
  <2> QED
    BY <2>2, <2>3
<1>13. CASE \E len \in Lengths : QueuedSend(len)
  <2> PICK len \in Lengths : QueuedSend(len)
    BY <1>13
  <2> USE DEF QueuedSend
  <2>1. /\ state_ # "Connecting" /\ queue' \in Seq(Functions) /\ queue' \in Seq(LaterFunctions)
    BY FunctionTaken
  <2>2. /\ sock' \in Sockets /\ outputBuffer_' \in Seq(Nat \ {0})
        /\ sent' \in Nat /\ ChannelOK' /\ UNCHANGED state_ /\ killed' \in BOOLEAN /\ Parts'
    BY <2>1, SendInLoopKeeps
  <2> QED
    BY SMTT(30), <1>0, <2>1, <2>2 DEF Function, Loop
<1>14. CASE \E op \in WorkerOps : WorkerChecks(op)
  <2> PICK op \in WorkerOps : WorkerChecks(op)
    BY <1>14
  <2> USE DEF WorkerChecks, Worker
  <2>1. state_ # "Connecting"
    BY DEF Open
  <2>2. Parts'
    BY BuffersKept
  <2> QED
    BY <1>0, <2>1, <2>2
<1>15. CASE WorkerSetsState
  <2> USE <1>15 DEF WorkerSetsState, Worker
  <2>1. Parts'
    BY BuffersKept
  <2> QED
    BY <1>0, <2>1
<1>16. CASE \E op \in WorkerOps, len \in 0 .. MaxLen : WorkerQueues(op, len)
  <2> PICK op \in WorkerOps, len \in 0 .. MaxLen : WorkerQueues(op, len)
    BY <1>16
  <2> USE DEF WorkerQueues, Worker
  <2>1. state_ # "Connecting" /\ Parts'
    BY <1>0, BuffersKept
  <2>2. queue' \in Seq(Functions) /\ queue' \in Seq(LaterFunctions)
    <3>1. <<op, len>> \in LaterFunctions
      BY DEF LaterFunctions
    <3> QED
      BY <2>1, <3>1, FunctionQueued DEF queueInLoop
  <2> QED
    BY <1>0, <2>1, <2>2
<1>17. CASE PeerSends
  <2> USE <1>17 DEF PeerSends, Environment
  <2>1. sock' \in Sockets /\ sock'.snd = sock.snd /\ sock'.got = sock.got
    BY <1>0, PeerSendsKeeps
  <2>2. UNCHANGED <<state_, outputBuffer_, event_, channelState, loopVars, queue, workerPc, sent, killed>>
            /\ edge' \in BOOLEAN /\ peer' \in [st : {"open", "half", "closed"}, sent : Nat]
    <3>1. peer.sent + 1 \in Nat /\ peer' = [peer EXCEPT !.sent = peer.sent + 1]
      BY SMTT(30)
    <3> QED
      BY <3>1
  <2>3. Parts'
    BY <2>1, <2>2, BuffersKept
  <2> QED
    BY SMTT(30), <1>0, <2>1, <2>2, <2>3
<1>18. CASE PeerReads
  <2>1. sock' \in Sockets /\ SendBufferHolds' /\ PartsInOrder'
    BY <1>18, PeerReadsKeeps
  <2>2. UNCHANGED <<state_, outputBuffer_, event_, channelState, peer, loopVars, queue, workerPc, sent, killed>>
            /\ edge' \in BOOLEAN
    BY <1>0, <1>18 DEF PeerReads, Environment
  <2>3. Parts'
    BY <2>1, <2>2 DEF WriteInterest, Registered
  <2> QED
    BY <1>0, <2>1, <2>2, <2>3
<1>19. CASE Reset
  <2> USE <1>19 DEF Reset, Environment
  <2>1. sock' \in Sockets /\ sock'.snd = <<>> /\ sock'.got = sock.got
    BY <1>0, EmptySeq
  <2>2. Parts'
    BY <1>0, <2>1, EmptySeq DEF PartsInOrder, Increases, SendBufferHolds, WriteInterest, Registered
  <2> QED
    BY <1>0, <2>1, <2>2
<1>20. CASE PeerCloses("half") \/ PeerCloses("closed")
  <2> PICK st \in {"half", "closed"} : PeerCloses(st)
    BY <1>20 DEF PeerCloses
  <2> USE DEF PeerCloses, Environment
  <2>1. sock' \in Sockets /\ sock'.snd = sock.snd /\ sock'.got = sock.got
    <3>1. sock' = [sock EXCEPT !.fin = TRUE]
      OBVIOUS
    <3> HIDE DEF PeerCloses, Environment
    <3> QED
      BY <1>0, <3>1
  <2>2. Parts'
    BY <2>1, BuffersKept
  <2> QED
    BY <1>0, <2>1, <2>2
<1>21. CASE UNCHANGED vars
  <2>1. Parts'
    BY <1>21, BuffersKept DEF vars
  <2> QED
    BY <1>0, <1>21, <2>1 DEF vars
<1> QED
  BY <1>1, <1>2, <1>3, <1>4, <1>5, <1>6, <1>7, <1>8, <1>9, <1>10, <1>11, <1>12, <1>13, <1>14,
     <1>15, <1>16, <1>17, <1>18, <1>19, <1>20, <1>21
     DEF Next, LoopThread, RunFunction, OtherThread, PeerAndNetwork

(* The types, the order of the stream in its parts, the interest in        *)
(* writing and the phases of the two threads hold in every execution,      *)
(* whatever the other thread calls.                                        *)
THEOREM SpecIInv == Spec => []IInv
<1> QED
  BY InitIInv, NextIInv, PTL DEF Spec

-------------------------------------------------------------------------------
(* What follows for every execution.                                       *)

(* The variables of the connection, its channel, its socket and its two    *)
(* threads have their types, in every execution.                           *)
THEOREM TypeCorrect == Spec => []TypeOK
<1>1. IInv => TypeOK
  BY DEF IInv
<1> QED
  BY SpecIInv, <1>1, PTL

(* The peer gets the units in the order of the sends, and none twice: what *)
(* is in the kernel lies below what is in the buffer, and a send is above  *)
(* both wherever it goes.                                                  *)
THEOREM StreamStaysInOrder == Spec => []StreamInOrder
<1>1. IInv => StreamInOrder
  <2> SUFFICES ASSUME IInv PROVE StreamInOrder
    OBVIOUS
  <2>1. /\ sock.snd \in Seq(Nat \ {0}) /\ outputBuffer_ \in Seq(Nat \ {0})
        /\ sock.got \in Nat /\ sent \in Nat
    BY DEF IInv, TypeOK
  <2>2. Stream \in Seq(Nat \ {0}) /\ Increases(sock.got, Stream, sent)
    BY <2>1, IncreasesConcat DEF IInv, PartsInOrder, Stream
  <2>3. ASSUME NEW i \in 1 .. Len(Stream)
        PROVE  Stream[i] > (IF i = 1 THEN sock.got ELSE Stream[i - 1]) /\ Stream[i] <= sent
    <3>1. Stream[i] > sock.got /\ Stream[i] <= sent
      BY <2>1, <2>2, <2>3 DEF Increases
    <3>2. CASE i # 1
      <4>1. i - 1 \in 1 .. Len(Stream) /\ i - 1 < i
        BY <2>2, <2>3, <3>2
      <4>2. Stream[i - 1] < Stream[i] /\ Stream[i] \in Nat /\ Stream[i - 1] \in Nat
        BY <2>2, <2>3, <4>1 DEF Increases
      <4> QED
        BY <3>1, <3>2, <4>2
    <3> QED
      BY <3>1, <3>2
  <2> QED
    BY <2>3 DEF StreamInOrder
<1> QED
  BY SpecIInv, <1>1, PTL

(* As long as the channel is in epoll it listens for writability exactly   *)
(* when there is something to write.                                       *)
THEOREM WriteInterestHolds == Spec => []WriteInterest
<1>1. IInv => WriteInterest
  BY DEF IInv
<1> QED
  BY SpecIInv, <1>1, PTL

(* The sending direction of a registered connection ends only when all     *)
(* that was accepted has been given to the kernel.                         *)
THEOREM ShutDownLosesNothingHolds == Spec => ShutDownLosesNothing
<1>1. IInv /\ [Next]_vars
          => [sock'.wrShut /\ ~sock.wrShut /\ Registered => outputBuffer_' = <<>>]_vars
  <2> SUFFICES ASSUME IInv, [Next]_vars, sock'.wrShut, ~sock.wrShut, Registered
               PROVE  outputBuffer_' = <<>>
    OBVIOUS
  <2>1. sock \in Sockets /\ state_ # "Connecting"
    BY DEF IInv, TypeOK, Sockets, Established, Registered
  <2>2. CASE UserShutDown \/ QueuedShutDown
    BY <2>1, <2>2, ShutDownInLoopKeeps DEF UserShutDown, QueuedShutDown, User
  <2>3. CASE HandleWrite
    <3>1. ASSUME NEW n, PartWritten(n) PROVE sock'.wrShut = sock.wrShut
      BY <2>1, <3>1, WriteKeepsDirection DEF PartWritten, writeFd
    <3> QED
      BY <2>3, <3>1 DEF HandleWrite, handleWrite, AllWritten
  <2>4. ASSUME NEW len, sendInLoop(len) PROVE sock'.wrShut = sock.wrShut
    BY <2>1, <2>4, WriteKeepsDirection DEF sendInLoop
  <2>5. CASE \E len \in Lengths : UserSend(len) \/ QueuedSend(len)
    BY <2>4, <2>5 DEF UserSend, QueuedSend
  <2>6. CASE HandleRead
    BY <2>1, <2>6 DEF HandleRead, readFd, Sockets
  <2>7. CASE PeerAndNetwork
    BY <2>1, <2>7 DEF PeerAndNetwork, PeerSends, PeerReads, Reset, PeerCloses, Sockets
  <2>8. CASE UNCHANGED sock
    BY <2>8
  <2> QED
    BY <2>2, <2>3, <2>5, <2>6, <2>7, <2>8
       DEF Next, LoopThread, RunFunction, OtherThread, vars, HandleHangUp, UserReturns, UserForceClose,
           Poll, connectEstablished, messageSendCallBack, QueuedForceClose,
           WorkerChecks, WorkerSetsState, WorkerQueues, Worker
<1> QED
  BY SpecIInv, <1>1, PTL DEF Spec, ShutDownLosesNothing

-------------------------------------------------------------------------------
(* When all calls are made by callbacks.                                   *)

(* A send of a callback reaches a connection whose sending direction is    *)
(* still open, and leaves it registered.                                   *)
LEMMA SendInLoopOpen ==
    ASSUME IInv, CallbacksOnly, state_ = "Connected", ~killed,
           NEW len \in Lengths, sendInLoop(len)
    PROVE  /\ ~sock'.wrShut /\ event_ \subseteq event_' /\ channelState' = "CAdded"
           /\ outputBuffer_ # <<>> => outputBuffer_' # <<>>
<1>1. /\ sock \in Sockets /\ ~sock.wrShut /\ channelState = "CAdded" /\ event_ # {}
      /\ outputBuffer_ \in Seq(Nat \ {0})
  BY DEF IInv, TypeOK, Sockets, CallbacksOnly, Open, Registered
<1>2. ~sock'.wrShut
  BY <1>1, WriteKeepsDirection DEF sendInLoop
<1>3. event_ \subseteq event_' /\ channelState' = "CAdded"
  BY <1>1 DEF sendInLoop, enableWriteEvent, updateChannel, channelVars
<1>4. ASSUME outputBuffer_ # <<>> PROVE outputBuffer_' # <<>>
  <2>1. Message(len) \in Seq(Nat \ {0}) /\ Len(Message(len)) = len
    BY MessageIncreases DEF IInv, TypeOK, Lengths, PartsInOrder
  <2>2. outputBuffer_' = outputBuffer_ \/ outputBuffer_' = outputBuffer_ \o Message(len)
    BY <1>4 DEF sendInLoop, Direct
  <2>3. len \in Nat /\ len > 0 /\ Len(outputBuffer_) \in Nat
    BY <1>1 DEF Lengths
  <2>4. Len(outputBuffer_ \o Message(len)) = Len(outputBuffer_) + len
    BY <1>1, <2>1, ConcatProperties
  <2>5. Len(<<>>) = 0
    OBVIOUS
  <2>6. outputBuffer_ \o Message(len) # <<>>
    BY <2>3, <2>5, <2>4
  <2> QED
    BY <1>4, <2>2, <2>6
<1> QED
  BY <1>2, <1>3, <1>4

(* handleClose takes the channel out of epoll for good.                    *)
LEMMA HandleCloseForGood ==
    ASSUME IInv, state_ # "Connecting", handleClose
    PROVE  channelState' = "CDeleted" /\ event_' = {}
  BY DEF handleClose, disableAll, updateChannel, IInv, Established, TypeOK

(* What holds without another thread holds at first.                       *)
LEMMA InitCallbacksOnly == Init => CallbacksOnly
  BY DEF Init, NewChannel, CallbacksOnly, CallbackFunctions, Open, Registered, ClosedForGood,
         NoWriteAfterShutdown

(* And every step preserves it if no other thread calls.                   *)
LEMMA NextCallbacksOnly ==
    ASSUME WorkerOps = {}
    PROVE  IInv /\ CallbacksOnly /\ [Next]_vars => CallbacksOnly'
<1> SUFFICES ASSUME IInv, CallbacksOnly, [Next]_vars PROVE CallbacksOnly'
  OBVIOUS
<1>0. /\ sock \in Sockets /\ event_ \subseteq {"in", "out"} /\ outputBuffer_ \in Seq(Nat \ {0})
      /\ queue \in Seq(CallbackFunctions) /\ workerPc = "idle"
      /\ Registered => ("out" \in event_ <=> outputBuffer_ # <<>>)
      /\ pc # "idle" \/ calls # -1 => state_ # "Connecting"
  BY DEF IInv, TypeOK, CallbacksOnly, CallbackFunctions, Sockets, WriteInterest, Established
<1> USE DEF CallbacksOnly, CallbackFunctions, Open, Registered, ClosedForGood, NoWriteAfterShutdown,
        connVars, channelVars, loopVars
<1>1. CASE HandleHangUp
  BY <1>0, <1>1, HandleCloseForGood DEF HandleHangUp, Loop, handleClose
<1>2. CASE HandleRead
  BY <1>0, <1>2, HandleCloseForGood DEF HandleRead, Loop, handleClose, readFd, Sockets
<1>3. CASE HandleWrite
  <2>1. CASE "out" \in activeEvent_ /\ AllWritten
    <3>1. /\ outputBuffer_' = <<>> /\ event_' = event_ \ {"out"}
          /\ sock'.wrShut = (sock.wrShut \/ state_ = "Disconnecting")
      BY <1>0, <2>1 DEF AllWritten, disableWriteEvent, updateChannel, Sockets
    <3>2. /\ channelState = "CAdded" /\ event_' # {} => channelState' = "CAdded"
          /\ channelState = "CDeleted" /\ event_' = {} => channelState' = "CDeleted"
          /\ state_ # "Connecting" => channelState \in {"CAdded", "CDeleted"}
      BY <2>1 DEF AllWritten, disableWriteEvent, updateChannel, IInv, TypeOK, Established
    <3>3. queue' \in Seq(CallbackFunctions)
      BY <1>0, <2>1, AppendProperties DEF AllWritten
    <3>4. /\ UNCHANGED <<state_, workerPc, killed>> /\ pc' = "idle" /\ ~killed
          /\ state_ # "Connecting"
      BY <1>0, <1>3, <2>1 DEF HandleWrite, Loop, AllWritten
    <3> QED
      BY <1>0, <3>1, <3>2, <3>3, <3>4
  <2>2. CASE "out" \in activeEvent_ /\ ~AllWritten
    <3>1. PICK n : PartWritten(n)
      BY <1>3, <2>2 DEF HandleWrite, handleWrite
    <3>2. ~sock.wrShut
      BY <1>3, <2>2 DEF HandleWrite, Loop
    <3>3. ~sock'.wrShut /\ UNCHANGED <<event_, channelState, queue>>
      BY <1>0, <3>1, <3>2, WriteKeepsDirection DEF PartWritten, writeFd
    <3> QED
      BY <1>0, <1>3, <3>3 DEF HandleWrite, Loop
  <2>3. CASE "out" \notin activeEvent_
    BY <1>0, <1>3, <2>3 DEF HandleWrite, Loop
  <2> QED
    BY <2>1, <2>2, <2>3
<1>4. CASE UserReturns
  BY <1>0, <1>4 DEF UserReturns
<1>5. CASE UserShutDown
  <2>1. /\ sock'.wrShut => outputBuffer_' = <<>>
        /\ UNCHANGED <<outputBuffer_, event_, channelState>>
    BY <1>0, <1>5 DEF UserShutDown, shutDownInLoop, shutdownWrite, Sockets
  <2> QED
    BY <1>0, <1>5, <2>1 DEF UserShutDown, User
<1>6. CASE UserForceClose
  BY <1>0, <1>6, HandleCloseForGood DEF UserForceClose, User, handleClose
<1>7. CASE \E len \in Lengths : UserSend(len)
  <2> PICK len \in Lengths : UserSend(len)
    BY <1>7
  <2> USE DEF UserSend, User
  <2>1. /\ ~sock'.wrShut /\ event_ \subseteq event_' /\ channelState' = "CAdded"
        /\ outputBuffer_ # <<>> => outputBuffer_' # <<>>
    BY SendInLoopOpen
  <2>2. UNCHANGED state_
    BY DEF sendInLoop
  <2> QED
    BY <1>0, <2>1, <2>2
<1>8. CASE Poll
  BY <1>0, <1>8 DEF Poll, Loop, Reported
<1>9. CASE connectEstablished
  <2>1. state_ = "Connecting"
    BY <1>9, FunctionTaken DEF connectEstablished
  <2>2. channelState = "CNew" /\ event_ = {}
    BY <2>1 DEF IInv, Established
  <2>3. queue' \in Seq(CallbackFunctions)
    BY <1>0, <1>9, HeadTailProperties DEF connectEstablished, Function
  <2> QED
    BY <1>0, <1>9, <2>1, <2>2, <2>3
       DEF connectEstablished, Function, Loop, enableReadEvent, updateChannel
<1>10. CASE messageSendCallBack
  <2>1. queue' \in Seq(CallbackFunctions)
    BY <1>0, <1>10, HeadTailProperties DEF messageSendCallBack, Function
  <2> QED
    BY <1>0, <1>10, <2>1 DEF messageSendCallBack, Function, Loop
<1>11. CASE QueuedShutDown \/ QueuedForceClose \/ \E len \in Lengths : QueuedSend(len)
  <2>1. queue # <<>> /\ Head(queue)[1] \in {"shutDown", "forceClose", "send"}
    BY <1>11 DEF QueuedShutDown, QueuedForceClose, QueuedSend, Function
  <2>2. Head(queue) \in CallbackFunctions
    BY <1>0, <2>1, HeadTailProperties
  <2> QED
    BY <2>1, <2>2
<1>12. CASE OtherThread
  BY <1>0, <1>12 DEF OtherThread, WorkerSetsState, Worker
<1>13. CASE PeerAndNetwork
  <2>1. sock'.wrShut = sock.wrShut
    BY <1>0, <1>13 DEF PeerAndNetwork, PeerSends, PeerReads, Reset, PeerCloses, Sockets
  <2> QED
    BY <1>0, <1>13, <2>1 DEF PeerAndNetwork, PeerSends, PeerReads, Reset, PeerCloses, Environment
<1>14. CASE UNCHANGED vars
  BY <1>0, <1>14 DEF vars
<1> QED
  BY <1>1, <1>2, <1>3, <1>4, <1>5, <1>6, <1>7, <1>8, <1>9, <1>10, <1>11, <1>12, <1>13, <1>14
     DEF Next, LoopThread, RunFunction

(* So it holds in every execution.                                         *)
LEMMA SpecCallbacksOnly == ASSUME WorkerOps = {} PROVE Spec => []CallbacksOnly
<1>1. IInv /\ CallbacksOnly /\ [Next]_vars => CallbacksOnly'
  BY NextCallbacksOnly
<1> QED
  BY <1>1, SpecIInv, InitCallbacksOnly, PTL DEF Spec

(* Without calls from another thread a closed connection is never listened *)
(* to again.                                                               *)
THEOREM ClosedStaysClosed == ASSUME WorkerOps = {} PROVE Spec => []ClosedForGood
<1>1. CallbacksOnly => ClosedForGood
  BY DEF CallbacksOnly
<1> QED
  BY <1>1, SpecCallbacksOnly, PTL

(* Nor is anything written once the loop has ended the sending direction:  *)
(* handleWrite runs only with output, and output keeps the direction open. *)
THEOREM NothingWrittenAfterShutdown ==
    ASSUME WorkerOps = {} PROVE Spec => []NoWriteAfterShutdown
<1>1. CallbacksOnly => NoWriteAfterShutdown
  BY DEF CallbacksOnly
<1> QED
  BY <1>1, SpecCallbacksOnly, PTL

-------------------------------------------------------------------------------
(* The connection implements the byte stream.                              *)

(* The head of the first of two sequences is the head of both together.    *)
LEMMA ConcatHeadTail ==
    ASSUME NEW S, NEW s \in Seq(S), NEW t \in Seq(S), s # <<>>
    PROVE  /\ s \o t # <<>>
           /\ Head(s \o t) = Head(s)
           /\ Tail(s \o t) = Tail(s) \o t
  OBVIOUS

(* A sequence cut in two, put behind another one part after the other.     *)
LEMMA ConcatParts ==
    ASSUME NEW S, NEW s \in Seq(S), NEW t \in Seq(S), NEW n \in 0 .. Len(t)
    PROVE  (s \o SubSeq(t, 1, n)) \o SubSeq(t, n + 1, Len(t)) = s \o t
<1> DEFINE first == SubSeq(t, 1, n)
           last == SubSeq(t, n + 1, Len(t))
<1>1. /\ 1 \in 1 .. Len(t) + 1 /\ n \in 1 - 1 .. Len(t) /\ Len(t) \in n .. Len(t)
      /\ \A i \in 1 .. n : t[i] \in S
      /\ \A i \in n + 1 .. Len(t) : t[i] \in S
  OBVIOUS
<1>2. first \in Seq(S) /\ last \in Seq(S)
  BY <1>1, SubSeqProperties
<1>3. first \o last = t
  BY <1>1, ConcatAdjacentSubSeq, SubSeqFull
<1> HIDE DEF first, last
<1>4. (s \o first) \o last = s \o (first \o last)
  BY SMTT(30), <1>2, ConcatAssociative
<1> QED
  BY <1>3, <1>4 DEF first, last

(* The beginning of a sequence behind which another one has been put.      *)
LEMMA ConcatBeginning ==
    ASSUME NEW S, NEW s \in Seq(S), NEW t \in Seq(S)
    PROVE  SubSeq(s \o t, 1, Len(s)) = s
<1>1. CASE Len(s) = 0
  BY <1>1, SubSeqEmpty, EmptySeq
<1>2. CASE Len(s) # 0
  <2>1. 1 \in 1 .. Len(s) /\ Len(s) \in 1 .. Len(s)
    BY <1>2
  <2> QED
    BY <2>1, SubSeqOfConcat1, SubSeqFull
<1> QED
  BY <1>1, <1>2

(* A step that leaves the socket's and the buffer's data alone.            *)
LEMMA StreamKept ==
    ASSUME UNCHANGED <<outputBuffer_, sent>>,
           sock'.snd = sock.snd, sock'.got = sock.got,
           sock'.dead = sock.dead, sock'.wrShut = sock.wrShut
    PROVE  UNCHANGED Bytes!streamVars
  BY DEF Bytes!streamVars, Underway, Broken, Stream

(* A connection in its first state is a stream that nothing was sent on.   *)
LEMMA InitRefines == Init => Bytes!Init
  BY DEF Init, NewChannel, Bytes!Init, Underway, Broken, Stream, Registered

(* sendInLoop takes the message as a whole, wherever the parts of it go,   *)
(* or drops it as a whole, and only if write could not take any of it.     *)
LEMMA SendInLoopRefines ==
    ASSUME IInv, NEW len \in Lengths, sendInLoop(len)
    PROVE  Bytes!Send(len)
<1> DEFINE msg == Message(len)
           n == Written(msg)
           first == SubSeq(msg, 1, n)
           last == SubSeq(msg, n + 1, len)
<1>1. /\ sock \in Sockets /\ sent \in Nat /\ outputBuffer_ \in Seq(Nat \ {0})
      /\ sock.snd \in Seq(Nat \ {0}) /\ Len(sock.snd) \in Nat /\ len \in Nat \ {0}
      /\ SendBufferHolds /\ sock.got \in Nat /\ sock.got <= sent
  BY DEF Sockets, IInv, TypeOK, Lengths, PartsInOrder
<1>2. msg \in Seq(Nat \ {0}) /\ Len(msg) = len /\ msg # <<>>
  BY <1>1, MessageIncreases, EmptySeq
<1>3. n \in 0 .. len /\ msg = Bytes!Units(len)
  BY <1>1, <1>2, WrittenFits DEF Message, Bytes!Units
<1>4. n = 0 /\ ~Broken => Len(sock.snd) >= SendBuffer
  BY <1>1, <1>2 DEF Written
<1>5. Broken <=> sock.wrShut \/ sock.dead
  BY DEF Broken
<1> HIDE DEF msg, n
<1>6. sent' = sent + len
  BY DEF sendInLoop
<1>7. CASE Direct
  <2>1. write(msg) /\ outputBuffer_ = <<>>
    BY <1>7 DEF sendInLoop, Direct, msg
  <2>2. /\ sock'.got = sock.got /\ sock'.wrShut = sock.wrShut /\ sock'.dead = sock.dead
        /\ sock'.snd = IF Broken THEN sock.snd ELSE sock.snd \o first
        /\ first \in Seq(Nat \ {0})
    <3>1. sock'.dead = sock.dead
      BY <1>1, <2>1 DEF write, Sockets
    <3> QED
      BY <1>1, <1>2, <2>1, <3>1, WriteAppends DEF n
  <2>3. Broken' = Broken
    BY <2>2 DEF Broken
  <2>4. CASE Broken
    <3>1. UNCHANGED Underway
      BY <2>2, <2>3, <2>4 DEF Underway
    <3> QED
      BY <1>5, <1>6, <2>2, <2>4, <3>1 DEF Bytes!Send, Bytes!Refused
  <2>5. CASE ~Broken /\ n = 0
    <3>1. outputBuffer_' = <<>>
      BY <1>7, <2>1, <2>5 DEF sendInLoop, n, msg
    <3>2. first = <<>> /\ sock.snd \o <<>> = sock.snd
      BY <1>1, <2>5, SubSeqEmpty, ConcatEmptySeq
    <3>3. Underway = sock.snd /\ Underway' = sock.snd
      BY <2>1, <2>2, <2>3, <2>5, <3>1, <3>2 DEF Underway, Stream
    <3> QED
      BY <1>4, <1>6, <2>2, <2>5, <3>3 DEF Bytes!Send, Bytes!Refused
  <2>6. CASE ~Broken /\ n # 0
    <3>1. last \in Seq(Nat \ {0})
      <4>1. \A i \in n + 1 .. len : msg[i] \in Nat \ {0}
        BY <1>2, <1>3
      <4> QED
        BY <1>1, <1>3, <4>1, SubSeqProperties
    <3>2. outputBuffer_' = last
      <4>1. CASE last = <<>>
        BY <1>7, <2>1, <2>6, <4>1 DEF sendInLoop, n, msg
      <4>2. CASE last # <<>>
        <5>1. outputBuffer_' = outputBuffer_ \o last
          BY <1>7, <2>6, <4>2 DEF sendInLoop, n, msg
        <5> HIDE DEF last
        <5> QED
          BY <2>1, <3>1, <5>1, ConcatEmptySeq
      <4> QED
        BY <4>1, <4>2
    <3>3. (sock.snd \o first) \o last = sock.snd \o msg
      BY <1>1, <1>2, <1>3, ConcatParts
    <3>4. Underway = sock.snd
      BY <1>1, <2>1, <2>6, ConcatEmptySeq DEF Underway, Stream
    <3>5. Underway' = (sock.snd \o first) \o last
      BY <2>2, <2>3, <2>6, <3>2 DEF Underway, Stream
    <3>6. Underway' = Underway \o Bytes!Units(len)
      BY <1>3, <3>3, <3>4, <3>5
    <3> QED
      BY <1>5, <1>6, <2>2, <2>6, <3>6 DEF Bytes!Send
  <2> QED
    BY <2>4, <2>5, <2>6
<1>8. CASE ~Direct
  <2>1. outputBuffer_' = outputBuffer_ \o msg /\ UNCHANGED sock
    BY <1>2, <1>8 DEF sendInLoop, msg
  <2>2. Broken' = Broken
    BY <2>1 DEF Broken
  <2>3. CASE Broken
    <3>1. UNCHANGED Underway
      BY <2>1, <2>2, <2>3 DEF Underway
    <3> QED
      BY <1>5, <1>6, <2>1, <2>3, <3>1 DEF Bytes!Send, Bytes!Refused
  <2>4. CASE ~Broken
    <3>1. (sock.snd \o outputBuffer_) \o msg = sock.snd \o (outputBuffer_ \o msg)
      <4> DEFINE snd == sock.snd
      <4>1. /\ snd \in Seq(Nat \ {0}) /\ outputBuffer_ \in Seq(Nat \ {0})
            /\ msg \in Seq(Nat \ {0})
        BY <1>1, <1>2
      <4> HIDE DEF snd
      <4>2. (snd \o outputBuffer_) \o msg = snd \o (outputBuffer_ \o msg)
        BY SMTT(30), <4>1, ConcatAssociative
      <4> QED
        BY <4>2 DEF snd
    <3>2. Underway' = Underway \o Bytes!Units(len)
      BY <1>3, <2>1, <2>2, <2>4, <3>1 DEF Underway, Stream
    <3> QED
      BY <1>5, <1>6, <2>1, <2>4, <3>2 DEF Bytes!Send
  <2> QED
    BY <2>3, <2>4
<1> QED
  BY <1>7, <1>8

(* handleWrite moves units from the buffer to the kernel, which makes no   *)
(* difference to the stream; it may end it when all has been moved.        *)
LEMMA HandleWriteRefines ==
    ASSUME IInv, handleWrite, UNCHANGED sent, state_ # "Connecting", UNCHANGED state_
    PROVE  Bytes!End \/ UNCHANGED Bytes!streamVars
<1> DEFINE n == Written(outputBuffer_)
           first == SubSeq(outputBuffer_, 1, n)
           last == SubSeq(outputBuffer_, n + 1, Len(outputBuffer_))
<1>1. /\ sock \in Sockets /\ outputBuffer_ \in Seq(Nat \ {0}) /\ SendBufferHolds
      /\ sock.snd \in Seq(Nat \ {0}) /\ Len(outputBuffer_) \in Nat
  BY DEF Sockets, IInv, TypeOK
<1>2. n \in 0 .. Len(outputBuffer_) /\ (Broken => n = 0)
  BY <1>1, WrittenFits
<1>3. CASE n > 0 /\ n = Len(outputBuffer_)
  <2>1. AllWritten /\ ~Broken
    BY <1>2, <1>3 DEF handleWrite
  <2>2. /\ sock'.snd = sock.snd \o outputBuffer_ /\ sock'.got = sock.got
        /\ sock'.dead = sock.dead /\ sock'.wrShut = (sock.wrShut \/ state_ = "Disconnecting")
        /\ outputBuffer_' = <<>>
    BY <1>1, <2>1 DEF AllWritten, Sockets
  <2>3. /\ sock.snd \o outputBuffer_ \in Seq(Nat \ {0})
        /\ Len(sock.snd \o outputBuffer_) \in 0 .. SendBuffer
    <3>1. sock.snd \o outputBuffer_ \in Seq(Nat \ {0})
      BY <1>1, ConcatProperties
    <3>2. SendBufferHolds'
      BY HandleWriteKeeps
    <3> QED
      BY <2>2, <3>1, <3>2 DEF SendBufferHolds
  <2>4. Underway = sock.snd \o outputBuffer_ /\ Underway' = Underway
    <3>1. (sock.snd \o outputBuffer_) \o <<>> = sock.snd \o outputBuffer_
      BY <2>3, ConcatEmptySeq
    <3> QED
      BY <2>1, <2>2, <3>1 DEF Underway, Stream
  <2>5. CASE state_ = "Disconnecting"
    <3>1. SubSeq(Underway, 1, Len(Underway)) = Underway
      BY <2>3, <2>4, SubSeqFull
    <3>2. /\ ~sock.wrShut /\ ~sock.dead /\ sock'.wrShut = TRUE
      BY <2>1, <2>2, <2>5 DEF Broken
    <3>3. \E k \in 0 .. Len(Underway) :
              /\ k <= SendBuffer /\ (Registered => k = Len(Underway))
              /\ Underway' = SubSeq(Underway, 1, k)
      BY <2>3, <2>4, <3>1
    <3> QED
      BY <2>2, <3>2, <3>3 DEF Bytes!End
  <2>6. CASE state_ # "Disconnecting"
    BY <1>1, <2>2, <2>4, <2>6 DEF Bytes!streamVars, Sockets
  <2> QED
    BY <2>5, <2>6
<1>4. CASE ~(n > 0 /\ n = Len(outputBuffer_))
  <2>1. write(outputBuffer_) /\ outputBuffer_' = last
    BY <1>4 DEF handleWrite, PartWritten, writeFd
  <2>2. /\ sock'.got = sock.got /\ sock'.wrShut = sock.wrShut /\ sock'.dead = sock.dead
        /\ sock'.snd = IF Broken THEN sock.snd ELSE sock.snd \o first
    <3>1. sock'.dead = sock.dead
      BY <1>1, <2>1 DEF write, Sockets
    <3> QED
      BY <1>1, <2>1, <3>1, WriteAppends
  <2>3. (sock.snd \o first) \o last = sock.snd \o outputBuffer_
    BY <1>1, <1>2, ConcatParts
  <2> HIDE DEF n, first, last
  <2>4. UNCHANGED Underway
    BY <2>1, <2>2, <2>3 DEF Underway, Broken, Stream
  <2> QED
    BY <2>2, <2>4 DEF Bytes!streamVars
<1> QED
  BY <1>3, <1>4

(* shutDownInLoop ends the stream, where it does anything; while the       *)
(* connection is registered there is nothing left in the buffer then.      *)
LEMMA ShutDownInLoopRefines ==
    ASSUME IInv, shutDownInLoop, UNCHANGED sent
    PROVE  Bytes!End \/ UNCHANGED Bytes!streamVars
<1>1. /\ sock \in Sockets /\ outputBuffer_ \in Seq(Nat \ {0})
      /\ sock.snd \in Seq(Nat \ {0}) /\ Len(sock.snd) \in Nat /\ Len(sock.snd) <= SendBuffer
      /\ UNCHANGED outputBuffer_
  BY DEF Sockets, IInv, TypeOK, SendBufferHolds, shutDownInLoop
<1>2. CASE "out" \in event_
  BY <1>1, <1>2, StreamKept DEF shutDownInLoop
<1>3. CASE "out" \notin event_
  <2>1. /\ sock'.snd = sock.snd /\ sock'.got = sock.got /\ sock'.dead = sock.dead
        /\ sock'.wrShut = (sock.wrShut \/ ~sock.dead)
    BY <1>1, <1>3 DEF shutDownInLoop, shutdownWrite, Sockets
  <2>2. CASE Broken
    <3>1. sock'.wrShut = sock.wrShut
      BY <1>1, <2>1, <2>2 DEF Broken, Sockets
    <3> QED
      BY <1>1, <2>1, <3>1, StreamKept
  <2>3. CASE ~Broken
    <3>1. Underway = sock.snd \o outputBuffer_ /\ Underway' = sock.snd
      BY <2>1, <2>3 DEF Underway, Broken, Stream
    <3>2. /\ Len(sock.snd) \in 0 .. Len(Underway)
          /\ Underway' = SubSeq(Underway, 1, Len(sock.snd))
      BY <1>1, <3>1, ConcatBeginning, ConcatProperties
    <3>3. Registered => Len(sock.snd) = Len(Underway)
      BY <1>1, <1>3, <3>1, ConcatEmptySeq DEF IInv, WriteInterest
    <3> QED
      BY <1>1, <2>1, <2>3, <3>2, <3>3 DEF Bytes!End, Broken
  <2> QED
    BY <2>2, <2>3
<1> QED
  BY <1>2, <1>3

(* The peer reads from the kernel, which holds the head of the stream.     *)
LEMMA PeerReadsRefines == ASSUME IInv, PeerReads PROVE Bytes!Read
<1>1. /\ sock \in Sockets /\ outputBuffer_ \in Seq(Nat \ {0})
      /\ sock.snd \in Seq(Nat \ {0}) /\ sock.snd # <<>>
      /\ UNCHANGED <<outputBuffer_, sent>>
  BY DEF Sockets, IInv, TypeOK, PeerReads, Environment, connVars
<1>2. /\ sock'.snd = Tail(sock.snd) /\ sock'.got = Head(sock.snd)
      /\ sock'.dead = sock.dead /\ sock'.wrShut = sock.wrShut
  BY <1>1 DEF PeerReads, Sockets
<1>3. /\ sock.snd \o outputBuffer_ # <<>>
      /\ Head(sock.snd \o outputBuffer_) = Head(sock.snd)
      /\ Tail(sock.snd \o outputBuffer_) = Tail(sock.snd) \o outputBuffer_
  BY <1>1, ConcatHeadTail
<1>4. Underway # <<>> /\ sock'.got = Head(Underway) /\ Underway' = Tail(Underway)
  BY <1>1, <1>2, <1>3 DEF Underway, Broken, Stream
<1> QED
  BY <1>1, <1>2, <1>4 DEF Bytes!Read

(* A reset drops what the kernel has, and nothing follows it.              *)
LEMMA ResetRefines == ASSUME IInv, Reset PROVE Bytes!Break
<1>1. /\ sock'.snd = <<>> /\ sock'.got = sock.got /\ sock'.dead = TRUE
      /\ sock'.wrShut = sock.wrShut /\ ~sock.dead /\ UNCHANGED sent
  BY DEF Sockets, IInv, TypeOK, Reset, Environment
<1> QED
  BY <1>1 DEF Bytes!Break, Underway, Broken

(* Each step of the connection is one step of the stream or leaves its     *)
(* variables alone.                                                        *)
LEMMA NextRefines == IInv /\ [Next]_vars => [Bytes!Next]_<<Bytes!streamVars, Registered>>
<1> SUFFICES ASSUME IInv, [Next]_vars PROVE Bytes!Next
  OBVIOUS
<1>1. Registered' \in BOOLEAN
  BY DEF Registered
<1> SUFFICES \/ \E len \in Lengths : Bytes!Send(len)
             \/ Bytes!Read \/ Bytes!End \/ Bytes!Break
             \/ UNCHANGED Bytes!streamVars
  BY <1>1 DEF Bytes!Next
<1>2. sock \in Sockets /\ (pc # "idle" \/ calls # -1 => state_ # "Connecting")
  BY DEF IInv, TypeOK, Sockets, Established
<1>3. CASE HandleWrite
  <2>1. CASE "out" \in activeEvent_
    BY <1>2, <1>3, <2>1, HandleWriteRefines DEF HandleWrite, Loop
  <2>2. CASE "out" \notin activeEvent_
    BY <1>3, <2>2, StreamKept DEF HandleWrite
  <2> QED
    BY <2>1, <2>2
<1>4. CASE UserShutDown \/ QueuedShutDown
  BY <1>4, ShutDownInLoopRefines DEF UserShutDown, QueuedShutDown
<1>5. CASE \E len \in Lengths : UserSend(len) \/ QueuedSend(len)
  BY <1>5, SendInLoopRefines DEF UserSend, QueuedSend
<1>6. CASE PeerReads
  BY <1>6, PeerReadsRefines
<1>7. CASE Reset
  BY <1>7, ResetRefines
<1>8. CASE PeerSends \/ PeerCloses("half") \/ PeerCloses("closed")
  <2>1. /\ sock'.snd = sock.snd /\ sock'.got = sock.got
        /\ sock'.dead = sock.dead /\ sock'.wrShut = sock.wrShut
    BY <1>2, <1>8 DEF PeerSends, PeerCloses, Sockets
  <2> QED
    BY <1>8, <2>1, StreamKept DEF PeerSends, PeerCloses, Environment, connVars
<1>9. CASE HandleRead
  <2>1. /\ sock'.snd = sock.snd /\ sock'.got = sock.got
        /\ sock'.dead = sock.dead /\ sock'.wrShut = sock.wrShut
    BY <1>2, <1>9 DEF HandleRead, readFd, Sockets
  <2> QED
    BY <1>9, <2>1, StreamKept DEF HandleRead, handleClose, connVars
<1>10. CASE \/ HandleHangUp \/ UserReturns \/ UserForceClose \/ Poll
            \/ connectEstablished \/ messageSendCallBack \/ QueuedForceClose
  <2>1. UNCHANGED <<sock, outputBuffer_, sent>>
    BY <1>10 DEF HandleHangUp, UserReturns, UserForceClose, User, Poll, connectEstablished,
         messageSendCallBack, QueuedForceClose, handleClose, connVars
  <2> QED
    BY <2>1, StreamKept
<1>11. CASE OtherThread
  <2>1. UNCHANGED <<sock, outputBuffer_, sent>>
    BY <1>11 DEF OtherThread, WorkerChecks, WorkerSetsState, WorkerQueues, Worker
  <2> QED
    BY <2>1, StreamKept
<1>12. CASE UNCHANGED vars
  BY <1>12, StreamKept DEF vars, connVars
<1> QED
  BY <1>3, <1>4, <1>5, <1>6, <1>7, <1>8, <1>9, <1>10, <1>11, <1>12
     DEF Next, LoopThread, RunFunction, PeerAndNetwork

(* Messages reach the peer whole, in the order of the sends and once; what *)
(* is dropped or lost is only what ByteStream allows: the connection       *)
(* implements it, for every size of the send buffer, every message and     *)
(* whatever the other thread calls.                                        *)
THEOREM ImplementsByteStream == Spec => ByteStreamSpec
<1>1. Init /\ [][Next]_vars /\ []IInv
          => Bytes!Init /\ [][Bytes!Next]_<<Bytes!streamVars, Registered>>
  BY InitRefines, NextRefines, PTL
<1> QED
  BY <1>1, SpecIInv, PTL DEF Spec, ByteStreamSpec, Bytes!Spec
===============================================================================
