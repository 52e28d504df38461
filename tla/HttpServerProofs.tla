---------------------------- MODULE HttpServerProofs ----------------------------
(***************************************************************************)
(* For any requests, any sizes of the buffer and of the array on the stack *)
(* and any cut of the stream: the input buffer is the stream, and what the *)
(* server makes of the first request and of those after it.                *)
(***************************************************************************)
EXTENDS HttpServer, SequenceTheorems, FiniteSetTheorems, WellFoundedInduction, TLAPS

(* What a stream, a buffer and an answer are made of.                      *)
Words == {"HTTP/1.0", "HTTP/1.1", "GET", "POST", "PUT", "DELETE", "HEAD", "OPTIONS",
          "Connection", "close", "Keep-Alive", "200", "400", "OK", "Bad", "Request"}
Separators == {"NUL", " ", ":", "?", "/", "CR", "LF"}
Cell == Words \cup Separators \cup UNION {ToSet(q) : q \in Queries}

(* Everything a message is made of is a cell.                              *)
LEMMA CellsAre ==
    Words \subseteq Cell /\ Separators \subseteq Cell /\ Methods \subseteq Cell /\ Headers \subseteq Cell
    /\ Queries \subseteq Seq(Cell) /\ Versions \subseteq Cell /\ "NUL" \in Cell
<1>1. ASSUME NEW q \in Queries PROVE q \in Seq(Cell)
  <2>1. q \in Seq(ToSet(q)) /\ ToSet(q) \subseteq Cell
    BY ConstantsOK DEF Cell
  <2> QED
    BY <2>1
<1>2. Methods \subseteq Words /\ Headers \subseteq Words /\ Versions \subseteq Words
  BY ConstantsOK DEF Words, Versions
<1>3. "NUL" \in Separators
  BY DEF Separators
<1> QED
  BY <1>1, <1>2, <1>3 DEF Cell

(* The input buffer.                                                       *)

BufferOK(b) ==
    /\ b \in [buffer_ : Seq(Cell), writeIndex_ : Nat, readIndex_ : Nat]
    /\ b.writeIndex_ <= Len(b.buffer_)

(* Buffer b holds what stream s has from p to t.  The parser may be ahead  *)
(* of what has come; then there is nothing to hold.                        *)
Holds(b, s, p, t) ==
    /\ b.writeIndex_ - b.readIndex_ = t - p
    /\ \A i \in 1 .. Len(b.buffer_) :
           b.readIndex_ < i /\ i <= b.writeIndex_ => b.buffer_[i] = s[i - b.writeIndex_ + t]

InputOK ==
    /\ BufferOK(inputBuffer_) /\ Holds(inputBuffer_, stream, passed, taken)
    /\ taken \in Nat /\ arrived \in Nat /\ taken <= arrived /\ arrived <= Len(stream)
    /\ passed \in Nat /\ passed <= taken + 2
    /\ request.state_ # "ExpectHeaders" => passed <= taken
    /\ pc = "read" => iovec = Iovec(inputBuffer_)
    /\ iovec.base \in Nat /\ iovec.room \in Nat

SentOK ==
    /\ asked \in Requests /\ stream \in Seq(Cell)
    /\ stream = Request(asked) \o Repeated(Request(Simple), MaxRequests - 1)

IsRequest(r) ==
    r = [state_ |-> r.state_, method_ |-> r.method_, path_ |-> r.path_, query_ |-> r.query_,
         version_ |-> r.version_, connection |-> r.connection]

ParserOK ==
    /\ pc \in {"idle", "read", "reread", "parse", "answer", "garbled"} /\ succeed \in BOOLEAN
    /\ first \in {"none", "cut", "whole"}
    /\ IsRequest(request) /\ request.state_ \in {"ExpectRequestLine", "ExpectHeaders", "GotAll"}

(* An answer that does not keep the connection is the last one, and        *)
(* nothing but such an answer ends it.                                     *)
AnswersIn(c) ==
    LET n == Len(c.sent)
    IN  /\ c \in [state_ : {"Connected", "Disconnecting"}, sent : Seq(Seq(Cell))]
        /\ \A i \in 1 .. n - 1 : Kept(c.sent[i])
        /\ c.state_ = "Connected" /\ n > 0 => Kept(c.sent[n])
        /\ c.state_ = "Disconnecting" => n > 0 /\ ~Kept(c.sent[n])

AnswersOK == AnswersIn(conn)

-------------------------------------------------------------------------------
(* What happens to the first request and after it.                         *)

AfterLine == Len(RequestLine(asked)) + 2
AfterHeader == AfterLine + Len(Header(asked.connection))
Whole == taken >= AfterHeader + 2

(* The first request is going to be answered, or has been.                 *)
Good == first = "whole" /\ asked.method_ # "OPTIONS"

GoodOnes(c) == {i \in 1 .. Len(c.sent) : IsGood(c.sent[i])}

Counted == Cardinality(GoodOnes(conn)) = IF Good THEN 1 ELSE 0

Connected == conn.state_ = "Connected" /\ Counted /\ first # "none"
Silent == conn.state_ = "Connected" /\ conn.sent = <<>>

(* Nothing has been parsed.                                                *)
Fresh ==
    /\ Silent /\ request = NewRequest /\ passed = 0
    /\ \/ first = "none" /\ pc \in {"idle", "read", "reread"}
       \/ pc = "parse" /\ ~succeed /\ first # "none" /\ (first = "whole" <=> Whole)

(* A request by its six fields.                                            *)
RequestOf(state, method, path, query, version, connection) ==
    [state_ |-> state, method_ |-> method, path_ |-> path, query_ |-> query,
     version_ |-> version, connection |-> connection]

(* The first request but for the header.                                   *)
HalfParsed(connection) ==
    RequestOf("ExpectHeaders", asked.method_, <<"/">>, asked.query_, asked.version_, connection)

(* The first call of parseMessage is behind the request line, or the       *)
(* header, unless it is behind everything.                                 *)
InHeaders ==
    /\ Silent /\ pc = "parse" /\ succeed /\ request.state_ = "ExpectHeaders" /\ first # "none"
    /\ \/ first = "cut" /\ passed > taken
       \/ /\ first = "whole" <=> Whole
          /\ asked.method_ # "OPTIONS"
          /\ \/ passed = AfterLine /\ request = HalfParsed(<<>>)
             \/ passed = AfterHeader /\ request = HalfParsed(asked.connection)

(* It has got the whole request.                                           *)
Parsed ==
    /\ Silent /\ pc = "answer" /\ succeed /\ request = asked /\ Good
    /\ passed = AfterHeader /\ Whole

(* A good answer has been sent and has kept the connection: its empty line *)
(* is next.                                                                *)
Answered ==
    /\ Connected /\ pc \in {"idle", "read", "reread", "parse"} /\ request = NewRequest
    /\ ~succeed /\ passed = AfterHeader /\ Whole

(* A request line that was none has been passed; nothing is answered.      *)
Failed == Connected /\ pc = "answer" /\ succeed /\ request.state_ = "ExpectHeaders"

(* And the next call of parseMessage begins with the headers: 400.         *)
Doomed ==
    /\ Connected /\ ~succeed
    /\ \/ pc \in {"idle", "read", "reread", "parse"} /\ request.state_ = "ExpectHeaders"
       \/ pc = "answer"

Closed == conn.state_ = "Disconnecting" /\ Counted /\ first # "none"

Story == pc = "garbled" \/ Fresh \/ InHeaders \/ Parsed \/ Answered \/ Failed \/ Doomed \/ Closed

IInv == SentOK /\ InputOK /\ ParserOK /\ AnswersOK /\ Story

-------------------------------------------------------------------------------
(* Sequences of cells.                                                     *)

(* A function on 1 .. n with cells as values is a sequence of length n.    *)
LEMMA SeqIs ==
    ASSUME NEW X, NEW n \in Nat, NEW f, DOMAIN f = 1 .. n, f = [i \in 1 .. n |-> f[i]],
           \A i \in 1 .. n : f[i] \in X
    PROVE  f \in Seq(X) /\ Len(f) = n
<1>1. f \in [1 .. n -> X]
  OBVIOUS
<1> QED
  BY <1>1

(* One sequence after another.                                             *)
LEMMA JoinIs ==
    ASSUME NEW a \in Seq(Cell), NEW b \in Seq(Cell)
    PROVE  /\ a \o b \in Seq(Cell) /\ Len(a \o b) = Len(a) + Len(b)
           /\ Len(a) \in Nat /\ Len(b) \in Nat
           /\ \A i \in 1 .. Len(a) : (a \o b)[i] = a[i]
           /\ \A i \in 1 .. Len(b) : (a \o b)[Len(a) + i] = b[i]
<1>1. /\ a \o b \in Seq(Cell) /\ Len(a \o b) = Len(a) + Len(b)
      /\ \A i \in 1 .. Len(a) + Len(b) :
             (a \o b)[i] = IF i <= Len(a) THEN a[i] ELSE b[i - Len(a)]
  BY ConcatProperties
<1>2. Len(a) \in Nat /\ Len(b) \in Nat
  OBVIOUS
<1> QED
  BY <1>1, <1>2

(* A part of a sequence; it is empty if it ends before it begins.          *)
LEMMA PartIs ==
    ASSUME NEW s \in Seq(Cell), NEW m \in Nat, NEW n \in Nat, n <= Len(s)
    PROVE  /\ SubSeq(s, m + 1, n) \in Seq(Cell)
           /\ Len(SubSeq(s, m + 1, n)) = IF m <= n THEN n - m ELSE 0
           /\ \A i \in 1 .. Len(SubSeq(s, m + 1, n)) : SubSeq(s, m + 1, n)[i] = s[m + i]
<1>1. \A i \in m + 1 .. n : s[i] \in Cell
  OBVIOUS
<1>2. /\ SubSeq(s, m + 1, n) \in Seq(Cell)
      /\ Len(SubSeq(s, m + 1, n)) = IF m + 1 <= n THEN n - (m + 1) + 1 ELSE 0
      /\ \A i \in 1 .. n - (m + 1) + 1 : SubSeq(s, m + 1, n)[i] = s[(m + 1) + i - 1]
  BY <1>1, SubSeqProperties
<1>3. \A i \in Int : (m + 1) + i - 1 = m + i
  OBVIOUS
<1> QED
  BY <1>2, <1>3

(* Cells written into a vector at some place change nothing else in it.    *)
LEMMA CopiedIs ==
    ASSUME NEW v \in Seq(Cell), NEW at \in Nat, NEW cells \in Seq(Cell)
    PROVE  /\ Copied(v, at, cells) \in Seq(Cell) /\ Len(Copied(v, at, cells)) = Len(v)
           /\ \A i \in 1 .. Len(v) :
                  Copied(v, at, cells)[i] =
                      IF at < i /\ i <= at + Len(cells) THEN cells[i - at] ELSE v[i]
<1> DEFINE f == Copied(v, at, cells)
<1>1. \A i \in 1 .. Len(v) : f[i] = IF at < i /\ i <= at + Len(cells) THEN cells[i - at] ELSE v[i]
  BY DEF Copied
<1>2. \A i \in 1 .. Len(v) : f[i] \in Cell
  <2> SUFFICES ASSUME NEW i \in 1 .. Len(v) PROVE f[i] \in Cell
    OBVIOUS
  <2>1. CASE at < i /\ i <= at + Len(cells)
    <3>1. i - at \in 1 .. Len(cells) /\ f[i] = cells[i - at]
      BY <1>1, <2>1
    <3> QED
      BY <3>1
  <2>2. CASE ~(at < i /\ i <= at + Len(cells))
    BY <1>1, <2>2
  <2> QED
    BY <2>1, <2>2
<1>3. f = [i \in 1 .. Len(v) |-> f[i]] /\ DOMAIN f = 1 .. Len(v) /\ Len(v) \in Nat
  BY DEF Copied
<1> HIDE DEF f
<1>4. f \in Seq(Cell) /\ Len(f) = Len(v)
  BY <1>2, <1>3, SeqIs
<1> QED
  BY <1>1, <1>4 DEF f

(* What can be read of a buffer.                                           *)
LEMMA ReadableIs ==
    ASSUME NEW b, BufferOK(b)
    PROVE  /\ Readable(b) \in Seq(Cell)
           /\ Len(Readable(b)) = IF b.readIndex_ <= b.writeIndex_ THEN b.writeIndex_ - b.readIndex_ ELSE 0
           /\ \A i \in 1 .. Len(Readable(b)) : Readable(b)[i] = b.buffer_[b.readIndex_ + i]
<1>1. /\ b.buffer_ \in Seq(Cell) /\ b.writeIndex_ \in Nat /\ b.readIndex_ \in Nat
      /\ b.writeIndex_ <= Len(b.buffer_)
  BY DEF BufferOK
<1>2. Readable(b) = SubSeq(b.buffer_, b.readIndex_ + 1, b.writeIndex_)
  BY DEF Readable
<1> DEFINE v == b.buffer_
           r == b.readIndex_
           w == b.writeIndex_
<1>3. v \in Seq(Cell) /\ w \in Nat /\ r \in Nat /\ w <= Len(v) /\ Readable(b) = SubSeq(v, r + 1, w)
  BY <1>1, <1>2
<1> HIDE DEF v, r, w
<1>4. /\ SubSeq(v, r + 1, w) \in Seq(Cell)
      /\ Len(SubSeq(v, r + 1, w)) = IF r <= w THEN w - r ELSE 0
      /\ \A i \in 1 .. Len(SubSeq(v, r + 1, w)) : SubSeq(v, r + 1, w)[i] = v[r + i]
  BY <1>3, PartIs
<1> QED
  BY <1>3, <1>4 DEF v, r, w

(* A new vector.                                                           *)
LEMMA NulsAre ==
    ASSUME NEW n \in Nat
    PROVE  [i \in 1 .. n |-> "NUL"] \in Seq(Cell) /\ Len([i \in 1 .. n |-> "NUL"]) = n
<1> DEFINE f == [i \in 1 .. n |-> "NUL"]
<1>0. DOMAIN f = 1 .. n
  OBVIOUS
<1>1. \A i \in 1 .. n : f[i] \in Cell
  <2>1. \A i \in 1 .. n : f[i] = "NUL"
    OBVIOUS
  <2> HIDE DEF f
  <2> QED
    BY <2>1, CellsAre
<1>3. f = [i \in 1 .. n |-> f[i]]
  OBVIOUS
<1> HIDE DEF f
<1>2. f \in Seq(Cell) /\ Len(f) = n
  BY <1>0, <1>1, <1>3, SeqIs
<1> QED
  BY <1>2 DEF f

(* append keeps what the buffer holds and adds the cells.                  *)
LEMMA AppendHolds ==
    ASSUME NEW b, BufferOK(b), NEW s \in Seq(Cell), NEW p \in Nat, NEW t \in Nat, Holds(b, s, p, t),
           NEW cells \in Seq(Cell), t + Len(cells) <= Len(s),
           \A i \in 1 .. Len(cells) : cells[i] = s[t + i],
           getWriteableLen(b) < Len(cells) => b.readIndex_ <= b.writeIndex_
    PROVE  BufferOK(append(b, cells)) /\ Holds(append(b, cells), s, p, t + Len(cells))
<1> DEFINE n == Len(cells)
           L == Len(b.buffer_)
           r == b.readIndex_
           w == b.writeIndex_
           c == IF getWriteableLen(b) < Len(cells) THEN makeSpace(b, Len(cells)) ELSE b
<1>0. /\ b.buffer_ \in Seq(Cell) /\ r \in Nat /\ w \in Nat /\ w <= L /\ L \in Nat /\ n \in Nat
      /\ b = [buffer_ |-> b.buffer_, writeIndex_ |-> w, readIndex_ |-> r]
  BY DEF BufferOK
<1>1. BufferOK(c) /\ Holds(c, s, p, t) /\ c.writeIndex_ + n <= Len(c.buffer_)
  <2>1. CASE ~(getWriteableLen(b) < n)
    BY <1>0, <2>1 DEF getWriteableLen
  <2>2. CASE getWriteableLen(b) < n /\ Enlarges(b, n)
    <3> DEFINE more == [i \in 1 .. n - getWriteableLen(b) |-> "NUL"]
    <3>1. more \in Seq(Cell) /\ Len(more) = n - (L - w)
      <4>1. n - getWriteableLen(b) \in Nat /\ n - getWriteableLen(b) = n - (L - w)
        BY <1>0, <2>2 DEF getWriteableLen
      <4> QED
        BY <4>1, NulsAre
    <3>2. c = [buffer_ |-> b.buffer_ \o more, writeIndex_ |-> w, readIndex_ |-> r]
      BY <1>0, <2>2 DEF makeSpace
    <3> HIDE DEF more, c
    <3>3. /\ b.buffer_ \o more \in Seq(Cell) /\ Len(b.buffer_ \o more) = w + n
          /\ \A i \in 1 .. L : (b.buffer_ \o more)[i] = b.buffer_[i]
      <4>1. \A i \in 1 .. L : (b.buffer_ \o more)[i] = b.buffer_[i]
        BY <1>0, <3>1, JoinIs
      <4>2. b.buffer_ \o more \in Seq(Cell) /\ Len(b.buffer_ \o more) = L + (n - (L - w))
        <5>1. \A x \in Seq(Cell) : x \o more \in Seq(Cell) /\ Len(x \o more) = Len(x) + Len(more)
          BY <3>1, JoinIs
        <5> QED
          BY <1>0, <3>1, <5>1
      <4> QED
        BY <1>0, <4>1, <4>2
    <3>4. BufferOK(c) /\ c.writeIndex_ + n <= Len(c.buffer_)
      BY <1>0, <3>2, <3>3 DEF BufferOK
    <3>5. Holds(c, s, p, t)
      <4>1. c.buffer_ = b.buffer_ \o more /\ c.writeIndex_ = w /\ c.readIndex_ = r
        BY <3>2
      <4>2. ASSUME NEW i \in 1 .. Len(c.buffer_), r < i, i <= w PROVE c.buffer_[i] = s[i - w + t]
        BY <1>0, <3>3, <4>1, <4>2 DEF Holds
      <4>3. w - r = t - p
        BY DEF Holds
      <4> QED
        BY <4>1, <4>2, <4>3 DEF Holds
    <3> QED
      BY <3>4, <3>5
  <2>3. CASE getWriteableLen(b) < n /\ ~Enlarges(b, n)
    <3>1. r <= w /\ (L - w) + r >= n
      BY <1>0, <2>3 DEF Enlarges, getWriteableLen
    <3> DEFINE old == Readable(b)
    <3>2. /\ old \in Seq(Cell) /\ Len(old) = w - r
          /\ \A i \in 1 .. w - r : old[i] = b.buffer_[r + i]
      BY <3>1, ReadableIs
    <3>3. c = [buffer_ |-> Copied(b.buffer_, 0, old), writeIndex_ |-> w - r, readIndex_ |-> 0]
      BY <2>3 DEF makeSpace, MoveToFront, getReadableLen
    <3> HIDE DEF old, c
    <3>4. /\ c.buffer_ \in Seq(Cell) /\ Len(c.buffer_) = L /\ c.writeIndex_ = w - r /\ c.readIndex_ = 0
          /\ \A i \in 1 .. L : 0 < i /\ i <= w - r => c.buffer_[i] = old[i]
      <4>1. /\ c.buffer_ = Copied(b.buffer_, 0, old) /\ c.writeIndex_ = w - r /\ c.readIndex_ = 0
        BY <3>3
      <4>2. /\ Copied(b.buffer_, 0, old) \in Seq(Cell) /\ Len(Copied(b.buffer_, 0, old)) = L
            /\ \A i \in 1 .. L : Copied(b.buffer_, 0, old)[i] =
                                    IF 0 < i /\ i <= 0 + Len(old) THEN old[i - 0] ELSE b.buffer_[i]
        <5>1. \A v \in Seq(Cell) :
                  /\ Copied(v, 0, old) \in Seq(Cell) /\ Len(Copied(v, 0, old)) = Len(v)
                  /\ \A i \in 1 .. Len(v) :
                         Copied(v, 0, old)[i] = IF 0 < i /\ i <= 0 + Len(old) THEN old[i - 0] ELSE v[i]
          <6> SUFFICES ASSUME NEW v \in Seq(Cell)
                       PROVE  /\ Copied(v, 0, old) \in Seq(Cell) /\ Len(Copied(v, 0, old)) = Len(v)
                              /\ \A i \in 1 .. Len(v) :
                                     Copied(v, 0, old)[i] =
                                         IF 0 < i /\ i <= 0 + Len(old) THEN old[i - 0] ELSE v[i]
            OBVIOUS
          <6>1. 0 \in Nat /\ old \in Seq(Cell)
            BY <3>2
          <6> QED
            BY <6>1, CopiedIs
        <5> QED
          BY <1>0, <5>1
      <4>3. \A i \in 1 .. L : 0 < i /\ i <= w - r => Copied(b.buffer_, 0, old)[i] = old[i]
        <5>1. \A i \in 1 .. L : i - 0 = i /\ (i <= w - r <=> i <= 0 + Len(old))
          BY <3>2
        <5> QED
          BY <4>2, <5>1
      <4> QED
        BY <4>1, <4>2, <4>3
    <3>5. BufferOK(c) /\ c.writeIndex_ + n <= Len(c.buffer_)
      BY <1>0, <3>1, <3>3, <3>4 DEF BufferOK
    <3>6. Holds(c, s, p, t)
      <4>1. w - r = t - p
        BY DEF Holds
      <4>2. ASSUME NEW i \in 1 .. Len(c.buffer_), 0 < i, i <= w - r
            PROVE  c.buffer_[i] = s[i - (w - r) + t]
        <5>0. i \in 1 .. L /\ i \in 1 .. w - r
          BY <1>0, <3>1, <3>4, <4>2
        <5>1. c.buffer_[i] = b.buffer_[r + i] /\ r + i \in 1 .. L /\ r < r + i /\ r + i <= w
          <6>1. c.buffer_[i] = b.buffer_[r + i]
            BY <3>2, <3>4, <4>2, <5>0
          <6> HIDE DEF r, w, L
          <6> QED
            BY SMTT(30), <1>0, <5>0, <6>1
        <5>2. b.buffer_[r + i] = s[(r + i) - w + t]
          BY <5>1 DEF Holds
        <5>3. (r + i) - w + t = i - (w - r) + t
          BY <1>0
        <5> QED
          BY <5>1, <5>2, <5>3
      <4> QED
        BY <1>0, <3>4, <4>1, <4>2 DEF Holds
    <3> QED
      BY <3>5, <3>6
  <2> QED
    BY <2>1, <2>2, <2>3
<1> HIDE DEF c
<1>2. append(b, cells) =
          [c EXCEPT !.buffer_ = Copied(c.buffer_, c.writeIndex_, cells), !.writeIndex_ = c.writeIndex_ + n]
  BY DEF append, c
<1>3. /\ c.buffer_ \in Seq(Cell) /\ c.writeIndex_ \in Nat /\ c.readIndex_ \in Nat
      /\ c = [buffer_ |-> c.buffer_, writeIndex_ |-> c.writeIndex_, readIndex_ |-> c.readIndex_]
  BY <1>1 DEF BufferOK
<1> DEFINE d == append(b, cells)
<1>4. /\ d = [buffer_ |-> Copied(c.buffer_, c.writeIndex_, cells), writeIndex_ |-> c.writeIndex_ + n,
              readIndex_ |-> c.readIndex_]
  BY <1>2, <1>3
<1> HIDE DEF d
<1>5. /\ d.buffer_ \in Seq(Cell) /\ Len(d.buffer_) = Len(c.buffer_)
      /\ d.writeIndex_ = c.writeIndex_ + n /\ d.readIndex_ = c.readIndex_
      /\ \A i \in 1 .. Len(c.buffer_) :
             d.buffer_[i] = IF c.writeIndex_ < i /\ i <= c.writeIndex_ + n THEN cells[i - c.writeIndex_]
                            ELSE c.buffer_[i]
  <2>1. /\ d.buffer_ = Copied(c.buffer_, c.writeIndex_, cells) /\ d.writeIndex_ = c.writeIndex_ + n
        /\ d.readIndex_ = c.readIndex_
    BY <1>4
  <2>2. /\ Copied(c.buffer_, c.writeIndex_, cells) \in Seq(Cell)
        /\ Len(Copied(c.buffer_, c.writeIndex_, cells)) = Len(c.buffer_)
        /\ \A i \in 1 .. Len(c.buffer_) :
               Copied(c.buffer_, c.writeIndex_, cells)[i] =
                   IF c.writeIndex_ < i /\ i <= c.writeIndex_ + n THEN cells[i - c.writeIndex_]
                   ELSE c.buffer_[i]
    BY ZenonT(60), <1>3, CopiedIs
  <2> QED
    BY <2>1, <2>2
<1>6. BufferOK(d)
  BY <1>0, <1>1, <1>3, <1>4, <1>5 DEF BufferOK
<1>7. Holds(d, s, p, t + n)
  <2>1. d.writeIndex_ - d.readIndex_ = (t + n) - p
    <3>1. c.writeIndex_ - c.readIndex_ = t - p
      BY <1>1 DEF Holds
    <3>2. \A x, y, q \in Int : x - y = t - p => (x + q) - y = (t + q) - p
      OBVIOUS
    <3> QED
      BY SMTT(30), <1>0, <1>3, <1>5, <3>1, <3>2
  <2>2. ASSUME NEW i \in 1 .. Len(d.buffer_), d.readIndex_ < i, i <= d.writeIndex_
        PROVE  d.buffer_[i] = s[i - d.writeIndex_ + (t + n)]
    <3>1. i - d.writeIndex_ + (t + n) = t + (i - c.writeIndex_)
          /\ i - d.writeIndex_ + (t + n) = i - c.writeIndex_ + t
      BY <1>0, <1>3, <1>5
    <3>2. CASE i <= c.writeIndex_
      <4>1. d.buffer_[i] = c.buffer_[i] /\ i \in 1 .. Len(c.buffer_) /\ c.readIndex_ < i
        BY <1>3, <1>5, <2>2, <3>2
      <4>2. c.buffer_[i] = s[i - c.writeIndex_ + t]
        BY <1>1, <3>2, <4>1 DEF Holds
      <4> QED
        BY <3>1, <4>1, <4>2
    <3>3. CASE ~(i <= c.writeIndex_)
      <4>1. d.buffer_[i] = cells[i - c.writeIndex_] /\ i - c.writeIndex_ \in 1 .. n
        BY SMTT(30), <1>0, <1>3, <1>5, <2>2, <3>3
      <4> QED
        BY <3>1, <4>1
    <3> QED
      BY <3>2, <3>3
  <2> QED
    BY <2>1, <2>2 DEF Holds
<1> QED
  BY <1>6, <1>7 DEF d

(* A buffer with a new vector and a new writeIndex_.                       *)
LEMMA Changed ==
    ASSUME NEW b, BufferOK(b), NEW x, NEW y
    PROVE  /\ [b EXCEPT !.buffer_ = x, !.writeIndex_ = y] =
                  [buffer_ |-> x, writeIndex_ |-> y, readIndex_ |-> b.readIndex_]
           /\ [[b EXCEPT !.buffer_ = x] EXCEPT !.writeIndex_ = y] =
                  [buffer_ |-> x, writeIndex_ |-> y, readIndex_ |-> b.readIndex_]
<1>1. b = [buffer_ |-> b.buffer_, writeIndex_ |-> b.writeIndex_, readIndex_ |-> b.readIndex_]
  BY DEF BufferOK
<1>2. PICK c : c = [b EXCEPT !.buffer_ = x]
  OBVIOUS
<1>3. c = [buffer_ |-> x, writeIndex_ |-> b.writeIndex_, readIndex_ |-> b.readIndex_]
  BY <1>1, <1>2
<1>4. [c EXCEPT !.writeIndex_ = y] = [buffer_ |-> x, writeIndex_ |-> y, readIndex_ |-> b.readIndex_]
  BY <1>3
<1>5. [b EXCEPT !.buffer_ = x, !.writeIndex_ = y] = [c EXCEPT !.writeIndex_ = y]
  BY <1>1, <1>2
<1> QED
  BY <1>2, <1>4, <1>5

(* Cells up to the m-th, and from the next one on.                         *)
LEMMA Divided ==
    ASSUME NEW cells \in Seq(Cell), NEW m \in 0 .. Len(cells)
    PROVE  /\ SubSeq(cells, 1, m) \in Seq(Cell) /\ Len(SubSeq(cells, 1, m)) = m
           /\ \A i \in 1 .. m : SubSeq(cells, 1, m)[i] = cells[i]
           /\ SubSeq(cells, m + 1, Len(cells)) \in Seq(Cell)
           /\ Len(SubSeq(cells, m + 1, Len(cells))) = Len(cells) - m
           /\ \A i \in 1 .. Len(cells) - m : SubSeq(cells, m + 1, Len(cells))[i] = cells[m + i]
<1>1. /\ SubSeq(cells, 1, m) \in Seq(Cell) /\ Len(SubSeq(cells, 1, m)) = m
      /\ \A i \in 1 .. m : SubSeq(cells, 1, m)[i] = cells[i]
  OBVIOUS
<1> QED
  BY <1>1, PartIs

(* What readv has read is added: where the iovec pointed at the free part  *)
(* of the vector and the array behind it, or at the array only.            *)
LEMMA ReceivedHolds ==
    ASSUME NEW b, BufferOK(b), NEW s \in Seq(Cell), NEW p \in Nat, NEW t \in Nat, Holds(b, s, p, t),
           NEW cells \in Seq(Cell), Len(cells) >= 1, t + Len(cells) <= Len(s),
           \A i \in 1 .. Len(cells) : cells[i] = s[t + i],
           NEW iov, iov.base \in Nat, iov.room \in Nat,
           \/ iov.base = b.writeIndex_ /\ iov.room = getWriteableLen(b)
           \/ iov.room = 0 /\ getWriteableLen(b) = 0,
           Len(cells) > iov.room => b.readIndex_ <= Len(b.buffer_)
    PROVE  BufferOK(Received(b, iov, cells)) /\ Holds(Received(b, iov, cells), s, p, t + Len(cells))
<1> DEFINE n == Len(cells)
           L == Len(b.buffer_)
           r == b.readIndex_
           w == b.writeIndex_
           room == iov.room
<1>0. /\ b.buffer_ \in Seq(Cell) /\ r \in Nat /\ w \in Nat /\ w <= L /\ L \in Nat /\ n \in Nat /\ n >= 1
      /\ b = [buffer_ |-> b.buffer_, writeIndex_ |-> w, readIndex_ |-> r] /\ room = L - w
      /\ room \in Nat
  BY DEF BufferOK, getWriteableLen
<1>1. CASE n <= room
  <2>1. iov.base = w
    BY <1>0, <1>1 DEF getWriteableLen
  <2>2. ~(getWriteableLen(b) < n)
    BY <1>0, <1>1 DEF getWriteableLen
  <2>3. Received(b, iov, cells) = append(b, cells)
    <3>1. Received(b, iov, cells) =
              [buffer_ |-> Copied(b.buffer_, w, cells), writeIndex_ |-> w + n, readIndex_ |-> r]
      BY <1>0, <1>1, <2>1 DEF Received
    <3>2. append(b, cells) =
              [buffer_ |-> Copied(b.buffer_, w, cells), writeIndex_ |-> w + n, readIndex_ |-> r]
      <4>1. append(b, cells) =
                [b EXCEPT !.buffer_ = Copied(b.buffer_, w, cells), !.writeIndex_ = w + n]
        BY <2>2 DEF append
      <4> QED
        BY <4>1, Changed
    <3> QED
      BY <3>1, <3>2
  <2> QED
    BY <2>2, <2>3, AppendHolds
<1>2. CASE ~(n <= room)
  <2> DEFINE direct == SubSeq(cells, 1, room)
             rest == SubSeq(cells, room + 1, n)
             c == [buffer_ |-> Copied(b.buffer_, iov.base, direct), writeIndex_ |-> L, readIndex_ |-> r]
  <2>1. /\ direct \in Seq(Cell) /\ Len(direct) = room /\ \A i \in 1 .. room : direct[i] = s[t + i]
    <3>1. room \in 0 .. n
      BY <1>0, <1>2
    <3>2. /\ direct \in Seq(Cell) /\ Len(direct) = room /\ \A i \in 1 .. room : direct[i] = cells[i]
      BY <3>1, Divided
    <3> QED
      BY SMTT(30), <1>0, <1>2, <3>2
  <2>2. /\ rest \in Seq(Cell) /\ Len(rest) = n - room
        /\ \A i \in 1 .. Len(rest) : rest[i] = s[(t + room) + i]
    <3>1. /\ rest \in Seq(Cell) /\ Len(rest) = n - room
          /\ \A i \in 1 .. n - room : rest[i] = cells[room + i]
      <4>1. room \in 0 .. n
        BY <1>0, <1>2
      <4> QED
        BY <4>1, Divided
    <3>2. ASSUME NEW i \in 1 .. n - room PROVE cells[room + i] = s[(t + room) + i]
      <4>1. room + i \in 1 .. n /\ t + (room + i) = (t + room) + i
        BY SMTT(30), <1>0, <1>2
      <4>2. cells[room + i] = s[t + (room + i)]
        BY <4>1
      <4> QED
        BY <4>1, <4>2
    <3> QED
      BY <3>1, <3>2
  <2>3. Received(b, iov, cells) = append(c, rest)
    <3>1. Len(Copied(b.buffer_, iov.base, direct)) = L
      BY ZenonT(60), <1>0, <2>1, CopiedIs
    <3>2. [[b EXCEPT !.buffer_ = Copied(@, iov.base, direct)] EXCEPT
              !.writeIndex_ = Len([b EXCEPT !.buffer_ = Copied(@, iov.base, direct)].buffer_)] = c
      <4>1. [b EXCEPT !.buffer_ = Copied(@, iov.base, direct)].buffer_ = Copied(b.buffer_, iov.base, direct)
        BY <1>0
      <4>2. [[b EXCEPT !.buffer_ = Copied(@, iov.base, direct)] EXCEPT !.writeIndex_ = L] = c
        BY Changed
      <4>3. Len([b EXCEPT !.buffer_ = Copied(@, iov.base, direct)].buffer_) = L
        BY <3>1, <4>1
      <4> QED
        BY <4>2, <4>3
    <3> QED
      BY <1>2, <3>2 DEF Received
  <2>4. BufferOK(c) /\ Holds(c, s, p, t + room)
    <3>1. CASE iov.base = w
      <4>1. c = append(b, direct)
        <5>1. ~(getWriteableLen(b) < Len(direct)) /\ w + Len(direct) = L
          <6> HIDE DEF direct
          <6> QED
            BY <1>0, <2>1 DEF getWriteableLen
        <5>2. append(b, direct) =
                  [b EXCEPT !.buffer_ = Copied(b.buffer_, w, direct), !.writeIndex_ = w + Len(direct)]
          BY <5>1 DEF append
        <5> QED
          BY <3>1, <5>1, <5>2, Changed
      <4>2. ~(getWriteableLen(b) < Len(direct)) /\ t + Len(direct) <= Len(s)
        BY <1>0, <1>2, <2>1 DEF getWriteableLen
      <4> HIDE DEF direct, c
      <4> QED
        BY <2>1, <4>1, <4>2, AppendHolds
    <3>2. CASE iov.base # w
      <4>1. room = 0 /\ w = L
        BY <1>0, <3>2 DEF getWriteableLen
      <4>2. Copied(b.buffer_, iov.base, direct) = b.buffer_
        <5>1. Copied(b.buffer_, iov.base, direct) = [i \in 1 .. L |-> b.buffer_[i]]
          BY <2>1, <4>1 DEF Copied
        <5> QED
          BY SMTT(30), <1>0, <5>1
      <4>3. c = b /\ t + room = t
        BY <1>0, <4>1, <4>2
      <4> HIDE DEF c
      <4> QED
        BY <4>3
    <3> QED
      BY <3>1, <3>2
  <2>5. c.readIndex_ <= c.writeIndex_ /\ (t + room) + Len(rest) = t + n /\ t + room \in Nat
    <3>1. r <= L
      BY <1>0, <1>2
    <3>2. (t + room) + Len(rest) = t + n /\ t + room \in Nat
      <4> HIDE DEF rest, n, room
      <4> QED
        BY SMTT(30), <1>0, <2>2
    <3> QED
      BY <3>1, <3>2
  <2> HIDE DEF c, rest
  <2>6. BufferOK(append(c, rest)) /\ Holds(append(c, rest), s, p, (t + room) + Len(rest))
    BY <2>2, <2>4, <2>5, AppendHolds
  <2> QED
    BY <2>3, <2>5, <2>6
<1> QED
  BY <1>1, <1>2

-------------------------------------------------------------------------------
(* Lines and words.                                                        *)

(* A cell is in one sequence after another if it is in one of them.        *)
LEMMA ContainsJoin ==
    ASSUME NEW a \in Seq(Cell), NEW b \in Seq(Cell), NEW e
    PROVE  Contains(a \o b, e) <=> Contains(a, e) \/ Contains(b, e)
<1>1. /\ Len(a \o b) = Len(a) + Len(b) /\ Len(a) \in Nat /\ Len(b) \in Nat
      /\ \A i \in 1 .. Len(a) : (a \o b)[i] = a[i]
      /\ \A i \in 1 .. Len(b) : (a \o b)[Len(a) + i] = b[i]
  BY JoinIs
<1>2. ASSUME Contains(a, e) PROVE Contains(a \o b, e)
  BY <1>1, <1>2 DEF Contains
<1>3. ASSUME Contains(b, e) PROVE Contains(a \o b, e)
  <2>1. PICK i \in 1 .. Len(b) : b[i] = e
    BY <1>3 DEF Contains
  <2>2. Len(a) + i \in 1 .. Len(a \o b) /\ (a \o b)[Len(a) + i] = e
    BY <1>1, <2>1
  <2> QED
    BY <2>2 DEF Contains
<1>4. ASSUME Contains(a \o b, e) PROVE Contains(a, e) \/ Contains(b, e)
  <2>1. PICK i \in 1 .. Len(a \o b) : (a \o b)[i] = e
    BY <1>4 DEF Contains
  <2>2. CASE i <= Len(a)
    <3>1. i \in 1 .. Len(a) /\ a[i] = e
      BY <1>1, <2>1, <2>2
    <3> QED
      BY <3>1 DEF Contains
  <2>3. CASE ~(i <= Len(a))
    <3>1. i - Len(a) \in 1 .. Len(b) /\ Len(a) + (i - Len(a)) = i
      BY <1>1, <2>3
    <3>2. b[i - Len(a)] = e
      BY <1>1, <2>1, <3>1
    <3> QED
      BY <3>1, <3>2 DEF Contains
  <2> QED
    BY <2>2, <2>3
<1> QED
  BY <1>2, <1>3, <1>4

(* What stands for induction: a set of numbers has a least one.            *)
LEMMA Least ==
    ASSUME NEW S \in SUBSET Nat, S # {}
    PROVE  \E n \in S : \A m \in S : n <= m
<1> DEFINE T == {0 .. n : n \in S}
<1>1. T \subseteq FiniteSubsetsOf(Nat) /\ T # {}
  <2>1. \A n \in S : IsFiniteSet(0 .. n) /\ 0 .. n \subseteq Nat
    BY FS_Interval
  <2> QED
    BY <2>1 DEF FiniteSubsetsOf
<1>2. \E x \in T : \A y \in T : ~ (<<y, x>> \in StrictSubsetOrdering(Nat))
  BY <1>1, FS_StrictSubsetOrderingWellFounded, WFMin
<1>3. PICK n \in S : \A m \in S : <<0 .. m, 0 .. n>> \notin StrictSubsetOrdering(Nat)
  BY <1>2
<1>4. ASSUME NEW m \in S, m < n PROVE FALSE
  <2>1. n \in 0 .. n /\ n \notin 0 .. m
    BY <1>4
  <2>2. 0 .. m \subseteq 0 .. n /\ 0 .. m # 0 .. n
    BY <1>4, <2>1
  <2>3. <<0 .. m, 0 .. n>> \in StrictSubsetOrdering(Nat)
    BY <1>1, <1>4, <2>2 DEF StrictSubsetOrdering
  <2> QED
    BY <1>3, <2>3
<1> QED
  BY <1>3, <1>4

(* The least element of a set of numbers, once it is known.                *)
LEMMA MinIs ==
    ASSUME NEW S \in SUBSET Int, NEW m \in S, \A i \in S : m <= i
    PROVE  Min(S) = m
<1> DEFINE x == CHOOSE i \in S : \A j \in S : i <= j
<1>1. x \in S /\ \A j \in S : x <= j
  <2>1. \E i \in S : \A j \in S : i <= j
    OBVIOUS
  <2> QED
    BY <2>1
<1>2. Min(S) = x
  BY DEF Min
<1> HIDE DEF x
<1> QED
  BY <1>1, <1>2

(* FirstOf gives the first place of a cell.                                *)
LEMMA FirstIs ==
    ASSUME NEW s \in Seq(Cell), NEW c, NEW m \in 1 .. Len(s), s[m] = c,
           \A i \in 1 .. m - 1 : s[i] # c
    PROVE  Contains(s, c) /\ FirstOf(s, c) = m
<1> DEFINE I == {i \in 1 .. Len(s) : s[i] = c}
<1>1. m \in I /\ \A i \in I : m <= i
  OBVIOUS
<1>2. FirstOf(s, c) = IF I # {} THEN Min(I) ELSE 0
  BY DEF FirstOf, SelectInSeq
<1>3. I \in SUBSET Int
  OBVIOUS
<1> HIDE DEF I
<1>4. Min(I) = m
  BY <1>1, <1>3, MinIs
<1> QED
  BY <1>1, <1>2, <1>4 DEF Contains

(* A line is divided at the first cell of a kind.                          *)
LEMMA SplitIs ==
    ASSUME NEW a \in Seq(Cell), NEW c \in Cell, NEW b \in Seq(Cell), ~Contains(a, c),
           NEW s, s = (a \o <<c>>) \o b
    PROVE  /\ s \in Seq(Cell) /\ Contains(s, c) /\ Before(s, c) = a /\ After(s, c) = b
<1>1. <<c>> \in Seq(Cell) /\ Len(<<c>>) = 1 /\ <<c>>[1] = c
  OBVIOUS
<1> DEFINE h == a \o <<c>>
<1>2. /\ h \in Seq(Cell) /\ Len(h) = Len(a) + 1 /\ Len(a) \in Nat
      /\ \A i \in 1 .. Len(a) : h[i] = a[i]
      /\ h[Len(a) + 1] = c
  BY <1>1, JoinIs
<1> HIDE DEF h
<1>3. /\ s \in Seq(Cell) /\ Len(s) = Len(h) + Len(b) /\ Len(b) \in Nat
      /\ \A i \in 1 .. Len(h) : s[i] = h[i]
      /\ \A i \in 1 .. Len(b) : s[Len(h) + i] = b[i]
  BY <1>2, JoinIs DEF h
<1>4. /\ Len(s) = Len(a) + 1 + Len(b)
      /\ \A i \in 1 .. Len(a) : s[i] = a[i]
      /\ s[Len(a) + 1] = c
      /\ \A i \in 1 .. Len(b) : s[(Len(a) + 1) + i] = b[i]
  BY <1>2, <1>3
<1>5. Contains(s, c) /\ FirstOf(s, c) = Len(a) + 1
  <2>1. Len(a) + 1 \in 1 .. Len(s) /\ \A i \in 1 .. (Len(a) + 1) - 1 : s[i] # c
    BY <1>2, <1>3, <1>4 DEF Contains
  <2> QED
    BY <1>3, <1>4, <2>1, FirstIs
<1>6. Before(s, c) = a
  <2>1. Before(s, c) = SubSeq(s, 1, Len(a))
    BY <1>2, <1>5 DEF Before
  <2>2. /\ SubSeq(s, 0 + 1, Len(a)) \in Seq(Cell) /\ Len(SubSeq(s, 0 + 1, Len(a))) = Len(a)
        /\ \A i \in 1 .. Len(SubSeq(s, 0 + 1, Len(a))) : SubSeq(s, 0 + 1, Len(a))[i] = s[0 + i]
    BY <1>2, <1>3, <1>4, PartIs
  <2>3. 0 + 1 = 1 /\ \A i \in 1 .. Len(a) : 0 + i = i
    OBVIOUS
  <2> QED
    BY SMTT(30), <1>4, <2>1, <2>2, <2>3, SeqEqual
<1>7. After(s, c) = b
  <2>1. After(s, c) = SubSeq(s, (Len(a) + 1) + 1, Len(s))
    BY <1>5 DEF After
  <2>2. /\ SubSeq(s, (Len(a) + 1) + 1, Len(s)) \in Seq(Cell)
        /\ Len(SubSeq(s, (Len(a) + 1) + 1, Len(s))) = Len(b)
        /\ \A i \in 1 .. Len(SubSeq(s, (Len(a) + 1) + 1, Len(s))) :
               SubSeq(s, (Len(a) + 1) + 1, Len(s))[i] = s[(Len(a) + 1) + i]
    <3>1. Len(a) + 1 \in Nat /\ Len(s) \in Nat
      BY <1>2, <1>3
    <3> QED
      BY <1>2, <1>3, <1>4, <3>1, PartIs
  <2> DEFINE v == SubSeq(s, (Len(a) + 1) + 1, Len(s))
  <2> HIDE DEF v
  <2>3. v \in Seq(Cell) /\ Len(v) = Len(b) /\ \A i \in 1 .. Len(b) : v[i] = b[i]
    BY <1>4, <2>2 DEF v
  <2>4. v = b
    BY <2>3, SeqEqual
  <2> QED
    BY <2>1, <2>4 DEF v
<1> QED
  BY <1>3, <1>5, <1>6, <1>7

(* A CRLF is its two cells.                                                *)
LEMMA TwoIs ==
    ASSUME NEW s \in Seq(Cell), NEW i \in 1 .. Len(s) - 1
    PROVE  SubSeq(s, i, i + 1) = Crlf <=> s[i] = "CR" /\ s[i + 1] = "LF"
<1>1. /\ Len(SubSeq(s, i, i + 1)) = 2
      /\ SubSeq(s, i, i + 1)[1] = s[i] /\ SubSeq(s, i, i + 1)[2] = s[i + 1]
      /\ SubSeq(s, i, i + 1) \in Seq(Cell)
  <2>1. i - 1 \in Nat /\ i + 1 \in Nat /\ i + 1 <= Len(s) /\ (i - 1) + 1 = i /\ (i + 1) - (i - 1) = 2
        /\ (i - 1) + 2 = i + 1 /\ i - 1 <= i + 1
    OBVIOUS
  <2>2. /\ SubSeq(s, (i - 1) + 1, i + 1) \in Seq(Cell)
        /\ Len(SubSeq(s, (i - 1) + 1, i + 1)) = 2
        /\ \A j \in 1 .. Len(SubSeq(s, (i - 1) + 1, i + 1)) :
               SubSeq(s, (i - 1) + 1, i + 1)[j] = s[(i - 1) + j]
    BY <2>1, PartIs
  <2> QED
    BY <2>1, <2>2
<1>2. SubSeq(s, i, i + 1) = <<s[i], s[i + 1]>>
  <2> DEFINE v == SubSeq(s, i, i + 1)
             u == <<s[i], s[i + 1]>>
  <2>1. u \in Seq(Cell) /\ Len(u) = 2 /\ u[1] = s[i] /\ u[2] = s[i + 1]
    OBVIOUS
  <2> HIDE DEF v, u
  <2>2. \A j \in 1 .. Len(v) : j = 1 \/ j = 2
    BY <1>1 DEF v
  <2>3. \A j \in 1 .. Len(v) : v[j] = u[j]
    BY <1>1, <2>1, <2>2 DEF v
  <2>4. v = u
    BY <1>1, <2>1, <2>3, SeqEqual DEF v
  <2> QED
    BY <2>4 DEF v, u
<1>3. Crlf = <<"CR", "LF">>
  BY DEF Crlf
<1> QED
  BY <1>2, <1>3

(* The line in the buffer, when the stream goes on with line l and CRLF.   *)
LEMMA LineIs ==
    ASSUME Text \in Seq(Cell), NEW l \in Seq(Cell), ~Contains(l, "CR"),
           \A i \in 1 .. Len(l) : i <= Len(Text) => Text[i] = l[i],
           Len(l) + 1 <= Len(Text) => Text[Len(l) + 1] = "CR",
           Len(l) + 2 <= Len(Text) => Text[Len(l) + 2] = "LF"
    PROVE  /\ HasLine <=> Len(l) + 2 <= Len(Text)
           /\ HasLine => Line = l
<1> DEFINE n == Len(l)
           m == Len(Text)
           at == n + 1
<1>0. n \in Nat /\ m \in Nat
  OBVIOUS
<1>1. \A i \in 1 .. m - 1 : i \in CrlfAt <=> Text[i] = "CR" /\ Text[i + 1] = "LF"
  BY TwoIs DEF CrlfAt
<1>2. \A i \in CrlfAt : i \in 1 .. m - 1 /\ Text[i] = "CR" /\ Text[i + 1] = "LF"
  BY <1>1 DEF CrlfAt
<1>3. \A i \in CrlfAt : at <= i
  <2> SUFFICES ASSUME NEW i \in CrlfAt, i <= n PROVE FALSE
    BY <1>0, <1>2
  <2>1. Text[i] = "CR" /\ i \in 1 .. n /\ i <= m
    BY <1>0, <1>2
  <2>2. l[i] = "CR"
    BY <2>1
  <2> QED
    BY <2>1, <2>2 DEF Contains
<1>4. ASSUME n + 2 <= m PROVE at \in CrlfAt
  <2>1. at \in 1 .. m - 1 /\ at + 1 = n + 2
    BY <1>0, <1>4
  <2> QED
    BY <1>0, <1>1, <1>4, <2>1
<1>5. ASSUME HasLine PROVE n + 2 <= m
  <2>1. PICK i \in CrlfAt : TRUE
    BY <1>5 DEF HasLine
  <2> QED
    BY <1>0, <1>2, <1>3, <2>1
<1>6. ASSUME HasLine PROVE Line = l
  <2>1. at \in CrlfAt
    BY <1>4, <1>5, <1>6
  <2>2. (CHOOSE i \in CrlfAt : \A j \in CrlfAt : i <= j) = at
    BY <1>2, <1>3, <2>1
  <2>3. Line = SubSeq(Text, 1, n)
    <3>1. at - 1 = n
      BY <1>0
    <3>2. Line = SubSeq(Text, 1, (CHOOSE i \in CrlfAt : \A j \in CrlfAt : i <= j) - 1)
      BY <1>6 DEF Line
    <3> QED
      BY <2>2, <3>1, <3>2
  <2>4. /\ SubSeq(Text, 1, n) \in Seq(Cell) /\ Len(SubSeq(Text, 1, n)) = n
        /\ \A i \in 1 .. n : SubSeq(Text, 1, n)[i] = Text[i]
    BY <1>0, <1>5, <1>6, Divided
  <2>5. \A i \in 1 .. n : Text[i] = l[i]
    BY <1>0, <1>5, <1>6
  <2> QED
    BY <2>3, <2>4, <2>5, SeqEqual
<1> QED
  BY <1>4, <1>5, <1>6 DEF HasLine

(* The line is no longer than the text, with its CRLF if it has one.       *)
LEMMA LineInText ==
    ASSUME Text \in Seq(Cell)
    PROVE  /\ Line \in Seq(Cell) /\ Len(Line) <= Len(Text)
           /\ HasLine => Len(Line) + 2 <= Len(Text)
           /\ ~HasLine => Line = Text
<1>1. CASE ~HasLine
  BY <1>1 DEF Line
<1>2. CASE HasLine
  <2> DEFINE at == CHOOSE i \in CrlfAt : \A j \in CrlfAt : i <= j
  <2>1. CrlfAt \subseteq 1 .. Len(Text) - 1 /\ CrlfAt # {}
    BY <1>2 DEF HasLine, CrlfAt
  <2>2. \E i \in CrlfAt : \A j \in CrlfAt : i <= j
    <3>1. CrlfAt \subseteq Nat
      BY <2>1
    <3> QED
      BY <2>1, <3>1, Least
  <2>3. at \in CrlfAt
    BY <2>2
  <2>4. Line = SubSeq(Text, 1, at - 1)
    BY <1>2 DEF Line
  <2>5. at \in 1 .. Len(Text) - 1
    BY <2>1, <2>3
  <2> HIDE DEF at
  <2>6. at - 1 \in 0 .. Len(Text)
    BY <2>5
  <2>7. SubSeq(Text, 1, at - 1) \in Seq(Cell) /\ Len(SubSeq(Text, 1, at - 1)) = at - 1
    BY <2>6, Divided
  <2> QED
    BY <1>2, <2>4, <2>5, <2>7
<1> QED
  BY <1>1, <1>2

-------------------------------------------------------------------------------
(* The first request and how it is parsed.                                 *)

(* A line of one cell.                                                     *)
LEMMA OneIs ==
    ASSUME NEW x \in Cell
    PROVE  <<x>> \in Seq(Cell) /\ Len(<<x>>) = 1 /\ \A e : Contains(<<x>>, e) <=> e = x
<1>1. <<x>> \in Seq(Cell) /\ Len(<<x>>) = 1 /\ <<x>>[1] = x /\ \A i \in 1 .. 1 : i = 1
  OBVIOUS
<1> QED
  BY <1>1 DEF Contains

(* A line of two cells.                                                    *)
LEMMA PairIs ==
    ASSUME NEW x \in Cell, NEW y \in Cell
    PROVE  /\ <<x, y>> \in Seq(Cell) /\ Len(<<x, y>>) = 2 /\ <<x, y>> = <<x>> \o <<y>>
           /\ \A e : Contains(<<x, y>>, e) <=> e = x \/ e = y
<1>1. /\ <<x, y>> \in Seq(Cell) /\ Len(<<x, y>>) = 2 /\ <<x, y>>[1] = x /\ <<x, y>>[2] = y
      /\ \A i \in 1 .. 2 : i = 1 \/ i = 2
      /\ 1 \in 1 .. 2 /\ 2 \in 1 .. 2
  OBVIOUS
<1>2. <<x, y>> = <<x>> \o <<y>>
  <2> DEFINE a == <<x>>
             b == <<y>>
             u == <<x, y>>
  <2>1. /\ a \in Seq(Cell) /\ b \in Seq(Cell) /\ Len(a) = 1 /\ Len(b) = 1 /\ a[1] = x /\ b[1] = y
        /\ u \in Seq(Cell) /\ Len(u) = 2 /\ u[1] = x /\ u[2] = y
    OBVIOUS
  <2> HIDE DEF a, b, u
  <2>2. /\ a \o b \in Seq(Cell) /\ Len(a \o b) = Len(a) + Len(b)
        /\ \A i \in 1 .. Len(a) : (a \o b)[i] = a[i]
        /\ \A i \in 1 .. Len(b) : (a \o b)[Len(a) + i] = b[i]
    BY <2>1, JoinIs
  <2>3. (a \o b)[1] = x /\ (a \o b)[2] = y /\ Len(a \o b) = 2
    BY <2>1, <2>2
  <2>4. \A i \in 1 .. Len(u) : u[i] = (a \o b)[i]
    BY <1>1, <2>1, <2>3
  <2>5. u = a \o b
    BY <2>1, <2>2, <2>3, <2>4, SeqEqual
  <2> QED
    BY <2>5 DEF a, b, u
<1> QED
  BY <1>1, <1>2 DEF Contains

(* The empty line.                                                         *)
LEMMA NoneIs ==
    <<>> \in Seq(Cell) /\ Len(<<>>) = 0 /\ \A e : ~Contains(<<>>, e)
  BY EmptySeq DEF Contains

(* The cells the program itself compares with or writes.                   *)
LEMMA CellIs ==
    /\ {" ", ":", "?", "/", "CR", "LF", "NUL"} \subseteq Cell
    /\ {"HTTP/1.1", "200", "400", "OK", "Bad", "Request", "Connection", "close", "Keep-Alive"} \subseteq Cell
  BY DEF Cell, Separators, Words

(* What a request of the peer has in its fields.                           *)
LEMMA RequestIs ==
    ASSUME NEW r \in Requests
    PROVE  /\ IsRequest(r) /\ r.state_ = "GotAll" /\ r.method_ \in Methods /\ r.path_ = <<"/">>
           /\ r.query_ \in Queries /\ r.version_ \in Versions
           /\ r.connection = <<>> \/ \E h \in Headers : r.connection = <<h>>
  BY DEF Requests, IsRequest

(* The target of a request line is divided at its question mark.           *)
LEMMA TargetIs ==
    ASSUME NEW q \in Queries
    PROVE  LET text == Target(<<"/">>, q)
           IN  /\ text \in Seq(Cell) /\ ~Contains(text, " ") /\ ~Contains(text, "CR")
               /\ q = <<>> => text = <<"/">> /\ ~Contains(text, "?")
               /\ q # <<>> => Contains(text, "?") /\ Before(text, "?") = <<"/">> /\ After(text, "?") = q
<1>1. /\ <<"/">> \in Seq(Cell) /\ \A e : Contains(<<"/">>, e) <=> e = "/"
      /\ <<"?">> \in Seq(Cell) /\ \A e : Contains(<<"?">>, e) <=> e = "?"
  BY OneIs, CellIs
<1>2. q \in Seq(Cell)
  BY CellsAre
<1>3. \A x : Contains(q, x) => x \notin {" ", "CR", "LF"}
  <2> SUFFICES ASSUME NEW i \in 1 .. Len(q) PROVE q[i] \notin {" ", "CR", "LF"}
    BY DEF Contains
  <2>1. q \in Seq(ToSet(q)) /\ ToSet(q) \cap {" ", "CR", "LF"} = {}
    BY ConstantsOK
  <2>2. q[i] \in ToSet(q)
    BY <2>1, ElementOfSeq
  <2> QED
    BY <2>1, <2>2
<1>4. CASE q = <<>>
  <2>1. Target(<<"/">>, q) = <<"/">>
    BY <1>1, <1>4, ConcatEmptySeq DEF Target
  <2> QED
    BY <1>1, <1>4, <2>1
<1>5. CASE q # <<>>
  <2>1. Target(<<"/">>, q) = <<"/">> \o (<<"?">> \o q)
    BY <1>5 DEF Target
  <2>2. Target(<<"/">>, q) = (<<"/">> \o <<"?">>) \o q
    <3> DEFINE a == <<"/">>
               b == <<"?">>
    <3>1. a \in Seq(Cell) /\ b \in Seq(Cell)
      BY <1>1
    <3> HIDE DEF a, b
    <3>2. (a \o b) \o q = a \o (b \o q)
      BY <1>2, <3>1, ConcatAssociative
    <3> QED
      BY <2>1, <3>2 DEF a, b
  <2>3. <<"/">> \o <<"?">> \in Seq(Cell)
    BY <1>1, JoinIs
  <2>4. \A e : Contains((<<"/">> \o <<"?">>) \o q, e) <=> e = "/" \/ e = "?" \/ Contains(q, e)
    BY <1>1, <1>2, <2>3, ContainsJoin
  <2>5. "?" \in Cell /\ ~Contains(<<"/">>, "?")
    BY <1>1, CellIs
  <2>6. /\ Target(<<"/">>, q) \in Seq(Cell) /\ Contains(Target(<<"/">>, q), "?")
        /\ Before(Target(<<"/">>, q), "?") = <<"/">> /\ After(Target(<<"/">>, q), "?") = q
    BY <1>1, <1>2, <2>2, <2>5, SplitIs
  <2> QED
    BY <1>3, <1>5, <2>2, <2>4, <2>6
<1> QED
  BY <1>4, <1>5

(* A request line is divided at its first two spaces.                      *)
LEMMA LineOfRequest ==
    ASSUME NEW r \in Requests
    PROVE  LET line == RequestLine(r)
               rest == After(line, " ")
           IN  /\ line \in Seq(Cell) /\ ~Contains(line, "CR")
               /\ Contains(line, " ") /\ Before(line, " ") = <<r.method_>>
               /\ Contains(rest, " ") /\ Before(rest, " ") = Target(<<"/">>, r.query_)
               /\ After(rest, " ") = <<r.version_>>
<1> DEFINE m == r.method_
           v == r.version_
           text == Target(<<"/">>, r.query_)
           line == RequestLine(r)
           M == <<m>>
           V == <<v>>
           B == <<" ">>
           rest == (text \o B) \o V
<1>1. line = (<<m, " ">> \o text) \o <<" ", v>>
  BY RequestIs DEF RequestLine
<1>2. /\ m \in Cell /\ v \in Cell /\ " " \in Cell
      /\ m \notin {" ", "CR"} /\ v \notin {" ", "CR"}
  <2>1. m \in Cell /\ v \in Cell /\ " " \in Cell
    BY RequestIs, CellIs, CellsAre
  <2>2. m \in {"GET", "POST", "PUT", "DELETE", "HEAD", "OPTIONS"} /\ v \in {"HTTP/1.0", "HTTP/1.1"}
    BY RequestIs, ConstantsOK DEF Versions
  <2> QED
    BY <2>1, <2>2
<1>3. text \in Seq(Cell) /\ ~Contains(text, " ") /\ ~Contains(text, "CR")
  BY RequestIs, TargetIs
<1> HIDE DEF m, v, text, line
<1>4. /\ M \in Seq(Cell) /\ \A e : Contains(M, e) <=> e = m
      /\ V \in Seq(Cell) /\ \A e : Contains(V, e) <=> e = v
      /\ B \in Seq(Cell) /\ \A e : Contains(B, e) <=> e = " "
  BY <1>2, OneIs
<1>5. <<m, " ">> = M \o B /\ <<" ", v>> = B \o V
  BY <1>2, PairIs
<1>0. M \in Seq(Cell) /\ V \in Seq(Cell) /\ B \in Seq(Cell) /\ text \in Seq(Cell)
  BY <1>3, <1>4
<1> HIDE DEF M, V
<1>6. /\ rest \in Seq(Cell) /\ Contains(rest, " ") /\ Before(rest, " ") = text
      /\ After(rest, " ") = V
  <2>1. " " \in Cell /\ ~Contains(text, " ")
    BY <1>2, <1>3
  <2> QED
    BY <1>0, <2>1, SplitIs
<1> HIDE DEF B
<1>7. line = (M \o B) \o rest
  <2>1. M \o B \in Seq(Cell) /\ B \o V \in Seq(Cell)
    BY <1>4, JoinIs
  <2>2. line = (M \o B) \o (text \o (B \o V))
    <3>1. ((M \o B) \o text) \o (B \o V) = (M \o B) \o (text \o (B \o V))
      <4> DEFINE x == M \o B
                 y == B \o V
      <4>1. x \in Seq(Cell) /\ y \in Seq(Cell)
        BY <2>1
      <4> HIDE DEF x, y
      <4>2. (x \o text) \o y = x \o (text \o y)
        BY SMTT(30), <1>0, <4>1, ConcatAssociative
      <4> QED
        BY <4>2 DEF x, y
    <3> QED
      BY <1>1, <1>5, <3>1
  <2>3. text \o (B \o V) = rest
    BY SMTT(30), <1>0, ConcatAssociative
  <2> QED
    BY <2>2, <2>3
<1>8. \A e : Contains(rest, e) => Contains(text, e) \/ e = " " \/ e = v
  <2>1. text \o B \in Seq(Cell)
    BY <1>3, <1>4, JoinIs
  <2> QED
    BY <1>3, <1>4, <2>1, ContainsJoin
<1> HIDE DEF rest
<1>9. ~Contains(M, " ")
  BY <1>2, <1>4
<1>10. line \in Seq(Cell) /\ Contains(line, " ") /\ Before(line, " ") = M /\ After(line, " ") = rest
  <2>1. line = (M \o <<" ">>) \o rest
    BY <1>7 DEF B
  <2>2. rest \in Seq(Cell) /\ " " \in Cell
    BY <1>2, <1>6
  <2> QED
    BY ZenonT(60), <1>0, <1>9, <2>1, <2>2, SplitIs
<1>11. ~Contains(line, "CR")
  <2>1. M \o B \in Seq(Cell)
    BY <1>4, JoinIs
  <2>2. Contains(line, "CR") <=> Contains(M, "CR") \/ Contains(B, "CR") \/ Contains(rest, "CR")
    BY <1>4, <1>6, <1>7, <2>1, ContainsJoin
  <2>3. ~Contains(M, "CR") /\ ~Contains(B, "CR")
    BY <1>2, <1>4
  <2>4. ~Contains(rest, "CR")
    BY <1>2, <1>3, <1>8
  <2> QED
    BY <2>2, <2>3, <2>4
<1> QED
  BY <1>6, <1>10, <1>11 DEF m, v, text, line, M, V

(* A request made from six fields has these fields.                        *)
LEMMA FieldsOf ==
    ASSUME NEW s, NEW m, NEW p, NEW q, NEW v, NEW c, NEW r, r = RequestOf(s, m, p, q, v, c)
    PROVE  /\ IsRequest(r) /\ r.state_ = s /\ r.method_ = m /\ r.path_ = p /\ r.query_ = q
           /\ r.version_ = v /\ r.connection = c
  BY DEF RequestOf, IsRequest

(* A request is what its fields are.                                       *)
LEMMA HasFields ==
    ASSUME NEW r, IsRequest(r)
    PROVE  r = RequestOf(r.state_, r.method_, r.path_, r.query_, r.version_, r.connection)
  BY DEF IsRequest, RequestOf

(* Setting one field leaves a request a request, and its state alone.      *)
LEMMA KeepsShape ==
    ASSUME NEW r, IsRequest(r), NEW x
    PROVE  /\ IsRequest([r EXCEPT !.state_ = x]) /\ [r EXCEPT !.state_ = x].state_ = x
           /\ IsRequest([r EXCEPT !.method_ = x]) /\ [r EXCEPT !.method_ = x].state_ = r.state_
           /\ IsRequest([r EXCEPT !.path_ = x]) /\ [r EXCEPT !.path_ = x].state_ = r.state_
           /\ IsRequest([r EXCEPT !.query_ = x]) /\ [r EXCEPT !.query_ = x].state_ = r.state_
           /\ IsRequest([r EXCEPT !.version_ = x]) /\ [r EXCEPT !.version_ = x].state_ = r.state_
           /\ IsRequest([r EXCEPT !.connection = x]) /\ [r EXCEPT !.connection = x].state_ = r.state_
<1> DEFINE f == RequestOf(r.state_, r.method_, r.path_, r.query_, r.version_, r.connection)
<1>1. r = f
  BY HasFields
<1>3. IsRequest([r EXCEPT !.state_ = x]) /\ [r EXCEPT !.state_ = x].state_ = x
  <2>1. [r EXCEPT !.state_ = x] = RequestOf(x, r.method_, r.path_, r.query_, r.version_, r.connection)
    BY <1>1 DEF RequestOf
  <2> QED
    BY <2>1, FieldsOf
<1>4. IsRequest([r EXCEPT !.method_ = x]) /\ [r EXCEPT !.method_ = x].state_ = r.state_
  <2>1. [r EXCEPT !.method_ = x] = RequestOf(r.state_, x, r.path_, r.query_, r.version_, r.connection)
    BY <1>1 DEF RequestOf
  <2> QED
    BY <2>1, FieldsOf
<1>5. IsRequest([r EXCEPT !.path_ = x]) /\ [r EXCEPT !.path_ = x].state_ = r.state_
  <2>1. [r EXCEPT !.path_ = x] = RequestOf(r.state_, r.method_, x, r.query_, r.version_, r.connection)
    BY <1>1 DEF RequestOf
  <2> QED
    BY <2>1, FieldsOf
<1>6. IsRequest([r EXCEPT !.query_ = x]) /\ [r EXCEPT !.query_ = x].state_ = r.state_
  <2>1. [r EXCEPT !.query_ = x] = RequestOf(r.state_, r.method_, r.path_, x, r.version_, r.connection)
    BY <1>1 DEF RequestOf
  <2> QED
    BY <2>1, FieldsOf
<1>7. IsRequest([r EXCEPT !.version_ = x]) /\ [r EXCEPT !.version_ = x].state_ = r.state_
  <2>1. [r EXCEPT !.version_ = x] = RequestOf(r.state_, r.method_, r.path_, r.query_, x, r.connection)
    BY <1>1 DEF RequestOf
  <2> QED
    BY <2>1, FieldsOf
<1>8. IsRequest([r EXCEPT !.connection = x]) /\ [r EXCEPT !.connection = x].state_ = r.state_
  <2>1. [r EXCEPT !.connection = x] = RequestOf(r.state_, r.method_, r.path_, r.query_, r.version_, x)
    BY <1>1 DEF RequestOf
  <2> QED
    BY <2>1, FieldsOf
<1> QED
  BY <1>3, <1>4, <1>5, <1>6, <1>7, <1>8

(* Whatever the line is, parsing it leaves a request, and its state.       *)
LEMMA ParseKeeps ==
    ASSUME NEW r, IsRequest(r), NEW line
    PROVE  /\ IsRequest(parseRequestLine(r, line)) /\ parseRequestLine(r, line).state_ = r.state_
           /\ IsRequest(parseHeader(r, line)) /\ parseHeader(r, line).state_ = r.state_
           /\ \A x : /\ IsRequest([parseRequestLine(r, line) EXCEPT !.state_ = x])
                     /\ [parseRequestLine(r, line) EXCEPT !.state_ = x].state_ = x
<1> DEFINE Same(t) == IsRequest(t) /\ t.state_ = r.state_
<1>0. Same(r)
  OBVIOUS
<1>1. ASSUME NEW t, Same(t), NEW text PROVE Same(setMethod(t, text)) /\ Same(setVersion(t, text))
  <2>1. ASSUME NEW x PROVE Same([t EXCEPT !.method_ = x]) /\ Same([t EXCEPT !.version_ = x])
    BY <1>1, KeepsShape
  <2> QED
    BY <2>1 DEF setMethod, setVersion
<1>2. ASSUME NEW t, Same(t), NEW text PROVE Same(SetTarget(t, text))
  <2>1. ASSUME NEW x, NEW y
        PROVE  Same([t EXCEPT !.path_ = x]) /\ Same([t EXCEPT !.path_ = x, !.query_ = y])
    <3>1. PICK d : d = [t EXCEPT !.path_ = x]
      OBVIOUS
    <3>2. Same(d)
      BY <1>2, <3>1, KeepsShape
    <3>3. [t EXCEPT !.path_ = x, !.query_ = y] = [d EXCEPT !.query_ = y]
      BY <1>2, <3>1 DEF IsRequest
    <3>4. Same([d EXCEPT !.query_ = y])
      BY <3>2, KeepsShape
    <3> QED
      BY <3>1, <3>2, <3>3, <3>4
  <2> QED
    BY <2>1 DEF SetTarget
<1>3. Same(parseHeader(r, line))
  <2>1. Same([r EXCEPT !.connection = ValueOf(line)])
    BY KeepsShape
  <2> QED
    BY <1>0, <2>1 DEF parseHeader
<1>4. Same(parseRequestLine(r, line))
  <2> HIDE DEF Same
  <2> DEFINE rest == After(line, " ")
             method == setMethod(r, Before(line, " "))
             target == SetTarget(method, Before(rest, " "))
             version == After(rest, " ")
  <2>1. Same(method)
    BY <1>0, <1>1
  <2>2. Same(target)
    BY <1>2, <2>1
  <2>3. Same(setVersion(target, version))
    BY <1>1, <2>2
  <2>4. CASE ~Contains(line, " ")
    BY <1>0, <2>4 DEF parseRequestLine
  <2>5. CASE Contains(line, " ") /\ (method.method_ = "Invalid" \/ ~Contains(rest, " "))
    <3>1. parseRequestLine(r, line) = method
      BY <2>5 DEF parseRequestLine
    <3> QED
      BY <2>1, <3>1
  <2>6. CASE Contains(line, " ") /\ method.method_ # "Invalid" /\ Contains(rest, " ")
    <3>1. parseRequestLine(r, line) = IF version = <<>> THEN target ELSE setVersion(target, version)
      BY <2>6 DEF parseRequestLine
    <3> QED
      BY <2>2, <2>3, <3>1
  <2> QED
    BY <2>4, <2>5, <2>6
<1>5. ASSUME NEW x
      PROVE  /\ IsRequest([parseRequestLine(r, line) EXCEPT !.state_ = x])
             /\ [parseRequestLine(r, line) EXCEPT !.state_ = x].state_ = x
  BY ZenonT(60), <1>4, KeepsShape
<1> QED
  BY <1>3, <1>4, <1>5

(* The request line is parsed into what the peer meant, but for the method *)
(* OPTIONS, which the parser does not know.                                *)
LEMMA ParsedLine ==
    ASSUME NEW r \in Requests
    PROVE  /\ LineOK(RequestLine(r)) <=> r.method_ # "OPTIONS"
           /\ r.method_ # "OPTIONS" =>
                  [parseRequestLine(NewRequest, RequestLine(r)) EXCEPT !.state_ = "ExpectHeaders"] =
                      RequestOf("ExpectHeaders", r.method_, <<"/">>, r.query_, r.version_, <<>>)
<1> DEFINE m == r.method_
           v == r.version_
           q == r.query_
           line == RequestLine(r)
           rest == After(line, " ")
           text == Target(<<"/">>, q)
           start == NewRequest
<1>1. /\ Contains(line, " ") /\ Before(line, " ") = <<m>>
      /\ Contains(rest, " ") /\ Before(rest, " ") = text
      /\ After(rest, " ") = <<v>>
  BY LineOfRequest
<1>2. m \in {"GET", "POST", "PUT", "DELETE", "HEAD", "OPTIONS"} /\ v \in Versions
  BY RequestIs, ConstantsOK
<1>3. start = RequestOf("ExpectRequestLine", "Invalid", <<>>, <<>>, "Unknown", <<>>)
  BY DEF NewRequest, RequestOf
<1> HIDE DEF m, v, q, line, rest, text, start
<1>4. /\ m = "OPTIONS" => setMethod(start, <<m>>).method_ = "Invalid"
      /\ m # "OPTIONS" => setMethod(start, <<m>>) = RequestOf("ExpectRequestLine", m, <<>>, <<>>, "Unknown", <<>>)
  <2>1. ASSUME NEW x
        PROVE  [start EXCEPT !.method_ = x] = RequestOf("ExpectRequestLine", x, <<>>, <<>>, "Unknown", <<>>)
    BY <1>3 DEF RequestOf
  <2>2. ASSUME m = "OPTIONS" PROVE <<m>> \notin {<<"GET">>, <<"POST">>, <<"PUT">>, <<"DELETE">>, <<"HEAD">>}
    BY <2>2
  <2>3. ASSUME m # "OPTIONS"
        PROVE  <<m>> \in {<<"GET">>, <<"POST">>, <<"PUT">>, <<"DELETE">>, <<"HEAD">>} /\ Head(<<m>>) = m
    BY <1>2, <2>3
  <2>4. ASSUME m = "OPTIONS" PROVE setMethod(start, <<m>>).method_ = "Invalid"
    <3>1. setMethod(start, <<m>>) = [start EXCEPT !.method_ = "Invalid"]
      BY <2>2, <2>4 DEF setMethod
    <3>2. setMethod(start, <<m>>) = RequestOf("ExpectRequestLine", "Invalid", <<>>, <<>>, "Unknown", <<>>)
      BY <2>1, <3>1
    <3> QED
      BY <3>2, FieldsOf
  <2>5. ASSUME m # "OPTIONS"
        PROVE  setMethod(start, <<m>>) = RequestOf("ExpectRequestLine", m, <<>>, <<>>, "Unknown", <<>>)
    <3>1. setMethod(start, <<m>>) = [start EXCEPT !.method_ = m]
      BY <2>3, <2>5 DEF setMethod
    <3> QED
      BY <2>1, <3>1
  <2> QED
    BY <2>4, <2>5
<1>5. ASSUME NEW t, NEW s, NEW m1, NEW p, NEW q1, NEW c, t = RequestOf(s, m1, p, q1, "Unknown", c)
      PROVE  setVersion(t, <<v>>) = RequestOf(s, m1, p, q1, v, c)
  <2>1. <<v>> \in {<<w>> : w \in Versions} /\ Head(<<v>>) = v
    BY <1>2
  <2>2. setVersion(t, <<v>>) = [t EXCEPT !.version_ = v]
    BY <2>1 DEF setVersion
  <2>3. [t EXCEPT !.version_ = v] = RequestOf(s, m1, p, q1, v, c)
    BY <1>5 DEF RequestOf
  <2> QED
    BY <2>2, <2>3
<1>6. LineOK(line) <=> m # "OPTIONS"
  <2>1. setMethod(start, <<m>>).method_ # "Invalid" <=> m # "OPTIONS"
    BY <1>2, <1>4, FieldsOf
  <2>2. setVersion(start, <<v>>).version_ # "Unknown"
    BY <1>2, <1>3, <1>5, FieldsOf DEF Versions
  <2> QED
    BY <1>1, <2>1, <2>2 DEF LineOK, rest, start
<1>7. ASSUME m # "OPTIONS"
      PROVE  [parseRequestLine(start, line) EXCEPT !.state_ = "ExpectHeaders"] =
                 RequestOf("ExpectHeaders", m, <<"/">>, q, v, <<>>)
  <2> DEFINE method == setMethod(start, <<m>>)
             target == SetTarget(method, text)
  <2>1. method = RequestOf("ExpectRequestLine", m, <<>>, <<>>, "Unknown", <<>>) /\ method.method_ = m
    BY <1>4, <1>7, FieldsOf
  <2>2. parseRequestLine(start, line) = setVersion(target, <<v>>)
    <3>1. m # "Invalid" /\ <<v>> # <<>>
      BY <1>2
    <3>2. parseRequestLine(start, line) =
              CASE ~Contains(line, " ") -> start
                [] Contains(line, " ") /\ (method.method_ = "Invalid" \/ ~Contains(rest, " ")) -> method
                [] Contains(line, " ") /\ method.method_ # "Invalid" /\ Contains(rest, " ") ->
                       IF <<v>> = <<>> THEN target ELSE setVersion(target, <<v>>)
      BY <1>1 DEF parseRequestLine, rest
    <3> HIDE DEF method, target
    <3> QED
      BY <1>1, <2>1, <3>1, <3>2
  <2> HIDE DEF method
  <2>3. target = RequestOf("ExpectRequestLine", m, <<"/">>, q, "Unknown", <<>>)
    <3>1. CASE q = <<>>
      <4>1. target = [method EXCEPT !.path_ = <<"/">>]
        BY <3>1, RequestIs, TargetIs DEF SetTarget, text, q
      <4> QED
        BY <2>1, <3>1, <4>1 DEF RequestOf
    <3>2. CASE q # <<>>
      <4>1. target = [method EXCEPT !.path_ = <<"/">>, !.query_ = q]
        BY <3>2, RequestIs, TargetIs DEF SetTarget, text, q
      <4>2. PICK d : d = [method EXCEPT !.path_ = <<"/">>]
        OBVIOUS
      <4>3. [method EXCEPT !.path_ = <<"/">>, !.query_ = q] = [d EXCEPT !.query_ = q]
        BY <2>1, <4>2 DEF RequestOf
      <4>4. d = RequestOf("ExpectRequestLine", m, <<"/">>, <<>>, "Unknown", <<>>)
        BY <2>1, <4>2 DEF RequestOf
      <4>5. [d EXCEPT !.query_ = q] = RequestOf("ExpectRequestLine", m, <<"/">>, q, "Unknown", <<>>)
        BY <4>4 DEF RequestOf
      <4> QED
        BY <4>1, <4>3, <4>5
    <3> QED
      BY <3>1, <3>2
  <2> HIDE DEF target
  <2>4. parseRequestLine(start, line) = RequestOf("ExpectRequestLine", m, <<"/">>, q, v, <<>>)
    BY <1>5, <2>2, <2>3
  <2> QED
    BY <2>4 DEF RequestOf
<1> QED
  BY <1>6, <1>7 DEF m, v, q, line, start

(* A header by its four words, whatever they are.                          *)
LEMMA FourIs ==
    ASSUME NEW k \in Cell, NEW c \in Cell, NEW s \in Cell, NEW h \in Cell, k # c,
           NEW line, line = <<k, c, s, h>>
    PROVE  /\ line \in Seq(Cell) /\ Len(line) = 4
           /\ \A e : Contains(line, e) => e = k \/ e = c \/ e = s \/ e = h
           /\ Contains(line, h) /\ Contains(line, c) /\ Before(line, c) = <<k>> /\ After(line, c) = <<s, h>>
           /\ line = <<k, c, s>> \o <<h>>
<1> DEFINE K == <<k>>
           C == <<c>>
           T == <<s, h>>
           U == <<k, c, s>>
           H == <<h>>
<1>1. /\ K \in Seq(Cell) /\ Len(K) = 1 /\ K[1] = k /\ C \in Seq(Cell) /\ Len(C) = 1 /\ C[1] = c
      /\ H \in Seq(Cell) /\ Len(H) = 1 /\ H[1] = h
  BY OneIs
<1>2. T \in Seq(Cell) /\ Len(T) = 2 /\ T[1] = s /\ T[2] = h
  OBVIOUS
<1>3. U \in Seq(Cell) /\ Len(U) = 3 /\ U[1] = k /\ U[2] = c /\ U[3] = s
  OBVIOUS
<1>4. /\ line \in Seq(Cell) /\ Len(line) = 4 /\ line[1] = k /\ line[2] = c /\ line[3] = s /\ line[4] = h
      /\ \A i \in 1 .. 4 : i = 1 \/ i = 2 \/ i = 3 \/ i = 4
  OBVIOUS
<1>5. ~Contains(K, c)
  BY OneIs
<1>6. C = <<c>>
  OBVIOUS
<1> HIDE DEF K, C, T, U, H
<1>7. line = (K \o C) \o T
  <2> DEFINE d == K \o C
  <2>1. /\ d \in Seq(Cell) /\ Len(d) = Len(K) + Len(C)
        /\ \A i \in 1 .. Len(K) : d[i] = K[i]
        /\ \A i \in 1 .. Len(C) : d[Len(K) + i] = C[i]
    BY <1>1, JoinIs
  <2>2. d[1] = k /\ d[2] = c /\ Len(d) = 2
    BY <1>1, <2>1
  <2> HIDE DEF d
  <2>3. /\ d \o T \in Seq(Cell) /\ Len(d \o T) = Len(d) + Len(T)
        /\ \A i \in 1 .. Len(d) : (d \o T)[i] = d[i]
        /\ \A i \in 1 .. Len(T) : (d \o T)[Len(d) + i] = T[i]
    BY <1>2, <2>1, JoinIs
  <2>4. (d \o T)[1] = k /\ (d \o T)[2] = c /\ Len(d \o T) = 4
    BY <1>2, <2>2, <2>3
  <2>5. (d \o T)[3] = s /\ (d \o T)[4] = h
    <3>1. 1 \in 1 .. Len(T) /\ 2 \in 1 .. Len(T) /\ Len(d) + 1 = 3 /\ Len(d) + 2 = 4
      BY <1>2, <2>2
    <3> QED
      BY <1>2, <2>3, <3>1
  <2>6. \A i \in 1 .. Len(line) : line[i] = (d \o T)[i]
    BY <1>4, <2>4, <2>5
  <2>7. line = d \o T
    BY <1>4, <2>3, <2>4, <2>6, SeqEqual
  <2> QED
    BY <2>7 DEF d
<1>8. line = U \o H
  <2>1. /\ U \o H \in Seq(Cell) /\ Len(U \o H) = Len(U) + Len(H)
        /\ \A i \in 1 .. Len(U) : (U \o H)[i] = U[i]
        /\ \A i \in 1 .. Len(H) : (U \o H)[Len(U) + i] = H[i]
    BY <1>1, <1>3, JoinIs
  <2>2. /\ Len(U \o H) = 4 /\ (U \o H)[1] = k /\ (U \o H)[2] = c /\ (U \o H)[3] = s /\ (U \o H)[4] = h
    <3>1. 1 \in 1 .. Len(H) /\ Len(U) + 1 = 4
      BY <1>1, <1>3
    <3> QED
      BY <1>1, <1>3, <2>1, <3>1
  <2>3. \A i \in 1 .. Len(line) : line[i] = (U \o H)[i]
    BY <1>4, <2>2
  <2> QED
    BY <1>4, <2>1, <2>2, <2>3, SeqEqual
<1>9. Contains(line, c) /\ Before(line, c) = K /\ After(line, c) = T
  <2>1. line = (K \o <<c>>) \o T
    BY <1>6, <1>7
  <2> QED
    <3>1. K \in Seq(Cell) /\ T \in Seq(Cell)
      BY <1>1, <1>2
    <3> QED
      BY <1>5, <2>1, <3>1, SplitIs
<1>10. \A e : Contains(line, e) => e = k \/ e = c \/ e = s \/ e = h
  BY <1>4 DEF Contains
<1>11. Contains(line, h)
  BY <1>4 DEF Contains
<1> QED
  BY <1>4, <1>8, <1>9, <1>10, <1>11 DEF K, T, U, H

(* A value behind one space.                                               *)
LEMMA SecondIs ==
    ASSUME NEW s \in Cell, NEW h \in Cell, s # h, NEW t, t = <<s, h>>
    PROVE  {i \in 1 .. Len(t) : t[i] # s} = {2} /\ SubSeq(t, 2, 2) = <<h>>
<1> DEFINE e == <<h>>
           f == SubSeq(t, 2, 2)
<1>1. t \in Seq(Cell) /\ Len(t) = 2 /\ t[1] = s /\ t[2] = h /\ \A i \in 1 .. 2 : i = 1 \/ i = 2
  OBVIOUS
<1>2. {i \in 1 .. Len(t) : t[i] # s} = {2}
  BY <1>1
<1>4. e \in Seq(Cell) /\ Len(e) = 1 /\ e[1] = h
  OBVIOUS
<1> HIDE DEF e
<1>5. /\ f \in Seq(Cell) /\ Len(f) = 1 /\ f[1] = h
  <2>1. /\ SubSeq(t, 1 + 1, 2) \in Seq(Cell) /\ Len(SubSeq(t, 1 + 1, 2)) = IF 1 <= 2 THEN 2 - 1 ELSE 0
        /\ \A i \in 1 .. Len(SubSeq(t, 1 + 1, 2)) : SubSeq(t, 1 + 1, 2)[i] = t[1 + i]
    <3>1. 1 \in Nat /\ 2 \in Nat /\ 2 <= Len(t)
      BY <1>1
    <3> QED
      BY <1>1, <3>1, PartIs
  <2>2. 1 + 1 = 2
    OBVIOUS
  <2> QED
    BY <1>1, <2>1, <2>2
<1> HIDE DEF f
<1>6. \A i \in 1 .. Len(f) : f[i] = e[i]
  BY <1>4, <1>5
<1>7. f = e
  BY <1>4, <1>5, <1>6, SeqEqual
<1> QED
  BY <1>2, <1>7 DEF e, f

(* The line of a header and what parseHeader makes of it.                  *)
LEMMA HeaderIs ==
    ASSUME NEW h \in {"close", "Keep-Alive"}
    PROVE  LET line == <<"Connection", ":", " ", h>>
           IN  /\ line \in Seq(Cell) /\ Len(line) = 4 /\ ~Contains(line, "CR") /\ Contains(line, ":")
               /\ Contains(line, h)
               /\ \A e : Contains(line, e) => e = "Connection" \/ e = ":" \/ e = " " \/ e = h
               /\ Before(line, ":") = <<"Connection">> /\ ValueOf(line) = <<h>>
               /\ Header(<<h>>) = line \o Crlf
<1> DEFINE line == <<"Connection", ":", " ", h>>
<1>1. h \in Cell /\ "Connection" \in Cell /\ ":" \in Cell /\ " " \in Cell
  BY CellIs
<1>0. h \in Cell
  BY <1>1
<1>2. h \in {"close", "Keep-Alive"}
  OBVIOUS
<1>3. h # " " /\ h # "CR" /\ "Connection" # ":"
  BY <1>2
<1>4. /\ line \in Seq(Cell) /\ Len(line) = 4
      /\ \A e : Contains(line, e) => e = "Connection" \/ e = ":" \/ e = " " \/ e = h
      /\ Contains(line, h)
      /\ Contains(line, ":") /\ Before(line, ":") = <<"Connection">> /\ After(line, ":") = <<" ", h>>
      /\ line = <<"Connection", ":", " ">> \o <<h>>
  <2>1. PICK k \in Cell, c \in Cell, s \in Cell : k = "Connection" /\ c = ":" /\ s = " "
    BY <1>1
  <2>2. k # c
    BY <1>3, <2>1
  <2>3. line = <<k, c, s, h>>
    BY <2>1
  <2> HIDE DEF line
  <2>4. /\ line \in Seq(Cell) /\ Len(line) = 4
        /\ \A e : Contains(line, e) => e = k \/ e = c \/ e = s \/ e = h
        /\ Contains(line, h)
        /\ Contains(line, c) /\ Before(line, c) = <<k>> /\ After(line, c) = <<s, h>>
        /\ line = <<k, c, s>> \o <<h>>
    BY <1>0, <2>2, <2>3, FourIs
  <2> QED
    BY <2>1, <2>4
<1> HIDE DEF line
<1>5. ValueOf(line) = <<h>>
  <2> DEFINE t == <<" ", h>>
             word == {i \in 1 .. Len(t) : t[i] # " "}
  <2>1. word # {} /\ SubSeq(t, Min(word), Max(word)) = <<h>>
    <3>1. PICK s \in Cell : s = " "
      BY <1>1
    <3>2. s # h
      BY <1>3, <3>1
    <3>3. t = <<s, h>>
      BY <3>1
    <3> HIDE DEF t, word
    <3>4. {i \in 1 .. Len(t) : t[i] # s} = {2} /\ SubSeq(t, 2, 2) = <<h>>
      BY <1>0, <3>2, <3>3, SecondIs
    <3>5. word = {2}
      BY <3>1, <3>4 DEF word
    <3>6. Min(word) = 2 /\ Max(word) = 2
      BY <3>5 DEF Min, Max
    <3> QED
      BY <3>4, <3>5, <3>6
  <2>2. ValueOf(line) = IF word = {} THEN <<>> ELSE SubSeq(t, Min(word), Max(word))
    BY <1>4 DEF ValueOf
  <2> HIDE DEF word, t
  <2> QED
    BY <2>1, <2>2
<1>6. Header(<<h>>) = line \o Crlf
  <2>1. Header(<<h>>) = (<<"Connection", ":", " ">> \o <<h>>) \o Crlf
    BY DEF Header
  <2> QED
    BY <1>4, <2>1
<1>7. ~Contains(line, "CR")
  BY <1>3, <1>4
<1> QED
  BY <1>4, <1>5, <1>6, <1>7 DEF line

-------------------------------------------------------------------------------
(* The stream.                                                             *)

(* The two cells of a CRLF.                                                *)
LEMMA CrlfIs == Crlf \in Seq(Cell) /\ Len(Crlf) = 2 /\ Crlf[1] = "CR" /\ Crlf[2] = "LF"
<1>1. "CR" \in Cell /\ "LF" \in Cell
  BY CellIs
<1> QED
  BY <1>1, PairIs DEF Crlf

(* A line, a header and CRLFs; the line with its CRLF ends at n, the       *)
(* header at m.                                                            *)
IsMessage(s, l, h, n, m) ==
    /\ s \in Seq(Cell) /\ Len(s) = m + 2 /\ n \in Nat /\ m \in Nat /\ n <= m
    /\ \A i \in 1 .. Len(l) : s[i] = l[i]
    /\ s[Len(l) + 1] = "CR" /\ s[Len(l) + 2] = "LF"
    /\ \A i \in 1 .. Len(h) : s[n + i] = h[i]
    /\ s[m + 1] = "CR" /\ s[m + 2] = "LF"

(* A line, CRLF, header and CRLF put together are such a message.          *)
LEMMA MessageIs ==
    ASSUME NEW l \in Seq(Cell), NEW h \in Seq(Cell), NEW s, s = ((l \o Crlf) \o h) \o Crlf,
           NEW n, n = Len(l) + 2, NEW m, m = n + Len(h)
    PROVE  IsMessage(s, l, h, n, m)
<1> DEFINE a == l \o Crlf
           b == a \o h
<1>0. Len(l) \in Nat /\ Len(h) \in Nat /\ n \in Nat /\ m \in Nat /\ n <= m
  OBVIOUS
<1>1. /\ a \in Seq(Cell) /\ Len(a) = Len(l) + Len(Crlf)
      /\ \A i \in 1 .. Len(l) : a[i] = l[i]
      /\ \A i \in 1 .. Len(Crlf) : a[Len(l) + i] = Crlf[i]
  BY CrlfIs, JoinIs
<1>2. 1 \in 1 .. Len(Crlf) /\ 2 \in 1 .. Len(Crlf)
  BY CrlfIs
<1>3. Len(a) = n /\ a[Len(l) + 1] = "CR" /\ a[Len(l) + 2] = "LF"
  BY <1>0, <1>1, <1>2, CrlfIs
<1> HIDE DEF a
<1>4. /\ b \in Seq(Cell) /\ Len(b) = Len(a) + Len(h)
      /\ \A i \in 1 .. Len(a) : b[i] = a[i]
      /\ \A i \in 1 .. Len(h) : b[Len(a) + i] = h[i]
  BY <1>1, JoinIs
<1> HIDE DEF b
<1>5. /\ s \in Seq(Cell) /\ Len(s) = Len(b) + Len(Crlf)
      /\ \A i \in 1 .. Len(b) : s[i] = b[i]
      /\ \A i \in 1 .. Len(Crlf) : s[Len(b) + i] = Crlf[i]
  BY ZenonT(60), <1>4, CrlfIs, JoinIs DEF a, b
<1>6. Len(b) = m
  BY <1>3, <1>4
<1>7. Len(s) = m + 2 /\ s[m + 1] = "CR" /\ s[m + 2] = "LF"
  BY <1>2, <1>5, <1>6, CrlfIs
<1>8. \A i \in 1 .. Len(l) : s[i] = l[i]
  <2> SUFFICES ASSUME NEW i \in 1 .. Len(l) PROVE s[i] = l[i]
    OBVIOUS
  <2>1. i \in 1 .. Len(a) /\ i \in 1 .. Len(b)
    BY <1>0, <1>3, <1>6
  <2> QED
    BY <1>1, <1>4, <1>5, <2>1
<1>9. s[Len(l) + 1] = "CR" /\ s[Len(l) + 2] = "LF"
  <2>1. /\ Len(l) + 1 \in 1 .. Len(a) /\ Len(l) + 1 \in 1 .. Len(b)
        /\ Len(l) + 2 \in 1 .. Len(a) /\ Len(l) + 2 \in 1 .. Len(b)
    BY <1>0, <1>3, <1>6
  <2> QED
    BY <1>3, <1>4, <1>5, <2>1
<1>10. \A i \in 1 .. Len(h) : s[n + i] = h[i]
  <2> SUFFICES ASSUME NEW i \in 1 .. Len(h) PROVE s[n + i] = h[i]
    OBVIOUS
  <2>1. n + i \in 1 .. Len(b) /\ b[n + i] = h[i]
    BY <1>0, <1>3, <1>4, <1>6
  <2> QED
    BY <1>5, <2>1
<1> QED
  BY <1>0, <1>5, <1>7, <1>8, <1>9, <1>10 DEF IsMessage

(* The header of a request, which may have none.                           *)
LEMMA HeaderSeq ==
    ASSUME NEW r \in Requests
    PROVE  /\ Header(r.connection) \in Seq(Cell)
           /\ r.connection = <<>> => Header(r.connection) = <<>>
<1>1. CASE r.connection = <<>>
  BY <1>1, NoneIs DEF Header
<1>2. CASE r.connection # <<>>
  <2>1. PICK h \in Headers : r.connection = <<h>>
    BY <1>2, RequestIs
  <2> DEFINE line == <<"Connection", ":", " ", h>>
  <2>2. line \in Seq(Cell) /\ Header(<<h>>) = line \o Crlf
    BY HeaderIs, ConstantsOK
  <2> HIDE DEF line
  <2>3. line \o Crlf \in Seq(Cell)
    BY <2>2, CrlfIs, JoinIs
  <2> QED
    BY <1>2, <2>1, <2>2, <2>3
<1> QED
  BY <1>1, <1>2

(* The requests after the first one are cells, too.                        *)
LEMMA MoreIs == Repeated(Request(Simple), MaxRequests - 1) \in Seq(Cell)
<1> DEFINE l == RequestLine(Simple)
           s == Request(Simple)
           n == MaxRequests - 1
<1>1. l \in Seq(Cell)
  <2> DEFINE a == <<"GET", " ">>
             b == Target(<<"/">>, <<>>)
             c == <<" ", "HTTP/1.1">>
  <2>1. l = (a \o b) \o c
    BY DEF RequestLine, Simple
  <2>2. "GET" \in Cell /\ " " \in Cell /\ "HTTP/1.1" \in Cell /\ "/" \in Cell
    BY CellIs DEF Cell, Words
  <2>3. a \in Seq(Cell) /\ c \in Seq(Cell) /\ <<"/">> \in Seq(Cell)
    BY <2>2, PairIs, OneIs
  <2>4. b = <<"/">>
    BY <2>3, ConcatEmptySeq DEF Target
  <2>5. b \in Seq(Cell)
    BY <2>3, <2>4
  <2> HIDE DEF a, b, c
  <2>6. a \o b \in Seq(Cell)
    BY <2>3, <2>5, JoinIs
  <2> QED
    BY <2>1, <2>3, <2>6, JoinIs
<1>2. s \in Seq(Cell)
  <2> DEFINE h == <<>>
  <2>1. s = ((l \o Crlf) \o <<>>) \o Crlf
    BY DEF Request, Simple, Header
  <2>2. <<>> \in Seq(Cell)
    BY NoneIs
  <2> HIDE DEF l, s
  <2> QED
    BY <1>1, <2>1, <2>2, MessageIs DEF IsMessage
<1>3. n \in Nat
  <2>1. MaxRequests \in Nat \ {0}
    BY ConstantsOK
  <2> QED
    BY <2>1
<1> HIDE DEF s, n
<1>4. n * Len(s) \in Nat /\ Len(s) \in Nat
  BY <1>2, <1>3
<1> DEFINE f == Repeated(s, n)
<1>5. DOMAIN f = 1 .. n * Len(s) /\ f = [i \in 1 .. n * Len(s) |-> f[i]]
  BY DEF Repeated
<1>6. \A i \in 1 .. n * Len(s) : f[i] \in Cell
  <2> SUFFICES ASSUME NEW i \in 1 .. n * Len(s) PROVE f[i] \in Cell
    OBVIOUS
  <2>1. f[i] = s[((i - 1) % Len(s)) + 1]
    BY DEF Repeated
  <2>2. Len(s) > 0
    <3>1. ASSUME Len(s) = 0 PROVE FALSE
      <4>1. n * Len(s) = 0
        BY <1>3, <3>1
      <4> QED
        BY <4>1
    <3> QED
      BY <1>4, <3>1
  <2>3. ((i - 1) % Len(s)) + 1 \in 1 .. Len(s)
    <3>1. i - 1 \in Nat
      BY <1>4
    <3> QED
      BY <1>4, <2>2, <3>1
  <2> QED
    BY <1>2, <2>1, <2>3
<1> HIDE DEF f
<1>7. f \in Seq(Cell)
  BY <1>4, <1>5, <1>6, SeqIs
<1> QED
  BY <1>7 DEF f, s, n

(* The stream begins with the first request; where its parts end.          *)
LEMMA StreamIs ==
    ASSUME SentOK
    PROVE  LET l == RequestLine(asked)
               h == Header(asked.connection)
           IN  /\ l \in Seq(Cell) /\ h \in Seq(Cell) /\ AfterLine = Len(l) + 2 /\ AfterHeader = AfterLine + Len(h)
               /\ AfterLine \in Nat /\ AfterHeader \in Nat /\ AfterLine <= AfterHeader
               /\ Len(stream) \in Nat /\ AfterHeader + 2 <= Len(stream) /\ Len(Request(asked)) = AfterHeader + 2
               /\ \A i \in 1 .. Len(l) : stream[i] = l[i]
               /\ stream[Len(l) + 1] = "CR" /\ stream[Len(l) + 2] = "LF"
               /\ \A i \in 1 .. Len(h) : stream[AfterLine + i] = h[i]
               /\ stream[AfterHeader + 1] = "CR" /\ stream[AfterHeader + 2] = "LF"
<1> DEFINE l == RequestLine(asked)
           h == Header(asked.connection)
           s == Request(asked)
           more == Repeated(Request(Simple), MaxRequests - 1)
<1>0. asked \in Requests /\ stream \in Seq(Cell) /\ stream = s \o more
  BY DEF SentOK
<1>1. l \in Seq(Cell) /\ h \in Seq(Cell)
  BY <1>0, LineOfRequest, HeaderSeq
<1>2. s = ((l \o Crlf) \o h) \o Crlf
  BY DEF Request
<1>3. AfterLine = Len(l) + 2 /\ AfterHeader = AfterLine + Len(h)
  BY DEF AfterLine, AfterHeader
<1> HIDE DEF l, h, s, more
<1>11. IsMessage(s, l, h, AfterLine, AfterHeader)
  BY <1>1, <1>2, <1>3, MessageIs
<1>4. /\ s \in Seq(Cell) /\ Len(s) = AfterHeader + 2 /\ AfterLine \in Nat /\ AfterHeader \in Nat
      /\ AfterLine <= AfterHeader
      /\ \A i \in 1 .. Len(l) : s[i] = l[i]
      /\ s[Len(l) + 1] = "CR" /\ s[Len(l) + 2] = "LF"
      /\ \A i \in 1 .. Len(h) : s[AfterLine + i] = h[i]
      /\ s[AfterHeader + 1] = "CR" /\ s[AfterHeader + 2] = "LF"
  BY <1>11 DEF IsMessage
<1>5. Len(s) <= Len(stream) /\ \A i \in 1 .. Len(s) : stream[i] = s[i]
  <2>1. DOMAIN stream = 1 .. Len(stream) /\ Len(stream) \in Nat
    BY <1>0
  <2>2. /\ Len(s \o more) = Len(s) + Len(more)
        /\ \A i \in 1 .. Len(s) : (s \o more)[i] = s[i]
        /\ Len(more) \in Nat
    <3>1. more \in Seq(Cell)
      BY MoreIs DEF more
    <3> QED
      BY <1>4, <3>1, JoinIs
  <2> QED
    BY <1>0, <1>4, <2>2
<1>6. Len(stream) \in Nat /\ AfterHeader + 2 <= Len(stream)
  BY <1>0, <1>4, <1>5
<1>7. \A i \in 1 .. Len(l) : stream[i] = l[i]
  <2> SUFFICES ASSUME NEW i \in 1 .. Len(l) PROVE stream[i] = l[i]
    OBVIOUS
  <2>1. i \in 1 .. Len(s)
    BY <1>1, <1>3, <1>4
  <2> QED
    BY <1>4, <1>5, <2>1
<1>8. stream[Len(l) + 1] = "CR" /\ stream[Len(l) + 2] = "LF"
  <2>1. Len(l) + 1 \in 1 .. Len(s) /\ Len(l) + 2 \in 1 .. Len(s)
    BY <1>1, <1>3, <1>4
  <2> QED
    BY <1>4, <1>5, <2>1
<1>9. \A i \in 1 .. Len(h) : stream[AfterLine + i] = h[i]
  <2> SUFFICES ASSUME NEW i \in 1 .. Len(h) PROVE stream[AfterLine + i] = h[i]
    OBVIOUS
  <2>1. AfterLine + i \in 1 .. Len(s)
    BY <1>1, <1>3, <1>4
  <2> QED
    BY <1>4, <1>5, <2>1
<1>10. stream[AfterHeader + 1] = "CR" /\ stream[AfterHeader + 2] = "LF"
  <2>1. AfterHeader + 1 \in 1 .. Len(s) /\ AfterHeader + 2 \in 1 .. Len(s)
    BY <1>4
  <2> QED
    BY <1>4, <1>5, <2>1
<1> QED
  BY <1>1, <1>3, <1>4, <1>6, <1>7, <1>8, <1>9, <1>10 DEF l, h, s

-------------------------------------------------------------------------------
(* What the parser sees.                                                   *)

(* What can be read of a buffer that holds a part of the stream.           *)
LEMMA HeldIs ==
    ASSUME NEW b, BufferOK(b), NEW s \in Seq(Cell), NEW p \in Nat, NEW t \in Nat, Holds(b, s, p, t),
           t <= Len(s)
    PROVE  /\ Readable(b) \in Seq(Cell)
           /\ Len(Readable(b)) = IF p <= t THEN t - p ELSE 0
           /\ \A i \in 1 .. Len(Readable(b)) : Readable(b)[i] = s[p + i]
           /\ Readable(b) = SubSeq(s, p + 1, t)
<1> DEFINE r == b.readIndex_
           w == b.writeIndex_
           text == Readable(b)
<1>1. r \in Nat /\ w \in Nat /\ w <= Len(b.buffer_) /\ w - r = t - p /\ Len(b.buffer_) \in Nat
  BY DEF BufferOK, Holds
<1>2. /\ text \in Seq(Cell)
      /\ Len(text) = IF r <= w THEN w - r ELSE 0
      /\ \A i \in 1 .. Len(text) : text[i] = b.buffer_[r + i]
  BY ReadableIs
<1>3. \A i \in 1 .. Len(b.buffer_) : r < i /\ i <= w => b.buffer_[i] = s[i - w + t]
  BY DEF Holds
<1> HIDE DEF r, w, text
<1>4. Len(text) = IF p <= t THEN t - p ELSE 0
  BY <1>1, <1>2
<1>5. \A i \in 1 .. Len(text) : text[i] = s[p + i]
  <2> SUFFICES ASSUME NEW i \in 1 .. Len(text) PROVE text[i] = s[p + i]
    OBVIOUS
  <2>1. r + i \in 1 .. Len(b.buffer_) /\ r < r + i /\ r + i <= w /\ (r + i) - w + t = p + i
    BY <1>1, <1>2
  <2>2. b.buffer_[r + i] = s[(r + i) - w + t]
    BY <1>3, <2>1
  <2> QED
    BY <1>2, <2>1, <2>2
<1>6. /\ SubSeq(s, p + 1, t) \in Seq(Cell)
      /\ Len(SubSeq(s, p + 1, t)) = IF p <= t THEN t - p ELSE 0
      /\ \A i \in 1 .. Len(SubSeq(s, p + 1, t)) : SubSeq(s, p + 1, t)[i] = s[p + i]
  BY PartIs
<1>7. text = SubSeq(s, p + 1, t)
  <2> DEFINE u == SubSeq(s, p + 1, t)
  <2>1. u \in Seq(Cell) /\ Len(text) = Len(u) /\ \A i \in 1 .. Len(text) : text[i] = u[i]
    BY <1>4, <1>5, <1>6
  <2> HIDE DEF u
  <2> QED
    BY <1>2, <2>1, SeqEqual DEF u
<1> QED
  BY <1>2, <1>4, <1>5, <1>7 DEF text

(* Text is the stream between the parser and the socket.                   *)
LEMMA TextIs ==
    ASSUME SentOK, InputOK
    PROVE  /\ Text \in Seq(Cell) /\ Len(Text) \in Nat
           /\ Len(Text) = IF passed <= taken THEN taken - passed ELSE 0
           /\ \A i \in 1 .. Len(Text) : Text[i] = stream[passed + i]
           /\ Text = SubSeq(stream, passed + 1, taken)
<1>1. /\ BufferOK(inputBuffer_) /\ stream \in Seq(Cell) /\ passed \in Nat /\ taken \in Nat
      /\ Holds(inputBuffer_, stream, passed, taken) /\ taken <= Len(stream)
  BY DEF SentOK, InputOK
<1>2. /\ Readable(inputBuffer_) \in Seq(Cell)
      /\ Len(Readable(inputBuffer_)) = IF passed <= taken THEN taken - passed ELSE 0
      /\ \A i \in 1 .. Len(Readable(inputBuffer_)) : Readable(inputBuffer_)[i] = stream[passed + i]
      /\ Readable(inputBuffer_) = SubSeq(stream, passed + 1, taken)
  BY <1>1, HeldIs
<1> QED
  BY <1>1, <1>2 DEF Text

(* The stream goes on with line l and CRLF.                                *)
GoesOnWith(l) ==
    /\ passed <= taken
    /\ \A i \in 1 .. Len(l) : stream[passed + i] = l[i]
    /\ stream[passed + Len(l) + 1] = "CR" /\ stream[passed + Len(l) + 2] = "LF"

(* If the stream goes on with a line the parser sees it once its CRLF has  *)
(* come.                                                                   *)
LEMMA LineOfStream ==
    ASSUME SentOK, InputOK, NEW l \in Seq(Cell), ~Contains(l, "CR"), GoesOnWith(l)
    PROVE  /\ HasLine <=> passed + Len(l) + 2 <= taken
           /\ HasLine => Line = l
<1>1. /\ Text \in Seq(Cell) /\ Len(Text) = taken - passed /\ taken \in Nat /\ passed \in Nat
      /\ \A i \in 1 .. Len(Text) : Text[i] = stream[passed + i]
  BY TextIs DEF GoesOnWith, InputOK
<1>2. Len(l) \in Nat
  OBVIOUS
<1>3. \A i \in 1 .. Len(l) : i <= Len(Text) => Text[i] = l[i]
  BY <1>1 DEF GoesOnWith
<1>4. /\ Len(l) + 1 <= Len(Text) => Text[Len(l) + 1] = "CR"
      /\ Len(l) + 2 <= Len(Text) => Text[Len(l) + 2] = "LF"
  <2>1. Len(l) + 1 <= Len(Text) => Text[Len(l) + 1] = stream[passed + (Len(l) + 1)]
    BY <1>1, <1>2
  <2>2. Len(l) + 2 <= Len(Text) => Text[Len(l) + 2] = stream[passed + (Len(l) + 2)]
    BY <1>1, <1>2
  <2>3. passed + (Len(l) + 1) = passed + Len(l) + 1 /\ passed + (Len(l) + 2) = passed + Len(l) + 2
    BY <1>1, <1>2
  <2> QED
    BY <2>1, <2>2, <2>3 DEF GoesOnWith
<1>5. /\ HasLine <=> Len(l) + 2 <= Len(Text)
      /\ HasLine => Line = l
  BY <1>1, <1>3, <1>4, LineIs
<1> QED
  BY <1>1, <1>2, <1>5

(* Where the parser may stand in the first request.                        *)
LEMMA LinesOfFirst ==
    ASSUME SentOK, InputOK
    PROVE  /\ passed = 0 => /\ HasLine <=> AfterLine <= taken
                            /\ HasLine => Line = RequestLine(asked)
           /\ passed = AfterHeader /\ passed <= taken => /\ HasLine <=> Whole
                                                         /\ HasLine => Line = <<>>
           /\ \A h \in Headers :
                  passed = AfterLine /\ passed <= taken /\ asked.connection = <<h>> =>
                      /\ HasLine <=> AfterHeader <= taken
                      /\ HasLine => Line = <<"Connection", ":", " ", h>>
<1> DEFINE l == RequestLine(asked)
           k == Header(asked.connection)
<1>1. /\ l \in Seq(Cell) /\ k \in Seq(Cell) /\ AfterLine = Len(l) + 2 /\ AfterHeader = AfterLine + Len(k)
      /\ AfterLine \in Nat /\ AfterHeader \in Nat
      /\ \A i \in 1 .. Len(l) : stream[i] = l[i]
      /\ stream[Len(l) + 1] = "CR" /\ stream[Len(l) + 2] = "LF"
      /\ \A i \in 1 .. Len(k) : stream[AfterLine + i] = k[i]
      /\ stream[AfterHeader + 1] = "CR" /\ stream[AfterHeader + 2] = "LF"
  BY StreamIs
<1>2. asked \in Requests /\ taken \in Nat
  BY DEF SentOK, InputOK
<1>3. ASSUME passed = 0
      PROVE  /\ HasLine <=> AfterLine <= taken
             /\ HasLine => Line = RequestLine(asked)
  <2>1. ~Contains(l, "CR")
    BY <1>2, LineOfRequest
  <2> HIDE DEF l, k
  <2>2. GoesOnWith(l)
    <3>1. \A i \in 1 .. Len(l) : 0 + i = i
      OBVIOUS
    <3>2. 0 + Len(l) + 1 = Len(l) + 1 /\ 0 + Len(l) + 2 = Len(l) + 2
      BY <1>1
    <3> QED
      BY <1>1, <1>2, <1>3, <3>1, <3>2 DEF GoesOnWith
  <2>3. /\ HasLine <=> passed + Len(l) + 2 <= taken
        /\ HasLine => Line = l
    BY <1>1, <2>1, <2>2, LineOfStream
  <2>4. passed + Len(l) + 2 = AfterLine
    BY <1>1, <1>3
  <2> QED
    BY <2>3, <2>4 DEF l
<1>4. ASSUME passed = AfterHeader, passed <= taken
      PROVE  /\ HasLine <=> Whole
             /\ HasLine => Line = <<>>
  <2> DEFINE e == <<>>
  <2>1. e \in Seq(Cell) /\ Len(e) = 0 /\ ~Contains(e, "CR")
    BY NoneIs
  <2>5. e = <<>>
    OBVIOUS
  <2> HIDE DEF e
  <2>2. GoesOnWith(e)
    <3>1. passed + Len(e) + 1 = AfterHeader + 1 /\ passed + Len(e) + 2 = AfterHeader + 2
      BY <1>1, <1>4, <2>1
    <3>2. \A i \in 1 .. Len(e) : FALSE
      BY <2>1
    <3> QED
      BY <1>1, <1>4, <3>1, <3>2 DEF GoesOnWith
  <2>3. /\ HasLine <=> passed + Len(e) + 2 <= taken
        /\ HasLine => Line = e
    BY <2>1, <2>2, LineOfStream
  <2>4. passed + Len(e) + 2 <= taken <=> Whole
    BY <1>1, <1>2, <1>4, <2>1 DEF Whole
  <2> QED
    BY <2>3, <2>4, <2>5
<1>5. ASSUME NEW h \in Headers, passed = AfterLine, passed <= taken, asked.connection = <<h>>
      PROVE  /\ HasLine <=> AfterHeader <= taken
             /\ HasLine => Line = <<"Connection", ":", " ", h>>
  <2> DEFINE e == <<"Connection", ":", " ", h>>
  <2>1. e \in Seq(Cell) /\ Len(e) = 4 /\ ~Contains(e, "CR") /\ k = e \o Crlf
    BY <1>5, HeaderIs, ConstantsOK
  <2>5. e = <<"Connection", ":", " ", h>>
    OBVIOUS
  <2> HIDE DEF e, k
  <2>2. /\ Len(k) = 6 /\ \A i \in 1 .. Len(e) : k[i] = e[i]
        /\ k[5] = "CR" /\ k[6] = "LF"
    <3>1. /\ Len(k) = Len(e) + Len(Crlf)
          /\ \A i \in 1 .. Len(e) : k[i] = e[i]
          /\ \A i \in 1 .. Len(Crlf) : k[Len(e) + i] = Crlf[i]
      BY <2>1, CrlfIs, JoinIs
    <3>2. 1 \in 1 .. Len(Crlf) /\ 2 \in 1 .. Len(Crlf) /\ Len(e) + 1 = 5 /\ Len(e) + 2 = 6
      BY <2>1, CrlfIs
    <3> QED
      BY <2>1, <3>1, <3>2, CrlfIs
  <2>3. GoesOnWith(e)
    <3>1. \A i \in 1 .. Len(e) : stream[passed + i] = e[i]
      <4> SUFFICES ASSUME NEW i \in 1 .. Len(e) PROVE stream[passed + i] = e[i]
        OBVIOUS
      <4>1. i \in 1 .. Len(k)
        BY <2>1, <2>2
      <4> QED
        BY <1>1, <1>5, <2>2, <4>1
    <3>2. stream[passed + Len(e) + 1] = "CR" /\ stream[passed + Len(e) + 2] = "LF"
      <4>1. 5 \in 1 .. Len(k) /\ 6 \in 1 .. Len(k)
        BY <2>2
      <4>2. stream[AfterLine + 5] = k[5] /\ stream[AfterLine + 6] = k[6]
        BY <1>1, <4>1
      <4>3. passed + Len(e) + 1 = AfterLine + 5 /\ passed + Len(e) + 2 = AfterLine + 6
        BY <1>1, <1>5, <2>1
      <4> QED
        BY <2>2, <4>2, <4>3
    <3> QED
      BY <1>5, <3>1, <3>2 DEF GoesOnWith
  <2>4. /\ HasLine <=> passed + Len(e) + 2 <= taken
        /\ HasLine => Line = e
    BY <2>1, <2>3, LineOfStream
  <2>6. passed + Len(e) + 2 = AfterHeader
    BY <1>1, <1>5, <2>1, <2>2
  <2> QED
    BY <2>4, <2>5, <2>6
<1> QED
  BY <1>3, <1>4, <1>5

-------------------------------------------------------------------------------
(* The steps, and the buffer.                                              *)

(* The peer does not change its mind.                                      *)
LEMMA SentStep ==
    ASSUME SentOK, [Next]_vars
    PROVE  SentOK' /\ asked' = asked /\ stream' = stream
<1>1. asked' = asked /\ stream' = stream
  <2>1. CASE UNCHANGED vars
    BY <2>1 DEF vars, sentVars
  <2>2. CASE Next
    BY <2>2 DEF Next, Arrive, StartRead, Readv, EndRead, ParseRequestLine, ParseHeader, EndOfHeaders,
                NoLine, ParseStep, Answer, sentVars
  <2> QED
    BY <2>1, <2>2
<1> QED
  BY <1>1 DEF SentOK

(* A turn of the loop of readFd that loses nothing.                        *)
LEMMA ReadvHolds ==
    ASSUME SentOK, InputOK, Readv, pc' # "garbled"
    PROVE  /\ taken' \in Nat /\ taken < taken' /\ taken' <= arrived /\ pc' = "reread"
           /\ BufferOK(inputBuffer_') /\ Holds(inputBuffer_', stream, passed, taken')
<1> DEFINE n == IF arrived - taken <= Capacity(iovec) THEN arrived - taken ELSE Capacity(iovec)
           cells == SubSeq(stream, taken + 1, taken + n)
<1>1. /\ pc \in {"read", "reread"} /\ arrived > taken
      /\ ~Garbles(inputBuffer_, iovec, cells, pc = "reread")
      /\ pc' = "reread" /\ taken' = taken + n /\ inputBuffer_' = Received(inputBuffer_, iovec, cells)
  BY DEF Readv
<1>2. /\ BufferOK(inputBuffer_) /\ Holds(inputBuffer_, stream, passed, taken) /\ stream \in Seq(Cell)
      /\ taken \in Nat /\ arrived \in Nat /\ arrived <= Len(stream) /\ passed \in Nat
      /\ iovec.base \in Nat /\ iovec.room \in Nat
      /\ pc = "read" => iovec = Iovec(inputBuffer_)
  BY DEF SentOK, InputOK
<1>3. Capacity(iovec) \in Nat \ {0}
  BY <1>2, SizesOK DEF Capacity
<1>4. n \in Nat /\ n >= 1 /\ taken + n <= arrived
  BY <1>1, <1>2, <1>3
<1> HIDE DEF n
<1>5. /\ cells \in Seq(Cell) /\ Len(cells) = n /\ \A i \in 1 .. Len(cells) : cells[i] = stream[taken + i]
  <2>1. taken + n \in Nat /\ taken + n <= Len(stream) /\ taken <= taken + n /\ (taken + n) - taken = n
        /\ Len(stream) \in Nat
    BY <1>2, <1>4
  <2> QED
    BY <1>2, <2>1, PartIs
<1> HIDE DEF cells
<1>6. /\ getWriteableLen(inputBuffer_) >= 0
      /\ Len(cells) > iovec.room => inputBuffer_.readIndex_ <= Len(inputBuffer_.buffer_)
  <2>1. inputBuffer_.writeIndex_ \in Nat /\ Len(inputBuffer_.buffer_) \in Nat
        /\ inputBuffer_.writeIndex_ <= Len(inputBuffer_.buffer_) /\ inputBuffer_.readIndex_ \in Nat
    BY <1>2 DEF BufferOK
  <2> QED
    BY <1>1, <2>1 DEF Garbles, getWriteableLen
<1>7. \/ iovec.base = inputBuffer_.writeIndex_ /\ iovec.room = getWriteableLen(inputBuffer_)
      \/ iovec.room = 0 /\ getWriteableLen(inputBuffer_) = 0
  <2>1. CASE pc = "read"
    BY <1>2, <2>1 DEF Iovec
  <2>2. CASE pc = "reread"
    <3>1. ~(iovec.room > 0) /\ ~(getWriteableLen(inputBuffer_) > 0)
      BY <1>1, <2>2 DEF Garbles
    <3>2. getWriteableLen(inputBuffer_) \in Int
      BY <1>2 DEF BufferOK, getWriteableLen
    <3> QED
      BY <1>2, <1>6, <3>1, <3>2
  <2> QED
    BY <1>1, <2>1, <2>2
<1>8. Len(cells) >= 1 /\ taken + Len(cells) <= Len(stream)
  BY <1>2, <1>4, <1>5
<1>9. LET after == Received(inputBuffer_, iovec, cells)
      IN  BufferOK(after) /\ Holds(after, stream, passed, taken + Len(cells))
  BY <1>2, <1>5, <1>6, <1>7, <1>8, ReceivedHolds
<1> QED
  BY <1>1, <1>2, <1>4, <1>5, <1>9

(* The parser passes a line.                                               *)
LEMMA PassedHolds ==
    ASSUME NEW b, BufferOK(b), NEW s, NEW p \in Nat, NEW t \in Nat, Holds(b, s, p, t), NEW n \in Nat
    PROVE  BufferOK(haveReadForLen(b, n)) /\ Holds(haveReadForLen(b, n), s, p + n, t)
<1>1. /\ b = [buffer_ |-> b.buffer_, writeIndex_ |-> b.writeIndex_, readIndex_ |-> b.readIndex_]
      /\ b.buffer_ \in Seq(Cell) /\ b.writeIndex_ \in Nat /\ b.readIndex_ \in Nat
      /\ b.writeIndex_ <= Len(b.buffer_)
  BY DEF BufferOK
<1> DEFINE c == haveReadForLen(b, n)
<1>2. c = [buffer_ |-> b.buffer_, writeIndex_ |-> b.writeIndex_, readIndex_ |-> b.readIndex_ + n]
  BY <1>1 DEF haveReadForLen
<1> HIDE DEF c
<1>3. c.buffer_ = b.buffer_ /\ c.writeIndex_ = b.writeIndex_ /\ c.readIndex_ = b.readIndex_ + n
  BY <1>2
<1>4. BufferOK(c)
  BY <1>1, <1>2, <1>3 DEF BufferOK
<1>5. Holds(c, s, p + n, t)
  <2>1. c.writeIndex_ - c.readIndex_ = t - (p + n)
    BY <1>1, <1>3 DEF Holds
  <2>2. ASSUME NEW i \in 1 .. Len(c.buffer_), c.readIndex_ < i, i <= c.writeIndex_
        PROVE  c.buffer_[i] = s[i - c.writeIndex_ + t]
    <3>1. b.readIndex_ < i /\ i \in 1 .. Len(b.buffer_) /\ i <= b.writeIndex_
      BY <1>1, <1>3, <2>2
    <3> QED
      BY <1>3, <3>1 DEF Holds
  <2> QED
    BY <2>1, <2>2 DEF Holds
<1> QED
  BY <1>4, <1>5 DEF c

(* Passing a line keeps what the buffer holds; without a CRLF it is too    *)
(* far.                                                                    *)
LEMMA PassLineHolds ==
    ASSUME SentOK, InputOK, PassLine
    PROVE  /\ BufferOK(inputBuffer_') /\ Holds(inputBuffer_', stream, passed', taken)
           /\ Len(Line) \in Nat /\ passed' = passed + Len(Line) + 2 /\ passed' \in Nat
           /\ passed <= taken => passed' <= taken + 2
           /\ HasLine => passed <= taken /\ passed' <= taken
           /\ ~HasLine /\ passed <= taken => passed' = taken + 2
<1>1. /\ Text \in Seq(Cell) /\ Len(Text) \in Nat
      /\ Len(Text) = IF passed <= taken THEN taken - passed ELSE 0
  BY TextIs
<1>2. /\ Line \in Seq(Cell) /\ Len(Line) <= Len(Text)
      /\ HasLine => Len(Line) + 2 <= Len(Text)
      /\ ~HasLine => Line = Text
  BY <1>1, LineInText
<1>3. Len(Line) \in Nat
  BY <1>2
<1>4. /\ BufferOK(inputBuffer_) /\ Holds(inputBuffer_, stream, passed, taken)
      /\ taken \in Nat /\ passed \in Nat
  BY DEF InputOK
<1>5. inputBuffer_' = haveReadForLen(inputBuffer_, Len(Line) + 2) /\ passed' = passed + Len(Line) + 2
  BY DEF PassLine
<1> DEFINE n == Len(Line) + 2
<1>6. n \in Nat /\ passed + n = passed' /\ passed' \in Nat
  BY <1>3, <1>4, <1>5
<1> HIDE DEF n
<1>7. BufferOK(haveReadForLen(inputBuffer_, n)) /\ Holds(haveReadForLen(inputBuffer_, n), stream, passed + n, taken)
  BY <1>4, <1>6, PassedHolds
<1>8. BufferOK(inputBuffer_') /\ Holds(inputBuffer_', stream, passed', taken)
  BY <1>5, <1>6, <1>7 DEF n
<1>9. /\ passed <= taken => passed' <= taken + 2
      /\ HasLine => passed <= taken /\ passed' <= taken
      /\ ~HasLine /\ passed <= taken => passed' = taken + 2
  BY <1>1, <1>2, <1>3, <1>4, <1>5
<1> QED
  BY <1>3, <1>5, <1>6, <1>8, <1>9

-------------------------------------------------------------------------------
(* The answers.                                                            *)

(* The status line of a good answer.                                       *)
LEMMA StatusIs ==
    StatusLine \in Seq(Cell) /\ Contains(StatusLine, "200") /\ ~Contains(StatusLine, "Keep-Alive")
<1> DEFINE a == "HTTP/1.1"
           b == " "
           c == "200"
           d == "OK"
<1>1. a \in Cell /\ b \in Cell /\ c \in Cell /\ d \in Cell
  BY CellIs
<1>2. a # "Keep-Alive" /\ b # "Keep-Alive" /\ c # "Keep-Alive" /\ d # "Keep-Alive" /\ c = "200"
  OBVIOUS
<1>3. StatusLine = <<a, b, c, b, d>>
  BY DEF StatusLine
<1> HIDE DEF a, b, c, d
<1>4. /\ StatusLine \in Seq(Cell) /\ Len(StatusLine) = 5
      /\ StatusLine[1] = a /\ StatusLine[2] = b /\ StatusLine[3] = c /\ StatusLine[4] = b /\ StatusLine[5] = d
      /\ \A i \in 1 .. 5 : i = 1 \/ i = 2 \/ i = 3 \/ i = 4 \/ i = 5
  BY <1>1, <1>3
<1>5. \A e : Contains(StatusLine, e) <=> e = a \/ e = b \/ e = c \/ e = d
  <2>1. ASSUME NEW e, Contains(StatusLine, e) PROVE e = a \/ e = b \/ e = c \/ e = d
    BY <1>4, <2>1 DEF Contains
  <2>2. 1 \in 1 .. 5 /\ 2 \in 1 .. 5 /\ 3 \in 1 .. 5 /\ 5 \in 1 .. 5
    OBVIOUS
  <2>3. ASSUME NEW e, e = a \/ e = b \/ e = c \/ e = d PROVE Contains(StatusLine, e)
    BY <1>4, <2>2, <2>3 DEF Contains
  <2> QED
    BY <2>1, <2>3
<1> QED
  BY <1>2, <1>4, <1>5

(* A good answer, and whether it keeps the connection.                     *)
LEMMA ResponseIs ==
    ASSUME NEW h \in {"close", "Keep-Alive"}
    PROVE  /\ Response(<<h>>) \in Seq(Cell) /\ IsGood(Response(<<h>>))
           /\ Kept(Response(<<h>>)) <=> h = "Keep-Alive"
<1> DEFINE k == Header(<<h>>)
           line == <<"Connection", ":", " ", h>>
<1>0. line \in Seq(Cell) /\ k = line \o Crlf /\ Contains(line, h)
      /\ \A e : Contains(line, e) => e = "Connection" \/ e = ":" \/ e = " " \/ e = h
  BY HeaderIs
<1>1. Crlf \in Seq(Cell) /\ ~Contains(Crlf, "200") /\ ~Contains(Crlf, "Keep-Alive")
  <2>1. \A e : Contains(Crlf, e) <=> e = "CR" \/ e = "LF"
    BY CellIs, PairIs DEF Crlf
  <2> QED
    BY <2>1, CrlfIs
<1> HIDE DEF k, line
<1>2. /\ k \in Seq(Cell)
      /\ Contains(k, "Keep-Alive") <=> h = "Keep-Alive"
  <2>1. k \in Seq(Cell) /\ (Contains(k, "Keep-Alive") <=> Contains(line, "Keep-Alive") \/ Contains(Crlf, "Keep-Alive"))
    BY <1>0, <1>1, ContainsJoin, JoinIs
  <2>2. Contains(line, "Keep-Alive") <=> h = "Keep-Alive"
    BY <1>0
  <2> QED
    BY <1>1, <2>1, <2>2
<1>3. Response(<<h>>) = ((StatusLine \o Crlf) \o k) \o Crlf
  BY DEF Response, k
<1> DEFINE a == StatusLine \o Crlf
           b == a \o k
<1>4. a \in Seq(Cell) /\ \A e : Contains(a, e) <=> Contains(StatusLine, e) \/ Contains(Crlf, e)
  BY <1>1, StatusIs, ContainsJoin, JoinIs
<1> HIDE DEF a
<1>5. b \in Seq(Cell) /\ \A e : Contains(b, e) <=> Contains(a, e) \/ Contains(k, e)
  BY <1>2, <1>4, ContainsJoin, JoinIs
<1> HIDE DEF b
<1>6. b \o Crlf \in Seq(Cell) /\ \A e : Contains(b \o Crlf, e) <=> Contains(b, e) \/ Contains(Crlf, e)
  BY <1>1, <1>5, ContainsJoin, JoinIs
<1>7. Response(<<h>>) = b \o Crlf
  BY <1>3 DEF a, b
<1>8. Contains(b \o Crlf, "200")
  BY <1>4, <1>5, <1>6, StatusIs
<1>9. Contains(b \o Crlf, "Keep-Alive") <=> h = "Keep-Alive"
  BY <1>1, <1>2, <1>4, <1>5, <1>6, StatusIs
<1> QED
  BY <1>6, <1>7, <1>8, <1>9 DEF IsGood, Kept

(* What sendText sends: the first word.                                    *)
LEMMA FirstWordIs ==
    LET word == SubSeq(BadRequestText, 1, 1)
    IN  word \in Seq(Cell) /\ ~IsGood(word) /\ ~Kept(word)
<1> DEFINE t == <<"HTTP/1.1", " ", "400", " ", "Bad", " ", "Request">>
           word == SubSeq(BadRequestText, 1, 1)
<1>1. t \in Seq(Cell) /\ Len(t) = 7 /\ t[1] = "HTTP/1.1"
  <2> DEFINE a == "HTTP/1.1"
             b == " "
             c == "400"
             d == "Bad"
             e == "Request"
  <2>1. a \in Cell /\ b \in Cell /\ c \in Cell /\ d \in Cell /\ e \in Cell
    BY CellIs
  <2>2. t = <<a, b, c, b, d, b, e>>
    OBVIOUS
  <2> HIDE DEF a, b, c, d, e, t
  <2>3. t \in Seq(Cell) /\ Len(t) = 7 /\ t[1] = a
    BY <2>1, <2>2
  <2> QED
    BY <2>3 DEF a
<1>2. BadRequestText = (t \o Crlf) \o Crlf
  BY DEF BadRequestText
<1> HIDE DEF t
<1>3. BadRequestText \in Seq(Cell) /\ Len(BadRequestText) = 11 /\ BadRequestText[1] = "HTTP/1.1"
  <2> DEFINE a == t \o Crlf
  <2>1. /\ a \in Seq(Cell) /\ Len(a) = Len(t) + Len(Crlf)
        /\ \A i \in 1 .. Len(t) : a[i] = t[i]
    BY <1>1, CrlfIs, JoinIs
  <2>2. Len(a) = 9 /\ a[1] = t[1]
    BY <1>1, <2>1, CrlfIs
  <2> HIDE DEF a
  <2>3. /\ a \o Crlf \in Seq(Cell) /\ Len(a \o Crlf) = Len(a) + Len(Crlf)
        /\ \A i \in 1 .. Len(a) : (a \o Crlf)[i] = a[i]
    BY <2>1, CrlfIs, JoinIs
  <2>4. Len(a \o Crlf) = 11 /\ (a \o Crlf)[1] = a[1]
    BY <2>2, <2>3, CrlfIs
  <2> QED
    BY <1>1, <1>2, <2>2, <2>3, <2>4 DEF a
<1>4. word \in Seq(Cell) /\ Len(word) = 1 /\ word[1] = BadRequestText[1]
  BY <1>3, Divided
<1>5. \A i \in 1 .. Len(word) : word[i] = "HTTP/1.1"
  <2>1. \A i \in 1 .. Len(word) : i = 1
    BY <1>4
  <2> QED
    BY <1>3, <1>4, <2>1
<1> HIDE DEF word
<1>6. ~Contains(word, "200") /\ ~Contains(word, "Keep-Alive")
  BY <1>5 DEF Contains
<1> QED
  BY <1>4, <1>6 DEF IsGood, Kept, word

(* A connection is a pair.                                                 *)
LEMMA PairOf ==
    ASSUME NEW S, NEW Q, NEW a \in S, NEW b \in Q
    PROVE  [state_ |-> a, sent |-> b] \in [state_ : S, sent : Q]
  OBVIOUS

(* A connection c, and c with one more answer and perhaps another state.   *)
LEMMA OneMore ==
    ASSUME NEW c, AnswersIn(c), c.state_ = "Connected", NEW x \in Seq(Cell),
           NEW st \in {"Connected", "Disconnecting"}, st = "Connected" <=> Kept(x),
           NEW d, d = [state_ |-> st, sent |-> Append(c.sent, x)]
    PROVE  /\ AnswersIn(d) /\ d.state_ = st
           /\ ~IsGood(x) => GoodOnes(d) = GoodOnes(c)
           /\ c.sent = <<>> /\ IsGood(x) => GoodOnes(d) = {1}
<1> DEFINE s == c.sent
           t == Append(s, x)
           n == Len(s)
<1>1. s \in Seq(Seq(Cell)) /\ n \in Nat
  BY DEF AnswersIn
<1>2. \A i \in 1 .. n : Kept(s[i])
  <2>1. \A i \in 1 .. n - 1 : Kept(s[i])
    BY DEF AnswersIn
  <2>2. n > 0 => Kept(s[n])
    BY DEF AnswersIn
  <2>3. \A i \in 1 .. n : i \in 1 .. n - 1 \/ (i = n /\ n > 0)
    BY <1>1
  <2> QED
    BY <2>1, <2>2, <2>3
<1> HIDE DEF s
<1>3. t \in Seq(Seq(Cell)) /\ Len(t) = n + 1 /\ t[n + 1] = x /\ \A i \in 1 .. n : t[i] = s[i]
  BY <1>1
<1>4. d = [state_ |-> st, sent |-> t]
  BY DEF s
<1> HIDE DEF t, n
<1>5. d.state_ = st /\ d.sent = t
  BY <1>4
<1>6. d \in [state_ : {"Connected", "Disconnecting"}, sent : Seq(Seq(Cell))]
  <2>1. t \in Seq(Seq(Cell)) /\ st \in {"Connected", "Disconnecting"}
    BY <1>3
  <2>2. [state_ |-> st, sent |-> t] \in [state_ : {"Connected", "Disconnecting"}, sent : Seq(Seq(Cell))]
    BY <2>1, PairOf
  <2> QED
    BY <1>4, <2>2
<1>7. AnswersIn(d)
  <2>1. Len(d.sent) = n + 1 /\ Len(d.sent) - 1 = n /\ Len(d.sent) > 0
    BY <1>1, <1>3, <1>5
  <2>2. \A i \in 1 .. n : Kept(d.sent[i])
    BY <1>2, <1>3, <1>5
  <2>3. d.sent[n + 1] = x
    BY <1>3, <1>5
  <2> QED
    BY <1>5, <1>6, <2>1, <2>2, <2>3 DEF AnswersIn
<1>8. ASSUME ~IsGood(x) PROVE GoodOnes(d) = GoodOnes(c)
  <2>1. GoodOnes(d) = {i \in 1 .. n + 1 : IsGood(t[i])} /\ GoodOnes(c) = {i \in 1 .. n : IsGood(s[i])}
    BY <1>3, <1>5 DEF GoodOnes, s, n
  <2>2. \A i \in 1 .. n + 1 : i \in 1 .. n \/ i = n + 1
    BY <1>1
  <2>3. \A i \in 1 .. n : i \in 1 .. n + 1
    BY <1>1
  <2>4. ~IsGood(t[n + 1]) /\ \A i \in 1 .. n : IsGood(t[i]) <=> IsGood(s[i])
    BY <1>3, <1>8
  <2> QED
    BY <2>1, <2>2, <2>3, <2>4
<1>9. ASSUME c.sent = <<>>, IsGood(x) PROVE GoodOnes(d) = {1}
  <2>1. n = 0
    BY <1>9 DEF n, s
  <2>2. GoodOnes(d) = {i \in 1 .. 1 : IsGood(t[i])} /\ t[1] = x
    BY <1>3, <1>5, <2>1 DEF GoodOnes
  <2>3. \A i : i \in 1 .. 1 <=> i = 1
    OBVIOUS
  <2> QED
    BY <1>9, <2>2, <2>3
<1> QED
  BY <1>5, <1>7, <1>8, <1>9

(* A bad request ends the connection and is no good answer.                *)
LEMMA BadRequestIs ==
    ASSUME NEW c, AnswersIn(c)
    PROVE  /\ AnswersIn(BadRequest(c)) /\ BadRequest(c).state_ = "Disconnecting"
           /\ GoodOnes(BadRequest(c)) = GoodOnes(c)
<1>1. c.state_ \in {"Connected", "Disconnecting"} /\ c = [state_ |-> c.state_, sent |-> c.sent]
  BY DEF AnswersIn
<1>2. CASE c.state_ = "Disconnecting"
  <2>1. BadRequest(c) = c
    BY <1>2 DEF BadRequest, sendText, send, shutDown
  <2> QED
    BY <1>2, <2>1
<1>3. CASE c.state_ = "Connected"
  <2> DEFINE word == SubSeq(BadRequestText, 1, 1)
             d == send(c, word)
  <2>1. word \in Seq(Cell) /\ ~IsGood(word) /\ ~Kept(word)
    BY FirstWordIs
  <2>2. BadRequest(c) = shutDown(d)
    BY DEF BadRequest, sendText
  <2> HIDE DEF word
  <2>3. d = [state_ |-> "Connected", sent |-> Append(c.sent, word)]
    BY <1>1, <1>3 DEF send
  <2> HIDE DEF d
  <2>4. shutDown(d) = [state_ |-> "Disconnecting", sent |-> Append(c.sent, word)]
    BY <2>3 DEF shutDown
  <2>5. BadRequest(c) = [state_ |-> "Disconnecting", sent |-> Append(c.sent, word)]
    BY <2>2, <2>4
  <2>6. "Disconnecting" \in {"Connected", "Disconnecting"} /\ ("Disconnecting" = "Connected" <=> Kept(word))
    BY <2>1
  <2> QED
    BY <1>3, <2>1, <2>5, <2>6, OneMore
<1> QED
  BY <1>1, <1>2, <1>3

(* A good answer is counted, and goes out only on an open connection.      *)
LEMMA RespondIs ==
    ASSUME NEW c, AnswersIn(c)
    PROVE  /\ AnswersIn(Respond(c))
           /\ c.state_ = "Disconnecting" => Respond(c) = c
           /\ c.state_ = "Connected" /\ c.sent = <<>> => GoodOnes(Respond(c)) = {1}
<1>1. c.state_ \in {"Connected", "Disconnecting"} /\ c = [state_ |-> c.state_, sent |-> c.sent]
  BY DEF AnswersIn
<1>2. CASE c.state_ = "Disconnecting"
  <2>1. Respond(c) = c
    BY <1>2 DEF Respond, send, shutDown
  <2> QED
    BY <1>2, <2>1
<1>3. CASE c.state_ = "Connected" /\ KeepConnection
  <2> DEFINE x == Response(<<"Keep-Alive">>)
  <2>1. x \in Seq(Cell) /\ IsGood(x) /\ Kept(x)
    BY ResponseIs
  <2>2. Respond(c) = send(c, x)
    BY <1>3 DEF Respond
  <2> HIDE DEF x
  <2>3. Respond(c) = [state_ |-> "Connected", sent |-> Append(c.sent, x)]
    BY <1>1, <1>3, <2>2 DEF send
  <2>4. "Connected" \in {"Connected", "Disconnecting"} /\ ("Connected" = "Connected" <=> Kept(x))
    BY <2>1
  <2> QED
    BY <1>3, <2>1, <2>3, <2>4, OneMore
<1>4. CASE c.state_ = "Connected" /\ ~KeepConnection
  <2> DEFINE x == Response(<<"close">>)
             d == send(c, x)
  <2>1. x \in Seq(Cell) /\ IsGood(x) /\ ~Kept(x)
    BY ResponseIs
  <2>2. Respond(c) = shutDown(d)
    BY <1>4 DEF Respond
  <2> HIDE DEF x
  <2>3. d = [state_ |-> "Connected", sent |-> Append(c.sent, x)]
    BY <1>1, <1>4 DEF send
  <2> HIDE DEF d
  <2>4. shutDown(d) = [state_ |-> "Disconnecting", sent |-> Append(c.sent, x)]
    BY <2>3 DEF shutDown
  <2>5. Respond(c) = [state_ |-> "Disconnecting", sent |-> Append(c.sent, x)]
    BY <2>2, <2>4
  <2>6. "Disconnecting" \in {"Connected", "Disconnecting"} /\ ("Disconnecting" = "Connected" <=> Kept(x))
    BY <2>1
  <2> QED
    BY <1>4, <2>1, <2>5, <2>6, OneMore
<1> QED
  BY <1>1, <1>2, <1>3, <1>4

(* No step spoils the answers sent.                                        *)
LEMMA AnswersStep ==
    ASSUME AnswersOK, [Next]_vars
    PROVE  AnswersOK'
<1>1. CASE Answer
  <2> DEFINE c == IF succeed THEN conn ELSE BadRequest(conn)
  <2>1. AnswersIn(c)
    BY BadRequestIs DEF AnswersOK
  <2>2. conn' = IF request.state_ = "GotAll" THEN Respond(c) ELSE c
    BY <1>1 DEF Answer
  <2> HIDE DEF c
  <2>3. AnswersIn(conn')
    BY <2>1, <2>2, RespondIs
  <2> QED
    BY <2>3 DEF AnswersOK
<1>2. CASE UNCHANGED conn
  BY <1>2 DEF AnswersOK
<1> QED
  BY <1>1, <1>2 DEF Next, vars, Arrive, StartRead, Readv, EndRead, ParseRequestLine, ParseHeader, EndOfHeaders,
                    NoLine, ParseStep

(* A new request waits for its line.                                       *)
LEMMA NewRequestIs ==
    IsRequest(NewRequest) /\ NewRequest.state_ = "ExpectRequestLine"
  BY DEF NewRequest, IsRequest

(* No step spoils the parser's variables.                                  *)
LEMMA ParserStep ==
    ASSUME ParserOK, [Next]_vars
    PROVE  ParserOK'
<1> DEFINE States == {"ExpectRequestLine", "ExpectHeaders", "GotAll"}
<1>0. /\ pc \in {"idle", "read", "reread", "parse", "answer", "garbled"} /\ succeed \in BOOLEAN
      /\ first \in {"none", "cut", "whole"}
      /\ IsRequest(request) /\ request.state_ \in States
  BY DEF ParserOK
<1>1. CASE (\E n \in arrived + 1 .. Len(stream) : Arrive(n)) \/ StartRead \/ Readv \/ UNCHANGED vars
  <2>1. UNCHANGED <<first, succeed, request>> /\ pc' \in {pc, "read", "reread", "garbled"}
    BY <1>1 DEF Arrive, StartRead, Readv, vars
  <2> QED
    BY <1>0, <2>1 DEF ParserOK
<1>2. CASE EndRead
  <2>1. /\ pc' = "parse" /\ succeed' = FALSE /\ request' = request /\ first' \in {first, "whole", "cut"}
    BY <1>2 DEF EndRead
  <2> QED
    BY <1>0, <2>1 DEF ParserOK
<1>3. CASE ParseRequestLine
  <2>1. /\ pc' \in {"parse", "answer"} /\ first' = first /\ succeed' = TRUE
        /\ request' = [parseRequestLine(request, Line) EXCEPT !.state_ = "ExpectHeaders"]
    BY <1>3 DEF ParseRequestLine, ParseStep
  <2>2. IsRequest(request') /\ request'.state_ = "ExpectHeaders"
    BY <1>0, <2>1, ParseKeeps
  <2> QED
    BY <1>0, <2>1, <2>2 DEF ParserOK
<1>4. CASE ParseHeader
  <2>1. /\ pc' = "parse" /\ first' = first /\ succeed' = succeed /\ request' = parseHeader(request, Line)
    BY <1>4 DEF ParseHeader, ParseStep
  <2>2. IsRequest(request') /\ request'.state_ = request.state_
    BY <1>0, <2>1, ParseKeeps
  <2> QED
    BY <1>0, <2>1, <2>2 DEF ParserOK
<1>5. CASE EndOfHeaders
  <2>1. /\ pc' = "answer" /\ first' = first /\ succeed' = succeed
        /\ request' = [request EXCEPT !.state_ = "GotAll"]
    BY <1>5 DEF EndOfHeaders, ParseStep
  <2>2. IsRequest(request') /\ request'.state_ = "GotAll"
    BY <1>0, <2>1, KeepsShape
  <2> QED
    BY <1>0, <2>1, <2>2 DEF ParserOK
<1>6. CASE NoLine
  <2>1. pc' = "answer" /\ first' = first /\ succeed' = succeed /\ request' = request
    BY <1>6 DEF NoLine, ParseStep
  <2> QED
    BY <1>0, <2>1 DEF ParserOK
<1>7. CASE Answer
  <2>1. /\ pc' = "idle" /\ first' = first /\ succeed' = FALSE
        /\ request' = IF request.state_ = "GotAll" THEN NewRequest ELSE request
    BY <1>7 DEF Answer, reset
  <2>2. IsRequest(request') /\ request'.state_ \in States
    BY <1>0, <2>1, NewRequestIs
  <2> QED
    BY <1>0, <2>1, <2>2 DEF ParserOK
<1> QED
  BY <1>1, <1>2, <1>3, <1>4, <1>5, <1>6, <1>7 DEF Next

(* Where there is a line the parser is not ahead of the stream.            *)
LEMMA LineNotPassed ==
    ASSUME SentOK, InputOK, HasLine
    PROVE  passed <= taken
<1>1. Text \in Seq(Cell) /\ Len(Text) = IF passed <= taken THEN taken - passed ELSE 0
  BY TextIs
<1>2. Line \in Seq(Cell) /\ Len(Line) + 2 <= Len(Text)
  BY <1>1, LineInText
<1>3. Len(Line) \in Nat
  BY <1>2
<1> QED
  BY <1>1, <1>2, <1>3

(* A new buffer is well formed and empty.                                  *)
LEMMA NewBufferIs ==
    /\ BufferOK(NewBuffer) /\ NewBuffer.writeIndex_ = 0 /\ NewBuffer.readIndex_ = 0
    /\ Iovec(NewBuffer).base \in Nat /\ Iovec(NewBuffer).room \in Nat
<1> DEFINE v == [i \in 1 .. BufferSize |-> "NUL"]
<1>0. BufferSize \in Nat
  BY SizesOK
<1>1. v \in Seq(Cell) /\ Len(v) = BufferSize
  BY <1>0, NulsAre
<1>2. NewBuffer = [buffer_ |-> v, writeIndex_ |-> 0, readIndex_ |-> 0]
  BY DEF NewBuffer
<1> HIDE DEF v
<1>3. BufferOK(NewBuffer) /\ NewBuffer.writeIndex_ = 0 /\ NewBuffer.readIndex_ = 0 /\ NewBuffer.buffer_ = v
  BY <1>0, <1>1, <1>2 DEF BufferOK
<1>4. Iovec(NewBuffer).base \in Nat /\ Iovec(NewBuffer).room \in Nat
  BY <1>0, <1>1, <1>3 DEF Iovec, getWriteableLen
<1> QED
  BY <1>3, <1>4

(* No step spoils the input buffer.                                        *)
LEMMA InputStep ==
    ASSUME SentOK, InputOK, ParserOK, [Next]_vars
    PROVE  InputOK'
<1>0. /\ BufferOK(inputBuffer_) /\ Holds(inputBuffer_, stream, passed, taken)
      /\ taken \in Nat /\ arrived \in Nat /\ taken <= arrived /\ arrived <= Len(stream)
      /\ passed \in Nat /\ passed <= taken + 2
      /\ request.state_ # "ExpectHeaders" => passed <= taken
      /\ pc = "read" => iovec = Iovec(inputBuffer_)
      /\ iovec.base \in Nat /\ iovec.room \in Nat
      /\ Len(stream) \in Nat
  BY DEF InputOK, SentOK
<1>00. stream' = stream
  BY SentStep
<1>1. CASE UNCHANGED vars
  BY <1>1 DEF vars, sentVars, InputOK
<1>2. ASSUME NEW n \in arrived + 1 .. Len(stream), Arrive(n) PROVE InputOK'
  <2>1. /\ arrived' = n /\ pc # "read" /\ pc' = pc
        /\ UNCHANGED <<taken, inputBuffer_, iovec, passed, request>>
    BY <1>2 DEF Arrive
  <2>2. n \in Nat /\ taken <= n /\ n <= Len(stream)
    BY <1>0
  <2> QED
    BY <1>0, <1>00, <2>1, <2>2 DEF InputOK
<1>3. CASE StartRead
  <2>1. /\ iovec' = Iovec(inputBuffer_) /\ UNCHANGED <<arrived, taken, inputBuffer_, passed, request>>
    BY <1>3 DEF StartRead
  <2>2. Iovec(inputBuffer_).base \in Nat /\ Iovec(inputBuffer_).room \in Nat
    BY <1>0 DEF Iovec, BufferOK, getWriteableLen
  <2> QED
    BY <1>0, <1>00, <2>1, <2>2 DEF InputOK
<1>4. CASE Readv
  <2>1. UNCHANGED <<arrived, iovec, passed, request>> /\ pc' \in {"garbled", "reread"}
    BY <1>4 DEF Readv
  <2>2. CASE pc' = "garbled"
    <3>1. UNCHANGED <<taken, inputBuffer_>>
      BY <1>4, <2>2 DEF Readv
    <3> QED
      BY <1>0, <1>00, <2>1, <2>2, <3>1 DEF InputOK
  <2>3. CASE pc' # "garbled"
    <3>1. /\ taken' \in Nat /\ taken < taken' /\ taken' <= arrived /\ pc' = "reread"
          /\ BufferOK(inputBuffer_') /\ Holds(inputBuffer_', stream, passed, taken')
      BY <1>4, <2>3, ReadvHolds
    <3>2. passed <= taken' + 2 /\ (passed <= taken => passed <= taken')
      <4>1. passed \in Nat /\ taken \in Nat /\ passed <= taken + 2
        BY <1>0
      <4>2. taken' \in Nat /\ taken < taken'
        BY <3>1
      <4>3. \A p, t, u \in Nat : p <= t + 2 /\ t < u => p <= u + 2 /\ (p <= t => p <= u)
        OBVIOUS
      <4> QED
        BY <4>1, <4>2, <4>3
    <3> QED
      BY <1>0, <1>00, <2>1, <3>1, <3>2 DEF InputOK
  <2> QED
    BY <2>2, <2>3
<1>5. CASE EndRead
  <2>1. /\ iovec' = Iovec(NewBuffer) /\ pc' = "parse" /\ UNCHANGED <<arrived, taken, inputBuffer_, passed, request>>
    BY <1>5 DEF EndRead
  <2>2. Iovec(NewBuffer).base \in Nat /\ Iovec(NewBuffer).room \in Nat
    BY NewBufferIs
  <2> QED
    BY <1>0, <1>00, <2>1, <2>2 DEF InputOK
<1>6. CASE ParseRequestLine
  <2>1. /\ PassLine /\ UNCHANGED <<arrived, taken, iovec>> /\ pc' \in {"parse", "answer"}
        /\ request.state_ = "ExpectRequestLine"
        /\ request' = [parseRequestLine(request, Line) EXCEPT !.state_ = "ExpectHeaders"]
    BY <1>6 DEF ParseRequestLine, ParseStep
  <2>2. request'.state_ = "ExpectHeaders"
    BY <2>1, ParseKeeps DEF ParserOK
  <2>3. /\ BufferOK(inputBuffer_') /\ Holds(inputBuffer_', stream, passed', taken)
        /\ passed' \in Nat /\ passed' <= taken + 2
    BY <1>0, <2>1, PassLineHolds
  <2> QED
    BY <1>0, <1>00, <2>1, <2>2, <2>3 DEF InputOK
<1>7. CASE ParseHeader
  <2>1. HasLine /\ PassLine /\ UNCHANGED <<arrived, taken, iovec>> /\ pc' = "parse"
    BY <1>7 DEF ParseHeader, ParseStep
  <2>2. /\ BufferOK(inputBuffer_') /\ Holds(inputBuffer_', stream, passed', taken)
        /\ passed' \in Nat /\ passed' <= taken
    BY <2>1, PassLineHolds
  <2>3. passed' <= taken + 2
    BY <1>0, <2>2
  <2> QED
    BY <1>0, <1>00, <2>1, <2>2, <2>3 DEF InputOK
<1>8. CASE EndOfHeaders
  <2>1. HasLine /\ UNCHANGED <<arrived, taken, iovec, inputBuffer_, passed>> /\ pc' = "answer"
    BY <1>8 DEF EndOfHeaders, ParseStep
  <2>2. passed <= taken
    BY <2>1, LineNotPassed
  <2> QED
    BY <1>0, <1>00, <2>1, <2>2 DEF InputOK
<1>9. CASE NoLine
  <2>1. UNCHANGED <<arrived, taken, iovec, inputBuffer_, passed, request>> /\ pc' = "answer"
    BY <1>9 DEF NoLine, ParseStep
  <2> QED
    BY <1>0, <1>00, <2>1 DEF InputOK
<1>10. CASE Answer
  <2>1. /\ UNCHANGED <<arrived, taken, iovec, inputBuffer_, passed>> /\ pc' = "idle"
        /\ request' = IF request.state_ = "GotAll" THEN NewRequest ELSE request
    BY <1>10 DEF Answer, reset
  <2>2. request'.state_ # "ExpectHeaders" => passed <= taken
    BY <1>0, <2>1
  <2> QED
    BY <1>0, <1>00, <2>1, <2>2 DEF InputOK
<1> QED
  BY <1>1, <1>2, <1>3, <1>4, <1>5, <1>6, <1>7, <1>8, <1>9, <1>10 DEF Next

-------------------------------------------------------------------------------
(* The story goes on.                                                      *)

(* Connections and numbers that a step leaves alone.                       *)
LEMMA SameStory ==
    ASSUME UNCHANGED <<asked, conn>>, first' = first
    PROVE  /\ Counted' <=> Counted
           /\ Silent' <=> Silent
           /\ Connected' <=> Connected
           /\ Good' <=> Good
           /\ AfterLine' = AfterLine /\ AfterHeader' = AfterHeader
<1>1. AfterLine' = AfterLine /\ AfterHeader' = AfterHeader
  BY DEF AfterLine, AfterHeader
<1>2. Good' <=> Good
  BY DEF Good
<1>3. GoodOnes(conn)' = GoodOnes(conn)
  BY DEF GoodOnes
<1>4. Counted' <=> Counted
  BY <1>2, <1>3 DEF Counted
<1>5. Silent' <=> Silent
  BY DEF Silent
<1>6. Connected' <=> Connected
  BY <1>4 DEF Connected
<1> QED
  BY <1>1, <1>2, <1>4, <1>5, <1>6

(* With nothing sent and nothing to be answered the count is right.        *)
LEMMA NothingCounted ==
    ASSUME Silent, ~Good
    PROVE  Counted
<1>1. GoodOnes(conn) = {}
  BY NoneIs DEF Silent, GoodOnes
<1> QED
  BY <1>1, FS_EmptySet DEF Counted, Silent

(* The story may stutter.                                                  *)
LEMMA StoryStays ==
    ASSUME Story, UNCHANGED vars
    PROVE  Story'
<1>1. UNCHANGED <<asked, conn, first, pc, request, passed, succeed, taken>>
  BY DEF vars, sentVars
<1>2. /\ Connected' <=> Connected
      /\ Silent' <=> Silent
      /\ Counted' <=> Counted
      /\ Good' <=> Good
      /\ AfterLine' = AfterLine /\ AfterHeader' = AfterHeader
  BY <1>1, SameStory
<1>3. Whole' <=> Whole
  BY <1>1, <1>2 DEF Whole
<1>4. Fresh => Fresh'
  BY <1>1, <1>2, <1>3 DEF Fresh
<1>5. InHeaders => InHeaders'
  BY <1>1, <1>2, <1>3 DEF InHeaders, HalfParsed
<1>6. Parsed => Parsed'
  BY <1>1, <1>2, <1>3 DEF Parsed
<1>7. Answered => Answered'
  BY <1>1, <1>2, <1>3 DEF Answered
<1>8. Failed => Failed'
  BY <1>1, <1>2 DEF Failed
<1>9. Doomed => Doomed'
  BY <1>1, <1>2 DEF Doomed
<1>10. Closed => Closed'
  BY <1>1, <1>2 DEF Closed
<1> QED
  BY <1>1, <1>4, <1>5, <1>6, <1>7, <1>8, <1>9, <1>10 DEF Story

(* What has come is not lost; EndRead closes the first call's case.        *)
LEMMA StoryReads ==
    ASSUME SentOK, InputOK, ParserOK, Story,
           (\E n \in arrived + 1 .. Len(stream) : Arrive(n)) \/ StartRead \/ Readv \/ EndRead
    PROVE  Story'
<1>1. /\ UNCHANGED <<asked, conn, request, passed>>
      /\ pc \in {"idle", "read", "reread"}
      /\ \/ /\ pc' \in {"idle", "read", "reread", "garbled"} /\ first' = first /\ succeed' = succeed
         \/ /\ pc' = "parse" /\ succeed' = FALSE
            /\ first' = IF first # "none" THEN first
                        ELSE IF taken >= Len(Request(asked)) THEN "whole" ELSE "cut"
            /\ taken' = taken
  BY DEF Arrive, StartRead, Readv, EndRead, sentVars
<1>2. taken' \in Nat /\ taken <= taken'
  <2>1. taken \in Nat
    BY DEF InputOK
  <2>2. CASE Readv /\ pc' # "garbled"
    BY <2>1, <2>2, ReadvHolds
  <2>3. CASE ~(Readv /\ pc' # "garbled")
    <3>1. taken' = taken
      BY <2>3 DEF Arrive, StartRead, Readv, EndRead
    <3> QED
      BY <2>1, <3>1
  <2> QED
    BY <2>2, <2>3
<1>3. AfterLine' = AfterLine /\ AfterHeader' = AfterHeader /\ AfterHeader \in Nat
  BY <1>1, StreamIs DEF AfterLine, AfterHeader
<1>4. Whole => Whole'
  <2>1. taken \in Nat
    BY DEF InputOK
  <2>2. \A a, t, u \in Nat : t >= a + 2 /\ t <= u => u >= a + 2
    OBVIOUS
  <2> QED
    BY <1>2, <1>3, <2>1, <2>2 DEF Whole
<1>5. ASSUME first # "none"
      PROVE  /\ first' = first
             /\ Counted' <=> Counted
             /\ Connected' <=> Connected
  <2>1. first' = first
    BY <1>1, <1>5
  <2> QED
    BY <1>1, <2>1, SameStory
<1>6. CASE pc' = "garbled"
  BY <1>6 DEF Story
<1>7. CASE Fresh /\ pc' # "garbled"
  <2>1. first = "none" /\ Silent /\ request = NewRequest /\ passed = 0
    BY <1>1, <1>7 DEF Fresh
  <2>2. Silent' /\ request' = NewRequest /\ passed' = 0
    BY <1>1, <2>1 DEF Silent
  <2>3. CASE pc' \in {"idle", "read", "reread"}
    <3>1. first' = "none"
      BY <1>1, <2>1, <2>3
    <3> QED
      BY <2>2, <2>3, <3>1 DEF Fresh, Story
  <2>4. CASE pc' = "parse"
    <3>1. /\ ~succeed' /\ taken' = taken
          /\ first' = IF taken >= Len(Request(asked)) THEN "whole" ELSE "cut"
      BY <1>1, <2>1, <2>4
    <3>2. Len(Request(asked)) = AfterHeader + 2
      BY StreamIs
    <3>3. (first' = "whole" <=> Whole') /\ first' # "none"
      BY <1>3, <3>1, <3>2 DEF Whole
    <3> QED
      BY <2>2, <2>4, <3>1, <3>3 DEF Fresh, Story
  <2> QED
    BY <1>1, <1>7, <2>3, <2>4
<1>8. CASE Answered /\ pc' # "garbled"
  <2>1. first # "none"
    BY <1>8 DEF Answered, Connected
  <2>2. ~succeed' /\ pc' \in {"idle", "read", "reread", "parse"}
    BY <1>1, <1>8 DEF Answered
  <2>3. Answered'
    BY <1>1, <1>3, <1>4, <1>5, <1>8, <2>1, <2>2 DEF Answered
  <2> QED
    BY <2>3 DEF Story
<1>9. CASE Doomed /\ pc' # "garbled"
  <2>1. first # "none" /\ request.state_ = "ExpectHeaders"
    BY <1>1, <1>9 DEF Doomed, Connected
  <2>2. ~succeed' /\ pc' \in {"idle", "read", "reread", "parse"}
    BY <1>1, <1>9 DEF Doomed
  <2>3. Doomed'
    BY <1>1, <1>5, <1>9, <2>1, <2>2 DEF Doomed
  <2> QED
    BY <2>3 DEF Story
<1>10. CASE Closed
  <2>1. first # "none"
    BY <1>10 DEF Closed
  <2>2. Closed'
    BY <1>1, <1>5, <1>10, <2>1 DEF Closed
  <2> QED
    BY <2>2 DEF Story
<1> QED
  BY <1>1, <1>6, <1>7, <1>8, <1>9, <1>10 DEF Story, InHeaders, Parsed, Failed

(* What all steps of parseMessage have in common.                          *)
LEMMA ParseStepIs ==
    ASSUME NEW s, NEW more \in BOOLEAN, ParseStep(s, more), SentOK, InputOK
    PROVE  /\ pc = "parse" /\ request.state_ = s
           /\ more => pc' = "parse"
           /\ ~more => pc' = "answer"
           /\ first' = first /\ asked' = asked /\ conn' = conn /\ taken' = taken
           /\ Counted' <=> Counted
           /\ Silent' <=> Silent
           /\ Connected' <=> Connected
           /\ Good' <=> Good
           /\ Whole' <=> Whole
           /\ AfterLine' = AfterLine /\ AfterHeader' = AfterHeader
           /\ AfterLine \in Nat /\ AfterHeader \in Nat /\ AfterLine <= AfterHeader
           /\ Closed => Closed'
<1>1. /\ pc = "parse" /\ request.state_ = s
      /\ pc' = IF more THEN "parse" ELSE "answer"
      /\ first' = first /\ asked' = asked /\ conn' = conn /\ taken' = taken
  BY DEF ParseStep, sentVars
<1>2. /\ Counted' <=> Counted
      /\ Silent' <=> Silent
      /\ Connected' <=> Connected
      /\ Good' <=> Good
      /\ AfterLine' = AfterLine /\ AfterHeader' = AfterHeader
  BY <1>1, SameStory
<1>3. AfterLine \in Nat /\ AfterHeader \in Nat /\ AfterLine <= AfterHeader
  BY StreamIs
<1>4. Whole' <=> Whole
  BY <1>1, <1>2 DEF Whole
<1>5. Closed => Closed'
  BY <1>1, <1>2 DEF Closed
<1> QED
  BY <1>1, <1>2, <1>3, <1>4, <1>5

(* The first line: a request's, the empty one left behind, or one cut off. *)
LEMMA StoryRequestLine ==
    ASSUME SentOK, InputOK, ParserOK, Story, ParseRequestLine
    PROVE  Story'
<1> DEFINE more == LineOK(Line)
<1>0. more \in BOOLEAN
  BY DEF LineOK
<1>1. ParseStep("ExpectRequestLine", more) /\ PassLine /\ succeed' = TRUE
      /\ request' = [parseRequestLine(request, Line) EXCEPT !.state_ = "ExpectHeaders"]
  BY DEF ParseRequestLine
<1> HIDE DEF more
<1>2. /\ pc = "parse" /\ request.state_ = "ExpectRequestLine"
      /\ more => pc' = "parse"
      /\ ~more => pc' = "answer"
      /\ first' = first /\ asked' = asked /\ taken' = taken
      /\ Silent' <=> Silent
      /\ Connected' <=> Connected
      /\ Whole' <=> Whole
      /\ AfterLine' = AfterLine /\ AfterHeader' = AfterHeader
      /\ AfterLine \in Nat /\ AfterHeader \in Nat /\ AfterLine <= AfterHeader
      /\ Closed => Closed'
  BY <1>0, <1>1, ParseStepIs
<1>3. request'.state_ = "ExpectHeaders"
  BY <1>1, ParseKeeps DEF ParserOK
<1>4. /\ Len(Line) \in Nat /\ passed' = passed + Len(Line) + 2
      /\ ~HasLine /\ passed <= taken => passed' = taken + 2
  BY <1>1, PassLineHolds
<1>5. asked \in Requests /\ taken \in Nat /\ passed \in Nat
  BY DEF SentOK, InputOK
<1>6. ASSUME Connected, ~more PROVE Story'
  BY <1>1, <1>2, <1>3, <1>6 DEF Failed, Story
<1>7. CASE Closed
  BY <1>2, <1>7 DEF Story
<1>8. CASE Answered
  <2>1. passed = AfterHeader /\ Whole /\ Connected
    BY <1>8 DEF Answered
  <2>2. passed <= taken
    BY <1>2, <1>5, <2>1 DEF Whole
  <2>3. Line = <<>>
    BY <2>1, <2>2, LinesOfFirst
  <2>4. ~more
    BY <2>3, NoneIs DEF more, LineOK
  <2> QED
    BY <1>6, <2>1, <2>4
<1>9. CASE Fresh
  <2>1. /\ Silent /\ request = NewRequest /\ passed = 0 /\ first # "none"
        /\ first = "whole" <=> Whole
    BY <1>2, <1>9 DEF Fresh
  <2>2. CASE HasLine
    <3>1. Line = RequestLine(asked)
      BY <2>1, <2>2, LinesOfFirst
    <3>2. more <=> asked.method_ # "OPTIONS"
      BY <1>5, <3>1, ParsedLine DEF more
    <3>3. CASE more
      <4>1. request' = HalfParsed(<<>>)
        <5>1. [parseRequestLine(NewRequest, RequestLine(asked)) EXCEPT !.state_ = "ExpectHeaders"] =
                  RequestOf("ExpectHeaders", asked.method_, <<"/">>, asked.query_, asked.version_, <<>>)
          BY <1>5, <3>2, <3>3, ParsedLine
        <5>2. request' = [parseRequestLine(NewRequest, RequestLine(asked)) EXCEPT !.state_ = "ExpectHeaders"]
          BY <1>1, <2>1, <3>1
        <5> QED
          BY <5>1, <5>2 DEF HalfParsed
      <4>2. HalfParsed(<<>>)' = HalfParsed(<<>>)
        BY <1>2 DEF HalfParsed
      <4>3. passed' = AfterLine
        <5>1. passed' = 0 + Len(RequestLine(asked)) + 2
          BY <1>4, <2>1, <3>1
        <5>2. AfterLine = Len(RequestLine(asked)) + 2 /\ Len(RequestLine(asked)) \in Nat
          BY <1>4, <3>1 DEF AfterLine
        <5> QED
          BY <5>1, <5>2
      <4>4. /\ Silent' /\ pc' = "parse" /\ succeed' /\ first' # "none"
            /\ first' = "whole" <=> Whole'
            /\ asked'.method_ # "OPTIONS"
        BY <1>1, <1>2, <2>1, <3>2, <3>3
      <4>5. InHeaders'
        BY <1>2, <1>3, <4>1, <4>2, <4>3, <4>4 DEF InHeaders
      <4> QED
        BY <4>5 DEF Story
    <3>4. CASE ~more
      <4>1. ~Good
        BY <3>2, <3>4 DEF Good
      <4>2. Connected
        BY <2>1, <4>1, NothingCounted DEF Connected, Silent
      <4> QED
        BY <1>6, <3>4, <4>2
    <3> QED
      BY <3>3, <3>4
  <2>3. CASE ~HasLine
    <3>1. ~Whole
      <4>1. ~(AfterLine <= taken)
        BY <2>1, <2>3, LinesOfFirst
      <4> QED
        BY <1>2, <1>5, <4>1 DEF Whole
    <3>2. first = "cut" /\ ~Good
      BY <2>1, <3>1 DEF Good, ParserOK
    <3>3. CASE more
      <4>1. passed' > taken'
        <5>1. passed <= taken
          BY <1>5, <2>1
        <5>2. passed' = taken + 2
          BY <1>4, <2>3, <5>1
        <5> QED
          BY <1>2, <1>5, <5>2
      <4>2. InHeaders'
        BY <1>1, <1>2, <1>3, <2>1, <3>2, <3>3, <4>1 DEF InHeaders
      <4> QED
        BY <4>2 DEF Story
    <3>4. CASE ~more
      <4>1. Connected
        BY <2>1, <3>2, NothingCounted DEF Connected, Silent
      <4> QED
        BY <1>6, <3>4, <4>1
    <3> QED
      BY <3>3, <3>4
  <2> QED
    BY <2>2, <2>3
<1> QED
  BY <1>2, <1>7, <1>8, <1>9 DEF Story, InHeaders, Parsed, Failed, Doomed

(* The lines of the header as the first call of parseMessage sees them.    *)
LEMMA HeaderLine ==
    ASSUME SentOK, InputOK, InHeaders
    PROVE  /\ HasLine =>
                  /\ first = "whole" <=> Whole
                  /\ asked.method_ # "OPTIONS"
                  /\ \/ \E h \in Headers :
                            /\ asked.connection = <<h>> /\ Line = <<"Connection", ":", " ", h>>
                            /\ passed = AfterLine /\ request = HalfParsed(<<>>)
                     \/ /\ Whole /\ Line = <<>>
                        /\ passed = AfterHeader /\ request = HalfParsed(asked.connection)
           /\ ~HasLine => ~Good
<1>0. /\ asked \in Requests /\ taken \in Nat /\ passed \in Nat
      /\ AfterLine \in Nat /\ AfterHeader \in Nat /\ AfterLine <= AfterHeader
  BY StreamIs DEF SentOK, InputOK
<1>1. CASE first = "cut" /\ passed > taken
  <2>1. ~HasLine
    BY <1>0, <1>1, LineNotPassed
  <2> QED
    BY <1>1, <2>1 DEF Good
<1>2. CASE ~(first = "cut" /\ passed > taken)
  <2>1. /\ first = "whole" <=> Whole
        /\ asked.method_ # "OPTIONS"
        /\ \/ passed = AfterLine /\ request = HalfParsed(<<>>)
           \/ passed = AfterHeader /\ request = HalfParsed(asked.connection)
    BY <1>2 DEF InHeaders
  <2>2. ASSUME Whole PROVE passed <= taken
    <3>1. passed <= AfterHeader /\ AfterHeader <= taken
      BY <1>0, <2>1, <2>2 DEF Whole
    <3> QED
      BY <1>0, <3>1
  <2>3. HasLine => passed <= taken
    BY LineNotPassed
  <2>4. CASE passed = AfterHeader /\ request = HalfParsed(asked.connection)
    <3>1. passed <= taken => (HasLine <=> Whole) /\ (HasLine => Line = <<>>)
      BY <2>4, LinesOfFirst
    <3>2. HasLine => Whole /\ Line = <<>>
      BY <2>3, <3>1
    <3>3. ~HasLine => ~Good
      BY <2>1, <2>2, <3>1 DEF Good
    <3> QED
      BY <2>1, <2>4, <3>2, <3>3
  <2>5. CASE passed = AfterLine /\ request = HalfParsed(<<>>)
    <3>1. CASE asked.connection = <<>>
      <4>1. AfterHeader = AfterLine
        <5>1. Header(asked.connection) = <<>>
          BY <1>0, <3>1, HeaderSeq
        <5> QED
          BY <1>0, <5>1, NoneIs DEF AfterHeader
      <4>2. passed = AfterHeader /\ request = HalfParsed(asked.connection)
        BY <2>5, <3>1, <4>1
      <4> QED
        BY <2>4, <4>2
    <3>2. CASE asked.connection # <<>>
      <4>1. PICK h \in Headers : asked.connection = <<h>>
        BY <1>0, <3>2, RequestIs
      <4>2. passed <= taken => (HasLine <=> AfterHeader <= taken) /\ (HasLine => Line = <<"Connection", ":", " ", h>>)
        BY <2>5, <4>1, LinesOfFirst
      <4>3. ~HasLine => ~Good
        <5>1. Whole => AfterHeader <= taken
          BY <1>0 DEF Whole
        <5> QED
          BY <2>1, <2>2, <4>2, <5>1 DEF Good
      <4>4. HasLine => Line = <<"Connection", ":", " ", h>>
        BY <2>3, <4>2
      <4> QED
        BY <2>1, <2>5, <4>1, <4>3, <4>4
    <3> QED
      BY <3>1, <3>2
  <2> QED
    BY <2>1, <2>4, <2>5
<1> QED
  BY <1>1, <1>2

(* A line of the header: that of the first request, or one after a bad     *)
(* line.                                                                   *)
LEMMA StoryHeader ==
    ASSUME SentOK, InputOK, ParserOK, Story, ParseHeader
    PROVE  Story'
<1>1. /\ HasLine /\ Contains(Line, ":") /\ ParseStep("ExpectHeaders", TRUE) /\ PassLine
      /\ request' = parseHeader(request, Line) /\ succeed' = succeed
  BY DEF ParseHeader
<1>2. /\ pc = "parse" /\ pc' = "parse" /\ request.state_ = "ExpectHeaders"
      /\ first' = first /\ asked' = asked
      /\ Silent' <=> Silent
      /\ Connected' <=> Connected
      /\ Whole' <=> Whole
      /\ AfterLine' = AfterLine /\ AfterHeader' = AfterHeader
      /\ AfterLine \in Nat /\ AfterHeader \in Nat /\ AfterLine <= AfterHeader
      /\ Closed => Closed'
  BY <1>1, ParseStepIs
<1>3. request'.state_ = "ExpectHeaders"
  BY <1>1, <1>2, ParseKeeps DEF ParserOK
<1>4. Len(Line) \in Nat /\ passed' = passed + Len(Line) + 2
  BY <1>1, PassLineHolds
<1>5. CASE Closed
  BY <1>2, <1>5 DEF Story
<1>6. CASE Doomed
  <2>1. Doomed'
    BY <1>1, <1>2, <1>3, <1>6 DEF Doomed
  <2> QED
    BY <2>1 DEF Story
<1>7. CASE InHeaders
  <2>1. PICK h \in Headers :
            /\ asked.connection = <<h>> /\ Line = <<"Connection", ":", " ", h>>
            /\ passed = AfterLine /\ request = HalfParsed(<<>>)
    BY <1>1, <1>7, HeaderLine, NoneIs
  <2>2. first = "whole" <=> Whole
    BY <1>1, <1>7, HeaderLine
  <2>3. asked.method_ # "OPTIONS"
    BY <1>1, <1>7, HeaderLine
  <2>4. /\ Len(Line) = 4 /\ Before(Line, ":") = <<"Connection">> /\ ValueOf(Line) = <<h>>
        /\ Header(<<h>>) = Line \o Crlf /\ Line \in Seq(Cell)
    BY <2>1, HeaderIs, ConstantsOK
  <2>5. request' = HalfParsed(asked.connection)
    <3>1. request' = [request EXCEPT !.connection = <<h>>]
      BY <1>1, <2>4 DEF parseHeader
    <3> DEFINE x == <<h>>
    <3>2. request' = [request EXCEPT !.connection = x] /\ asked.connection = x
      BY <2>1, <3>1
    <3> HIDE DEF x
    <3> QED
      BY <2>1, <3>2 DEF HalfParsed, RequestOf
  <2>6. passed' = AfterHeader
    <3> DEFINE l == Line
               x == Header(<<h>>)
    <3>1. l \in Seq(Cell) /\ Len(l) = 4 /\ x = l \o Crlf /\ Len(Crlf) = 2 /\ Crlf \in Seq(Cell)
      BY <2>4, CrlfIs
    <3>2. AfterHeader = AfterLine + Len(x)
      BY <2>1 DEF AfterHeader
    <3>3. passed' = AfterLine + Len(l) + 2
      BY <1>4, <2>1
    <3> HIDE DEF l, x
    <3>4. Len(l \o Crlf) = Len(l) + Len(Crlf)
      BY <3>1, JoinIs
    <3>5. Len(x) = 6
      BY <3>1, <3>4
    <3>6. \A a \in Nat : a + 4 + 2 = a + 6
      OBVIOUS
    <3> QED
      BY <1>2, <3>1, <3>2, <3>3, <3>5, <3>6
  <2>7. HalfParsed(asked.connection)' = HalfParsed(asked.connection)
    BY <1>2 DEF HalfParsed
  <2>8. Silent' /\ succeed' /\ first' # "none" /\ asked'.method_ # "OPTIONS"
    BY <1>1, <1>2, <1>7, <2>3 DEF InHeaders
  <2>9. InHeaders'
    BY <1>2, <1>3, <2>2, <2>5, <2>6, <2>7, <2>8 DEF InHeaders
  <2> QED
    BY <2>9 DEF Story
<1> QED
  BY <1>2, <1>5, <1>6, <1>7, NewRequestIs DEF Story, Fresh, Parsed, Answered, Failed

(* The empty line: the first request is complete, or a bad one is over.    *)
LEMMA StoryEndOfHeaders ==
    ASSUME SentOK, InputOK, ParserOK, Story, EndOfHeaders
    PROVE  Story'
<1>1. /\ HasLine /\ ~Contains(Line, ":") /\ ParseStep("ExpectHeaders", FALSE)
      /\ request' = [request EXCEPT !.state_ = "GotAll"] /\ succeed' = succeed /\ passed' = passed
  BY DEF EndOfHeaders
<1>2. /\ pc = "parse" /\ pc' = "answer" /\ request.state_ = "ExpectHeaders"
      /\ first' = first /\ asked' = asked
      /\ Silent' <=> Silent
      /\ Connected' <=> Connected
      /\ Good' <=> Good
      /\ Whole' <=> Whole
      /\ AfterLine' = AfterLine /\ AfterHeader' = AfterHeader
      /\ Closed => Closed'
  BY <1>1, ParseStepIs
<1>3. CASE Closed
  BY <1>2, <1>3 DEF Story
<1>4. CASE Doomed
  <2>1. Doomed'
    BY <1>1, <1>2, <1>4 DEF Doomed
  <2> QED
    BY <2>1 DEF Story
<1>5. CASE InHeaders
  <2>1. \A h \in Headers : Line # <<"Connection", ":", " ", h>>
    BY <1>1, HeaderIs, ConstantsOK
  <2>2. /\ first = "whole" <=> Whole
        /\ asked.method_ # "OPTIONS"
        /\ Whole /\ passed = AfterHeader /\ request = HalfParsed(asked.connection)
    BY <1>1, <1>5, <2>1, HeaderLine
  <2>3. request' = asked
    <3>1. asked = RequestOf("GotAll", asked.method_, <<"/">>, asked.query_, asked.version_, asked.connection)
      BY RequestIs, HasFields DEF SentOK
    <3>2. request = RequestOf("ExpectHeaders", asked.method_, <<"/">>, asked.query_, asked.version_, asked.connection)
      BY <2>2 DEF HalfParsed
    <3>3. [request EXCEPT !.state_ = "GotAll"] =
              RequestOf("GotAll", asked.method_, <<"/">>, asked.query_, asked.version_, asked.connection)
      BY <3>2 DEF RequestOf
    <3> QED
      BY <1>1, <3>1, <3>3
  <2>4. Good
    BY <2>2 DEF Good
  <2>5. Parsed'
    BY <1>1, <1>2, <1>5, <2>2, <2>3, <2>4 DEF Parsed, InHeaders
  <2> QED
    BY <2>5 DEF Story
<1> QED
  BY <1>2, <1>3, <1>4, <1>5, NewRequestIs DEF Story, Fresh, Parsed, Answered, Failed

(* No line: the request was cut, or nothing is expected of it.             *)
LEMMA StoryNoLine ==
    ASSUME SentOK, InputOK, ParserOK, Story, NoLine
    PROVE  Story'
<1>1. ~HasLine /\ ParseStep("ExpectHeaders", FALSE) /\ request' = request /\ succeed' = succeed
  BY DEF NoLine
<1>2. /\ pc = "parse" /\ pc' = "answer" /\ request.state_ = "ExpectHeaders"
      /\ Connected' <=> Connected
      /\ Closed => Closed'
  BY <1>1, ParseStepIs
<1>3. CASE Closed
  BY <1>2, <1>3 DEF Story
<1>4. CASE Doomed
  <2>1. Doomed'
    BY <1>1, <1>2, <1>4 DEF Doomed
  <2> QED
    BY <2>1 DEF Story
<1>5. CASE InHeaders
  <2>1. ~Good
    BY <1>1, <1>5, HeaderLine
  <2>2. Connected
    BY <1>5, <2>1, NothingCounted DEF Connected, InHeaders, Silent
  <2>3. Failed'
    BY <1>1, <1>2, <1>5, <2>2 DEF Failed, InHeaders
  <2> QED
    BY <2>3 DEF Story
<1> QED
  BY <1>2, <1>3, <1>4, <1>5, NewRequestIs DEF Story, Fresh, Parsed, Answered, Failed

(* The rest of onMessage: every state of the story goes on from there.     *)
LEMMA StoryAnswer ==
    ASSUME SentOK, InputOK, ParserOK, AnswersOK, Story, Answer
    PROVE  Story'
<1> DEFINE c == IF succeed THEN conn ELSE BadRequest(conn)
<1>1. /\ pc = "answer" /\ pc' = "idle" /\ ~succeed'
      /\ first' = first /\ asked' = asked /\ taken' = taken /\ passed' = passed
      /\ conn' = IF request.state_ = "GotAll" THEN Respond(c) ELSE c
      /\ request' = IF request.state_ = "GotAll" THEN NewRequest ELSE request
  BY DEF Answer, reset, sentVars
<1>2. (Good' <=> Good) /\ AfterHeader' = AfterHeader
  BY <1>1 DEF Good, AfterHeader, AfterLine
<1>3. Whole' <=> Whole
  BY <1>1, <1>2 DEF Whole
<1>4. /\ succeed => c = conn
      /\ ~succeed => AnswersIn(c) /\ c.state_ = "Disconnecting" /\ GoodOnes(c) = GoodOnes(conn)
  BY BadRequestIs DEF AnswersOK
<1> HIDE DEF c
<1>5. ASSUME Counted, first # "none", AnswersIn(c), c.state_ = "Disconnecting", GoodOnes(c) = GoodOnes(conn)
      PROVE  Story'
  <2>1. conn' = c
    BY <1>1, <1>5, RespondIs
  <2>2. conn'.state_ = "Disconnecting" /\ GoodOnes(conn') = GoodOnes(conn)
    BY <1>5, <2>1
  <2>3. Counted'
    BY <1>2, <1>5, <2>2 DEF Counted
  <2>4. Closed'
    BY <1>1, <1>5, <2>2, <2>3 DEF Closed
  <2> QED
    BY <2>4 DEF Story
<1>6. CASE Closed
  <2>1. Counted /\ first # "none" /\ conn.state_ = "Disconnecting" /\ AnswersIn(conn)
    BY <1>6 DEF Closed, AnswersOK
  <2>2. AnswersIn(c) /\ c.state_ = "Disconnecting" /\ GoodOnes(c) = GoodOnes(conn)
    BY <1>4, <2>1
  <2> QED
    BY <1>5, <2>1, <2>2
<1>7. CASE Doomed
  <2>1. Counted /\ first # "none" /\ ~succeed
    BY <1>7 DEF Doomed, Connected
  <2> QED
    BY <1>4, <1>5, <2>1
<1>8. CASE Failed
  <2>1. succeed /\ request.state_ = "ExpectHeaders" /\ Connected
    BY <1>8 DEF Failed
  <2>2. conn' = conn /\ request' = request
    BY <1>1, <1>4, <2>1
  <2>3. Connected'
    BY <1>1, <2>1, <2>2, SameStory
  <2>4. Doomed'
    BY <1>1, <2>1, <2>2, <2>3 DEF Doomed
  <2> QED
    BY <2>4 DEF Story
<1>9. CASE Parsed
  <2>1. /\ conn.state_ = "Connected" /\ conn.sent = <<>> /\ succeed /\ request = asked
        /\ Good /\ passed = AfterHeader /\ Whole
    BY <1>9 DEF Parsed, Silent
  <2>2. request.state_ = "GotAll" /\ first # "none"
    <3>1. asked.state_ = "GotAll"
      BY DEF SentOK, Requests
    <3> QED
      BY <2>1, <3>1 DEF Good
  <2>3. conn' = Respond(conn) /\ request' = NewRequest
    BY <1>1, <1>4, <2>1, <2>2
  <2>4. AnswersIn(conn') /\ GoodOnes(conn') = {1}
    BY <2>1, <2>3, RespondIs DEF AnswersOK
  <2>5. Counted'
    <3>1. Cardinality(GoodOnes(conn')) = 1
      BY <2>4, FS_Singleton
    <3> QED
      BY <1>2, <2>1, <3>1 DEF Counted
  <2>6. conn'.state_ \in {"Connected", "Disconnecting"}
    BY <2>4 DEF AnswersIn
  <2>7. CASE conn'.state_ = "Disconnecting"
    <3>1. Closed'
      BY <1>1, <2>2, <2>5, <2>7 DEF Closed
    <3> QED
      BY <3>1 DEF Story
  <2>8. CASE conn'.state_ = "Connected"
    <3>1. Connected'
      BY <1>1, <2>2, <2>5, <2>8 DEF Connected
    <3>2. Answered'
      BY <1>1, <1>2, <1>3, <2>1, <2>3, <3>1 DEF Answered
    <3> QED
      BY <3>2 DEF Story
  <2> QED
    BY <2>6, <2>7, <2>8
<1> QED
  BY <1>1, <1>6, <1>7, <1>8, <1>9 DEF Story, Fresh, InHeaders, Answered

-------------------------------------------------------------------------------
(* The invariant and what follows from it.                                 *)

(* The invariant holds at first.                                           *)
LEMMA InitIInv == Init => IInv
<1> SUFFICES ASSUME Init PROVE IInv
  OBVIOUS
<1>1. SentOK
  <2>1. asked \in Requests /\ stream = Request(asked) \o Repeated(Request(Simple), MaxRequests - 1)
    BY DEF Init
  <2> DEFINE l == RequestLine(asked)
             h == Header(asked.connection)
             s == Request(asked)
             more == Repeated(Request(Simple), MaxRequests - 1)
             n == Len(l) + 2
             m == n + Len(h)
  <2>2. l \in Seq(Cell) /\ h \in Seq(Cell) /\ more \in Seq(Cell)
    BY <2>1, LineOfRequest, HeaderSeq, MoreIs
  <2>3. s = ((l \o Crlf) \o h) \o Crlf /\ stream = s \o more
    BY <2>1 DEF Request
  <2> HIDE DEF l, h, s, more
  <2>4. IsMessage(s, l, h, n, m)
    BY <2>2, <2>3, MessageIs
  <2>5. s \in Seq(Cell)
    BY <2>4 DEF IsMessage
  <2>6. stream \in Seq(Cell)
    BY <2>2, <2>3, <2>5, JoinIs
  <2> QED
    BY <2>1, <2>6 DEF SentOK
<1>2. InputOK
  <2>1. inputBuffer_ = NewBuffer /\ iovec = Iovec(NewBuffer) /\ arrived = 0 /\ taken = 0 /\ passed = 0 /\ pc = "idle"
    BY DEF Init
  <2>2. Len(stream) \in Nat
    BY <1>1 DEF SentOK
  <2>3. Holds(NewBuffer, stream, 0, 0)
    <3>1. \A i \in 1 .. Len(NewBuffer.buffer_) : ~(NewBuffer.readIndex_ < i /\ i <= NewBuffer.writeIndex_)
      BY NewBufferIs
    <3> QED
      BY <3>1, NewBufferIs DEF Holds
  <2>4. BufferOK(NewBuffer) /\ Iovec(NewBuffer).base \in Nat /\ Iovec(NewBuffer).room \in Nat
    BY NewBufferIs
  <2> QED
    BY <2>1, <2>2, <2>3, <2>4 DEF InputOK
<1>3. ParserOK
  BY NewRequestIs DEF Init, ParserOK
<1>4. AnswersOK
  <2>1. conn = [state_ |-> "Connected", sent |-> <<>>]
    BY DEF Init
  <2>2. <<>> \in Seq(Seq(Cell)) /\ Len(<<>>) = 0 /\ "Connected" \in {"Connected", "Disconnecting"}
    OBVIOUS
  <2>3. conn \in [state_ : {"Connected", "Disconnecting"}, sent : Seq(Seq(Cell))]
    BY <2>1, <2>2, PairOf
  <2>4. conn.state_ = "Connected" /\ conn.sent = <<>> /\ Len(conn.sent) = 0
    BY <2>1, <2>2
  <2>5. \A i \in 1 .. Len(conn.sent) - 1 : Kept(conn.sent[i])
    BY <2>4
  <2> QED
    BY <2>3, <2>4, <2>5 DEF AnswersOK, AnswersIn
<1>5. Fresh
  BY DEF Init, Fresh, Silent
<1> QED
  BY <1>1, <1>2, <1>3, <1>4, <1>5 DEF IInv, Story

(* Every step preserves the invariant.                                     *)
LEMMA NextIInv == IInv /\ [Next]_vars => IInv'
<1> SUFFICES ASSUME IInv, [Next]_vars PROVE IInv'
  OBVIOUS
<1>1. SentOK /\ InputOK /\ ParserOK /\ AnswersOK /\ Story
  BY DEF IInv
<1>2. SentOK'
  BY <1>1, SentStep
<1>3. InputOK'
  BY <1>1, InputStep
<1>4. ParserOK'
  BY <1>1, ParserStep
<1>5. AnswersOK'
  BY <1>1, AnswersStep
<1>6. Story'
  <2>1. CASE UNCHANGED vars
    BY <1>1, <2>1, StoryStays
  <2>2. CASE (\E n \in arrived + 1 .. Len(stream) : Arrive(n)) \/ StartRead \/ Readv \/ EndRead
    BY <1>1, <2>2, StoryReads
  <2>3. CASE ParseRequestLine
    BY <1>1, <2>3, StoryRequestLine
  <2>4. CASE ParseHeader
    BY <1>1, <2>4, StoryHeader
  <2>5. CASE EndOfHeaders
    BY <1>1, <2>5, StoryEndOfHeaders
  <2>6. CASE NoLine
    BY <1>1, <2>6, StoryNoLine
  <2>7. CASE Answer
    BY <1>1, <2>7, StoryAnswer
  <2> QED
    BY <2>1, <2>2, <2>3, <2>4, <2>5, <2>6, <2>7 DEF Next
<1> QED
  BY <1>2, <1>3, <1>4, <1>5, <1>6 DEF IInv

(* The buffer, the parser and the answers always are in one of the states  *)
(* of the story above (HttpRequest.cc:18-64, HttpServer.cc, Buffer.cc).    *)
THEOREM SpecIInv == Spec => []IInv
BY InitIInv, NextIInv, PTL DEF Spec

(* The types follow.                                                       *)
LEMMA IInvTypeOK == IInv => TypeOK
<1> SUFFICES ASSUME IInv PROVE TypeOK
  OBVIOUS
<1>1. /\ taken \in Nat /\ arrived \in Nat /\ taken <= arrived /\ arrived <= Len(stream)
      /\ passed \in Nat /\ passed <= taken + 2
      /\ BufferOK(inputBuffer_) /\ Holds(inputBuffer_, stream, passed, taken)
  BY DEF IInv, InputOK
<1>2. /\ inputBuffer_.writeIndex_ \in Nat /\ inputBuffer_.readIndex_ \in Nat
      /\ inputBuffer_.writeIndex_ <= Len(inputBuffer_.buffer_)
      /\ inputBuffer_.writeIndex_ - inputBuffer_.readIndex_ = taken - passed
  BY <1>1 DEF BufferOK, Holds
<1>3. inputBuffer_.readIndex_ \in 0 .. inputBuffer_.writeIndex_ + 2 /\ passed \in 0 .. taken + 2
  BY <1>1, <1>2
<1>4. conn.state_ \in {"Connected", "Disconnecting"}
  BY DEF IInv, AnswersOK, AnswersIn
<1> QED
  BY <1>1, <1>2, <1>3, <1>4 DEF TypeOK, IInv, ParserOK

(* Only a request that was parsed completely gets a good answer.           *)
LEMMA IInvParsedIsAsked == IInv => ParsedIsAsked
<1> SUFFICES ASSUME IInv, pc = "answer", succeed, request.state_ = "GotAll", conn.state_ = "Connected"
             PROVE  request = asked
  BY DEF ParsedIsAsked
<1>1. Parsed
  BY DEF IInv, Story, Fresh, InHeaders, Answered, Failed, Doomed, Closed
<1> QED
  BY <1>1 DEF Parsed

(* Between two reads the answers are counted.                              *)
LEMMA IInvOneSuccess == IInv => OneSuccessPerConnection
<1> SUFFICES ASSUME IInv, pc = "idle" PROVE Counted
  BY DEF OneSuccessPerConnection, Counted, GoodOnes, Good
<1>1. CASE Fresh
  <2>1. Silent /\ ~Good
    BY <1>1 DEF Fresh, Good
  <2> QED
    BY <2>1, NothingCounted
<1>2. CASE ~Fresh
  BY <1>2 DEF IInv, Story, InHeaders, Parsed, Answered, Failed, Doomed, Closed, Connected
<1> QED
  BY <1>1, <1>2

(* The last answer tells whether the connection is open.                   *)
LEMMA IInvAnnounced == IInv => AnnouncedIsDone
<1> SUFFICES ASSUME IInv PROVE AnnouncedIsDone
  OBVIOUS
<1> DEFINE n == Len(conn.sent)
<1>1. /\ conn.sent \in Seq(Seq(Cell)) /\ conn.state_ \in {"Connected", "Disconnecting"}
      /\ \A i \in 1 .. n - 1 : Kept(conn.sent[i])
      /\ conn.state_ = "Connected" /\ n > 0 => Kept(conn.sent[n])
      /\ conn.state_ = "Disconnecting" => n > 0 /\ ~Kept(conn.sent[n])
  BY DEF IInv, AnswersOK, AnswersIn
<1>2. n \in Nat
  BY <1>1
<1>3. \A i \in 1 .. n : i \in 1 .. n - 1 \/ (i = n /\ n > 0)
  BY <1>2
<1>4. n > 0 => n \in 1 .. n
  BY <1>2
<1> HIDE DEF n
<1>5. conn.state_ = "Connected" => \A i \in 1 .. n : Kept(conn.sent[i])
  BY <1>1, <1>3
<1>6. conn.state_ # "Connected" => n \in 1 .. n /\ ~Kept(conn.sent[n])
  BY <1>1, <1>4
<1> QED
  BY <1>1, <1>5, <1>6 DEF AnnouncedIsDone, n

(* The types: the indices of the buffer stay within it, the reading one at *)
(* most two past the writing one (Buffer.h, HttpRequest.cc:18-64).         *)
THEOREM TypeCorrect == Spec => []TypeOK
BY SpecIInv, IInvTypeOK, PTL

(* Whatever is moved, enlarged or taken from the array on the stack, the   *)
(* buffer is the part of the stream that has been received and not parsed  *)
(* (Buffer.cc:18-85).                                                      *)
THEOREM InputAlwaysIsStream == Spec => []InputIsStream
<1>1. IInv => InputIsStream
  BY TextIs DEF IInv, InputIsStream
<1> QED
  BY <1>1, SpecIInv, PTL

(* A good answer is one to the request the peer has sent, field by field   *)
(* (HttpRequest.cc:77-118).                                                *)
THEOREM AlwaysParsedIsAsked == Spec => []ParsedIsAsked
BY SpecIInv, IInvParsedIsAsked, PTL

(* One good answer on a connection if its first request comes in one piece *)
(* and its method is known, and none otherwise, for any number of requests *)
(* (HttpRequest.cc:18-64).                                                 *)
THEOREM OneSuccess == Spec => []OneSuccessPerConnection
BY SpecIInv, IInvOneSuccess, PTL

(* The connection is shut down with the first answer that does not keep it *)
(* and not before (HttpServer.cc).                                         *)
THEOREM AnnouncedAlwaysDone == Spec => []AnnouncedIsDone
BY SpecIInv, IInvAnnounced, PTL
===============================================================================
