-------------------------- MODULE AsyncLoggingProofs --------------------------
(***************************************************************************)
(* For buffers, lines and files of any size, any number of lines and of    *)
(* errors: the log is complete and in order but for what is given up, no   *)
(* line is divided between files, the log thread has the buffers that it   *)
(* takes back, the lines are what was logged, and all of it together is a  *)
(* journal.                                                                *)
(***************************************************************************)
EXTENDS AsyncLogging, LoggerProofs

(* The assumptions on the constants, spelled out; a line is shorter than   *)
(* its buffer.                                                             *)
LEMMA Constants ==
    /\ BufferSize \in Nat /\ SmallSize \in Nat /\ SmallSize < BufferSize
    /\ Lengths \subseteq 0 .. SmallSize - 1
    /\ MaxBuffers \in Nat /\ MaxBuffers >= 2 /\ MaxLines \in Nat
    /\ RollSize \in Nat /\ MaxErrors \in Nat /\ MaxSeconds \in Nat /\ MaxSeconds > 0
<1>1. ASSUME NEW len \in Lengths PROVE len \in 0 .. SmallSize - 1
  <2>1. PICK message \in Messages : len = Len(Line(message))
    BY ConstantsOK
  <2>2. Len(Line(message)) < SmallSize
    BY LineInside DEF InsideBuffer
  <2>3. Len(Line(message)) \in Nat
    BY LineInside
  <2> QED
    BY <2>1, <2>2, <2>3, LoggerConstantsOK
<1> QED
  BY <1>1, ConstantsOK, LoggerConstantsOK, FileConstantsOK DEF KeptBuffers

-------------------------------------------------------------------------------
(* The invariant.                                                          *)

(* The latches are open when the log thread has passed them, and before    *)
(* that it has no file.                                                    *)
Phases ==
    /\ owner = "new" <=> pc = "none"
    /\ latches.thread = IF pc \in {"none", "thread"} THEN 1 ELSE 0
    /\ latches.run = IF pc \in {"none", "thread", "run"} THEN 1 ELSE 0
    /\ pc \in {"none", "thread", "run"} => unflushed = <<>>

(* Who has the buffers: one is in the vector for each spare one that is    *)
(* not in its place.                                                       *)
Buffers ==
    /\ ~bufferNext_ => bufferVector_ # <<>>
    /\ pc # "write" => outputs = 0
    /\ IF pc \in {"erase", "write"}
       THEN Len(bufferBackVec) >= 1 /\ (~bufferBack2 => Len(bufferBackVec) >= 2)
       ELSE bufferBackVec = <<>> /\ bufferBack1 /\ bufferBack2

EmptyAfter(fs, n) == \A s \in 1 .. MaxSeconds : s > n => fs[s] = <<>>
NoLaterFiles == EmptyAfter(files, name)

(* The bytes are in the order of the places that they pass through.        *)
EachInOrder ==
    /\ InOrder(files) /\ Increasing(unflushed) /\ InOrder(Unwritten)
    /\ InOrder(bufferVector_) /\ Increasing(bufferCurrent_)

Written == Bytes(files) \cup ToSet(unflushed)
InFront == Bytes(bufferVector_) \cup ToSet(bufferCurrent_)

AllInOrder ==
    /\ Before(Bytes(files), ToSet(unflushed))
    /\ Before(Written, Bytes(Unwritten))
    /\ Before(Written \cup Bytes(Unwritten), InFront)
    /\ Before(Bytes(bufferVector_), ToSet(bufferCurrent_))

AllThere == Written \cup Bytes(Unwritten) \cup InFront = (1 .. appended) \ lost

(* Unless a write has failed, lines are not divided.                       *)
LinesOf(buffers) == \A i \in DOMAIN buffers : WholeLines(ToSet(buffers[i]))

LinesWhole ==
    errors = 0 =>
        /\ LinesOf(files) /\ WholeLines(ToSet(unflushed)) /\ LinesOf(bufferBackVec)
        /\ LinesOf(bufferVector_) /\ WholeLines(ToSet(bufferCurrent_))

IInv ==
    /\ TypeOK /\ Phases /\ Buffers /\ NoLaterFiles
    /\ EachInOrder /\ AllInOrder /\ AllThere /\ LinesWhole

-------------------------------------------------------------------------------
(* Sequences of bytes.                                                     *)

Data == Seq(Nat)

(* One piece of data after another.                                        *)
LEMMA Joined ==
    ASSUME NEW a \in Data, NEW b \in Data
    PROVE  /\ a \o b \in Data /\ Len(a \o b) = Len(a) + Len(b)
           /\ ToSet(a \o b) = ToSet(a) \cup ToSet(b)
           /\ Increasing(a) /\ Increasing(b) /\ Before(ToSet(a), ToSet(b)) => Increasing(a \o b)
<1> DEFINE c == a \o b
<1>1. /\ c \in Data /\ Len(c) = Len(a) + Len(b) /\ Len(a) \in Nat /\ Len(b) \in Nat
      /\ \A i \in 1 .. Len(c) : c[i] = IF i <= Len(a) THEN a[i] ELSE b[i - Len(a)]
  BY DEF Data
<1>2. DOMAIN a = 1 .. Len(a) /\ DOMAIN b = 1 .. Len(b) /\ DOMAIN c = 1 .. Len(c)
  BY <1>1 DEF Data
<1> HIDE DEF c
<1>3. ToSet(c) = ToSet(a) \cup ToSet(b)
  <2>1. \A i \in 1 .. Len(c) : c[i] \in ToSet(a) \cup ToSet(b)
    BY <1>1, <1>2 DEF ToSet
  <2>2. \A i \in 1 .. Len(a) : i \in 1 .. Len(c) /\ c[i] = a[i]
    BY <1>1
  <2>3. \A i \in 1 .. Len(b) : i + Len(a) \in 1 .. Len(c) /\ c[i + Len(a)] = b[i]
    BY <1>1
  <2>4. ToSet(a) \subseteq ToSet(c)
    BY <1>2, <2>2 DEF ToSet
  <2>5. ToSet(b) \subseteq ToSet(c)
    BY <1>2, <2>3 DEF ToSet
  <2>6. ToSet(c) \subseteq ToSet(a) \cup ToSet(b)
    BY <1>2, <2>1 DEF ToSet
  <2> QED
    BY <2>4, <2>5, <2>6
<1>4. ASSUME Increasing(a), Increasing(b), Before(ToSet(a), ToSet(b)) PROVE Increasing(c)
  <2> SUFFICES ASSUME NEW i \in 1 .. Len(c), NEW j \in 1 .. Len(c), i < j PROVE c[i] < c[j]
    BY <1>2 DEF Increasing
  <2>1. CASE j <= Len(a)
    BY <1>1, <1>2, <1>4, <2>1 DEF Increasing
  <2>2. CASE i > Len(a)
    <3>1. i - Len(a) \in 1 .. Len(b) /\ j - Len(a) \in 1 .. Len(b) /\ i - Len(a) < j - Len(a)
      BY <1>1, <2>2
    <3> QED
      BY <1>1, <1>2, <1>4, <2>2, <3>1 DEF Increasing
  <2>3. CASE i <= Len(a) /\ j > Len(a)
    <3>1. a[i] \in ToSet(a) /\ b[j - Len(a)] \in ToSet(b)
      BY <1>1, <1>2, <2>3 DEF ToSet
    <3> QED
      BY <1>1, <1>4, <2>3, <3>1 DEF Before
  <2> QED
    BY <1>1, <2>1, <2>2, <2>3
<1> QED
  BY <1>1, <1>3, <1>4 DEF c

(* What was written of a buffer, and what was given up.                    *)
LEMMA Divided ==
    ASSUME NEW a \in Data, NEW n \in 0 .. Len(a), Increasing(a)
    PROVE  LET b == SubSeq(a, 1, n)
               c == SubSeq(a, n + 1, Len(a))
           IN  /\ b \in Data /\ Increasing(b) /\ ToSet(b) \cup ToSet(c) = ToSet(a)
               /\ ToSet(b) \cap ToSet(c) = {}
               /\ n = Len(a) => b = a
<1> DEFINE b == SubSeq(a, 1, n)
           c == SubSeq(a, n + 1, Len(a))
<1>1. /\ b \in Data /\ Len(b) = n /\ \A i \in 1 .. n : b[i] = a[i]
      /\ c \in Data /\ Len(c) = Len(a) - n /\ \A i \in 1 .. Len(a) - n : c[i] = a[n + i]
      /\ Len(a) \in Nat /\ n \in Nat
  BY DEF Data
<1>2. DOMAIN a = 1 .. Len(a) /\ DOMAIN b = 1 .. n /\ DOMAIN c = 1 .. Len(a) - n
  BY <1>1 DEF Data
<1>3. n = Len(a) => b = a
  BY <1>1 DEF Data
<1> HIDE DEF b, c
<1>4. Increasing(b)
  BY <1>1, <1>2 DEF Increasing
<1>5. \A i \in 1 .. Len(a) : i \in 1 .. n \/ (i - n \in 1 .. Len(a) - n /\ c[i - n] = a[i])
  BY <1>1
<1>6. \A i \in 1 .. Len(a) - n : n + i \in 1 .. Len(a)
  BY <1>1
<1>7. ToSet(b) \cup ToSet(c) = ToSet(a)
  <2>1. ToSet(b) \subseteq ToSet(a)
    BY <1>1, <1>2 DEF ToSet
  <2>2. ToSet(c) \subseteq ToSet(a)
    BY SMTT(30), <1>1, <1>2, <1>6 DEF ToSet
  <2>3. ToSet(a) \subseteq ToSet(b) \cup ToSet(c)
    <3> SUFFICES ASSUME NEW i \in 1 .. Len(a) PROVE a[i] \in ToSet(b) \cup ToSet(c)
      BY <1>2 DEF ToSet
    <3>1. CASE i \in 1 .. n
      BY <1>1, <1>2, <3>1 DEF ToSet
    <3>2. CASE i \notin 1 .. n
      <4>1. i - n \in 1 .. Len(a) - n /\ c[i - n] = a[i]
        BY <1>5, <3>2
      <4> QED
        BY <1>2, <4>1 DEF ToSet
    <3> QED
      BY <3>1, <3>2
  <2> QED
    BY <2>1, <2>2, <2>3
<1>8. \A i \in 1 .. n, j \in 1 .. Len(a) - n : b[i] < c[j]
  BY SMTT(30), <1>1, <1>2, <1>6 DEF Increasing
<1>9. ToSet(b) \cap ToSet(c) = {}
  <2> SUFFICES ASSUME NEW i \in 1 .. n, NEW j \in 1 .. Len(a) - n, b[i] = c[j] PROVE FALSE
    BY <1>2 DEF ToSet
  <2>1. b[i] \in Nat /\ c[j] \in Nat
    BY SMTT(30), <1>1 DEF Data
  <2> QED
    BY <1>8, <2>1
<1> QED
  BY <1>1, <1>3, <1>4, <1>7, <1>9 DEF b, c

(* Neither data nor buffers.                                               *)
LEMMA Nothing ==
    /\ <<>> \in Data /\ ToSet(<<>>) = {} /\ Increasing(<<>>)
    /\ <<>> \in Seq(Data) /\ Bytes(<<>>) = {} /\ InOrder(<<>>)
  BY DEF Data, ToSet, Bytes, Increasing, InOrder

-------------------------------------------------------------------------------
(* Sequences of buffers.                                                   *)

(* The bytes of buffers.                                                   *)
LEMMA BytesAre ==
    ASSUME NEW v \in Seq(Data)
    PROVE  Bytes(v) \subseteq Nat /\ \A i \in 1 .. Len(v) : v[i] \in Data /\ ToSet(v[i]) \subseteq Bytes(v)
<1>1. \A i \in 1 .. Len(v) : v[i] \in Data
  OBVIOUS
<1>2. \A i \in 1 .. Len(v) : ToSet(v[i]) \subseteq Nat
  BY <1>1 DEF ToSet, Data
<1> QED
  BY <1>1, <1>2 DEF Bytes

(* One more buffer.                                                        *)
LEMMA BuffersGrow ==
    ASSUME NEW v \in Seq(Data), NEW a \in Data
    PROVE  /\ Append(v, a) \in Seq(Data) /\ Bytes(Append(v, a)) = Bytes(v) \cup ToSet(a)
           /\ InOrder(v) /\ Increasing(a) /\ Before(Bytes(v), ToSet(a)) => InOrder(Append(v, a))
           /\ LinesOf(v) /\ WholeLines(ToSet(a)) => LinesOf(Append(v, a))
<1> DEFINE w == Append(v, a)
<1>1. /\ w \in Seq(Data) /\ Len(w) = Len(v) + 1 /\ Len(v) \in Nat
      /\ \A i \in 1 .. Len(v) : w[i] = v[i]
      /\ w[Len(v) + 1] = a
  BY AppendProperties
<1>2. DOMAIN w = 1 .. Len(w) /\ DOMAIN v = 1 .. Len(v)
  BY <1>1
<1> HIDE DEF w
<1>3. \A i \in 1 .. Len(w) : (i \in 1 .. Len(v) /\ w[i] = v[i]) \/ (i = Len(w) /\ w[i] = a)
  BY <1>1
<1>4. \A i \in 1 .. Len(v) : i \in 1 .. Len(w)
  BY <1>1
<1>5. Len(w) \in 1 .. Len(w) /\ w[Len(w)] = a
  BY <1>1
<1>6. Bytes(w) = Bytes(v) \cup ToSet(a)
  BY <1>1, <1>2, <1>3, <1>4, <1>5 DEF Bytes
<1>7. ASSUME InOrder(v), Increasing(a), Before(Bytes(v), ToSet(a)) PROVE InOrder(w)
  <2>1. \A i \in 1 .. Len(w) : Increasing(w[i])
    BY <1>2, <1>3, <1>7 DEF InOrder
  <2>2. ASSUME NEW i \in 1 .. Len(w), NEW j \in 1 .. Len(w), i < j
        PROVE  Before(ToSet(w[i]), ToSet(w[j]))
    <3>1. CASE j \in 1 .. Len(v)
      <4>1. i \in 1 .. Len(v) /\ w[i] = v[i] /\ w[j] = v[j]
        BY <1>1, <2>2, <3>1
      <4> QED
        BY <1>2, <1>7, <2>2, <3>1, <4>1 DEF InOrder
    <3>2. CASE j \notin 1 .. Len(v)
      <4>1. i \in 1 .. Len(v) /\ w[i] = v[i] /\ w[j] = a
        BY <1>1, <1>3, <2>2, <3>2
      <4>2. ToSet(v[i]) \subseteq Bytes(v)
        BY <4>1, BytesAre
      <4> QED
        BY <1>7, <4>1, <4>2 DEF Before
    <3> QED
      BY <3>1, <3>2
  <2> QED
    BY <1>2, <2>1, <2>2 DEF InOrder
<1>8. LinesOf(v) /\ WholeLines(ToSet(a)) => LinesOf(w)
  BY <1>2, <1>3 DEF LinesOf
<1> QED
  BY <1>1, <1>6, <1>7, <1>8 DEF w

(* Some of the buffers at the end, or at the front.                        *)
LEMMA BuffersShrink ==
    ASSUME NEW v \in Seq(Data), NEW m \in Nat, NEW n \in 0 .. Len(v)
    PROVE  LET w == SubSeq(v, m + 1, n)
           IN  /\ w \in Seq(Data) /\ Len(w) = (IF m <= n THEN n - m ELSE 0)
               /\ \A i \in 1 .. Len(w) : w[i] = v[m + i]
               /\ Bytes(w) \subseteq Bytes(v) /\ (InOrder(v) => InOrder(w))
               /\ LinesOf(v) => LinesOf(w)
<1> DEFINE w == SubSeq(v, m + 1, n)
<1>1. /\ w \in Seq(Data) /\ Len(w) = (IF m <= n THEN n - m ELSE 0) /\ Len(v) \in Nat
      /\ \A i \in 1 .. Len(w) : w[i] = v[m + i]
  <2>1. CASE m + 1 <= n
    <3>1. \A i \in m + 1 .. n : v[i] \in Data
      OBVIOUS
    <3> QED
      BY SMTT(30), <2>1, <3>1, SubSeqProperties
  <2>2. CASE ~(m + 1 <= n)
    BY <2>2, SubSeqProperties
  <2> QED
    BY <2>1, <2>2
<1>2. DOMAIN w = 1 .. Len(w) /\ DOMAIN v = 1 .. Len(v)
  BY <1>1
<1> HIDE DEF w
<1>3. \A i \in 1 .. Len(w) : m + i \in 1 .. Len(v)
  BY <1>1
<1>4. Bytes(w) \subseteq Bytes(v)
  BY <1>1, <1>2, <1>3 DEF Bytes
<1>5. InOrder(v) => InOrder(w)
  <2> SUFFICES ASSUME InOrder(v) PROVE InOrder(w)
    OBVIOUS
  <2>1. \A i \in 1 .. Len(w) : Increasing(w[i])
    BY <1>1, <1>2, <1>3 DEF InOrder
  <2>2. \A i, j \in 1 .. Len(w) : i < j => m + i < m + j
    OBVIOUS
  <2>3. \A i, j \in 1 .. Len(w) : i < j => Before(ToSet(w[i]), ToSet(w[j]))
    BY <1>1, <1>2, <1>3, <2>2 DEF InOrder
  <2> QED
    BY <1>2, <2>1, <2>3 DEF InOrder
<1>6. LinesOf(v) => LinesOf(w)
  BY <1>1, <1>2, <1>3 DEF LinesOf
<1> QED
  BY <1>1, <1>4, <1>5, <1>6 DEF w

(* Some buffers after others.                                              *)
LEMMA BuffersJoined ==
    ASSUME NEW v \in Seq(Data), NEW w \in Seq(Data)
    PROVE  /\ v \o w \in Seq(Data) /\ Bytes(v \o w) = Bytes(v) \cup Bytes(w)
           /\ InOrder(v) /\ InOrder(w) /\ Before(Bytes(v), Bytes(w)) => InOrder(v \o w)
<1> DEFINE u == v \o w
<1>1. /\ u \in Seq(Data) /\ Len(u) = Len(v) + Len(w) /\ Len(v) \in Nat /\ Len(w) \in Nat
      /\ \A i \in 1 .. Len(u) : u[i] = IF i <= Len(v) THEN v[i] ELSE w[i - Len(v)]
  OBVIOUS
<1>2. DOMAIN u = 1 .. Len(u) /\ DOMAIN v = 1 .. Len(v) /\ DOMAIN w = 1 .. Len(w)
  BY <1>1
<1> HIDE DEF u
<1>3. \A i \in 1 .. Len(u) :
          (i \in 1 .. Len(v) /\ u[i] = v[i]) \/ (i - Len(v) \in 1 .. Len(w) /\ u[i] = w[i - Len(v)])
  BY <1>1
<1>4. Bytes(u) = Bytes(v) \cup Bytes(w)
  <2>1. Bytes(u) \subseteq Bytes(v) \cup Bytes(w)
    <3> SUFFICES ASSUME NEW i \in 1 .. Len(u) PROVE ToSet(u[i]) \subseteq Bytes(v) \cup Bytes(w)
      BY <1>2 DEF Bytes
    <3> QED
      BY <1>2, <1>3 DEF Bytes
  <2>2. Bytes(v) \subseteq Bytes(u)
    <3>1. \A i \in 1 .. Len(v) : i \in 1 .. Len(u) /\ u[i] = v[i]
      BY <1>1
    <3> QED
      BY <1>2, <3>1 DEF Bytes
  <2>3. Bytes(w) \subseteq Bytes(u)
    <3>1. \A i \in 1 .. Len(w) :
              /\ i + Len(v) \in 1 .. Len(u) /\ (i + Len(v)) - Len(v) = i
              /\ ~(i + Len(v) <= Len(v))
      BY <1>1
    <3>2. \A i \in 1 .. Len(w) : i + Len(v) \in 1 .. Len(u) /\ u[i + Len(v)] = w[i]
      BY <1>1, <3>1
    <3> QED
      BY <1>2, <3>2 DEF Bytes
  <2> QED
    BY <2>1, <2>2, <2>3
<1>5. ASSUME InOrder(v), InOrder(w), Before(Bytes(v), Bytes(w)) PROVE InOrder(u)
  <2>1. \A i \in 1 .. Len(u) : Increasing(u[i])
    BY <1>2, <1>3, <1>5 DEF InOrder
  <2>2. ASSUME NEW i \in 1 .. Len(u), NEW j \in 1 .. Len(u), i < j
        PROVE  Before(ToSet(u[i]), ToSet(u[j]))
    <3>1. CASE j <= Len(v)
      <4>1. i \in 1 .. Len(v) /\ j \in 1 .. Len(v) /\ u[i] = v[i] /\ u[j] = v[j]
        BY <1>1, <2>2, <3>1
      <4> QED
        BY <1>2, <1>5, <2>2, <4>1 DEF InOrder
    <3>2. CASE i > Len(v)
      <4>1. /\ i - Len(v) \in 1 .. Len(w) /\ j - Len(v) \in 1 .. Len(w) /\ i - Len(v) < j - Len(v)
            /\ u[i] = w[i - Len(v)] /\ u[j] = w[j - Len(v)]
        BY <1>1, <2>2, <3>2
      <4> QED
        BY <1>2, <1>5, <4>1 DEF InOrder
    <3>3. CASE i <= Len(v) /\ j > Len(v)
      <4>1. /\ i \in 1 .. Len(v) /\ u[i] = v[i]
            /\ j - Len(v) \in 1 .. Len(w) /\ u[j] = w[j - Len(v)]
        BY <1>1, <2>2, <3>3
      <4>2. ToSet(u[i]) \subseteq Bytes(v) /\ ToSet(u[j]) \subseteq Bytes(w)
        BY <4>1, BytesAre
      <4> QED
        BY <1>5, <4>2 DEF Before
    <3> QED
      BY <1>1, <3>1, <3>2, <3>3
  <2> QED
    BY <1>2, <2>1, <2>2 DEF InOrder
<1> QED
  BY <1>1, <1>4, <1>5 DEF u

(* A single buffer.                                                        *)
LEMMA OneBuffer ==
    ASSUME NEW a \in Data
    PROVE  /\ <<a>> \in Seq(Data) /\ Bytes(<<a>>) = ToSet(a)
           /\ Increasing(a) => InOrder(<<a>>)
<1>1. <<a>> \in Seq(Data) /\ Len(<<a>>) = 1 /\ <<a>>[1] = a /\ DOMAIN <<a>> = {1}
  OBVIOUS
<1> QED
  BY <1>1 DEF Bytes, InOrder

(* The next buffer that is written, and the rest.                          *)
LEMMA NextBuffer ==
    ASSUME NEW v \in Seq(Data), NEW o \in Nat, o < Len(v)
    PROVE  LET a == v[o + 1]
               r == SubSeq(v, o + 1, Len(v))
               q == SubSeq(v, (o + 1) + 1, Len(v))
           IN  /\ a \in Data /\ q \in Seq(Data) /\ Bytes(r) = ToSet(a) \cup Bytes(q)
               /\ InOrder(r) => Increasing(a) /\ InOrder(q) /\ Before(ToSet(a), Bytes(q))
<1> DEFINE a == v[o + 1]
           r == SubSeq(v, o + 1, Len(v))
           q == SubSeq(v, (o + 1) + 1, Len(v))
<1>1. /\ r \in Seq(Data) /\ Len(r) = Len(v) - o /\ \A i \in 1 .. Len(r) : r[i] = v[o + i]
      /\ q \in Seq(Data) /\ Len(q) = Len(v) - (o + 1) /\ \A i \in 1 .. Len(q) : q[i] = v[(o + 1) + i]
      /\ Len(v) \in Nat /\ a \in Data
  BY BuffersShrink
<1>2. DOMAIN r = 1 .. Len(r) /\ DOMAIN q = 1 .. Len(q)
  BY <1>1
<1>3. 1 \in 1 .. Len(r) /\ r[1] = a /\ \A i \in 1 .. Len(q) : i + 1 \in 1 .. Len(r) /\ q[i] = r[i + 1]
  BY <1>1
<1> HIDE DEF a, r, q
<1>4. \A i \in 1 .. Len(r) : i = 1 \/ (i - 1 \in 1 .. Len(q) /\ q[i - 1] = r[i])
  BY SMTT(30), <1>1, <1>3
<1>5. Bytes(r) = ToSet(a) \cup Bytes(q)
  <2>1. Bytes(r) \subseteq ToSet(a) \cup Bytes(q)
    <3> SUFFICES ASSUME NEW i \in 1 .. Len(r) PROVE ToSet(r[i]) \subseteq ToSet(a) \cup Bytes(q)
      BY <1>2 DEF Bytes
    <3> QED
      BY <1>2, <1>3, <1>4 DEF Bytes
  <2>2. ToSet(a) \subseteq Bytes(r)
    BY <1>2, <1>3 DEF Bytes
  <2>3. Bytes(q) \subseteq Bytes(r)
    BY <1>2, <1>3 DEF Bytes
  <2> QED
    BY <2>1, <2>2, <2>3
<1>6. ASSUME InOrder(r) PROVE Increasing(a) /\ InOrder(q) /\ Before(ToSet(a), Bytes(q))
  <2>1. Increasing(a) /\ \A i \in 1 .. Len(q) : Increasing(q[i])
    BY <1>2, <1>3, <1>6 DEF InOrder
  <2>2. \A i, j \in 1 .. Len(q) : i < j => i + 1 < j + 1
    OBVIOUS
  <2>3. \A i, j \in 1 .. Len(q) : i < j => Before(ToSet(q[i]), ToSet(q[j]))
    BY <1>2, <1>3, <1>6, <2>2 DEF InOrder
  <2>4. \A i \in 1 .. Len(q) : Before(ToSet(a), ToSet(q[i]))
    BY <1>2, <1>3, <1>6 DEF InOrder
  <2>5. Before(ToSet(a), Bytes(q))
    BY <1>2, <2>4 DEF Before, Bytes
  <2> QED
    BY <1>2, <2>1, <2>3, <2>5 DEF InOrder
<1> QED
  BY <1>1, <1>5, <1>6 DEF a, r, q

-------------------------------------------------------------------------------
(* The files.                                                              *)

Files == [1 .. MaxSeconds -> Data]

(* The files are as many buffers.                                          *)
LEMMA FilesAre ==
    ASSUME NEW fs \in Files
    PROVE  fs \in Seq(Data) /\ DOMAIN fs = 1 .. MaxSeconds
<1>1. MaxSeconds \in Nat
  BY Constants
<1> QED
  BY <1>1 DEF Files

Grown(fs, n, a, gs) == gs = [fs EXCEPT ![n] = @ \o a]

(* Only the last file that was opened grows.                               *)
LEMMA FilesGrow ==
    ASSUME NEW fs \in Files, NEW n \in 1 .. MaxSeconds, NEW a \in Data,
           EmptyAfter(fs, n), InOrder(fs), Increasing(a), Before(Bytes(fs), ToSet(a)),
           NEW gs, Grown(fs, n, a, gs)
    PROVE  /\ gs \in Files /\ Bytes(gs) = Bytes(fs) \cup ToSet(a) /\ InOrder(gs)
           /\ EmptyAfter(gs, n)
           /\ LinesOf(fs) /\ WholeLines(ToSet(a)) => LinesOf(gs)
<1>0. \A s \in 1 .. MaxSeconds : fs[s] \in Data /\ ToSet(fs[s]) \subseteq Bytes(fs)
  <2>1. fs \in Seq(Data) /\ Len(fs) = MaxSeconds
    BY Constants, FilesAre DEF Files
  <2> QED
    BY <2>1, BytesAre
<1>1. /\ fs[n] \o a \in Data /\ ToSet(fs[n] \o a) = ToSet(fs[n]) \cup ToSet(a)
      /\ Increasing(fs[n] \o a)
  <2>1. Increasing(fs[n]) /\ Before(ToSet(fs[n]), ToSet(a))
    BY <1>0, FilesAre DEF InOrder, Before
  <2> QED
    BY <1>0, <2>1, Joined
<1>2. /\ gs \in Files /\ DOMAIN gs = 1 .. MaxSeconds /\ DOMAIN fs = 1 .. MaxSeconds
      /\ \A s \in 1 .. MaxSeconds : gs[s] = IF s = n THEN fs[n] \o a ELSE fs[s]
  BY <1>1 DEF Files, Grown
<1>3. Bytes(gs) = Bytes(fs) \cup ToSet(a)
  BY <1>1, <1>2 DEF Bytes
<1>4. InOrder(gs)
  <2>1. \A s \in 1 .. MaxSeconds : Increasing(gs[s])
    BY <1>1, <1>2 DEF InOrder
  <2>2. ASSUME NEW s \in 1 .. MaxSeconds, NEW t \in 1 .. MaxSeconds, s < t
        PROVE  Before(ToSet(gs[s]), ToSet(gs[t]))
    <3>1. Before(ToSet(fs[s]), ToSet(fs[t]))
      BY <1>2, <2>2 DEF InOrder
    <3>2. CASE t > n
      BY <1>2, <3>2, Nothing DEF Before, EmptyAfter
    <3>3. CASE t = n
      <4>0. s # n
        BY <2>2, <3>3
      <4>1. gs[s] = fs[s] /\ ToSet(gs[t]) = ToSet(fs[t]) \cup ToSet(a)
        BY <1>1, <1>2, <3>3, <4>0
      <4> QED
        BY <1>0, <3>1, <4>1 DEF Before
    <3>4. CASE t < n
      BY <1>2, <2>2, <3>1, <3>4
    <3> QED
      BY <3>2, <3>3, <3>4
  <2> QED
    BY <1>2, <2>1, <2>2 DEF InOrder
<1>5. EmptyAfter(gs, n)
  BY <1>2 DEF EmptyAfter
<1>6. ASSUME LinesOf(fs), WholeLines(ToSet(a)) PROVE LinesOf(gs)
  BY <1>1, <1>2, <1>6 DEF LinesOf, WholeLines
<1> QED
  BY <1>2, <1>3, <1>4, <1>5, <1>6

-------------------------------------------------------------------------------
(* The steps.                                                              *)

FrontOK ==
    /\ bufferCurrent_ \in Data /\ Len(bufferCurrent_) <= BufferSize
    /\ bufferVector_ \in Seq(Data) /\ bufferNext_ \in BOOLEAN

BackOK ==
    /\ bufferBackVec \in Seq(Data) /\ outputs \in 0 .. Len(bufferBackVec)
    /\ bufferBack1 \in BOOLEAN /\ bufferBack2 \in BOOLEAN

ThreadsOK ==
    /\ running_ \in BOOLEAN
    /\ owner \in {"new", "starting", "latched", "started", "stopping", "joined"}
    /\ latches \in [thread : {0, 1}, run : {0, 1}]
    /\ pc \in {"none", "thread", "run", "test", "lock", "wait", "erase", "write", "ended"}

LinesOK == ends \in Seq(Nat) /\ appended \in Nat /\ lost \subseteq 1 .. appended

FileOK ==
    /\ now \in 1 .. MaxSeconds /\ name \in 1 .. MaxSeconds /\ name <= now
    /\ files \in Files /\ unflushed \in Data
    /\ writtenBytes_ \in 0 .. RollSize /\ errors \in 0 .. MaxErrors

(* The types in five parts.                                                *)
LEMMA Types == TypeOK <=> FrontOK /\ BackOK /\ ThreadsOK /\ LinesOK /\ FileOK
<1>1. ends \in Seq(Nat) => appended \in Nat
  BY DEF appended, Last
<1> QED
  BY <1>1 DEF TypeOK, FrontOK, BackOK, ThreadsOK, LinesOK, FileOK, Files, Data

(* The same after a step.                                                  *)
LEMMA TypesNext == FrontOK' /\ BackOK' /\ ThreadsOK' /\ LinesOK' /\ FileOK' => TypeOK'
  BY DEF TypeOK, FrontOK, BackOK, ThreadsOK, LinesOK, FileOK, Files, Data

(* What the log thread has still to write is buffers.                      *)
LEMMA UnwrittenIs ==
    ASSUME BackOK
    PROVE  Unwritten \in Seq(Data) /\ (outputs = 0 => Unwritten = bufferBackVec)
<1>1. bufferBackVec \in Seq(Data) /\ outputs \in Nat /\ Len(bufferBackVec) \in Nat
  BY DEF BackOK
<1>2. Unwritten \in Seq(Data)
  BY <1>1, BuffersShrink DEF Unwritten
<1>3. outputs = 0 => Unwritten = bufferBackVec
  BY <1>1 DEF Unwritten
<1> QED
  BY <1>2, <1>3

Order == EachInOrder /\ AllInOrder /\ AllThere

(* The invariant holds at first.                                           *)
LEMMA InitIInv == Init => IInv
<1> SUFFICES ASSUME Init PROVE IInv
  OBVIOUS
<1> USE DEF Init, NoFiles
<1>1. appended = 0 /\ MaxSeconds \in Nat /\ MaxSeconds > 0 /\ <<>> \in Data /\ <<>> \in Seq(Data)
  BY Constants, Nothing DEF appended
<1>2. files \in Files /\ DOMAIN files = 1 .. MaxSeconds /\ \A s \in 1 .. MaxSeconds : files[s] = <<>>
  BY <1>1 DEF Files
<1>3. TypeOK
  <2>1. FrontOK /\ BackOK
    BY <1>1, Constants DEF FrontOK, BackOK
  <2>2. ThreadsOK
    BY DEF ThreadsOK
  <2>3. LinesOK /\ FileOK
    BY <1>1, <1>2, Constants DEF LinesOK, FileOK
  <2> QED
    BY <2>1, <2>2, <2>3, Types
<1>4. Phases /\ Buffers /\ NoLaterFiles
  BY <1>2 DEF Phases, Buffers, NoLaterFiles, EmptyAfter
<1>5. Unwritten = <<>>
  BY <1>3, UnwrittenIs, Types
<1>6. Bytes(files) = {} /\ InOrder(files)
  BY <1>2, Nothing DEF Bytes, InOrder, Before
<1>7. Order
  BY <1>1, <1>5, <1>6, Nothing DEF Order, EachInOrder, AllInOrder, AllThere, Written, InFront, Before
<1>8. LinesWhole
  BY <1>2, Nothing DEF LinesWhole, LinesOf, WholeLines
<1> QED
  BY <1>3, <1>4, <1>7, <1>8 DEF IInv, Order

(* Nothing moves.                                                          *)
LEMMA OrderKept ==
    ASSUME Order, UNCHANGED <<files, unflushed, bufferVector_, bufferCurrent_, ends, lost>>,
           Unwritten' = Unwritten
    PROVE  Order'
  BY DEF Order, EachInOrder, AllInOrder, AllThere, Written, InFront, appended

(* Steps that leave files and full buffers alone divide no line.           *)
LEMMA LinesKept ==
    ASSUME LinesWhole, UNCHANGED <<files, unflushed, bufferVector_, bufferCurrent_, ends, errors>>,
           LinesOf(bufferBackVec) => LinesOf(bufferBackVec)'
    PROVE  LinesWhole'
  BY DEF LinesWhole, LinesOf, WholeLines

(* The bytes go from the buffer of the file to the disk.                   *)
LEMMA Flushed ==
    ASSUME IInv, flush, UNCHANGED <<bufferVector_, bufferCurrent_, ends, lost>>,
           Unwritten' = Unwritten, LinesOf(bufferBackVec) => LinesOf(bufferBackVec)'
    PROVE  FileOK' /\ unflushed' = <<>> /\ NoLaterFiles' /\ Order' /\ LinesWhole'
<1>1. FileOK /\ NoLaterFiles /\ Order /\ LinesWhole
  BY Types DEF IInv, Order
<1>2. /\ files' = [files EXCEPT ![name] = @ \o unflushed] /\ unflushed' = <<>>
      /\ UNCHANGED <<now, name, writtenBytes_, errors>>
  BY DEF flush
<1>3. /\ files' \in Files /\ Bytes(files') = Bytes(files) \cup ToSet(unflushed) /\ InOrder(files')
      /\ EmptyAfter(files', name)
      /\ LinesOf(files) /\ WholeLines(ToSet(unflushed)) => LinesOf(files')
  <2>1. /\ files \in Files /\ name \in 1 .. MaxSeconds /\ unflushed \in Data
        /\ EmptyAfter(files, name)
        /\ InOrder(files) /\ Increasing(unflushed) /\ Before(Bytes(files), ToSet(unflushed))
        /\ Grown(files, name, unflushed, files')
    BY <1>1, <1>2 DEF FileOK, NoLaterFiles, Order, EachInOrder, AllInOrder, Grown
  <2> QED
    BY <2>1, FilesGrow
<1>4. FileOK' /\ NoLaterFiles'
  BY <1>1, <1>2, <1>3, Nothing DEF FileOK, NoLaterFiles
<1>5. EachInOrder'
  BY <1>1, <1>2, <1>3, Nothing DEF Order, EachInOrder
<1>6. Written' = Written /\ InFront' = InFront
  BY <1>2, <1>3, Nothing DEF Written, InFront
<1>7. AllInOrder' /\ AllThere'
  BY <1>1, <1>2, <1>6, Nothing DEF Order, AllInOrder, AllThere, Before, appended
<1>8. LinesWhole'
  BY <1>1, <1>2, <1>3, Nothing DEF LinesWhole, LinesOf, WholeLines
<1> QED
  BY <1>2, <1>4, <1>5, <1>7, <1>8 DEF Order

(* n bytes of a buffer are written, and the file may be rolled.            *)
FileInOrder ==
    /\ NoLaterFiles /\ InOrder(files) /\ Increasing(unflushed)
    /\ Before(Bytes(files), ToSet(unflushed))

(* AppendFile::append puts a first part of the data behind the file.       *)
LEMMA OutputTakes ==
    ASSUME FileOK, FileInOrder, NEW data \in Data, Increasing(data), Before(Written, ToSet(data)),
           NEW n \in 0 .. Len(data), output(data, n)
    PROVE  /\ FileOK' /\ FileInOrder' /\ Written' = Written \cup ToSet(SubSeq(data, 1, n))
           /\ errors' = 0 =>
                  /\ errors = 0 /\ n = Len(data)
                  /\ LinesOf(files) /\ WholeLines(ToSet(unflushed)) /\ WholeLines(ToSet(data))
                         => LinesOf(files') /\ WholeLines(ToSet(unflushed'))
<1> DEFINE part == SubSeq(data, 1, n)
           taken == unflushed \o part
           written == writtenBytes_ + (IF n = Len(data) THEN n ELSE 0)
<1>1. /\ errors' = (IF n = Len(data) THEN errors ELSE errors + 1) /\ errors' <= MaxErrors
      /\ now' = now
      /\ IF written > RollSize
         THEN /\ files' = [files EXCEPT ![name] = @ \o taken]
              /\ name' = now /\ unflushed' = <<>> /\ writtenBytes_' = 0
         ELSE unflushed' = taken /\ writtenBytes_' = written /\ UNCHANGED <<files, name>>
  BY DEF output, OpenFile
<1>2. /\ part \in Data /\ Increasing(part) /\ ToSet(part) \subseteq ToSet(data)
      /\ n = Len(data) => part = data
  BY Divided
<1>3. Len(data) \in Nat /\ n \in Nat /\ RollSize \in Nat /\ MaxErrors \in Nat
  BY Constants DEF Data
<1>4. written \in Nat
  BY <1>3 DEF FileOK
<1> HIDE DEF part, written
<1>5. /\ taken \in Data /\ ToSet(taken) = ToSet(unflushed) \cup ToSet(part) /\ Increasing(taken)
      /\ Before(Bytes(files), ToSet(taken))
  <2>1. Before(ToSet(unflushed), ToSet(part)) /\ Before(Bytes(files), ToSet(part))
    BY <1>2 DEF Before, Written
  <2>2. unflushed \in Data /\ Increasing(unflushed)
    BY DEF FileOK, FileInOrder
  <2>3. taken \in Data /\ ToSet(taken) = ToSet(unflushed) \cup ToSet(part) /\ Increasing(taken)
    BY <1>2, <2>1, <2>2, Joined
  <2>4. Before(Bytes(files), ToSet(taken))
    BY <2>1, <2>3 DEF Before, FileInOrder
  <2> QED
    BY <2>3, <2>4
<1>6. errors' \in 0 .. MaxErrors /\ (errors' = 0 => errors = 0 /\ n = Len(data))
  BY <1>1, <1>3 DEF FileOK
<1>7. ASSUME n = Len(data), WholeLines(ToSet(unflushed)), WholeLines(ToSet(data))
      PROVE  WholeLines(ToSet(taken))
  BY <1>2, <1>5, <1>7 DEF WholeLines
<1> HIDE DEF taken
<1>8. CASE written > RollSize
  <2>1. /\ files \in Files /\ name \in 1 .. MaxSeconds /\ EmptyAfter(files, name) /\ InOrder(files)
        /\ Grown(files, name, taken, files')
    BY <1>1, <1>8 DEF FileOK, FileInOrder, NoLaterFiles, Grown
  <2>2. /\ files' \in Files /\ Bytes(files') = Bytes(files) \cup ToSet(taken) /\ InOrder(files')
        /\ EmptyAfter(files', name)
        /\ LinesOf(files) /\ WholeLines(ToSet(taken)) => LinesOf(files')
    BY <1>5, <2>1, FilesGrow
  <2>3. FileOK'
    BY <1>1, <1>3, <1>6, <1>8, <2>2, Nothing DEF FileOK
  <2>4. EmptyAfter(files', now)
    BY <2>2 DEF EmptyAfter, FileOK
  <2>5. FileInOrder'
    BY <1>1, <1>8, <2>2, <2>4, Nothing DEF FileInOrder, NoLaterFiles, Before
  <2>6. Written' = Written \cup ToSet(part)
    BY <1>1, <1>5, <1>8, <2>2, Nothing DEF Written
  <2>7. WholeLines(ToSet(unflushed'))
    BY <1>1, <1>8, Nothing DEF WholeLines
  <2> QED
    BY <1>6, <1>7, <2>2, <2>3, <2>5, <2>6, <2>7 DEF part
<1>9. CASE ~(written > RollSize)
  <2>1. UNCHANGED <<files, name, now>> /\ unflushed' = taken /\ writtenBytes_' = written
    BY <1>1, <1>9
  <2>2. FileOK'
    BY <1>3, <1>4, <1>5, <1>6, <1>9, <2>1 DEF FileOK
  <2>3. FileInOrder'
    BY <1>5, <2>1 DEF FileInOrder, NoLaterFiles
  <2>4. Written' = Written \cup ToSet(part)
    BY <1>5, <2>1 DEF Written
  <2> QED
    BY <1>6, <1>7, <2>1, <2>2, <2>3, <2>4 DEF part
<1> QED
  BY <1>8, <1>9

(* The bytes of a new line.                                                *)
LEMMA MessageIs ==
    ASSUME LinesOK, NEW len \in Nat, ends' = Append(ends, appended + len)
    PROVE  /\ ends' \in Seq(Nat) /\ appended' = appended + len /\ appended \in Nat
           /\ Message(len) \in Data /\ Len(Message(len)) = len /\ Increasing(Message(len))
           /\ ToSet(Message(len)) = appended + 1 .. appended + len
           /\ \A S : WholeLines(S) => WholeLines(S)'
           /\ \A S : S = ToSet(Message(len)) => WholeLines(S)'
<1>1. /\ appended \in Nat /\ ends \in Seq(Nat) /\ ends' \in Seq(Nat) /\ ends' # <<>>
      /\ Len(ends') = Len(ends) + 1 /\ Len(ends) \in Nat
      /\ \A i \in 1 .. Len(ends) : ends'[i] = ends[i]
      /\ ends'[Len(ends) + 1] = appended + len
  BY AppendProperties DEF LinesOK
<1>2. appended' = appended + len
  BY <1>1 DEF appended, Last
<1>3. DOMAIN ends' = 1 .. Len(ends) + 1 /\ DOMAIN ends = 1 .. Len(ends)
  BY <1>1
<1>4. ToSet(ends) \subseteq ToSet(ends') /\ appended + len \in ToSet(ends')
  BY <1>1, <1>3 DEF ToSet
<1> DEFINE m == Message(len)
<1>5. m \in Data /\ Len(m) = len /\ DOMAIN m = 1 .. len /\ \A i \in 1 .. len : m[i] = appended + i
  BY <1>1 DEF Message, Data
<1> HIDE DEF m
<1>6. Increasing(m)
  BY <1>1, <1>5 DEF Increasing
<1>7. ToSet(m) = appended + 1 .. appended + len
  <2>1. ToSet(m) \subseteq appended + 1 .. appended + len
    BY <1>1, <1>5 DEF ToSet
  <2>2. ASSUME NEW b \in appended + 1 .. appended + len PROVE b \in ToSet(m)
    <3>1. b - appended \in 1 .. len /\ m[b - appended] = b
      BY <1>1, <1>5
    <3> QED
      BY <1>5, <3>1 DEF ToSet
  <2> QED
    BY <2>1, <2>2
<1>8. ASSUME NEW S, WholeLines(S) PROVE WholeLines(S)'
  BY <1>4, <1>8 DEF WholeLines
<1>9. ASSUME NEW S, S = appended + 1 .. appended + len PROVE WholeLines(S)'
  <2> SUFFICES ASSUME NEW b \in S PROVE b + 1 \in S \/ b \in ToSet(ends')
    BY DEF WholeLines
  <2>1. b \in appended + 1 .. appended + len
    BY <1>9
  <2>2. b = appended + len \/ b + 1 \in appended + 1 .. appended + len
    BY <1>1, <2>1
  <2> QED
    BY <1>4, <1>9, <2>2
<1> QED
  BY <1>1, <1>2, <1>5, <1>6, <1>7, <1>8, <1>9 DEF m

(* Every step preserves the invariant.                                     *)
LEMMA NextIInv == IInv /\ [Next]_vars => IInv'
<1> SUFFICES ASSUME IInv, [Next]_vars PROVE IInv'
  OBVIOUS
<1>0. /\ TypeOK /\ Phases /\ Buffers /\ NoLaterFiles /\ Order /\ LinesWhole
      /\ FrontOK /\ BackOK /\ ThreadsOK /\ LinesOK /\ FileOK
  BY Types DEF IInv, Order
<1> USE DEF frontVars, backVars, fileVars, lineVars
<1>1. ASSUME NEW len \in Lengths, append(len) PROVE IInv'
  <2> DEFINE m == Message(len)
  <2>0. len \in Nat /\ len < BufferSize /\ BufferSize \in Nat
    BY Constants
  <2>1. /\ UNCHANGED <<backVars, ownerVars, fileVars, pc>> /\ ends' = Append(ends, appended + len)
        /\ \/ /\ bufferVector_' = Append(bufferVector_, bufferCurrent_) /\ bufferNext_' = FALSE
              /\ bufferCurrent_' = m /\ UNCHANGED lost
           \/ /\ len < BufferSize - Len(bufferCurrent_)
              /\ bufferCurrent_' = bufferCurrent_ \o m /\ UNCHANGED <<bufferNext_, bufferVector_, lost>>
           \/ lost' = lost \cup ToSet(m) /\ UNCHANGED <<bufferCurrent_, bufferNext_, bufferVector_>>
    BY <1>1 DEF append, Replace, BufferTakes
  <2>2. /\ ends' \in Seq(Nat) /\ appended' = appended + len /\ appended \in Nat
        /\ m \in Data /\ Len(m) = len /\ Increasing(m) /\ ToSet(m) = appended + 1 .. appended + len
        /\ \A S : WholeLines(S) => WholeLines(S)'
        /\ \A S : S = ToSet(m) => WholeLines(S)'
    BY <1>0, <2>0, <2>1, MessageIs
  <2> HIDE DEF m
  <2>3. /\ bufferCurrent_ \in Data /\ bufferVector_ \in Seq(Data) /\ Unwritten' = Unwritten
        /\ Len(bufferCurrent_) \in Nat
    BY <1>0, <2>1 DEF FrontOK, Unwritten, Data
  <2>4. Written \cup Bytes(Unwritten) \cup InFront = (1 .. appended) \ lost
    BY <1>0 DEF Order, AllThere
  <2>5. /\ Before(Written, ToSet(m)) /\ Before(Bytes(Unwritten), ToSet(m))
        /\ Before(Bytes(bufferVector_), ToSet(m)) /\ Before(ToSet(bufferCurrent_), ToSet(m))
    BY <2>2, <2>4 DEF Before, InFront
  <2>6. (1 .. appended)' = (1 .. appended) \cup ToSet(m) /\ lost \subseteq 1 .. appended
        /\ ToSet(m) \cap (1 .. appended) = {}
    BY <1>0, <2>0, <2>2 DEF LinesOK
  <2>7. BackOK' /\ ThreadsOK' /\ FileOK' /\ Phases' /\ NoLaterFiles'
    BY <1>0, <2>1 DEF BackOK, ThreadsOK, FileOK, Phases, NoLaterFiles, ownerVars
  <2>8. LinesOK'
    <3>1. lost' = lost \/ lost' = lost \cup ToSet(m)
      BY <2>1
    <3>2. ends' \in Seq(Nat) /\ appended' \in Nat
      BY <2>0, <2>2
    <3>3. lost' \subseteq (1 .. appended)'
      BY <2>6, <3>1
    <3> QED
      BY <3>2, <3>3 DEF LinesOK
  <2>9. InOrder(files)' /\ Increasing(unflushed)' /\ InOrder(Unwritten)' /\ Written' = Written
        /\ Before(Bytes(files), ToSet(unflushed))' /\ Before(Written, Bytes(Unwritten))'
    BY <1>0, <2>1, <2>3 DEF Order, EachInOrder, AllInOrder, Written
  <2>10. CASE /\ bufferVector_' = Append(bufferVector_, bufferCurrent_) /\ bufferNext_' = FALSE
              /\ bufferCurrent_' = m /\ UNCHANGED lost
    <3>1. /\ InOrder(bufferVector_) /\ Increasing(bufferCurrent_)
          /\ Before(Bytes(bufferVector_), ToSet(bufferCurrent_))
      BY <1>0 DEF Order, EachInOrder, AllInOrder
    <3>2. /\ bufferVector_' \in Seq(Data)
          /\ Bytes(bufferVector_') = Bytes(bufferVector_) \cup ToSet(bufferCurrent_)
          /\ InOrder(bufferVector_')
          /\ LinesOf(bufferVector_) /\ WholeLines(ToSet(bufferCurrent_)) => LinesOf(bufferVector_')
      BY <2>3, <2>10, <3>1, BuffersGrow
    <3>3. FrontOK' /\ Buffers'
      <4>1. bufferVector_' # <<>>
        BY <2>3, <2>10, AppendProperties
      <4>2. Len(bufferCurrent_') <= BufferSize /\ bufferCurrent_' \in Data
        BY <2>0, <2>2, <2>10
      <4>3. FrontOK'
        BY <2>10, <3>2, <4>2 DEF FrontOK
      <4>4. Buffers'
        BY <1>0, <2>1, <4>1 DEF Buffers
      <4> QED
        BY <4>3, <4>4
    <3>4. Order'
      <4>1. EachInOrder'
        BY <2>2, <2>9, <2>10, <3>2 DEF EachInOrder
      <4>2. InFront' = InFront \cup ToSet(m)
        BY <2>10, <3>2 DEF InFront
      <4>3. AllInOrder'
        <5>1. Before(Written \cup Bytes(Unwritten), InFront)
          BY <1>0 DEF Order, AllInOrder
        <5>2. Before(Written \cup Bytes(Unwritten), InFront)'
          BY <2>3, <2>5, <2>9, <4>2, <5>1 DEF Before
        <5>3. Before(Bytes(bufferVector_), ToSet(bufferCurrent_))'
          BY <2>5, <2>10, <3>2 DEF Before
        <5> QED
          BY <2>9, <5>2, <5>3 DEF AllInOrder
      <4>4. AllThere'
        BY <2>3, <2>4, <2>6, <2>9, <2>10, <4>2 DEF AllThere
      <4> QED
        BY <4>1, <4>3, <4>4 DEF Order
    <3>5. LinesWhole'
      BY <1>0, <2>1, <2>2, <2>10, <3>2 DEF LinesWhole, LinesOf
    <3> QED
      BY <2>7, <2>8, <3>3, <3>4, <3>5, TypesNext DEF IInv, Order
  <2>11. CASE /\ len < BufferSize - Len(bufferCurrent_)
              /\ bufferCurrent_' = bufferCurrent_ \o m /\ UNCHANGED <<bufferNext_, bufferVector_, lost>>
    <3>1. Increasing(bufferCurrent_)
      BY <1>0 DEF Order, EachInOrder
    <3>2. /\ bufferCurrent_' \in Data /\ ToSet(bufferCurrent_') = ToSet(bufferCurrent_) \cup ToSet(m)
          /\ Increasing(bufferCurrent_') /\ Len(bufferCurrent_') = Len(bufferCurrent_) + len
      <4>1. m \in Data /\ Increasing(m) /\ Len(m) = len
        BY <2>2
      <4> QED
        BY <2>3, <2>5, <2>11, <3>1, <4>1, Joined
    <3>3. FrontOK' /\ Buffers'
      BY <1>0, <2>0, <2>1, <2>3, <2>11, <3>2 DEF FrontOK, Buffers
    <3>4. Order'
      <4>1. EachInOrder'
        BY <1>0, <2>9, <2>11, <3>2 DEF EachInOrder, Order
      <4>2. InFront' = InFront \cup ToSet(m)
        BY <2>11, <3>2 DEF InFront
      <4>3. AllInOrder'
        <5>1. Before(Written \cup Bytes(Unwritten), InFront)
              /\ Before(Bytes(bufferVector_), ToSet(bufferCurrent_))
          BY <1>0 DEF Order, AllInOrder
        <5>2. Before(Written \cup Bytes(Unwritten), InFront)'
          BY <2>3, <2>5, <2>9, <4>2, <5>1 DEF Before
        <5>3. Before(Bytes(bufferVector_), ToSet(bufferCurrent_))'
          BY <2>5, <2>11, <3>2, <5>1 DEF Before
        <5> QED
          BY <2>9, <5>2, <5>3 DEF AllInOrder
      <4>4. AllThere'
        BY <2>3, <2>4, <2>6, <2>9, <2>11, <4>2 DEF AllThere
      <4> QED
        BY <4>1, <4>3, <4>4 DEF Order
    <3>5. LinesWhole'
      <4>1. WholeLines(ToSet(bufferCurrent_)) => WholeLines(ToSet(bufferCurrent_))'
        <5>1. \A S, T : WholeLines(S)' /\ WholeLines(T)' => WholeLines(S \cup T)'
          BY DEF WholeLines
        <5> QED
          BY <2>2, <3>2, <5>1 DEF WholeLines
      <4> QED
        BY <1>0, <2>1, <2>2, <2>11, <4>1 DEF LinesWhole, LinesOf
    <3> QED
      BY <2>7, <2>8, <3>3, <3>4, <3>5, TypesNext DEF IInv, Order
  <2>12. CASE lost' = lost \cup ToSet(m) /\ UNCHANGED <<bufferCurrent_, bufferNext_, bufferVector_>>
    <3>1. FrontOK' /\ Buffers'
      BY <1>0, <2>1, <2>12 DEF FrontOK, Buffers
    <3>2. EachInOrder' /\ AllInOrder'
      BY <1>0, <2>3, <2>9, <2>12 DEF Order, EachInOrder, AllInOrder, InFront
    <3>3. AllThere'
      BY <2>3, <2>4, <2>6, <2>9, <2>12 DEF AllThere, InFront
    <3>4. LinesWhole'
      BY <1>0, <2>1, <2>2, <2>12 DEF LinesWhole, LinesOf
    <3> QED
      BY <2>7, <2>8, <3>1, <3>2, <3>3, <3>4, TypesNext DEF IInv, Order
  <2> QED
    BY <2>1, <2>10, <2>11, <2>12
<1>2. ASSUME UNCHANGED <<frontVars, backVars, lineVars, files, name, unflushed, writtenBytes_, errors>>,
             now' = now \/ now' \in now .. MaxSeconds, ThreadsOK', Phases',
             pc' = pc \/ {pc, pc'} \cap {"erase", "write"} = {}
      PROVE  IInv'
  <2>1. FrontOK' /\ BackOK' /\ LinesOK' /\ FileOK'
    BY <1>0, <1>2, Constants DEF FrontOK, BackOK, LinesOK, FileOK, appended
  <2>2. Buffers' /\ NoLaterFiles'
    BY <1>0, <1>2 DEF Buffers, NoLaterFiles
  <2>3. Order' /\ LinesWhole'
    BY <1>0, <1>2, OrderKept, LinesKept DEF Unwritten, LinesOf, WholeLines
  <2> QED
    BY <1>2, <2>1, <2>2, <2>3, TypesNext DEF IInv, Order
<1>3. CASE start \/ ThreadStarted \/ Started \/ stop \/ Join
  <2>1. /\ UNCHANGED <<frontVars, backVars, lineVars, fileVars, latches>>
        /\ pc' = pc \/ (owner = "new" /\ pc' = "thread")
        /\ owner # "new" => pc' = pc
        /\ running_' \in BOOLEAN
        /\ owner' \in {"starting", "latched", "started", "stopping", "joined"}
    BY <1>0, <1>3 DEF start, ThreadStarted, Started, stop, Join, Owner, ThreadsOK
  <2>2. owner = "new" => pc = "none" /\ pc' = "thread"
    BY <1>0, <1>3 DEF start, ThreadStarted, Started, stop, Join, Owner, Phases
  <2>3. ThreadsOK' /\ Phases'
    BY <1>0, <2>1, <2>2 DEF ThreadsOK, Phases
  <2> QED
    BY <1>2, <2>1, <2>2, <2>3
<1>4. CASE ThreadRun
  <2>1. /\ UNCHANGED <<frontVars, backVars, running_, owner, fileVars, lineVars>>
        /\ pc = "thread" /\ pc' = "run" /\ latches' = [latches EXCEPT !.thread = @ - 1]
    BY <1>4 DEF ThreadRun, Go
  <2>2. latches \in [thread : {0, 1}, run : {0, 1}] /\ latches.thread = 1 /\ latches.run = 1
    BY <1>0, <2>1 DEF ThreadsOK, Phases
  <2>3. ThreadsOK' /\ Phases'
    BY <1>0, <2>1, <2>2 DEF ThreadsOK, Phases
  <2> QED
    BY <1>2, <2>1, <2>3
<1>5. CASE RunBegins
  <2>1. /\ UNCHANGED <<frontVars, backVars, running_, owner, lineVars, now, files, errors>>
        /\ pc = "run" /\ pc' = "test" /\ latches' = [latches EXCEPT !.run = @ - 1]
        /\ name' = now /\ unflushed' = <<>> /\ writtenBytes_' = 0
    BY <1>5 DEF RunBegins, Go, OpenFile
  <2>2. latches \in [thread : {0, 1}, run : {0, 1}] /\ latches.thread = 0 /\ latches.run = 1
        /\ unflushed = <<>>
    BY <1>0, <2>1 DEF ThreadsOK, Phases
  <2>3. ThreadsOK' /\ Phases'
    BY <1>0, <2>1, <2>2 DEF ThreadsOK, Phases
  <2>4. FrontOK' /\ BackOK' /\ LinesOK' /\ FileOK'
    BY SMTT(30), <1>0, <2>1, Constants, Nothing DEF FrontOK, BackOK, LinesOK, FileOK, appended
  <2>5. Buffers' /\ NoLaterFiles'
    BY <1>0, <2>1 DEF Buffers, NoLaterFiles, EmptyAfter, FileOK
  <2>6. Order' /\ LinesWhole'
    BY <1>0, <2>1, <2>2, OrderKept, LinesKept DEF Unwritten, LinesOf, WholeLines
  <2> QED
    BY <2>3, <2>4, <2>5, <2>6, TypesNext DEF IInv, Order
<1>6. CASE Test
  <2>1. /\ UNCHANGED <<frontVars, backVars, running_, owner, latches, lineVars>>
        /\ pc = "test" /\ pc' = IF running_ THEN "lock" ELSE "ended"
        /\ IF running_ THEN UNCHANGED fileVars ELSE flush
    BY <1>6 DEF Test, Go
  <2>2. ThreadsOK' /\ Phases'
    BY <1>0, <2>1 DEF ThreadsOK, Phases
  <2>3. CASE running_
    BY <1>2, <2>1, <2>2, <2>3
  <2>4. CASE ~running_
    <3>1. FileOK' /\ NoLaterFiles' /\ Order' /\ LinesWhole'
      BY <2>1, <2>4, Flushed DEF Unwritten, LinesOf, WholeLines
    <3>2. FrontOK' /\ BackOK' /\ LinesOK' /\ Buffers'
      BY <1>0, <2>1 DEF FrontOK, BackOK, LinesOK, Buffers, appended
    <3> QED
      BY <2>2, <3>1, <3>2, TypesNext DEF IInv, Order
  <2> QED
    BY <2>3, <2>4
<1>7. CASE Wait
  <2>1. /\ UNCHANGED <<frontVars, backVars, running_, owner, latches, fileVars, lineVars>>
        /\ pc = "lock" /\ pc' = "wait"
    BY <1>7 DEF Wait, Go
  <2>2. ThreadsOK' /\ Phases'
    BY <1>0, <2>1 DEF ThreadsOK, Phases
  <2> QED
    BY <1>2, <2>1, <2>2
<1>8. CASE Recycle
  <2>1. /\ UNCHANGED <<frontVars, running_, owner, latches, lineVars>>
        /\ pc = "write" /\ pc' = "test" /\ outputs = Len(bufferBackVec)
        /\ bufferBack1' = TRUE /\ bufferBack2' = TRUE /\ bufferBackVec' = <<>> /\ outputs' = 0
        /\ flush
    BY <1>8 DEF Recycle, Go
  <2>2. Unwritten' = Unwritten
    <3>1. Unwritten = <<>>
      <4>1. /\ bufferBackVec \in Seq(Data) /\ outputs \in Nat /\ Len(bufferBackVec) \in Nat
        BY <1>0 DEF BackOK
      <4>2. Unwritten \in Seq(Data) /\ Len(Unwritten) = 0
        BY <2>1, <4>1, BuffersShrink DEF Unwritten
      <4> QED
        BY <4>2
    <3>2. Unwritten' = <<>>
      BY <2>1 DEF Unwritten
    <3> QED
      BY <3>1, <3>2
  <2>3. LinesOf(bufferBackVec)'
    BY <2>1 DEF LinesOf
  <2>4. FileOK' /\ unflushed' = <<>> /\ NoLaterFiles' /\ Order' /\ LinesWhole'
    BY <2>1, <2>2, <2>3, Flushed
  <2>5. FrontOK' /\ BackOK' /\ LinesOK' /\ Buffers'
    BY <1>0, <2>1, Nothing DEF FrontOK, BackOK, LinesOK, Buffers, appended
  <2>6. ThreadsOK' /\ Phases'
    BY <1>0, <2>1 DEF ThreadsOK, Phases
  <2> QED
    BY <2>4, <2>5, <2>6, TypesNext DEF IInv, Order
<1>9. CASE Swap
  <2>1. /\ UNCHANGED <<running_, owner, latches, fileVars, lineVars>>
        /\ pc \in {"lock", "wait"} /\ pc' = "erase"
        /\ bufferVector_' = <<>> /\ bufferCurrent_' = <<>>
        /\ bufferBack1' = FALSE /\ bufferNext_' = TRUE /\ outputs' = 0
        /\ bufferBackVec' = Append(bufferVector_, bufferCurrent_)
        /\ bufferBack2' = (bufferBack2 /\ bufferNext_)
    BY <1>9 DEF Swap, SwapFrom, Go
  <2>2. /\ bufferVector_ \in Seq(Data) /\ bufferCurrent_ \in Data
        /\ InOrder(bufferVector_) /\ Increasing(bufferCurrent_)
        /\ Before(Bytes(bufferVector_), ToSet(bufferCurrent_))
        /\ bufferBackVec = <<>> /\ bufferBack2 /\ (~bufferNext_ => bufferVector_ # <<>>)
    BY <1>0, <2>1 DEF FrontOK, Order, EachInOrder, AllInOrder, Buffers
  <2>3. /\ bufferBackVec' \in Seq(Data) /\ InOrder(bufferBackVec')
        /\ Bytes(bufferBackVec') = InFront
        /\ LinesOf(bufferVector_) /\ WholeLines(ToSet(bufferCurrent_)) => LinesOf(bufferBackVec')
    BY <2>1, <2>2, BuffersGrow DEF InFront
  <2>4. /\ Len(bufferBackVec') = Len(bufferVector_) + 1 /\ Len(bufferVector_) \in Nat
        /\ bufferVector_ # <<>> => Len(bufferVector_) > 0
    <3>1. Len(bufferVector_) \in Nat /\ (bufferVector_ # <<>> => Len(bufferVector_) > 0)
      BY <2>2
    <3> QED
      BY <2>1, <2>2, <3>1, AppendProperties
  <2>5. Unwritten' = bufferBackVec'
    <3>1. Unwritten' = SubSeq(bufferBackVec', 1, Len(bufferBackVec'))
      BY <2>1 DEF Unwritten
    <3> QED
      BY <2>3, <3>1
  <2>6. Unwritten = <<>> /\ Bytes(Unwritten) = {}
    <3>1. outputs = 0
      BY <1>0, <2>1 DEF Buffers
    <3> QED
      BY <1>0, <2>2, <3>1, UnwrittenIs, Nothing
  <2>7. FrontOK' /\ BackOK' /\ LinesOK' /\ FileOK' /\ ThreadsOK' /\ Phases' /\ NoLaterFiles'
    <3>1. FrontOK' /\ BackOK'
      <4>1. bufferBack1' \in BOOLEAN /\ bufferBack2' \in BOOLEAN
        BY <1>0, <2>1 DEF FrontOK, BackOK
      <4>2. outputs' \in 0 .. Len(bufferBackVec')
        BY <2>1, <2>4
      <4> QED
        BY <2>1, <2>3, <4>1, <4>2, Nothing, Constants DEF FrontOK, BackOK
    <3>2. LinesOK' /\ FileOK' /\ NoLaterFiles'
      BY <1>0, <2>1 DEF LinesOK, FileOK, appended, NoLaterFiles
    <3>3. ThreadsOK' /\ Phases'
      BY <1>0, <2>1 DEF ThreadsOK, Phases
    <3> QED
      BY <3>1, <3>2, <3>3
  <2>8. Buffers'
    <3>1. ~bufferBack2' => ~bufferNext_
      BY <2>1, <2>2
    <3>2. ~bufferBack2' => bufferVector_ # <<>>
      BY <2>2, <3>1
    <3>3. Len(bufferBackVec') >= 1 /\ (~bufferBack2' => Len(bufferBackVec') >= 2)
      BY <2>4, <3>2
    <3>4. bufferNext_' /\ pc' = "erase" /\ outputs' = 0
      BY <2>1
    <3> QED
      BY <3>3, <3>4 DEF Buffers
  <2>9. Order'
    <3>1. Written' = Written /\ InFront' = {} /\ Bytes(bufferVector_') = {}
      BY <2>1, Nothing DEF Written, InFront
    <3>2. EachInOrder'
      BY <1>0, <2>1, <2>3, <2>5, Nothing DEF Order, EachInOrder
    <3>3. AllInOrder'
      BY <1>0, <2>1, <2>3, <2>5, <3>1 DEF Order, AllInOrder, Before
    <3>4. AllThere'
      <4>1. Written \cup Bytes(Unwritten) \cup InFront = (1 .. appended) \ lost
        BY <1>0 DEF Order, AllThere
      <4>2. ((1 .. appended) \ lost)' = (1 .. appended) \ lost
        BY <2>1 DEF appended
      <4> QED
        BY <2>3, <2>5, <2>6, <3>1, <4>1, <4>2 DEF AllThere
    <3> QED
      BY <3>2, <3>3, <3>4 DEF Order
  <2>10. LinesWhole'
    BY <1>0, <2>1, <2>3, Nothing DEF LinesWhole, LinesOf, WholeLines
  <2> QED
    BY <2>7, <2>8, <2>9, <2>10, TypesNext DEF IInv, Order
<1>10. CASE Erase
  <2>1. /\ UNCHANGED <<frontVars, bufferBack1, bufferBack2, outputs, running_, owner, latches,
                       ends, fileVars>>
        /\ pc = "erase" /\ pc' = "write" /\ bufferBackVec' = Kept
        /\ lost' = lost \cup (Bytes(bufferBackVec) \ Bytes(Kept))
    BY <1>10 DEF Erase, Go
  <2>2. bufferBackVec \in Seq(Data) /\ Len(bufferBackVec) \in Nat /\ Len(bufferBackVec) >= 1
        /\ (~bufferBack2 => Len(bufferBackVec) >= 2) /\ outputs = 0
        /\ Unwritten = bufferBackVec
    BY <1>0, <2>1, UnwrittenIs DEF BackOK, Buffers
  <2>3. /\ Kept \in Seq(Data) /\ Bytes(Kept) \subseteq Bytes(bufferBackVec)
        /\ InOrder(bufferBackVec) => InOrder(Kept)
        /\ LinesOf(bufferBackVec) => LinesOf(Kept)
        /\ Len(Kept) \in Nat /\ Len(Kept) >= 1 /\ (~bufferBack2 => Len(Kept) >= 2)
    <3>1. CASE Len(bufferBackVec) > MaxBuffers
      <4>1. 2 \in 0 .. Len(bufferBackVec)
        BY <2>2, <3>1, Constants
      <4>2. Kept = SubSeq(bufferBackVec, 0 + 1, 2)
        BY <3>1 DEF Kept, KeptBuffers
      <4>3. Len(SubSeq(bufferBackVec, 0 + 1, 2)) = 2
        BY <2>2, <4>1, BuffersShrink
      <4> QED
        BY <2>2, <4>1, <4>2, <4>3, BuffersShrink
    <3>2. CASE ~(Len(bufferBackVec) > MaxBuffers)
      BY <2>2, <3>2 DEF Kept
    <3> QED
      BY <3>1, <3>2
  <2>4. Unwritten' = Kept
    <3>1. Unwritten' = SubSeq(Kept, 1, Len(Kept))
      BY <2>1, <2>2 DEF Unwritten
    <3> QED
      BY <2>3, <3>1
  <2>5. FrontOK' /\ BackOK' /\ FileOK' /\ ThreadsOK' /\ Phases' /\ NoLaterFiles'
    <3>1. FrontOK' /\ FileOK' /\ NoLaterFiles'
      BY <1>0, <2>1 DEF FrontOK, FileOK, NoLaterFiles
    <3>2. BackOK'
      BY <1>0, <2>1, <2>2, <2>3 DEF BackOK
    <3>3. ThreadsOK' /\ Phases'
      BY <1>0, <2>1 DEF ThreadsOK, Phases
    <3> QED
      BY <3>1, <3>2, <3>3
  <2>6. Buffers'
    BY <1>0, <2>1, <2>2, <2>3 DEF Buffers
  <2>7. Written \cup Bytes(bufferBackVec) \cup InFront = (1 .. appended) \ lost
        /\ appended' = appended /\ lost \subseteq 1 .. appended
    BY <1>0, <2>1, <2>2 DEF Order, AllThere, appended, LinesOK
  <2>8. LinesOK'
    BY <1>0, <2>1, <2>7 DEF LinesOK
  <2>9. Order'
    <3>1. Written' = Written /\ InFront' = InFront
      BY <2>1 DEF Written, InFront
    <3>2. EachInOrder'
      BY <1>0, <2>1, <2>2, <2>3, <2>4 DEF Order, EachInOrder
    <3>3. Before(Written, Bytes(bufferBackVec)) /\ Before(Written \cup Bytes(bufferBackVec), InFront)
      BY <1>0, <2>2 DEF Order, AllInOrder
    <3>4. AllInOrder'
      BY <1>0, <2>1, <2>3, <2>4, <3>1, <3>3 DEF Order, AllInOrder, Before
    <3>5. AllThere'
      <4>1. \A b \in Bytes(bufferBackVec) : b \notin Written /\ b \notin InFront
        <5>1. \A b \in Bytes(bufferBackVec) : b \in Nat
          BY <2>2, BytesAre
        <5> QED
          BY <3>3, <5>1 DEF Before
      <4>2. Written \cup Bytes(Kept) \cup InFront = (1 .. appended) \ lost'
        BY <2>1, <2>3, <2>7, <4>1
      <4> QED
        BY <2>4, <2>7, <3>1, <4>2 DEF AllThere
    <3> QED
      BY <3>2, <3>4, <3>5 DEF Order
  <2>10. LinesWhole'
    BY <1>0, <2>1, <2>3 DEF LinesWhole, LinesOf, WholeLines
  <2> QED
    BY <2>5, <2>6, <2>8, <2>9, <2>10, TypesNext DEF IInv, Order
<1>11. ASSUME NEW n \in 0 .. BufferSize, Write(n) PROVE IInv'
  <2> DEFINE data == bufferBackVec[outputs + 1]
             part == SubSeq(data, 1, n)
             rest == SubSeq(data, n + 1, Len(data))
             next == SubSeq(bufferBackVec, (outputs + 1) + 1, Len(bufferBackVec))
  <2>1. /\ UNCHANGED <<frontVars, bufferBack1, bufferBack2, bufferBackVec, running_, owner,
                       latches, ends>>
        /\ pc = "write" /\ pc' = "write"
        /\ outputs < Len(bufferBackVec) /\ n \in {0, Len(data) - 1, Len(data)} \cap Nat
        /\ output(data, n) /\ outputs' = outputs + 1 /\ lost' = lost \cup ToSet(rest)
    BY <1>11 DEF Write, Go
  <2>2. bufferBackVec \in Seq(Data) /\ outputs \in Nat /\ Len(bufferBackVec) \in Nat
    BY <1>0 DEF BackOK
  <2>3. /\ data \in Data /\ next \in Seq(Data) /\ Bytes(Unwritten) = ToSet(data) \cup Bytes(next)
        /\ InOrder(Unwritten) => Increasing(data) /\ InOrder(next) /\ Before(ToSet(data), Bytes(next))
    BY <2>1, <2>2, NextBuffer DEF Unwritten
  <2>4. Unwritten' = next
    BY <2>1 DEF Unwritten
  <2>5. LinesOf(bufferBackVec) => WholeLines(ToSet(data))
    <3>1. outputs + 1 \in DOMAIN bufferBackVec
      BY <2>1, <2>2
    <3> QED
      BY <3>1 DEF LinesOf
  <2> HIDE DEF data, next
  <2>6. /\ InOrder(Unwritten) /\ Before(Written, Bytes(Unwritten))
        /\ Before(Written \cup Bytes(Unwritten), InFront)
        /\ FileInOrder /\ Written \cup Bytes(Unwritten) \cup InFront = (1 .. appended) \ lost
    BY <1>0 DEF Order, EachInOrder, AllInOrder, AllThere, FileInOrder
  <2>7. Increasing(data) /\ Before(Written, ToSet(data)) /\ n \in 0 .. Len(data)
    <3>1. Len(data) \in Nat
      BY <2>3 DEF Data
    <3>2. n \in 0 .. Len(data)
      BY <2>1, <3>1
    <3> QED
      BY <2>3, <2>6, <3>2 DEF Before
  <2>8. /\ part \in Data /\ ToSet(part) \cup ToSet(rest) = ToSet(data)
        /\ ToSet(part) \cap ToSet(rest) = {}
    BY <2>3, <2>7, Divided
  <2>9. /\ FileOK' /\ FileInOrder' /\ Written' = Written \cup ToSet(part)
        /\ errors' = 0 =>
               /\ errors = 0
               /\ LinesOf(files) /\ WholeLines(ToSet(unflushed)) /\ WholeLines(ToSet(data))
                      => LinesOf(files') /\ WholeLines(ToSet(unflushed'))
    BY <1>0, <2>1, <2>3, <2>6, <2>7, OutputTakes
  <2> HIDE DEF part, rest
  <2>10. FrontOK' /\ BackOK' /\ ThreadsOK' /\ Phases' /\ Buffers'
    <3>1. FrontOK' /\ ThreadsOK' /\ Phases' /\ Buffers'
      BY <1>0, <2>1 DEF FrontOK, ThreadsOK, Phases, Buffers
    <3>2. BackOK'
      BY <1>0, <2>1, <2>2 DEF BackOK
    <3> QED
      BY <3>1, <3>2
  <2>11. LinesOK'
    <3>1. ToSet(rest) \subseteq 1 .. appended
      BY <2>3, <2>6, <2>8
    <3> QED
      BY <1>0, <2>1, <3>1 DEF LinesOK, appended
  <2>12. Order'
    <3>1. InFront' = InFront /\ Bytes(Unwritten)' = Bytes(next) /\ appended' = appended
      BY <2>1, <2>4 DEF InFront, appended
    <3>2. EachInOrder'
      BY <1>0, <2>1, <2>3, <2>4, <2>6, <2>9 DEF Order, EachInOrder, FileInOrder
    <3>3. AllInOrder'
      <4>1. Before(Written', Bytes(next))
        BY <2>3, <2>6, <2>8, <2>9 DEF Before
      <4>2. Before(Written' \cup Bytes(next), InFront)
        BY <2>3, <2>6, <2>8, <2>9 DEF Before
      <4>3. Before(Bytes(files), ToSet(unflushed))' /\ Before(Bytes(bufferVector_), ToSet(bufferCurrent_))'
        BY <1>0, <2>1, <2>9 DEF FileInOrder, Order, AllInOrder
      <4> QED
        BY <3>1, <4>1, <4>2, <4>3 DEF AllInOrder
    <3>4. AllThere'
      <4>1. \A b \in ToSet(rest) : b \notin Written /\ b \notin ToSet(part) /\ b \notin Bytes(next)
                                   /\ b \notin InFront
        <5>1. \A b \in ToSet(rest) : b \in Nat /\ b \in ToSet(data) /\ b \in Bytes(Unwritten)
          BY <2>3, <2>6, <2>8
        <5>2. Before(Written, ToSet(data)) /\ Before(ToSet(data), Bytes(next)) /\ Before(ToSet(data), InFront)
          BY <2>3, <2>6, <2>7 DEF Before
        <5> QED
          BY <2>8, <5>1, <5>2 DEF Before
      <4>2. Written' \cup Bytes(next) \cup InFront = (1 .. appended) \ lost'
        BY <2>1, <2>3, <2>6, <2>8, <2>9, <4>1
      <4> QED
        BY <3>1, <4>2 DEF AllThere
    <3> QED
      BY <3>2, <3>3, <3>4 DEF Order
  <2>13. LinesWhole'
    <3> SUFFICES ASSUME errors' = 0
                 PROVE  /\ LinesOf(files)' /\ WholeLines(ToSet(unflushed))' /\ LinesOf(bufferBackVec)'
                        /\ LinesOf(bufferVector_)' /\ WholeLines(ToSet(bufferCurrent_))'
      BY DEF LinesWhole
    <3>1. /\ LinesOf(files) /\ WholeLines(ToSet(unflushed)) /\ LinesOf(bufferBackVec)
          /\ LinesOf(bufferVector_) /\ WholeLines(ToSet(bufferCurrent_))
      BY <1>0, <2>9 DEF LinesWhole
    <3>2. LinesOf(files') /\ WholeLines(ToSet(unflushed'))
      BY <2>5, <2>9, <3>1
    <3>3. LinesOf(files)' /\ WholeLines(ToSet(unflushed))'
      BY <2>1, <3>2 DEF LinesOf, WholeLines
    <3>4. LinesOf(bufferBackVec)' /\ LinesOf(bufferVector_)' /\ WholeLines(ToSet(bufferCurrent_))'
      BY <2>1, <3>1 DEF LinesOf, WholeLines
    <3> QED
      BY <3>3, <3>4
  <2> QED
    BY <2>9, <2>10, <2>11, <2>12, <2>13, TypesNext DEF IInv, Order, FileInOrder
<1>12. CASE Tick /\ UNCHANGED <<frontVars, backVars, ownerVars, lineVars, pc>>
  <2>1. now' \in now .. MaxSeconds
    BY <1>0, <1>12, Constants DEF Tick, FileOK
  <2>2. ThreadsOK' /\ Phases'
    BY <1>0, <1>12 DEF Tick, ThreadsOK, Phases, ownerVars
  <2> QED
    BY <1>2, <1>12, <2>1, <2>2 DEF Tick
<1>13. CASE UNCHANGED vars
  <2>1. ThreadsOK' /\ Phases'
    BY <1>0, <1>13 DEF vars, ThreadsOK, Phases, ownerVars
  <2> QED
    BY <1>2, <1>13, <2>1 DEF vars
<1> QED
  BY <1>1, <1>3, <1>4, <1>5, <1>6, <1>7, <1>8, <1>9, <1>10, <1>11, <1>12, <1>13 DEF Next, LogThread

-------------------------------------------------------------------------------
(* The theorems.                                                           *)

(* What each buffer may hold in each phase of the log thread, and the log  *)
(* as a whole in the order of the appends, hold in every execution.        *)
THEOREM SpecIInv == Spec => []IInv
  BY InitIInv, NextIInv, PTL DEF Spec

(* The variables have their types, for all values of the constants.        *)
THEOREM TypeCorrect == Spec => []TypeOK
<1>1. IInv => TypeOK
  BY DEF IInv
<1> QED
  BY <1>1, SpecIInv, PTL

(* What is in the files and in the buffers is in the order of the appends, *)
(* without repetition, and lacks nothing but the bytes that append, run    *)
(* and AppendFile::append have given up (AsyncLogging.cc:41-113).          *)
THEOREM LogIsComplete == Spec => []LogComplete
<1>1. ASSUME IInv PROVE LogComplete
  <2>1. /\ files \in Seq(Data) /\ unflushed \in Data /\ Unwritten \in Seq(Data)
        /\ bufferVector_ \in Seq(Data) /\ bufferCurrent_ \in Data
    BY <1>1, Types, FilesAre, UnwrittenIs DEF IInv, FileOK, FrontOK
  <2>2. /\ EachInOrder /\ AllInOrder /\ AllThere
    BY <1>1 DEF IInv
  <2> DEFINE a == files \o <<unflushed>>
             b == a \o Unwritten
             c == b \o bufferVector_
             d == c \o <<bufferCurrent_>>
  <2>3. /\ <<unflushed>> \in Seq(Data) /\ Bytes(<<unflushed>>) = ToSet(unflushed)
        /\ InOrder(<<unflushed>>)
        /\ <<bufferCurrent_>> \in Seq(Data) /\ Bytes(<<bufferCurrent_>>) = ToSet(bufferCurrent_)
        /\ InOrder(<<bufferCurrent_>>)
    BY <2>1, <2>2, OneBuffer DEF EachInOrder
  <2>4. a \in Seq(Data) /\ Bytes(a) = Written /\ InOrder(a)
    <3>1. InOrder(files) /\ Before(Bytes(files), Bytes(<<unflushed>>))
      BY <2>2, <2>3 DEF EachInOrder, AllInOrder
    <3>2. a \in Seq(Data) /\ Bytes(a) = Bytes(files) \cup Bytes(<<unflushed>>) /\ InOrder(a)
      BY <2>1, <2>3, <3>1, BuffersJoined
    <3> QED
      BY <2>3, <3>2 DEF Written
  <2> HIDE DEF a
  <2>5. b \in Seq(Data) /\ Bytes(b) = Written \cup Bytes(Unwritten) /\ InOrder(b)
    BY <2>1, <2>2, <2>4, BuffersJoined DEF EachInOrder, AllInOrder
  <2> HIDE DEF b
  <2>6. /\ c \in Seq(Data) /\ Bytes(c) = Written \cup Bytes(Unwritten) \cup Bytes(bufferVector_)
        /\ InOrder(c)
    <3>1. Before(Bytes(b), Bytes(bufferVector_))
      BY <2>2, <2>5 DEF AllInOrder, Before, InFront
    <3> QED
      BY <2>1, <2>2, <2>5, <3>1, BuffersJoined DEF EachInOrder
  <2> HIDE DEF c
  <2>7. Bytes(d) = Written \cup Bytes(Unwritten) \cup InFront /\ InOrder(d)
    <3>1. Before(Bytes(c), ToSet(bufferCurrent_))
      BY <2>2, <2>6 DEF AllInOrder, Before, InFront
    <3>2. Bytes(d) = Bytes(c) \cup ToSet(bufferCurrent_) /\ InOrder(d)
      BY ZenonT(60), <2>3, <2>6, <3>1, BuffersJoined
    <3> QED
      BY <2>6, <3>2 DEF InFront
  <2>8. d = Log
    BY DEF a, b, c, Log
  <2> QED
    BY <2>2, <2>7, <2>8 DEF LogComplete, AllThere
<1> QED
  BY <1>1, SpecIInv, PTL

(* Unless a write has failed no line begins in one file and goes on in the *)
(* next, however often LogFile is rolled (LogFile.cc:63-69).               *)
THEOREM FilesAlwaysHoldWholeLines == Spec => []FilesHoldWholeLines
<1>1. IInv => FilesHoldWholeLines
  BY DEF IInv, LinesWhole, LinesOf, FilesHoldWholeLines
<1> QED
  BY <1>1, SpecIInv, PTL

(* When run() takes its own two buffers back from the vector, the vector   *)
(* has as many as it needs (AsyncLogging.cc:93-107): back() is never       *)
(* called on an empty one.                                                 *)
THEOREM VectorAlwaysHoldsNeeded == Spec => []VectorHoldsNeeded
<1>1. ASSUME IInv PROVE VectorHoldsNeeded
  <2> SUFFICES ASSUME pc = "write"
               PROVE  (IF Len(bufferBackVec) > 2 THEN 2 ELSE Len(bufferBackVec)) >= Needed
    BY DEF VectorHoldsNeeded
  <2>1. /\ Len(bufferBackVec) \in Nat /\ Len(bufferBackVec) >= 1
        /\ ~bufferBack2 => Len(bufferBackVec) >= 2
    BY <1>1, Types DEF IInv, Buffers, BackOK
  <2>2. Needed \in 0 .. 2 /\ (bufferBack2 => Needed <= 1)
    BY DEF Needed
  <2>3. CASE bufferBack2
    BY <2>1, <2>2, <2>3
  <2>4. CASE ~bufferBack2
    BY <2>1, <2>2, <2>4
  <2> QED
    BY <2>3, <2>4
<1> QED
  BY <1>1, SpecIInv, PTL

(* Logger.tla's statement about its lines, which are what is appended      *)
(* (Logger.cc:26-47, LogStream.cc:29-126).                                 *)
THEOREM LinesAlwaysInTheLog == Spec => []LinesInTheLog
<1>1. LinesInTheLog
  BY EveryLineIsSpelledOut DEF LinesInTheLog
<1> QED
  BY <1>1, PTL

-------------------------------------------------------------------------------
(* The log is a journal.                                                   *)

(* Buffers one after another are data, as far as any of them and as a      *)
(* whole.                                                                  *)
LEMMA OneAfterAnother ==
    ASSUME NEW v \in Seq(Data), v # <<>>
    PROVE  \E f : /\ f[0] = <<>>
                  /\ \A i \in 1 .. Len(v) : f[i] = f[i - 1] \o v[i]
                  /\ FlattenSeq(v) = f[Len(v)]
                  /\ \A i \in 0 .. Len(v) : f[i] \in Data
<1>1. Len(v) \in Nat \ {0} /\ \A i \in 1 .. Len(v) : v[i] \in Seq(Nat)
  BY DEF Data
<1> QED
  BY <1>1, FlattenDef DEF Data

(* No buffers hold no bytes.                                               *)
LEMMA FlattenNone == FlattenSeq(<<>>) = <<>>
  BY DEF FlattenSeq

(* What is written of buffers is data.                                     *)
LEMMA FlattenIsData ==
    ASSUME NEW v \in Seq(Data)
    PROVE  FlattenSeq(v) \in Data
<1>1. CASE v = <<>>
  BY <1>1, FlattenNone, Nothing
<1>2. CASE v # <<>>
  <2>1. PICK f : FlattenSeq(v) = f[Len(v)] /\ \A i \in 0 .. Len(v) : f[i] \in Data
    BY <1>2, OneAfterAnother
  <2>2. Len(v) \in 0 .. Len(v)
    OBVIOUS
  <2> QED
    BY <2>1, <2>2
<1> QED
  BY <1>1, <1>2

(* One more buffer.                                                        *)
LEMMA FlattenAppend ==
    ASSUME NEW v \in Seq(Data), NEW a \in Data
    PROVE  FlattenSeq(Append(v, a)) = FlattenSeq(v) \o a
<1> DEFINE w == Append(v, a)
           n == Len(v)
<1>1. /\ w \in Seq(Data) /\ w # <<>> /\ Len(w) = n + 1 /\ n \in Nat
      /\ w[n + 1] = a /\ \A i \in 1 .. n : w[i] = v[i]
  BY AppendProperties
<1> HIDE DEF w
<1>2. PICK g : /\ g[0] = <<>>
               /\ \A i \in 1 .. n + 1 : g[i] = g[i - 1] \o w[i]
               /\ FlattenSeq(w) = g[n + 1]
  BY <1>1, OneAfterAnother
<1>3. FlattenSeq(w) = g[n] \o a
  <2>1. n + 1 \in 1 .. n + 1 /\ (n + 1) - 1 = n
    BY <1>1
  <2> QED
    BY <1>1, <1>2, <2>1
<1>4. CASE v = <<>>
  <2>1. n = 0
    BY <1>4
  <2> QED
    BY <1>2, <1>3, <1>4, <2>1, FlattenNone DEF w
<1>5. CASE v # <<>>
  <2>1. PICK f : /\ f[0] = <<>>
                 /\ \A i \in 1 .. n : f[i] = f[i - 1] \o v[i]
                 /\ FlattenSeq(v) = f[n]
    BY <1>5, OneAfterAnother
  <2> DEFINE S == {k \in Nat : k <= n => g[k] = f[k]}
  <2>2. 0 \in S
    BY <1>2, <2>1
  <2>3. ASSUME NEW k \in Nat, k \in S PROVE k + 1 \in S
    <3> SUFFICES ASSUME k + 1 <= n PROVE g[k + 1] = f[k + 1]
      OBVIOUS
    <3>1. k <= n /\ k + 1 \in 1 .. n /\ k + 1 \in 1 .. n + 1 /\ (k + 1) - 1 = k
      BY <1>1
    <3>2. g[k] = f[k]
      BY <2>3, <3>1
    <3>3. g[k + 1] = g[k] \o w[k + 1] /\ f[k + 1] = f[k] \o v[k + 1] /\ w[k + 1] = v[k + 1]
      BY <1>1, <1>2, <2>1, <3>1
    <3> QED
      BY <3>2, <3>3
  <2>4. Nat \subseteq S
    <3> HIDE DEF S
    <3> QED
      BY <2>2, <2>3, SetInduction
  <2>5. g[n] = f[n]
    BY <1>1, <2>4
  <2> QED
    BY <1>3, <2>1, <2>5 DEF w
<1> QED
  BY <1>4, <1>5

(* Three pieces of data are joined in the same way from either end.        *)
LEMMA Associative ==
    ASSUME NEW p \in Data, NEW q \in Data, NEW r \in Data
    PROVE  (p \o q) \o r = p \o (q \o r)
BY SMTT(30), ConcatAssociative DEF Data

(* Buffers behind others.                                                  *)
LEMMA FlattenConcat ==
    ASSUME NEW v \in Seq(Data), NEW w \in Seq(Data)
    PROVE  FlattenSeq(v \o w) = FlattenSeq(v) \o FlattenSeq(w)
<1> DEFINE Joins(x) == FlattenSeq(v \o x) = FlattenSeq(v) \o FlattenSeq(x)
           S == {k \in Nat : \A x \in Seq(Data) : Len(x) = k => Joins(x)}
<1>1. FlattenSeq(v) \in Data
  BY FlattenIsData
<1>2. 0 \in S
  <2> SUFFICES ASSUME NEW x \in Seq(Data), Len(x) = 0 PROVE Joins(x)
    OBVIOUS
  <2>1. x = <<>>
    OBVIOUS
  <2>2. v \o x = v
    BY <2>1, ConcatEmptySeq
  <2>3. FlattenSeq(v) \o <<>> = FlattenSeq(v)
    BY <1>1, ConcatEmptySeq DEF Data
  <2> QED
    BY <2>1, <2>2, <2>3, FlattenNone
<1>3. ASSUME NEW k \in Nat, k \in S PROVE k + 1 \in S
  <2> SUFFICES ASSUME NEW x \in Seq(Data), Len(x) = k + 1 PROVE Joins(x)
    OBVIOUS
  <2>1. x # <<>>
    OBVIOUS
  <2>2. PICK y \in Seq(Data), a \in Data : x = Append(y, a)
    BY <2>1, SequenceEmptyOrAppend
  <2>3. Len(y) = k
    <3>1. Len(x) = Len(y) + 1 /\ Len(y) \in Nat
      BY <2>2, AppendProperties
    <3> QED
      BY <3>1
  <2>4. Joins(y)
    BY <1>3, <2>3
  <2>5. v \o x = Append(v \o y, a) /\ v \o y \in Seq(Data)
    <3>1. v \o y \in Seq(Data)
      BY ConcatProperties
    <3>2. /\ x \in Seq(Data) /\ Len(x) = Len(y) + 1 /\ x[Len(y) + 1] = a
          /\ \A i \in 1 .. Len(y) : x[i] = y[i]
      BY <2>2, AppendProperties
    <3> DEFINE l == v \o x
               r == Append(v \o y, a)
    <3>3. l \in Seq(Data) /\ Len(l) = Len(v) + Len(x)
          /\ \A i \in 1 .. Len(v) + Len(x) : l[i] = IF i <= Len(v) THEN v[i] ELSE x[i - Len(v)]
      BY ConcatProperties
    <3>4. Len(v \o y) = Len(v) + Len(y)
          /\ \A i \in 1 .. Len(v) + Len(y) : (v \o y)[i] = IF i <= Len(v) THEN v[i] ELSE y[i - Len(v)]
      BY ConcatProperties
    <3>5. r \in Seq(Data) /\ Len(r) = Len(v \o y) + 1 /\ r[Len(v \o y) + 1] = a
          /\ \A i \in 1 .. Len(v \o y) : r[i] = (v \o y)[i]
      BY <3>1, AppendProperties
    <3>6. Len(v) \in Nat /\ Len(y) \in Nat
      OBVIOUS
    <3> HIDE DEF l, r
    <3>7. Len(l) = Len(r)
      BY <3>2, <3>3, <3>4, <3>5, <3>6
    <3>8. ASSUME NEW i \in 1 .. Len(l) PROVE l[i] = r[i]
      <4>1. CASE i <= Len(v) + Len(y)
        <5>1. i \in 1 .. Len(v) + Len(y) /\ i \in 1 .. Len(v) + Len(x)
          BY <3>2, <3>3, <3>6, <4>1
        <5>2. ~(i <= Len(v)) => i - Len(v) \in 1 .. Len(y)
          BY <3>6, <4>1
        <5> QED
          BY <3>2, <3>3, <3>4, <3>5, <5>1, <5>2
      <4>2. CASE ~(i <= Len(v) + Len(y))
        <5>1. i = Len(v) + Len(y) + 1 /\ i - Len(v) = Len(y) + 1 /\ ~(i <= Len(v))
              /\ i \in 1 .. Len(v) + Len(x)
          BY <3>2, <3>3, <3>6, <4>2
        <5> QED
          BY <3>2, <3>3, <3>4, <3>5, <5>1
      <4> QED
        BY <4>1, <4>2
    <3> QED
      BY <3>1, <3>3, <3>5, <3>7, <3>8, SeqEqual DEF l, r
  <2>6. FlattenSeq(v \o x) = FlattenSeq(v \o y) \o a
    BY <2>5, FlattenAppend
  <2>7. FlattenSeq(x) = FlattenSeq(y) \o a
    BY <2>2, FlattenAppend
  <2>8. FlattenSeq(v) \in Data /\ FlattenSeq(y) \in Data /\ a \in Data
    BY FlattenIsData
  <2>9. (FlattenSeq(v) \o FlattenSeq(y)) \o a = FlattenSeq(v) \o (FlattenSeq(y) \o a)
    BY <2>8, Associative
  <2> QED
    BY <2>4, <2>6, <2>7, <2>9
<1>4. Nat \subseteq S
  <2> HIDE DEF S
  <2> QED
    BY <1>2, <1>3, SetInduction
<1>5. Len(w) \in S
  BY <1>4
<1> QED
  BY <1>5

(* The bytes in buffers that are written one after another are the bytes   *)
(* in the buffers.                                                         *)
LEMMA FlattenBytes ==
    ASSUME NEW v \in Seq(Data)
    PROVE  ToSet(FlattenSeq(v)) = Bytes(v)
<1>1. CASE v = <<>>
  BY <1>1, FlattenNone, Nothing
<1>2. CASE v # <<>>
  <2> DEFINE n == Len(v)
             Before_(k) == UNION {ToSet(v[i]) : i \in 1 .. k}
  <2>1. PICK f : /\ f[0] = <<>>
                 /\ \A i \in 1 .. n : f[i] = f[i - 1] \o v[i]
                 /\ FlattenSeq(v) = f[n]
                 /\ \A i \in 0 .. n : f[i] \in Data
    BY <1>2, OneAfterAnother
  <2> DEFINE S == {k \in Nat : k <= n => ToSet(f[k]) = Before_(k)}
  <2>2. 0 \in S
    BY <2>1, Nothing
  <2>3. ASSUME NEW k \in Nat, k \in S PROVE k + 1 \in S
    <3> SUFFICES ASSUME k + 1 <= n PROVE ToSet(f[k + 1]) = Before_(k + 1)
      OBVIOUS
    <3>1. k <= n /\ k + 1 \in 1 .. n /\ (k + 1) - 1 = k /\ k \in 0 .. n
      OBVIOUS
    <3>2. ToSet(f[k]) = Before_(k)
      BY <2>3, <3>1
    <3>3. f[k + 1] = f[k] \o v[k + 1] /\ f[k] \in Data /\ v[k + 1] \in Data
      <4>1. \A i \in 1 .. n : v[i] \in Data
        OBVIOUS
      <4>2. v[k + 1] \in Data
        BY <3>1, <4>1
      <4>3. f[k] \in Data
        BY <2>1, <3>1
      <4>4. f[k + 1] = f[(k + 1) - 1] \o v[k + 1]
        BY <2>1, <3>1
      <4> QED
        BY <3>1, <4>2, <4>3, <4>4
    <3>4. ToSet(f[k + 1]) = ToSet(f[k]) \cup ToSet(v[k + 1])
      BY <3>3, Joined
    <3>5. 1 .. k + 1 = (1 .. k) \cup {k + 1}
      OBVIOUS
    <3>6. Before_(k + 1) = Before_(k) \cup ToSet(v[k + 1])
      BY <3>5
    <3> QED
      BY <3>2, <3>4, <3>6
  <2>4. Nat \subseteq S
    <3> HIDE DEF S
    <3> QED
      BY <2>2, <2>3, SetInduction
  <2>5. ToSet(f[n]) = Before_(n) /\ DOMAIN v = 1 .. n
    BY <2>4
  <2> QED
    BY <2>1, <2>5 DEF Bytes
<1> QED
  BY <1>1, <1>2

(* If the first m buffers hold c bytes each, there are m * c.              *)
LEMMA FlattenLength ==
    ASSUME NEW v \in Seq(Data), NEW c \in Nat, NEW m \in 0 .. Len(v),
           \A i \in 1 .. m : Len(v[i]) >= c
    PROVE  Len(FlattenSeq(v)) >= m * c
<1>1. CASE v = <<>>
  <2>1. m = 0 /\ FlattenSeq(v) = <<>>
    BY <1>1, FlattenNone
  <2> QED
    BY <2>1
<1>2. CASE v # <<>>
  <2> DEFINE n == Len(v)
  <2>1. PICK f : /\ f[0] = <<>>
                 /\ \A i \in 1 .. n : f[i] = f[i - 1] \o v[i]
                 /\ FlattenSeq(v) = f[n]
                 /\ \A i \in 0 .. n : f[i] \in Data
    BY <1>2, OneAfterAnother
  <2>2. \A i \in 0 .. n : Len(f[i]) \in Nat
    BY <2>1 DEF Data
  <2> DEFINE S == {k \in Nat : k <= n => Len(f[k]) >= (IF k <= m THEN k ELSE m) * c}
  <2>3. 0 \in S
    <3>1. Len(f[0]) = 0
      BY <2>1
    <3>2. 0 <= m /\ 0 * c = 0
      OBVIOUS
    <3> QED
      BY <3>1, <3>2
  <2>4. ASSUME NEW k \in Nat, k \in S PROVE k + 1 \in S
    <3> SUFFICES ASSUME k + 1 <= n
                 PROVE  Len(f[k + 1]) >= (IF k + 1 <= m THEN k + 1 ELSE m) * c
      OBVIOUS
    <3>1. k <= n /\ k + 1 \in 1 .. n /\ (k + 1) - 1 = k /\ k \in 0 .. n
      OBVIOUS
    <3>2. Len(f[k]) >= (IF k <= m THEN k ELSE m) * c
      BY <2>4, <3>1
    <3>3. f[k + 1] = f[k] \o v[k + 1] /\ f[k] \in Data /\ v[k + 1] \in Data
      <4>1. \A i \in 1 .. n : v[i] \in Data
        OBVIOUS
      <4>2. v[k + 1] \in Data
        BY <3>1, <4>1
      <4>3. f[k] \in Data
        BY <2>1, <3>1
      <4>4. f[k + 1] = f[(k + 1) - 1] \o v[k + 1]
        BY <2>1, <3>1
      <4> QED
        BY <3>1, <4>2, <4>3, <4>4
    <3>4. /\ Len(f[k + 1]) = Len(f[k]) + Len(v[k + 1])
          /\ Len(f[k]) \in Nat /\ Len(v[k + 1]) \in Nat
      BY <3>3, Joined DEF Data
    <3>5. CASE k + 1 <= m
      <4>1. k <= m /\ k + 1 \in 1 .. m
        BY <3>5
      <4>2. Len(v[k + 1]) >= c /\ Len(f[k]) >= k * c
        BY <3>2, <4>1
      <4>3. (k + 1) * c = k * c + c /\ k * c \in Nat
        OBVIOUS
      <4>4. \A l, p, q \in Nat : p >= k * c /\ q >= c /\ l = p + q => l >= (k + 1) * c
        BY <4>3
      <4>5. Len(f[k + 1]) \in Nat
        <5>1. k + 1 \in 0 .. n
          BY <3>1
        <5> QED
          BY <2>2, <5>1
      <4>6. Len(f[k + 1]) >= (k + 1) * c
        BY <3>4, <4>2, <4>4, <4>5
      <4>7. (IF k + 1 <= m THEN k + 1 ELSE m) = k + 1
        BY <3>5
      <4> QED
        BY <4>6, <4>7
    <3>6. CASE ~(k + 1 <= m)
      <4>1. (IF k <= m THEN k ELSE m) = m
        BY <3>6
      <4>2. m * c \in Nat
        OBVIOUS
      <4>3. Len(f[k]) >= m * c
        BY <3>2, <4>1
      <4>4. \A l, p, q, x \in Nat : p >= x /\ l = p + q => l >= x
        OBVIOUS
      <4>5. Len(f[k + 1]) \in Nat
        <5>1. k + 1 \in 0 .. n
          BY <3>1
        <5> QED
          BY <2>2, <5>1
      <4>6. Len(f[k + 1]) >= m * c
        BY <3>4, <4>2, <4>3, <4>4, <4>5
      <4>7. (IF k + 1 <= m THEN k + 1 ELSE m) = m
        BY <3>6
      <4> QED
        BY <4>6, <4>7
    <3> QED
      BY <3>5, <3>6
  <2>5. Nat \subseteq S
    <3> HIDE DEF S
    <3> QED
      BY <2>3, <2>4, SetInduction
  <2>6. Len(f[n]) >= (IF n <= m THEN n ELSE m) * c
    BY <2>5
  <2>7. (IF n <= m THEN n ELSE m) = m
    OBVIOUS
  <2> QED
    BY <2>1, <2>6, <2>7
<1> QED
  BY <1>1, <1>2

(* What is written to the last file that is not empty comes behind what is *)
(* in all the files.                                                       *)
LEMMA FlattenFiles ==
    ASSUME NEW fs \in Files, NEW n \in 1 .. MaxSeconds, NEW a \in Data, EmptyAfter(fs, n),
           NEW gs, Grown(fs, n, a, gs)
    PROVE  FlattenSeq(gs) = FlattenSeq(fs) \o a
<1>1. MaxSeconds \in Nat /\ n \in Nat /\ n >= 1 /\ n <= MaxSeconds
  BY Constants
<1>2. /\ fs \in Seq(Data) /\ Len(fs) = MaxSeconds /\ fs # <<>>
      /\ \A i \in 1 .. MaxSeconds : fs[i] \in Data
  BY <1>1 DEF Files
<1>3. fs[n] \o a \in Data
  BY <1>2, Joined
<1>4. /\ gs \in Seq(Data) /\ Len(gs) = MaxSeconds /\ gs # <<>>
      /\ \A i \in 1 .. MaxSeconds : gs[i] = IF i = n THEN fs[n] \o a ELSE fs[i]
  <2>1. gs \in Files
    BY <1>3 DEF Grown, Files
  <2>2. \A i \in 1 .. MaxSeconds : gs[i] = IF i = n THEN fs[n] \o a ELSE fs[i]
    BY DEF Grown, Files
  <2> QED
    BY <1>1, <2>1, <2>2 DEF Files
<1>5. PICK f : /\ f[0] = <<>>
               /\ \A i \in 1 .. MaxSeconds : f[i] = f[i - 1] \o fs[i]
               /\ FlattenSeq(fs) = f[MaxSeconds]
               /\ \A i \in 0 .. MaxSeconds : f[i] \in Data
  BY <1>2, OneAfterAnother
<1>6. PICK g : /\ g[0] = <<>>
               /\ \A i \in 1 .. MaxSeconds : g[i] = g[i - 1] \o gs[i]
               /\ FlattenSeq(gs) = g[MaxSeconds]
  BY <1>4, OneAfterAnother
<1> DEFINE S == {k \in Nat : k <= MaxSeconds => g[k] = IF k < n THEN f[k] ELSE f[k] \o a}
<1>7. 0 \in S
  BY <1>1, <1>5, <1>6
<1>8. ASSUME NEW k \in Nat, k \in S PROVE k + 1 \in S
  <2> SUFFICES ASSUME k + 1 <= MaxSeconds
               PROVE  g[k + 1] = IF k + 1 < n THEN f[k + 1] ELSE f[k + 1] \o a
    OBVIOUS
  <2>1. k <= MaxSeconds /\ k + 1 \in 1 .. MaxSeconds /\ (k + 1) - 1 = k /\ k \in 0 .. MaxSeconds
    BY <1>1
  <2>2. g[k] = IF k < n THEN f[k] ELSE f[k] \o a
    BY <1>8, <2>1
  <2>3. /\ g[k + 1] = g[k] \o gs[k + 1] /\ f[k + 1] = f[k] \o fs[k + 1]
        /\ gs[k + 1] = IF k + 1 = n THEN fs[n] \o a ELSE fs[k + 1]
        /\ f[k] \in Seq(Nat) /\ fs[k + 1] \in Seq(Nat) /\ a \in Seq(Nat)
    BY <1>2, <1>4, <1>5, <1>6, <2>1 DEF Data
  <2>4. CASE k + 1 < n
    <3>1. k < n /\ k + 1 # n
      BY <1>1, <2>4
    <3>2. g[k] = f[k] /\ gs[k + 1] = fs[k + 1]
      BY <2>2, <2>3, <3>1
    <3> QED
      BY <2>3, <2>4, <3>2
  <2>5. CASE k + 1 = n
    <3>1. k < n
      BY <2>5
    <3>2. g[k + 1] = f[k] \o (fs[k + 1] \o a)
      BY <2>2, <2>3, <2>5, <3>1
    <3>3. f[k] \in Data /\ fs[k + 1] \in Data
      BY <2>3 DEF Data
    <3>4. (f[k] \o fs[k + 1]) \o a = f[k] \o (fs[k + 1] \o a)
      BY <3>3, Associative
    <3>5. ~(k + 1 < n)
      BY <2>5
    <3> QED
      BY <2>3, <3>2, <3>4, <3>5
  <2>6. CASE k + 1 > n
    <3>1. ~(k < n) /\ ~(k + 1 < n) /\ k + 1 # n
      BY <1>1, <2>6
    <3>2. fs[k + 1] = <<>>
      BY <2>1, <2>6 DEF EmptyAfter
    <3>3. g[k + 1] = (f[k] \o a) \o <<>> /\ f[k + 1] = f[k] \o <<>>
      BY <2>2, <2>3, <3>1, <3>2
    <3>4. f[k] \o a \in Seq(Nat)
      BY <2>3, ConcatProperties
    <3>5. (f[k] \o a) \o <<>> = f[k] \o a /\ f[k] \o <<>> = f[k]
      BY <2>3, <3>4, ConcatEmptySeq
    <3> QED
      BY <3>1, <3>3, <3>5
  <2> QED
    BY <1>1, <2>4, <2>5, <2>6
<1>9. Nat \subseteq S
  <2> HIDE DEF S
  <2> QED
    BY <1>7, <1>8, SetInduction
<1>10. g[MaxSeconds] = f[MaxSeconds] \o a
  <2>1. MaxSeconds \in S /\ ~(MaxSeconds < n) /\ MaxSeconds <= MaxSeconds
    BY <1>1, <1>9
  <2> QED
    BY <2>1
<1> QED
  BY <1>5, <1>6, <1>10

-------------------------------------------------------------------------------
(* Whoever is in the vector was full.                                      *)

AreFull(buffers, n) == \A i \in 1 .. n : Len(buffers[i]) >= FullLength

FullBuffers ==
    /\ AreFull(bufferVector_, Len(bufferVector_))
    /\ pc = "erase" => AreFull(bufferBackVec, Len(bufferBackVec) - 1)

(* A buffer goes into the vector when a line does not fit: it has no room  *)
(* for it, and no line is longer than a LogStream's buffer.                *)
LEMMA NoRoom ==
    ASSUME FrontOK, NEW len \in Lengths, ~Fits(len)
    PROVE  Len(bufferCurrent_) >= FullLength
<1>1. /\ BufferSize \in Nat /\ SmallSize \in Nat /\ len \in Nat /\ len < SmallSize
      /\ Len(bufferCurrent_) \in Nat
  BY Constants DEF FrontOK, Data
<1> QED
  BY <1>1 DEF Fits, FullLength

(* The buffers of v and one more.                                          *)
LEMMA FullAppend ==
    ASSUME NEW v \in Seq(Data), NEW a \in Data, AreFull(v, Len(v))
    PROVE  /\ AreFull(Append(v, a), Len(Append(v, a)) - 1)
           /\ Len(a) >= FullLength => AreFull(Append(v, a), Len(Append(v, a)))
<1> DEFINE w == Append(v, a)
<1>1. /\ Len(w) = Len(v) + 1 /\ Len(v) \in Nat /\ w[Len(v) + 1] = a
      /\ \A i \in 1 .. Len(v) : w[i] = v[i]
  BY AppendProperties
<1> HIDE DEF w
<1>2. /\ Len(w) - 1 = Len(v)
      /\ \A i \in 1 .. Len(w) : i \in 1 .. Len(v) \/ i = Len(v) + 1
  BY <1>1
<1>3. AreFull(w, Len(w) - 1)
  BY <1>1, <1>2 DEF AreFull
<1>4. Len(a) >= FullLength => AreFull(w, Len(w))
  BY <1>1, <1>2 DEF AreFull
<1> QED
  BY <1>3, <1>4 DEF w

(* At first there are none.                                                *)
LEMMA InitFull == Init => FullBuffers
<1>1. Len(<<>>) = 0 /\ 1 .. 0 = {}
  OBVIOUS
<1> QED
  BY <1>1 DEF Init, FullBuffers, AreFull

(* Every step keeps them full.                                             *)
LEMMA NextFull == IInv /\ FullBuffers /\ [Next]_vars => FullBuffers'
<1> SUFFICES ASSUME IInv, FullBuffers, [Next]_vars PROVE FullBuffers'
  OBVIOUS
<1>0. FrontOK /\ AreFull(bufferVector_, Len(bufferVector_))
  BY Types DEF IInv, FullBuffers
<1>1. ASSUME NEW len \in Lengths, append(len) PROVE FullBuffers'
  <2>1. UNCHANGED <<bufferBackVec, pc>>
    BY <1>1 DEF append, backVars
  <2>2. CASE Fits(len)
    <3>1. bufferVector_' = bufferVector_
      BY <1>1, <2>2 DEF append
    <3> QED
      BY <2>1, <3>1 DEF FullBuffers, AreFull
  <2>3. CASE ~Fits(len)
    <3>1. bufferVector_' = Append(bufferVector_, bufferCurrent_)
      BY <1>1, <2>3 DEF append, Replace
    <3>2. bufferVector_ \in Seq(Data) /\ bufferCurrent_ \in Data
      BY <1>0 DEF FrontOK
    <3>3. AreFull(bufferVector_', Len(bufferVector_'))
      BY <1>0, <2>3, <3>1, <3>2, NoRoom, FullAppend
    <3> QED
      BY <2>1, <3>3 DEF FullBuffers, AreFull
  <2> QED
    BY <2>2, <2>3
<1>2. CASE Swap
  <2>1. /\ bufferVector_' = <<>> /\ bufferBackVec' = Append(bufferVector_, bufferCurrent_)
    BY <1>2 DEF Swap, SwapFrom
  <2>2. bufferVector_ \in Seq(Data) /\ bufferCurrent_ \in Data
    BY <1>0 DEF FrontOK
  <2>3. AreFull(bufferBackVec', Len(bufferBackVec') - 1)
    BY <1>0, <2>1, <2>2, FullAppend
  <2>4. AreFull(bufferVector_', Len(bufferVector_'))
    <3>1. Len(<<>>) = 0 /\ 1 .. 0 = {}
      OBVIOUS
    <3> QED
      BY <2>1, <3>1 DEF AreFull
  <2> QED
    BY <2>3, <2>4 DEF FullBuffers, AreFull
<1>3. ASSUME bufferVector_' = bufferVector_, pc' # "erase" PROVE FullBuffers'
  BY <1>3 DEF FullBuffers, AreFull
<1>4. ASSUME UNCHANGED <<bufferVector_, bufferBackVec, pc>> PROVE FullBuffers'
  BY <1>4 DEF FullBuffers, AreFull
<1> USE DEF Go, frontVars, backVars
<1>5. CASE start
  <2>1. bufferVector_' = bufferVector_ /\ pc' = "thread"
    BY <1>5 DEF start, Owner
  <2> QED
    BY <1>3, <2>1
<1>6. CASE ThreadStarted \/ Started \/ stop \/ Join
  <2>1. UNCHANGED <<bufferVector_, bufferBackVec, pc>>
    BY <1>6 DEF ThreadStarted, Started, stop, Join, Owner
  <2> QED
    BY <1>4, <2>1
<1>7. CASE ThreadRun \/ RunBegins \/ Wait
  <2>1. bufferVector_' = bufferVector_ /\ pc' \in {"run", "test", "wait"}
    BY <1>7 DEF ThreadRun, RunBegins, Wait
  <2> QED
    BY <1>3, <2>1
<1>8. CASE Test
  <2>1. bufferVector_' = bufferVector_ /\ pc' = IF running_ THEN "lock" ELSE "ended"
    BY <1>8 DEF Test
  <2> QED
    BY <1>3, <2>1
<1>9. CASE Erase \/ Recycle
  <2>1. bufferVector_' = bufferVector_ /\ pc' \in {"write", "test"}
    BY <1>9 DEF Erase, Recycle
  <2> QED
    BY <1>3, <2>1
<1>10. ASSUME NEW n \in 0 .. BufferSize, Write(n) PROVE FullBuffers'
  <2>1. bufferVector_' = bufferVector_ /\ pc' = "write"
    BY <1>10 DEF Write
  <2> QED
    BY <1>3, <2>1
<1>11. CASE (Tick /\ UNCHANGED <<frontVars, backVars, ownerVars, lineVars, pc>>) \/ UNCHANGED vars
  <2>1. UNCHANGED <<bufferVector_, bufferBackVec, pc>>
    BY <1>11 DEF vars
  <2> QED
    BY <1>4, <2>1
<1> QED
  BY <1>1, <1>2, <1>5, <1>6, <1>7, <1>8, <1>9, <1>10, <1>11 DEF Next, LogThread

-------------------------------------------------------------------------------
(* The log as a journal: what waits goes to the disk, or is given up.      *)

(* The two pieces of which data consists.                                  *)
LEMMA TwoPieces ==
    ASSUME NEW a \in Data, NEW b \in Data
    PROVE  /\ SubSeq(a \o b, 1, Len(a)) = a
           /\ SubSeq(a \o b, Len(a) + 1, Len(a) + Len(b)) = b
<1>1. a \in Seq(Nat) /\ b \in Seq(Nat) /\ Len(a) \in Nat /\ Len(b) \in Nat
  BY DEF Data
<1>2. SubSeq(a \o b, 1, Len(a)) = a
  <2>1. CASE Len(a) = 0
    <3>1. a = <<>> /\ SubSeq(a \o b, 1, 0) = <<>>
      BY <1>1, <2>1, SubSeqEmpty
    <3> QED
      BY <2>1, <3>1
  <2>2. CASE Len(a) # 0
    <3>1. 1 \in 1 .. Len(a) /\ Len(a) \in 1 .. Len(a)
      BY <1>1, <2>2
    <3>2. SubSeq(a \o b, 1, Len(a)) = SubSeq(a, 1, Len(a))
      BY <1>1, <3>1, SubSeqOfConcat1
    <3> QED
      BY <1>1, <3>2, SubSeqFull
  <2> QED
    BY <2>1, <2>2
<1>3. SubSeq(a \o b, Len(a) + 1, Len(a) + Len(b)) = b
  <2>1. CASE Len(b) = 0
    <3>1. b = <<>> /\ Len(a) + Len(b) = Len(a) /\ Len(a) < Len(a) + 1
      BY <1>1, <2>1
    <3>2. SubSeq(a \o b, Len(a) + 1, Len(a)) = <<>>
      BY <1>1, <3>1, SubSeqEmpty
    <3> QED
      BY <3>1, <3>2
  <2>2. CASE Len(b) # 0
    <3>1. /\ Len(a) + 1 \in Len(a) + 1 .. Len(a) + Len(b)
          /\ Len(a) + Len(b) \in Len(a) + 1 .. Len(a) + Len(b)
          /\ (Len(a) + 1) - Len(a) = 1 /\ (Len(a) + Len(b)) - Len(a) = Len(b)
      BY <1>1, <2>2
    <3>2. SubSeq(a \o b, Len(a) + 1, Len(a) + Len(b))
              = SubSeq(b, (Len(a) + 1) - Len(a), (Len(a) + Len(b)) - Len(a))
      BY <1>1, <3>1, SubSeqOfConcat2
    <3>3. SubSeq(b, 1, Len(b)) = b
      BY <1>1, SubSeqFull
    <3> QED
      BY <3>1, <3>2, <3>3
  <2> QED
    BY <2>1, <2>2
<1> QED
  BY <1>2, <1>3

(* w consists of three pieces, a up to n, b up to m, and c.                *)
Pieces(w, n, m, a, b, c) ==
    /\ n \in 0 .. Len(w) /\ m \in n .. Len(w)
    /\ SubSeq(w, 1, n) = a /\ SubSeq(w, n + 1, m) = b /\ SubSeq(w, m + 1, Len(w)) = c

(* Three of them.                                                          *)
LEMMA ThreePieces ==
    ASSUME NEW a \in Data, NEW b \in Data, NEW c \in Data
    PROVE  Pieces(a \o (b \o c), Len(a), Len(a) + Len(b), a, b, c)
<1> DEFINE w == a \o (b \o c)
           n == Len(a)
           m == Len(a) + Len(b)
<1>1. /\ a \in Seq(Nat) /\ b \in Seq(Nat) /\ c \in Seq(Nat)
      /\ Len(a) \in Nat /\ Len(b) \in Nat /\ Len(c) \in Nat
  BY DEF Data
<1>2. /\ b \o c \in Data /\ Len(b \o c) = Len(b) + Len(c)
      /\ a \o b \in Data /\ Len(a \o b) = Len(a) + Len(b)
  BY Joined
<1>3. w \in Data /\ Len(w) = Len(a) + (Len(b) + Len(c))
  BY <1>2, Joined
<1>4. n \in 0 .. Len(w) /\ m \in n .. Len(w) /\ Len(w) \in Nat
  BY <1>1, <1>3
<1>5. SubSeq(w, 1, n) = a
  BY <1>2, TwoPieces
<1>6. SubSeq(w, m + 1, Len(w)) = c
  <2>1. w = (a \o b) \o c
    BY <1>1, Associative
  <2>2. SubSeq((a \o b) \o c, Len(a \o b) + 1, Len(a \o b) + Len(c)) = c
    BY <1>2, TwoPieces
  <2>3. Len(w) = Len(a \o b) + Len(c)
    BY <1>1, <1>2, <1>3
  <2> QED
    BY <1>2, <2>1, <2>2, <2>3
<1>7. SubSeq(w, n + 1, m) = b
  <2>1. CASE Len(b) = 0
    <3>1. b = <<>> /\ n \in Nat /\ m \in Nat /\ m < n + 1
      BY <1>1, <2>1
    <3>2. SubSeq(w, n + 1, m) = <<>>
      BY <3>1, SubSeqEmpty
    <3> QED
      BY <3>1, <3>2
  <2>2. CASE Len(b) # 0
    <3> DEFINE r == b \o c
    <3>1. r \in Seq(Nat) /\ Len(r) = Len(b) + Len(c)
      BY <1>2 DEF Data
    <3>2. /\ n + 1 \in Len(a) + 1 .. Len(a) + Len(r)
          /\ m \in Len(a) + 1 .. Len(a) + Len(r)
          /\ (n + 1) - Len(a) = 1 /\ m - Len(a) = Len(b)
      BY <1>1, <2>2, <3>1
    <3>3. SubSeq(r, 1, Len(b)) = b
      BY TwoPieces
    <3> HIDE DEF r
    <3>4. SubSeq(a \o r, n + 1, m) = SubSeq(r, (n + 1) - Len(a), m - Len(a))
      BY ZenonT(30), <1>1, <3>1, <3>2, SubSeqOfConcat2
    <3> QED
      BY <3>2, <3>3, <3>4 DEF r
  <2> QED
    BY <2>1, <2>2
<1> QED
  BY <1>4, <1>5, <1>6, <1>7 DEF Pieces

(* Of what waits, a goes to the disk or stays where it is, and b behind it *)
(* is given up.                                                            *)
LEMMA GivenUp ==
    ASSUME NEW a \in Data, NEW b \in Data, NEW c \in Data, Waiting = a \o (b \o c),
           appended' = appended, lost' = lost \cup ToSet(b),
           \/ FlattenSeq(files') = FlattenSeq(files) \o a /\ Waiting' = c
           \/ FlattenSeq(files') = FlattenSeq(files) /\ Waiting' = a \o c
    PROVE  /\ Len(a) \in 0 .. Len(Waiting)
           /\ Len(a) + Len(b) \in Len(a) .. Len(Waiting)
           /\ Promise!Without(Len(a), Len(a) + Len(b))
<1> DEFINE n == Len(a)
           m == Len(a) + Len(b)
<1>1. Pieces(Waiting, n, m, a, b, c)
  BY ThreePieces
<1> HIDE DEF n, m
<1>2. FlattenSeq(files)' = FlattenSeq(files')
  OBVIOUS
<1>3. Promise!Without(n, m)
  <2>1. lost' = lost \cup ToSet(SubSeq(Waiting, n + 1, m))
    BY <1>1 DEF Pieces
  <2>2. \/ /\ FlattenSeq(files)' = FlattenSeq(files) \o SubSeq(Waiting, 1, n)
           /\ Waiting' = SubSeq(Waiting, m + 1, Len(Waiting))
        \/ /\ FlattenSeq(files)' = FlattenSeq(files)
           /\ Waiting' = SubSeq(Waiting, 1, n) \o SubSeq(Waiting, m + 1, Len(Waiting))
    BY <1>1, <1>2 DEF Pieces
  <2> QED
    BY Zenon, <2>1, <2>2 DEF Promise!Without, Promise!ToSet, ToSet
<1> QED
  BY <1>1, <1>3 DEF Pieces, n, m

InARow(a, b, c, d) == ((a \o b) \o c) \o d
FromTheEnd(a, b, c, d) == a \o (b \o (c \o d))

(* Four pieces of data, from either end.                                   *)
LEMMA FourPieces ==
    ASSUME NEW a \in Data, NEW b \in Data, NEW c \in Data, NEW d \in Data
    PROVE  InARow(a, b, c, d) = FromTheEnd(a, b, c, d)
<1>1. /\ a \o b \in Data /\ c \o d \in Data
  BY Joined
<1>2. ((a \o b) \o c) \o d = (a \o b) \o (c \o d)
  BY SMTT(30), <1>1, Associative
<1>3. (a \o b) \o (c \o d) = a \o (b \o (c \o d))
  BY SMTT(30), <1>1, Associative
<1> QED
  BY <1>2, <1>3 DEF InARow, FromTheEnd

(* What waits in the places where it waits.                                *)
LEMMA WaitingIs ==
    ASSUME FrontOK, BackOK, FileOK
    PROVE  /\ unflushed \in Data /\ bufferCurrent_ \in Data
           /\ FlattenSeq(Unwritten) \in Data /\ FlattenSeq(bufferVector_) \in Data
           /\ Waiting = unflushed \o (FlattenSeq(Unwritten)
                                          \o (FlattenSeq(bufferVector_) \o bufferCurrent_))
<1>1. unflushed \in Data /\ bufferCurrent_ \in Data /\ bufferVector_ \in Seq(Data)
  BY DEF FrontOK, FileOK
<1>2. Unwritten \in Seq(Data)
  BY UnwrittenIs
<1>3. FlattenSeq(Unwritten) \in Data /\ FlattenSeq(bufferVector_) \in Data
  BY <1>1, <1>2, FlattenIsData
<1>4. Waiting = InARow(unflushed, FlattenSeq(Unwritten), FlattenSeq(bufferVector_), bufferCurrent_)
  BY DEF Waiting, InARow
<1>5. Waiting = FromTheEnd(unflushed, FlattenSeq(Unwritten), FlattenSeq(bufferVector_), bufferCurrent_)
  BY <1>1, <1>3, <1>4, FourPieces
<1> QED
  BY <1>1, <1>3, <1>5 DEF FromTheEnd

(* A line is entered, or refused because it would fill the current buffer. *)
LEMMA AppendEnters ==
    ASSUME IInv, NEW len \in Lengths, append(len)
    PROVE  Promise!Next
<1> DEFINE m == Message(len)
           A == FlattenSeq(Unwritten)
           V == FlattenSeq(bufferVector_)
<1>1. FrontOK /\ BackOK /\ FileOK /\ LinesOK
  BY Types DEF IInv
<1>2. /\ unflushed \in Data /\ bufferCurrent_ \in Data /\ A \in Data /\ V \in Data
      /\ Waiting = unflushed \o (A \o (V \o bufferCurrent_))
      /\ bufferVector_ \in Seq(Data)
  BY <1>1, WaitingIs DEF FrontOK
<1>3. /\ len \in Nat /\ ends' = Append(ends, appended + len) /\ BufferSize \in Nat
      /\ UNCHANGED <<unflushed, files, errors, bufferBackVec, outputs>>
  BY <1>1, Constants DEF append, backVars, fileVars
<1>4. appended' = appended + len /\ m \in Data /\ Len(m) = len
  BY <1>1, <1>3, MessageIs
<1>5. Unwritten' = Unwritten
  BY <1>3 DEF Unwritten
<1>6. Promise!NewLine(len) = m
  BY DEF Promise!NewLine, Message
<1>7. /\ Waiting = ((unflushed \o A) \o V) \o bufferCurrent_
      /\ Waiting' = ((unflushed \o A) \o FlattenSeq(bufferVector_')) \o bufferCurrent_'
  BY <1>3, <1>5 DEF Waiting
<1> HIDE DEF m, A, V
<1> DEFINE p == unflushed \o A
           q == p \o V
<1>8. p \in Data /\ q \in Data
  BY <1>2, Joined
<1> HIDE DEF p, q
<1>9. CASE ~Fits(len)
  <2>1. /\ bufferVector_' = Append(bufferVector_, bufferCurrent_)
        /\ bufferCurrent_' = m /\ lost' = lost
    BY <1>9 DEF append, Replace, m
  <2>2. FlattenSeq(bufferVector_') = V \o bufferCurrent_
    BY <1>2, <2>1, FlattenAppend DEF V
  <2>3. p \o (V \o bufferCurrent_) = (p \o V) \o bufferCurrent_
    BY SMTT(30), <1>2, <1>8, Associative
  <2>4. Waiting' = Waiting \o m
    BY <1>7, <2>1, <2>2, <2>3 DEF p
  <2>5. Promise!Enter(len)
    BY <1>3, <1>4, <1>6, <2>1, <2>4 DEF Promise!Enter
  <2> QED
    BY <2>5 DEF Promise!Next
<1>10. CASE Fits(len) /\ BufferTakes(bufferCurrent_, len)
  <2>1. bufferVector_' = bufferVector_ /\ bufferCurrent_' = bufferCurrent_ \o m /\ lost' = lost
    BY <1>10 DEF append, m
  <2>2. (q \o bufferCurrent_) \o m = q \o (bufferCurrent_ \o m)
    <3>1. q \in Data /\ bufferCurrent_ \in Data /\ m \in Data
      BY <1>2, <1>4, <1>8
    <3> QED
      BY <3>1, Associative
  <2>3. Waiting' = Waiting \o m
    BY <1>7, <2>1, <2>2 DEF V, p, q
  <2>4. Promise!Enter(len)
    BY <1>3, <1>4, <1>6, <2>1, <2>3 DEF Promise!Enter
  <2> QED
    BY <2>4 DEF Promise!Next
<1>11. CASE Fits(len) /\ ~BufferTakes(bufferCurrent_, len)
  <2>1. bufferVector_' = bufferVector_ /\ bufferCurrent_' = bufferCurrent_ /\ lost' = lost \cup ToSet(m)
    BY <1>11 DEF append, m
  <2>2. Waiting' = Waiting
    BY <1>7, <2>1 DEF V
  <2>3. Len(Waiting) + len >= BufferSize
    <3>1. Len(Waiting) = Len(q) + Len(bufferCurrent_)
      BY <1>2, <1>7, <1>8, Joined DEF p, q
    <3>2. Len(q) \in Nat /\ Len(bufferCurrent_) \in Nat
      BY <1>2, <1>8 DEF Data
    <3>3. ~(len < BufferSize - Len(bufferCurrent_))
      BY <1>11 DEF BufferTakes
    <3> QED
      BY <1>3, <3>1, <3>2, <3>3
  <2>4. lost' = lost \cup Promise!ToSet(Promise!NewLine(len))
    BY <1>6, <2>1 DEF Promise!ToSet, ToSet
  <2>5. Promise!Enter(len)
    BY <1>3, <1>4, <2>1, <2>2, <2>3, <2>4 DEF Promise!Enter
  <2> QED
    BY <2>5 DEF Promise!Next
<1> QED
  BY <1>9, <1>10, <1>11

(* A flush: everything that waits in the buffer of the file goes to disk.  *)
LEMMA FlushWrites ==
    ASSUME IInv, flush, UNCHANGED <<bufferVector_, bufferCurrent_, ends, lost>>,
           Unwritten' = Unwritten
    PROVE  Promise!Next
<1> DEFINE A == FlattenSeq(Unwritten)
           V == FlattenSeq(bufferVector_)
           c == A \o (V \o bufferCurrent_)
<1>1. FrontOK /\ BackOK /\ FileOK /\ NoLaterFiles
  BY Types DEF IInv
<1>2. /\ unflushed \in Data /\ bufferCurrent_ \in Data /\ A \in Data /\ V \in Data
      /\ Waiting = unflushed \o c
  BY <1>1, WaitingIs
<1>3. /\ files' = [files EXCEPT ![name] = @ \o unflushed] /\ unflushed' = <<>>
      /\ errors' = errors
  BY DEF flush
<1>4. FlattenSeq(files') = FlattenSeq(files) \o unflushed
  <2>1. /\ files \in Files /\ name \in 1 .. MaxSeconds /\ EmptyAfter(files, name)
        /\ Grown(files, name, unflushed, files')
    BY <1>1, <1>3 DEF FileOK, NoLaterFiles, Grown
  <2> QED
    BY <1>2, <2>1, FlattenFiles
<1>5. Waiting' = ((<<>> \o A) \o V) \o bufferCurrent_
  BY <1>3 DEF Waiting
<1> HIDE DEF A, V
<1>6. c \in Data
  <2>1. V \o bufferCurrent_ \in Data
    BY <1>2, Joined
  <2> QED
    BY <1>2, <2>1, Joined
<1>7. <<>> \o c = c
  BY <1>6, ConcatEmptySeq DEF Data
<1>8. Waiting' = c
  <2>1. Waiting' = InARow(<<>>, A, V, bufferCurrent_)
    BY <1>5 DEF InARow
  <2>2. Waiting' = <<>> \o c
    <3>1. <<>> \in Data /\ A \in Data /\ V \in Data /\ bufferCurrent_ \in Data
      BY <1>2, Nothing
    <3>2. InARow(<<>>, A, V, bufferCurrent_) = FromTheEnd(<<>>, A, V, bufferCurrent_)
      BY <3>1, FourPieces
    <3> QED
      BY <2>1, <3>2 DEF FromTheEnd
  <2> QED
    BY <1>7, <2>2
<1> HIDE DEF c
<1>9. appended' = appended /\ lost' = lost \cup ToSet(<<>>)
  BY Nothing DEF appended
<1> DEFINE n == Len(unflushed)
<1>10. n \in 0 .. Len(Waiting) /\ Promise!Without(n, n)
  <2>1. Waiting = unflushed \o (<<>> \o c)
    BY <1>2, <1>7
  <2>2. /\ Len(unflushed) \in 0 .. Len(Waiting)
        /\ Promise!Without(Len(unflushed), Len(unflushed) + Len(<<>>))
    BY <1>2, <1>4, <1>6, <1>8, <1>9, <2>1, Nothing, GivenUp
  <2>3. Len(unflushed) + Len(<<>>) = Len(unflushed)
    BY <1>2 DEF Data
  <2> QED
    BY <2>2, <2>3
<1> HIDE DEF n
<1>11. Promise!Write(n)
  BY <1>3, <1>10 DEF Promise!Write
<1> QED
  BY <1>10, <1>11 DEF Promise!Next

(* Buffers change hands: to who writes lines nothing happens.              *)
LEMMA SwapHidden ==
    ASSUME IInv, Swap
    PROVE  UNCHANGED <<appended, Waiting, FlattenSeq(files), lost, errors>>
<1> DEFINE V == FlattenSeq(bufferVector_)
<1>1. FrontOK /\ BackOK /\ FileOK /\ Buffers
  BY Types DEF IInv
<1>2. /\ pc \in {"lock", "wait"} /\ bufferVector_' = <<>> /\ bufferCurrent_' = <<>>
      /\ outputs' = 0 /\ bufferBackVec' = Append(bufferVector_, bufferCurrent_)
      /\ UNCHANGED <<unflushed, files, errors, ends, lost>>
  BY DEF Swap, SwapFrom, Go, fileVars, lineVars
<1>3. /\ bufferVector_ \in Seq(Data) /\ bufferCurrent_ \in Data /\ unflushed \in Data
      /\ bufferBackVec = <<>> /\ outputs = 0
  BY <1>1, <1>2 DEF FrontOK, FileOK, Buffers
<1>4. Unwritten = <<>>
  BY <1>1, <1>3, UnwrittenIs
<1>5. Unwritten' = Append(bufferVector_, bufferCurrent_)
  <2>1. bufferBackVec' \in Seq(Data)
    BY <1>2, <1>3, AppendProperties
  <2>2. SubSeq(bufferBackVec', 1, Len(bufferBackVec')) = bufferBackVec'
    BY <2>1, SubSeqFull
  <2>3. Unwritten' = SubSeq(bufferBackVec', 0 + 1, Len(bufferBackVec'))
    BY <1>2 DEF Unwritten
  <2> QED
    BY <1>2, <2>2, <2>3
<1>6. V \in Data
  BY <1>3, FlattenIsData
<1>7. FlattenSeq(Unwritten)' = V \o bufferCurrent_
  <2>1. FlattenSeq(Append(bufferVector_, bufferCurrent_)) = V \o bufferCurrent_
    BY <1>3, FlattenAppend
  <2> QED
    BY <1>5, <2>1
<1>8. Waiting = ((unflushed \o <<>>) \o V) \o bufferCurrent_
  BY <1>4, FlattenNone DEF Waiting
<1>9. Waiting' = ((unflushed \o (V \o bufferCurrent_)) \o <<>>) \o <<>>
  <2>1. FlattenSeq(bufferVector_)' = <<>>
    BY <1>2, FlattenNone
  <2> QED
    BY <1>2, <1>7, <2>1 DEF Waiting
<1> HIDE DEF V
<1>10. V \o bufferCurrent_ \in Data /\ unflushed \o (V \o bufferCurrent_) \in Data
  <2>1. V \o bufferCurrent_ \in Data
    BY <1>3, <1>6, Joined
  <2> QED
    BY <1>3, <2>1, Joined
<1>11. Waiting' = unflushed \o (V \o bufferCurrent_)
  <2> DEFINE x == unflushed \o (V \o bufferCurrent_)
  <2>1. x \in Data
    BY <1>10
  <2> HIDE DEF x
  <2>2. x \o <<>> = x
    BY <2>1, ConcatEmptySeq DEF Data
  <2> QED
    BY <1>9, <2>2 DEF x
<1>12. Waiting = unflushed \o (V \o bufferCurrent_)
  <2>1. unflushed \o <<>> = unflushed
    BY <1>3, ConcatEmptySeq DEF Data
  <2>2. (unflushed \o V) \o bufferCurrent_ = unflushed \o (V \o bufferCurrent_)
    BY <1>3, <1>6, Associative
  <2> QED
    BY <1>8, <2>1, <2>2
<1>13. appended' = appended /\ FlattenSeq(files)' = FlattenSeq(files)
  BY <1>2 DEF appended
<1> QED
  BY <1>2, <1>11, <1>12, <1>13

(* Too many buffers: what is behind the first two of them is discarded,    *)
(* and more than MaxBuffers * FullLength bytes wait.                       *)
LEMMA EraseDiscards ==
    ASSUME IInv, FullBuffers, Erase
    PROVE  [Promise!Next]_<<appended, Waiting, FlattenSeq(files), lost, errors>>
<1> DEFINE v == bufferBackVec
           k == SubSeq(v, 1, 2)
           d == SubSeq(v, 3, Len(v))
           X == FlattenSeq(bufferVector_) \o bufferCurrent_
           a == unflushed \o FlattenSeq(k)
           b == FlattenSeq(d)
<1>1. FrontOK /\ BackOK /\ FileOK /\ Buffers /\ InOrder(Unwritten)
  BY Types DEF IInv, EachInOrder
<1>2. /\ pc = "erase" /\ bufferBackVec' = Kept /\ lost' = lost \cup (Bytes(v) \ Bytes(Kept))
      /\ UNCHANGED <<bufferVector_, bufferCurrent_, outputs, unflushed, files, errors, ends>>
  BY DEF Erase, Go, frontVars, fileVars
<1>3. /\ v \in Seq(Data) /\ Len(v) \in Nat /\ outputs = 0 /\ Unwritten = v
      /\ MaxBuffers \in Nat /\ MaxBuffers >= 2 /\ FullLength \in Nat
  <2>1. v \in Seq(Data) /\ outputs = 0
    BY <1>1, <1>2 DEF BackOK, Buffers
  <2>2. Unwritten = v
    BY <1>1, <2>1, UnwrittenIs
  <2>3. MaxBuffers \in Nat /\ MaxBuffers >= 2 /\ FullLength \in Nat
    BY Constants DEF FullLength
  <2> QED
    BY <2>1, <2>2, <2>3
<1>4. appended' = appended /\ FlattenSeq(files)' = FlattenSeq(files)
  BY <1>2 DEF appended
<1>5. /\ Kept \in Seq(Data) => Unwritten' = Kept
  <2> SUFFICES ASSUME Kept \in Seq(Data) PROVE Unwritten' = Kept
    OBVIOUS
  <2>1. Unwritten' = SubSeq(Kept, 1, Len(Kept))
    BY <1>2, <1>3 DEF Unwritten
  <2> QED
    BY <2>1, SubSeqFull
<1> HIDE DEF v
<1>6. CASE ~(Len(bufferBackVec) > MaxBuffers)
  <2>1. Kept = bufferBackVec
    BY <1>6 DEF Kept
  <2>2. Unwritten' = Unwritten /\ lost' = lost
    BY <1>2, <1>3, <1>5, <2>1 DEF v
  <2>3. Waiting' = Waiting
    BY <1>2, <2>2 DEF Waiting
  <2> QED
    BY <1>2, <1>4, <2>2, <2>3
<1>7. CASE Len(bufferBackVec) > MaxBuffers
  <2>1. Kept = k
    BY <1>7 DEF Kept, KeptBuffers, v
  <2>2. Len(v) > MaxBuffers /\ 2 \in 0 .. Len(v) /\ Len(v) \in 0 .. Len(v)
    BY <1>3, <1>7 DEF v
  <2>3. /\ k \in Seq(Data) /\ Len(k) = 2 /\ \A i \in 1 .. Len(k) : k[i] = v[0 + i]
    <3>1. k = SubSeq(v, 0 + 1, 2)
      OBVIOUS
    <3> QED
      BY <1>3, <2>2, <3>1, BuffersShrink
  <2>4. /\ d \in Seq(Data) /\ Len(d) = Len(v) - 2 /\ \A i \in 1 .. Len(d) : d[i] = v[2 + i]
    <3>1. d = SubSeq(v, 2 + 1, Len(v)) /\ 2 <= Len(v)
      BY <1>3, <2>2
    <3> QED
      BY <1>3, <2>2, <3>1, BuffersShrink
  <2>5. v = k \o d
    <3>1. /\ 1 \in 1 .. Len(v) + 1 /\ 2 \in 1 - 1 .. Len(v) /\ Len(v) \in 2 .. Len(v)
          /\ 2 + 1 = 3
      BY <1>3, <2>2
    <3>2. SubSeq(v, 1, 2) \o SubSeq(v, 2 + 1, Len(v)) = SubSeq(v, 1, Len(v))
      BY <1>3, <3>1, ConcatAdjacentSubSeq
    <3>3. SubSeq(v, 1, Len(v)) = v
      BY <1>3, SubSeqFull
    <3> QED
      BY <3>1, <3>2, <3>3
  <2>6. Bytes(v) \ Bytes(k) = Bytes(d)
    <3>1. Bytes(v) = Bytes(k) \cup Bytes(d)
      BY <2>3, <2>4, <2>5, BuffersJoined
    <3>2. ASSUME NEW x \in Bytes(k), x \in Bytes(d) PROVE FALSE
      <4>1. PICK i \in 1 .. Len(k) : x \in ToSet(k[i])
        BY <2>3 DEF Bytes
      <4>2. PICK j \in 1 .. Len(d) : x \in ToSet(d[j])
        BY <2>4, <3>2 DEF Bytes
      <4>3. i \in DOMAIN v /\ 2 + j \in DOMAIN v /\ i < 2 + j /\ k[i] = v[i] /\ d[j] = v[2 + j]
        BY <1>3, <2>2, <2>3, <2>4
      <4>4. Before(ToSet(v[i]), ToSet(v[2 + j]))
        BY <1>1, <1>3, <4>3 DEF InOrder
      <4>5. x < x
        BY <4>1, <4>2, <4>3, <4>4 DEF Before
      <4>6. x \in Nat
        BY <2>3, BytesAre
      <4> QED
        BY <4>5, <4>6
    <3> QED
      BY <3>1, <3>2
  <2>7. /\ unflushed \in Data /\ bufferCurrent_ \in Data /\ FlattenSeq(bufferVector_) \in Data
        /\ Waiting = unflushed \o (FlattenSeq(v) \o X)
    BY <1>1, <1>3, WaitingIs
  <2>8. /\ FlattenSeq(v) = FlattenSeq(k) \o FlattenSeq(d)
        /\ FlattenSeq(k) \in Data /\ b \in Data /\ ToSet(b) = Bytes(d)
    BY <2>3, <2>4, <2>5, FlattenConcat, FlattenIsData, FlattenBytes
  <2>9. X \in Data /\ a \in Data
    BY <2>7, <2>8, Joined
  <2>10. Waiting' = a \o X
    <3> DEFINE V == FlattenSeq(bufferVector_)
               K == FlattenSeq(k)
    <3>1. Waiting' = InARow(unflushed, K, V, bufferCurrent_)
      BY <1>2, <1>5, <2>1, <2>3 DEF Waiting, InARow
    <3>2. unflushed \in Data /\ K \in Data /\ V \in Data /\ bufferCurrent_ \in Data
      BY <2>7, <2>8
    <3> HIDE DEF K, V
    <3>3. (unflushed \o K) \o (V \o bufferCurrent_) = ((unflushed \o K) \o V) \o bufferCurrent_
      <4> DEFINE p == unflushed \o K
      <4>1. p \in Data
        BY <3>2, Joined
      <4> HIDE DEF p
      <4>2. p \o (V \o bufferCurrent_) = (p \o V) \o bufferCurrent_
        BY <3>2, <4>1, Associative
      <4> QED
        BY <4>2 DEF p
    <3> QED
      BY <3>1, <3>3 DEF InARow, K, V
  <2> HIDE DEF X
  <2>11. Waiting = a \o (b \o X)
    <3> DEFINE K == FlattenSeq(k)
               r == b \o X
    <3>1. r \in Data
      BY <2>8, <2>9, Joined
    <3>2. (K \o b) \o X = K \o (b \o X)
      <4> HIDE DEF K, b
      <4> QED
        BY <2>8, <2>9, Associative DEF K
    <3>3. (unflushed \o K) \o r = unflushed \o (K \o r)
      <4>1. unflushed \in Data /\ K \in Data
        BY <2>7, <2>8
      <4> HIDE DEF K, r
      <4> QED
        BY <3>1, <4>1, Associative
    <3> QED
      BY <2>7, <2>8, <3>2, <3>3
  <2>12. Len(Waiting) >= MaxBuffers * FullLength
    <3>1. Len(FlattenSeq(v)) >= MaxBuffers * FullLength
      <4>1. \A i \in 1 .. Len(v) - 1 : Len(v[i]) >= FullLength
        BY <1>2 DEF FullBuffers, AreFull, v
      <4>2. MaxBuffers \in 0 .. Len(v) /\ \A i \in 1 .. MaxBuffers : i \in 1 .. Len(v) - 1
        BY <1>3, <2>2
      <4>3. \A i \in 1 .. MaxBuffers : Len(v[i]) >= FullLength
        BY <4>1, <4>2
      <4> QED
        BY <1>3, <4>2, <4>3, FlattenLength
    <3> DEFINE F == FlattenSeq(v)
    <3>2. F \in Data
      BY <1>3, FlattenIsData
    <3> HIDE DEF F
    <3>3. F \o X \in Data /\ Len(F \o X) = Len(F) + Len(X)
      BY <2>9, <3>2, Joined
    <3>4. Len(unflushed \o (F \o X)) = Len(unflushed) + Len(F \o X)
      BY <2>7, <3>3, Joined
    <3>5. Len(unflushed) \in Nat /\ Len(F) \in Nat /\ Len(X) \in Nat
      BY <2>7, <2>9, <3>2 DEF Data
    <3>6. Len(Waiting) = Len(unflushed) + (Len(F) + Len(X))
      BY <2>7, <3>3, <3>4 DEF F
    <3>7. MaxBuffers * FullLength \in Nat
      BY <1>3
    <3>8. \A p, q, r, s \in Nat : q >= s => p + (q + r) >= s
      OBVIOUS
    <3> QED
      BY <3>1, <3>5, <3>6, <3>7, <3>8 DEF F
  <2>13. lost' = lost \cup ToSet(b)
    BY <1>2, <2>1, <2>6, <2>8
  <2> DEFINE n == Len(a)
             m == Len(a) + Len(b)
  <2> HIDE DEF a, b
  <2>14. n \in 0 .. Len(Waiting) /\ m \in n .. Len(Waiting) /\ Promise!Without(n, m)
    BY <1>4, <2>8, <2>9, <2>10, <2>11, <2>13, GivenUp
  <2>15. CASE Len(b) = 0
    <3>1. b = <<>>
      BY <2>8, <2>15 DEF Data
    <3>2. <<>> \o X = X
      BY <2>9, ConcatEmptySeq DEF Data
    <3>3. Waiting' = Waiting /\ lost' = lost
      BY <2>10, <2>11, <2>13, <3>1, <3>2, Nothing
    <3> QED
      BY <1>2, <1>4, <3>3
  <2>16. CASE Len(b) # 0
    <3>1. Len(a) \in Nat /\ Len(b) \in Nat
      BY <2>8, <2>9 DEF Data
    <3>2. m >= n + 1
      BY <2>16, <3>1
    <3> HIDE DEF n, m
    <3>3. m \in n + 1 .. Len(Waiting)
      BY <2>14, <3>2
    <3>4. Promise!Discard(n, m)
      BY <1>2, <1>4, <2>12, <2>14 DEF Promise!Discard
    <3> QED
      BY <2>14, <3>3, <3>4 DEF Promise!Next
  <2> QED
    BY <2>15, <2>16
<1> QED
  BY <1>6, <1>7

(* The next of the buffers that are to be written, as bytes.               *)
LEMMA NextData ==
    ASSUME NEW v \in Seq(Data), NEW o \in Nat, o < Len(v)
    PROVE  LET next == SubSeq(v, (o + 1) + 1, Len(v))
           IN  /\ v[o + 1] \in Data /\ FlattenSeq(next) \in Data
               /\ FlattenSeq(SubSeq(v, o + 1, Len(v))) = v[o + 1] \o FlattenSeq(next)
<1> DEFINE a == v[o + 1]
           next == SubSeq(v, (o + 1) + 1, Len(v))
           r == SubSeq(v, o + 1, Len(v))
<1>1. a \in Data /\ next \in Seq(Data)
  BY NextBuffer
<1>2. r = <<a>> \o next
  <2>1. o + 1 \in 1 .. Len(v) /\ Len(v) \in o + 1 .. Len(v)
    OBVIOUS
  <2> QED
    BY <2>1, SubSeqRecursiveFirst
<1> HIDE DEF a, next, r
<1>3. <<a>> \in Seq(Data)
  BY <1>1, OneBuffer
<1>4. FlattenSeq(<<a>>) = a
  <2>1. <<a>> = Append(<<>>, a) /\ <<>> \in Seq(Data)
    BY <1>1
  <2>2. FlattenSeq(Append(<<>>, a)) = FlattenSeq(<<>>) \o a
    BY <1>1, <2>1, FlattenAppend
  <2>3. <<>> \o a = a
    BY <1>1, ConcatEmptySeq DEF Data
  <2> QED
    BY <2>1, <2>2, <2>3, FlattenNone
<1>5. FlattenSeq(<<a>> \o next) = FlattenSeq(<<a>>) \o FlattenSeq(next)
  BY <1>1, <1>3, FlattenConcat
<1>6. FlattenSeq(next) \in Data
  BY <1>1, FlattenIsData
<1> QED
  BY <1>1, <1>2, <1>4, <1>5, <1>6 DEF a, next, r

(* A buffer is written, whole or in part, and the file may be rolled.      *)
LEMMA WriteGoesOn ==
    ASSUME IInv, IInv', NEW l \in 0 .. BufferSize, Write(l)
    PROVE  Promise!Next
<1> DEFINE data == bufferBackVec[outputs + 1]
           part == SubSeq(data, 1, l)
           rest == SubSeq(data, l + 1, Len(data))
           next == SubSeq(bufferBackVec, (outputs + 1) + 1, Len(bufferBackVec))
           N == FlattenSeq(next)
           V == FlattenSeq(bufferVector_)
           X == V \o bufferCurrent_
           Y == N \o X
           taken == unflushed \o part
           written == writtenBytes_ + (IF l = Len(data) THEN l ELSE 0)
<1>1. FrontOK /\ BackOK /\ FileOK /\ NoLaterFiles
  BY Types DEF IInv
<1>2. /\ UNCHANGED <<bufferVector_, bufferCurrent_, bufferBackVec, ends>>
      /\ outputs < Len(bufferBackVec) /\ l \in {0, Len(data) - 1, Len(data)} \cap Nat
      /\ output(data, l) /\ outputs' = outputs + 1 /\ lost' = lost \cup ToSet(rest)
  BY DEF Write, Go, frontVars
<1>3. bufferBackVec \in Seq(Data) /\ outputs \in Nat /\ Len(bufferBackVec) \in Nat
  BY <1>1 DEF BackOK
<1>4. data \in Data /\ N \in Data /\ FlattenSeq(Unwritten) = data \o N
  BY <1>2, <1>3, NextData DEF Unwritten
<1>5. Unwritten' = next /\ appended' = appended
  BY <1>2 DEF Unwritten, appended
<1>6. /\ errors' = (IF l = Len(data) THEN errors ELSE errors + 1)
      /\ IF written > RollSize
         THEN files' = [files EXCEPT ![name] = @ \o taken] /\ unflushed' = <<>>
         ELSE unflushed' = taken /\ files' = files
  BY <1>2 DEF output, OpenFile
<1>7. unflushed' \in Data
  BY DEF IInv, TypeOK, Data
<1>8. /\ unflushed \in Data /\ bufferCurrent_ \in Data /\ V \in Data
      /\ Waiting = unflushed \o (FlattenSeq(Unwritten) \o X)
  BY <1>1, WaitingIs
<1>9. Len(data) \in Nat /\ l \in 0 .. Len(data)
  <2>1. Len(data) \in Nat
    BY <1>4 DEF Data
  <2> QED
    BY <1>2, <2>1
<1>10. Waiting' = InARow(unflushed', N, V, bufferCurrent_)
  <2>1. FlattenSeq(Unwritten)' = N /\ FlattenSeq(bufferVector_)' = V
    BY <1>2, <1>5
  <2> QED
    BY <1>2, <2>1 DEF Waiting, InARow
<1> HIDE DEF data, N, V
<1>11. /\ part \in Data /\ rest \in Data /\ part \o rest = data
       /\ l = Len(data) => rest = <<>>
       /\ l # Len(data) => Len(rest) \in Nat \ {0}
  <2>1. \A i \in 1 .. Len(data) : data[i] \in Nat
    BY <1>4 DEF Data
  <2>2. part \in Data
    <3>1. \A i \in 1 .. l : data[i] \in Nat
      BY <1>9, <2>1
    <3> QED
      BY <1>9, <3>1, SubSeqProperties DEF Data
  <2>3. rest \in Data /\ Len(rest) = IF l + 1 <= Len(data) THEN Len(data) - (l + 1) + 1 ELSE 0
    <3>1. \A i \in l + 1 .. Len(data) : data[i] \in Nat
      BY <1>9, <2>1
    <3> QED
      BY <1>9, <3>1, SubSeqProperties DEF Data
  <2>4. part \o rest = data
    <3>1. 1 \in 1 .. Len(data) + 1 /\ l \in 1 - 1 .. Len(data) /\ Len(data) \in l .. Len(data)
      BY <1>9
    <3>2. data \in Seq(Nat)
      BY <1>4 DEF Data
    <3>3. SubSeq(data, 1, l) \o SubSeq(data, l + 1, Len(data)) = SubSeq(data, 1, Len(data))
      BY <3>1, <3>2, ConcatAdjacentSubSeq
    <3>4. SubSeq(data, 1, Len(data)) = data
      BY <3>2, SubSeqFull
    <3> QED
      BY <3>3, <3>4
  <2>5. l = Len(data) => rest = <<>>
    BY <1>9, SubSeqEmpty
  <2>6. l # Len(data) => Len(rest) \in Nat \ {0}
    BY <1>9, <2>3
  <2> QED
    BY <2>2, <2>3, <2>4, <2>5, <2>6
<1> HIDE DEF part, rest, written
<1>12. taken \in Data
  BY <1>8, <1>11, Joined
<1>13. X \in Data
  BY <1>8, Joined
<1>14. Waiting' = unflushed' \o Y
  <2>1. InARow(unflushed', N, V, bufferCurrent_) = FromTheEnd(unflushed', N, V, bufferCurrent_)
    BY <1>4, <1>7, <1>8, FourPieces
  <2> QED
    BY <1>10, <2>1 DEF FromTheEnd
<1> HIDE DEF X
<1>15. Y \in Data
  BY <1>4, <1>13, Joined
<1>16. Waiting = taken \o (rest \o Y)
  <2>1. rest \o Y \in Data
    BY <1>11, <1>15, Joined
  <2>2. (data \o N) \o X = data \o Y
    BY <1>4, <1>13, Associative
  <2> HIDE DEF Y
  <2>3. (part \o rest) \o Y = part \o (rest \o Y)
    BY <1>11, <1>15, Associative
  <2> DEFINE r == rest \o Y
  <2> HIDE DEF r
  <2>4. (unflushed \o part) \o r = unflushed \o (part \o r)
    <3>1. r \in Data /\ unflushed \in Data /\ part \in Data
      BY <1>8, <1>11, <2>1 DEF r
    <3> QED
      BY <3>1, Associative
  <2> QED
    BY <1>4, <1>8, <1>11, <2>2, <2>3, <2>4 DEF r
<1> HIDE DEF Y
<1> DEFINE n == Len(taken)
           m == Len(taken) + Len(rest)
<1>17. \/ FlattenSeq(files') = FlattenSeq(files) \o taken /\ Waiting' = Y
       \/ FlattenSeq(files') = FlattenSeq(files) /\ Waiting' = taken \o Y
  <2>1. CASE written > RollSize
    <3>1. /\ files \in Files /\ name \in 1 .. MaxSeconds /\ EmptyAfter(files, name)
          /\ Grown(files, name, taken, files')
      BY <1>1, <1>6, <2>1 DEF FileOK, NoLaterFiles, Grown
    <3> HIDE DEF taken
    <3>2. FlattenSeq(files') = FlattenSeq(files) \o taken
      BY <1>12, <3>1, FlattenFiles
    <3>3. <<>> \o Y = Y
      BY <1>15, ConcatEmptySeq DEF Data
    <3> QED
      BY <1>6, <1>14, <2>1, <3>2, <3>3
  <2>2. CASE ~(written > RollSize)
    BY <1>6, <1>14, <2>2
  <2> QED
    BY <2>1, <2>2
<1> HIDE DEF taken
<1>18. n \in 0 .. Len(Waiting) /\ m \in n .. Len(Waiting) /\ Promise!Without(n, m)
  BY <1>2, <1>5, <1>11, <1>12, <1>15, <1>16, <1>17, GivenUp
<1>19. CASE l = Len(data)
  <2>1. Len(rest) = 0 /\ Len(taken) \in Nat
    BY <1>11, <1>12, <1>19 DEF Data
  <2>2. m = n
    BY <2>1
  <2> HIDE DEF n, m
  <2>3. Promise!Write(n)
    BY <1>6, <1>18, <1>19, <2>2 DEF Promise!Write
  <2> QED
    BY <1>18, <2>3 DEF Promise!Next
<1>20. CASE l # Len(data)
  <2>1. Len(rest) \in Nat /\ Len(rest) # 0 /\ Len(taken) \in Nat
    BY <1>11, <1>12, <1>20 DEF Data
  <2>2. m >= n + 1
    BY <2>1
  <2> HIDE DEF n, m
  <2>3. m \in n + 1 .. Len(Waiting)
    BY <1>18, <2>2
  <2>4. Promise!Fail(n, m)
    BY <1>6, <1>18, <1>20 DEF Promise!Fail
  <2> QED
    BY <1>18, <2>3, <2>4 DEF Promise!Next
<1> QED
  BY <1>19, <1>20

(* At first nothing was entered, and the files are empty.                  *)
LEMMA InitRefines == Init => Promise!Init
<1> SUFFICES ASSUME Init PROVE Promise!Init
  OBVIOUS
<1>1. appended = 0 /\ unflushed = <<>> /\ lost = {} /\ errors = 0 /\ bufferCurrent_ = <<>>
  BY DEF Init, NoFiles, appended
<1>2. FrontOK /\ BackOK /\ FileOK
  BY InitIInv, Types DEF IInv
<1>3. Unwritten = <<>> /\ bufferVector_ = <<>>
  BY <1>2, UnwrittenIs DEF Init
<1>4. Waiting = <<>>
  BY <1>1, <1>3, FlattenNone DEF Waiting
<1>5. FlattenSeq(files) = <<>>
  <2>1. files \in Seq(Data) /\ Bytes(files) = {}
    <3>1. \A s \in DOMAIN files : files[s] = <<>>
      BY DEF Init, NoFiles
    <3> QED
      BY <1>2, <3>1, FilesAre, Nothing DEF FileOK, Bytes
  <2>2. FlattenSeq(files) \in Data /\ ToSet(FlattenSeq(files)) = {}
    BY <2>1, FlattenIsData, FlattenBytes
  <2> DEFINE s == FlattenSeq(files)
  <2>3. s \in Seq(Nat) /\ ToSet(s) = {}
    BY <2>2 DEF Data
  <2> HIDE DEF s
  <2>4. Len(s) = 0
    <3>1. Len(s) # 0 => 1 \in DOMAIN s
      BY <2>3
    <3> QED
      BY <2>3, <3>1 DEF ToSet
  <2>5. s = <<>>
    BY <2>3, <2>4
  <2> QED
    BY <2>5 DEF s
<1> QED
  BY <1>1, <1>4, <1>5 DEF Promise!Init

(* Every step of the log is one of the journal, or none.                   *)
LEMMA NextRefines ==
    IInv /\ FullBuffers /\ IInv' /\ [Next]_vars
        => [Promise!Next]_<<appended, Waiting, FlattenSeq(files), lost, errors>>
<1> SUFFICES ASSUME IInv, FullBuffers, IInv', [Next]_vars
             PROVE  [Promise!Next]_<<appended, Waiting, FlattenSeq(files), lost, errors>>
  OBVIOUS
<1>1. FrontOK /\ BackOK /\ Phases
  BY Types DEF IInv
<1>2. ASSUME UNCHANGED <<frontVars, bufferBackVec, outputs, unflushed, files, errors, lineVars>>
      PROVE  UNCHANGED <<appended, Waiting, FlattenSeq(files), lost, errors>>
  <2>1. UNCHANGED <<bufferVector_, bufferCurrent_, bufferBackVec, outputs, unflushed, files,
                    errors, ends, lost>>
    BY <1>2 DEF frontVars, lineVars
  <2>2. Unwritten' = Unwritten /\ appended' = appended
    BY <2>1 DEF Unwritten, appended
  <2>3. Waiting' = Waiting /\ FlattenSeq(files)' = FlattenSeq(files)
    BY <2>1, <2>2 DEF Waiting
  <2> QED
    BY <2>1, <2>2, <2>3
<1>3. CASE \E len \in Lengths : append(len)
  BY <1>3, AppendEnters
<1>4. CASE start \/ ThreadStarted \/ Started \/ stop \/ Join
  BY <1>2, <1>4 DEF start, ThreadStarted, Started, stop, Join, Owner, backVars, fileVars
<1>5. CASE ThreadRun \/ Wait
  BY <1>2, <1>5 DEF ThreadRun, Wait, backVars, fileVars
<1>6. CASE RunBegins
  <2>1. unflushed = <<>>
    BY <1>1, <1>6 DEF RunBegins, Go, Phases
  <2> QED
    BY <1>2, <1>6, <2>1 DEF RunBegins, OpenFile, backVars
<1>7. CASE Test
  <2>1. CASE running_
    BY <1>2, <1>7, <2>1 DEF Test, backVars, fileVars
  <2>2. CASE ~running_
    <3>1. flush /\ UNCHANGED <<bufferVector_, bufferCurrent_, bufferBackVec, outputs, ends, lost>>
      BY <1>7, <2>2 DEF Test, frontVars, backVars, lineVars
    <3>2. Unwritten' = Unwritten
      BY <3>1 DEF Unwritten
    <3> QED
      BY <3>1, <3>2, FlushWrites
  <2> QED
    BY <2>1, <2>2
<1>8. CASE Swap
  BY <1>8, SwapHidden
<1>9. CASE Erase
  BY <1>9, EraseDiscards
<1>10. CASE Recycle
  <2>1. /\ flush /\ UNCHANGED <<bufferVector_, bufferCurrent_, ends, lost>>
        /\ outputs = Len(bufferBackVec) /\ bufferBackVec' = <<>> /\ outputs' = 0
    BY <1>10 DEF Recycle, frontVars, lineVars
  <2>2. Unwritten = <<>>
    <3>1. Len(bufferBackVec) \in Nat
      BY <1>1 DEF BackOK
    <3> QED
      BY <2>1, <3>1, SubSeqEmpty DEF Unwritten
  <2>3. Unwritten' = <<>>
    <3>1. Unwritten' = SubSeq(<<>>, 0 + 1, 0)
      BY <2>1 DEF Unwritten
    <3> QED
      BY <3>1, SubSeqEmpty
  <2> QED
    BY <2>1, <2>2, <2>3, FlushWrites
<1>11. CASE \E n \in 0 .. BufferSize : Write(n)
  BY <1>11, WriteGoesOn
<1>12. CASE Tick /\ UNCHANGED <<frontVars, backVars, ownerVars, lineVars, pc>>
  BY <1>2, <1>12 DEF Tick, backVars
<1>13. CASE UNCHANGED vars
  BY <1>2, <1>13 DEF vars, backVars, fileVars
<1> QED
  BY <1>3, <1>4, <1>5, <1>6, <1>7, <1>8, <1>9, <1>10, <1>11, <1>12, <1>13 DEF Next, LogThread

(* The log is a journal: bytes wait in the order in which they were        *)
(* appended and get to the files in that order and never before others     *)
(* that came earlier; whatever buffers have changed hands, were written    *)
(* in part or thrown away, whenever the file was rolled, only lines that   *)
(* would fill the buffer are refused, and only if more than MaxBuffers     *)
(* full ones wait are any thrown away (AsyncLogging.cc:35-113).            *)
THEOREM ImplementsJournal == Spec => JournalSpec
<1>1. Spec => []FullBuffers
  <2>1. Init /\ [][Next]_vars /\ []IInv => []FullBuffers
    BY InitFull, NextFull, PTL
  <2> QED
    BY <2>1, SpecIInv, PTL DEF Spec
<1>2. Init /\ [][Next]_vars /\ []IInv /\ []FullBuffers
          => Promise!Init /\ [][Promise!Next]_<<appended, Waiting, FlattenSeq(files), lost, errors>>
  BY InitRefines, NextRefines, PTL
<1> QED
  BY <1>1, <1>2, SpecIInv, PTL DEF Spec, JournalSpec, Promise!Spec
===============================================================================
