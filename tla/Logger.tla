-------------------------------- MODULE Logger --------------------------------
(***************************************************************************)
(* One line of the log: Logger.cc, LogStream.cc and FixedBuffer.h.  A      *)
(* Logger is a temporary of the statement LOG << a << b, on the stack of   *)
(* one thread: the line is put together without any other thread and then  *)
(* given to AsyncLogging::append as a whole.                               *)
(*                                                                         *)
(* A line is the sequence of the bytes in the FixedBuffer.  Digits are     *)
(* 0 .. 9; the i-th character of a text, or of a printed double, is        *)
(* Letter(i).                                                              *)
(***************************************************************************)
EXTENDS Integers, Sequences, SequencesExt

CONSTANTS
    SmallSize,          (* smallBufferSize, 4000                           *)
    NumericSize,        (* kMaxNumericSize, 32                             *)
    DoubleSize,         (* sizeof(double), 8                               *)
    TextLengths,        (* of the texts a message is made of               *)
    Magnitudes,         (* of the integers, with either sign,              *)
    DoubleLengths,      (* and the lengths of the doubles it may contain   *)
    MaxItems            (* of a message                                    *)

ASSUME LoggerConstantsOK ==
    /\ SmallSize \in Nat \ {0} /\ {NumericSize, DoubleSize, MaxItems} \subseteq Nat
    /\ TextLengths \subseteq Nat /\ Magnitudes \subseteq Nat
    /\ DoubleLengths \subseteq 1 .. NumericSize - 1

Minus == 10
EndOfLine == 11
Unset == 12             (* a byte of data_ that was never written, or NUL  *)
Letter(i) == 20 + i

Text(n) == [kind |-> "text", value |-> n]
Integer(t) == [kind |-> "integer", value |-> t]
Double(n) == [kind |-> "double", value |-> n]

-------------------------------------------------------------------------------
(* convert: C++ divides towards zero, and the table of digits is mirrored  *)
(* for negative remainders.                                                *)
Abs(i) == IF i < 0 THEN -i ELSE i
Quotient(i) == IF i < 0 THEN -(Abs(i) \div 10) ELSE i \div 10
Digit(i) == Abs(i - 10 * Quotient(i))

LowestFirst[i \in Int] ==
    <<Digit(i)>> \o (IF Quotient(i) = 0 THEN <<>> ELSE LowestFirst[Quotient(i)])

convert(t) == Reverse(LowestFirst[t] \o (IF t < 0 THEN <<Minus>> ELSE <<>>))

-------------------------------------------------------------------------------
Letters(n) == [i \in 1 .. n |-> Letter(i)]

Remain(buffer) == SmallSize - Len(buffer)

(* snprintf is given sizeof(t) as the size of the buffer: it writes that   *)
(* many characters less one and a NUL, and returns the full length.        *)
Snprintf(n) == [i \in 1 .. n |-> IF i < DoubleSize THEN Letter(i) ELSE Unset]

(* With a mistake: the text is cut to what fits.                         *)
CutsText(buffer, chars) ==
    buffer \o SubSeq(chars, 1, IF Len(chars) < Remain(buffer) THEN Len(chars) ELSE Remain(buffer) - 1)

(* FixedBuffer::append takes the whole text or nothing.                    *)
AppendText(buffer, chars) ==
    IF Len(chars) < Remain(buffer) THEN buffer \o chars ELSE buffer

(* Numbers are written in place, if there is room for the longest.         *)
PutNumber(buffer, chars) ==
    IF Remain(buffer) >= NumericSize THEN buffer \o chars ELSE buffer

Put(buffer, item) ==
    CASE item.kind = "text"    -> AppendText(buffer, Letters(item.value))
      [] item.kind = "newline" -> AppendText(buffer, <<EndOfLine>>)
      [] item.kind = "integer" -> PutNumber(buffer, convert(item.value))
      [] item.kind = "double"  -> PutNumber(buffer, Snprintf(item.value))

Newline == [kind |-> "newline", value |-> 1]

(* The time in front, the place in the source behind; the texts of fixed   *)
(* length are scaled down to one character, as SmallSize is.               *)
formatTime == <<Text(1), Integer(0), Text(1)>>
Place == <<Text(1), Text(1), Text(1), Integer(0), Newline>>
Complete(message) == formatTime \o message \o Place

(* What is in the buffer after each item; what the destructor gives to     *)
(* AsyncLogging.                                                           *)
BufferAfter(items) ==
    LET after[i \in 0 .. Len(items)] ==
            IF i = 0 THEN <<>> ELSE Put(after[i - 1], items[i])
    IN  after

Line(message) == BufferAfter(Complete(message))[Len(Complete(message))]

-------------------------------------------------------------------------------
Numbers == Magnitudes \cup {-n : n \in Magnitudes}

(* A number of 64 bits has at most 20 characters.                          *)
ASSUME NumbersFit == \A t \in Numbers \cup {0} : Len(convert(t)) < NumericSize

Items == {Text(n) : n \in TextLengths} \cup {Integer(t) : t \in Numbers}
             \cup {Double(n) : n \in DoubleLengths}
Messages == UNION {[1 .. n -> Items] : n \in 0 .. MaxItems}

(* What an item should look like, an integer as what its digits stand for. *)
Spelled(item) ==
    CASE item.kind = "newline" -> <<EndOfLine>>
      [] item.kind = "integer" -> convert(item.value)
      [] OTHER                 -> Letters(item.value)

Decimals(digits) ==
    LET value[i \in 0 .. Len(digits)] ==
            IF i = 0 THEN 0 ELSE 10 * value[i - 1] + digits[i]
    IN  value

Decimal(digits) == Decimals(digits)[Len(digits)]

Value(chars) == IF chars[1] = Minus THEN -Decimal(Tail(chars)) ELSE Decimal(chars)

SpelledOut(items) == FlattenSeq([i \in DOMAIN items |-> Spelled(items[i])])

Printable(message) ==
    \A i \in DOMAIN message :
        message[i].kind = "double" => message[i].value < DoubleSize

(* A line stays inside its buffer, the NUL that follows a number included; *)
(* a message that leaves room for one more number is in it completely, all *)
(* integers right; and of a longer one whole items are left out, none is   *)
(* cut (LogStream.cc:29-126, Logger.cc:26-47).  Doubles that need more     *)
(* than DoubleSize - 1 characters are never right: their end is unset.     *)
InsideBuffer(message) == Len(Line(message)) < SmallSize
Whole(message) ==
    LET items == Complete(message)
    IN  Len(SpelledOut(items)) + NumericSize <= SmallSize => Line(message) = SpelledOut(items)
ItemsNotCut(message) ==
    LET items == Complete(message)
    IN  \E kept \in SUBSET DOMAIN items :
            Line(message) = FlattenSeq([i \in DOMAIN items |->
                                IF i \in kept THEN Spelled(items[i]) ELSE <<>>])

LinesAreSpelledOut ==
    /\ \A t \in Numbers : Value(convert(t)) = t
    /\ \A m \in Messages :
           InsideBuffer(m) /\ (Printable(m) => Whole(m) /\ ItemsNotCut(m))
===============================================================================
