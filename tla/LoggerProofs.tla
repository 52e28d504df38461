----------------------------- MODULE LoggerProofs -----------------------------
(***************************************************************************)
(* For every message, whatever its texts, integers and doubles and however *)
(* long: what Logger.tla says of its lines.                                *)
(***************************************************************************)
EXTENDS Logger, SequenceTheorems, WellFoundedInduction, TLAPS

-------------------------------------------------------------------------------
(* Induction and recursion over the natural numbers.                       *)

(* A set that contains 0 and, with each number, the next one contains them *)
(* all: there is no least number outside.                                  *)
LEMMA SetInduction ==
    ASSUME NEW S, 0 \in S, \A n \in Nat : n \in S => n + 1 \in S
    PROVE  Nat \subseteq S
<1> SUFFICES ASSUME NEW k \in Nat, k \notin S PROVE FALSE
  OBVIOUS
<1> DEFINE T == Nat \ S
           R == OpToRel(<, Nat)
<1>1. IsWellFoundedOn(R, Nat)
  BY NatLessThanWellFounded
<1>2. T \subseteq Nat /\ T # {}
  OBVIOUS
<1> HIDE DEF R
<1>3. PICK x \in T : \A y \in T : ~(<<y, x>> \in R)
  BY <1>1, <1>2, WFMin
<1>4. x # 0 /\ x - 1 \in Nat /\ x - 1 < x /\ (x - 1) + 1 = x
  BY <1>3
<1>5. x - 1 \notin S
  BY <1>3, <1>4
<1>6. <<x - 1, x>> \in R
  BY <1>3, <1>4 DEF R, OpToRel
<1> QED
  BY <1>3, <1>4, <1>5, <1>6

(* What the buffer holds after each item is well defined.                  *)
LEMMA BufferAfterDef ==
    ASSUME NEW items, Len(items) \in Nat
    PROVE  /\ BufferAfter(items)[0] = <<>>
           /\ \A i \in 1 .. Len(items) : BufferAfter(items)[i] = Put(BufferAfter(items)[i - 1], items[i])
<1> DEFINE Def(v, i) == Put(v, items[i])
           n == Len(items)
           after == CHOOSE g : g = [i \in 0 .. n |-> IF i = 0 THEN <<>> ELSE Def(g[i - 1], i)]
<1>1. BufferAfter(items) = after
  BY DEF BufferAfter
<1>2. FiniteNatInductiveDefHypothesis(after, <<>>, Def, 0, n)
  BY DEF FiniteNatInductiveDefHypothesis
<1> HIDE DEF after
<1>3. FiniteNatInductiveDefConclusion(after, <<>>, Def, 0, n)
  BY <1>2, FiniteNatInductiveDef
<1>4. after = [i \in 0 .. n |-> IF i = 0 THEN <<>> ELSE Def(after[i - 1], i)]
  BY <1>3 DEF FiniteNatInductiveDefConclusion
<1> HIDE DEF Def
<1>5. after[0] = <<>> /\ \A i \in 1 .. n : after[i] = Def(after[i - 1], i)
  BY <1>4
<1> QED
  BY <1>1, <1>5 DEF Def

(* So is the value of each beginning of a row of digits.                   *)
LEMMA DecimalsDef ==
    ASSUME NEW digits, Len(digits) \in Nat
    PROVE  /\ Decimals(digits)[0] = 0
           /\ \A i \in 1 .. Len(digits) :
                  Decimals(digits)[i] = 10 * Decimals(digits)[i - 1] + digits[i]
<1> DEFINE Def(v, i) == 10 * v + digits[i]
           n == Len(digits)
           value == CHOOSE g : g = [i \in 0 .. n |-> IF i = 0 THEN 0 ELSE Def(g[i - 1], i)]
<1>1. Decimals(digits) = value
  BY DEF Decimals
<1>2. FiniteNatInductiveDefHypothesis(value, 0, Def, 0, n)
  BY DEF FiniteNatInductiveDefHypothesis
<1> HIDE DEF value
<1>3. FiniteNatInductiveDefConclusion(value, 0, Def, 0, n)
  BY <1>2, FiniteNatInductiveDef
<1>4. value = [i \in 0 .. n |-> IF i = 0 THEN 0 ELSE Def(value[i - 1], i)]
  BY <1>3 DEF FiniteNatInductiveDefConclusion
<1> HIDE DEF Def
<1>5. value[0] = 0 /\ \A i \in 1 .. n : value[i] = Def(value[i - 1], i)
  BY <1>4
<1> QED
  BY <1>1, <1>5 DEF Def

(* A flattened sequence of sequences is put together from its beginnings.  *)
LEMMA FlattenDef ==
    ASSUME NEW seqs, Len(seqs) \in Nat \ {0}, \A i \in 1 .. Len(seqs) : seqs[i] \in Seq(Nat)
    PROVE  \E f : /\ f[0] = <<>>
                  /\ \A i \in 1 .. Len(seqs) : f[i] = f[i - 1] \o seqs[i]
                  /\ FlattenSeq(seqs) = f[Len(seqs)]
                  /\ \A i \in 0 .. Len(seqs) : f[i] \in Seq(Nat) /\ Len(f[i]) <= Len(FlattenSeq(seqs))
<1> DEFINE Def(v, i) == v \o seqs[i]
           n == Len(seqs)
           flatten == CHOOSE g : g = [i \in 1 .. n |-> IF i = 1 THEN seqs[1] ELSE Def(g[i - 1], i)]
<1>1. FiniteNatInductiveDefHypothesis(flatten, seqs[1], Def, 1, n)
  BY DEF FiniteNatInductiveDefHypothesis
<1>2. FlattenSeq(seqs) = flatten[n]
  <2> DEFINE other == CHOOSE g : g = [i \in 1 .. n |-> IF i = 1 THEN seqs[i] ELSE g[i - 1] \o seqs[i]]
  <2>1. FlattenSeq(seqs) = other[n]
    BY DEF FlattenSeq
  <2>2. \A g : [i \in 1 .. n |-> IF i = 1 THEN seqs[i] ELSE g[i - 1] \o seqs[i]]
                 = [i \in 1 .. n |-> IF i = 1 THEN seqs[1] ELSE Def(g[i - 1], i)]
    OBVIOUS
  <2>3. other = flatten
    BY <2>2
  <2> QED
    BY <2>1, <2>3
<1> HIDE DEF flatten
<1>3. FiniteNatInductiveDefConclusion(flatten, seqs[1], Def, 1, n)
  BY <1>1, FiniteNatInductiveDef
<1>4. flatten = [i \in 1 .. n |-> IF i = 1 THEN seqs[1] ELSE Def(flatten[i - 1], i)]
  BY <1>3 DEF FiniteNatInductiveDefConclusion
<1> DEFINE f == [i \in 0 .. n |-> IF i = 0 THEN <<>> ELSE flatten[i]]
<1>5. f[0] = <<>> /\ f[n] = flatten[n]
  OBVIOUS
<1>6. ASSUME NEW i \in 1 .. n PROVE f[i] = f[i - 1] \o seqs[i]
  <2>1. CASE i = 1
    <3>1. f[i] = seqs[1] /\ f[i - 1] = <<>>
      BY <1>4, <2>1
    <3> QED
      BY <2>1, <3>1, ConcatEmptySeq
  <2>2. CASE i # 1
    <3>1. f[i] = flatten[i] /\ f[i - 1] = flatten[i - 1]
      BY <2>2
    <3>2. flatten[i] = Def(flatten[i - 1], i)
      BY ONLY <1>4, <2>2, i \in 1 .. n
    <3> QED
      BY <3>1, <3>2
  <2> QED
    BY <2>1, <2>2
<1> HIDE DEF f
<1> DEFINE Grows(k) == \A j \in 0 .. k : f[j] \in Seq(Nat) /\ Len(f[j]) <= Len(f[k])
           S == {k \in Nat : k <= n => Grows(k)}
<1>7. 0 \in S
  <2>1. f[0] \in Seq(Nat) /\ Len(f[0]) <= Len(f[0])
    BY <1>5
  <2>2. \A j \in 0 .. 0 : j = 0
    OBVIOUS
  <2> QED
    BY <2>1, <2>2
<1>8. ASSUME NEW k \in Nat, k \in S PROVE k + 1 \in S
  <2> SUFFICES ASSUME k + 1 <= n, NEW j \in 0 .. k + 1
               PROVE  f[j] \in Seq(Nat) /\ Len(f[j]) <= Len(f[k + 1])
    OBVIOUS
  <2>1. k <= n /\ k + 1 \in 1 .. n /\ (k + 1) - 1 = k /\ k \in 0 .. k
    OBVIOUS
  <2>2. Grows(k)
    BY <1>8, <2>1
  <2>3. f[k] \in Seq(Nat)
    BY <2>1, <2>2
  <2>4. f[k + 1] = f[k] \o seqs[k + 1] /\ seqs[k + 1] \in Seq(Nat)
    BY <1>6, <2>1
  <2>5. f[k + 1] \in Seq(Nat) /\ Len(f[k + 1]) = Len(f[k]) + Len(seqs[k + 1])
    BY <2>3, <2>4, ConcatProperties
  <2>6. Len(f[k]) \in Nat /\ Len(seqs[k + 1]) \in Nat /\ Len(f[k + 1]) \in Nat
    <3>1. \A g : g \in Seq(Nat) => Len(g) \in Nat
      OBVIOUS
    <3> QED
      BY <2>3, <2>4, <2>5, <3>1
  <2>0. \A a, b, c, d \in Nat : a = b + c /\ d <= b => d <= a /\ a <= a
    OBVIOUS
  <2>7. CASE j = k + 1
    <3>1. f[j] \in Seq(Nat) /\ Len(f[j]) = Len(f[k + 1])
      BY <2>5, <2>7
    <3> QED
      BY <2>6, <3>1
  <2>8. CASE j # k + 1
    <3>1. j \in 0 .. k
      BY <2>8
    <3>2. f[j] \in Seq(Nat) /\ Len(f[j]) <= Len(f[k])
      BY <2>2, <3>1
    <3>3. Len(f[j]) \in Nat
      BY <3>2
    <3> QED
      BY <2>0, <2>5, <2>6, <3>2, <3>3
  <2> QED
    BY <2>7, <2>8
<1>9. Nat \subseteq S
  <2> HIDE DEF S
  <2> QED
    BY <1>7, <1>8, SetInduction
<1>10. \A i \in 0 .. n : f[i] \in Seq(Nat) /\ Len(f[i]) <= Len(f[n])
  BY <1>9
<1> QED
  BY <1>2, <1>5, <1>6, <1>10

-------------------------------------------------------------------------------
(* An integer is what its digits stand for.                                *)

(* One step of the loop of convert: a digit, and a quotient of the same    *)
(* sign that is nearer to zero.                                            *)
LEMMA OneDigit ==
    ASSUME NEW i \in Int
    PROVE  /\ Abs(i) \in Nat /\ Digit(i) \in 0 .. 9 /\ Quotient(i) \in Int
           /\ Abs(i) = 10 * Abs(Quotient(i)) + Digit(i)
           /\ Quotient(i) # 0 => Abs(Quotient(i)) < Abs(i)
<1>1. CASE i < 0
  <2> DEFINE a == -i
             q == a \div 10
  <2>1. a \in Nat /\ q \in Nat /\ 10 * q <= a /\ a <= 10 * q + 9 /\ a > 0
    BY <1>1
  <2>2. Abs(i) = a /\ Quotient(i) = -q
    BY <1>1 DEF Abs, Quotient
  <2> HIDE DEF q
  <2>3. i - 10 * Quotient(i) = 10 * q - a /\ 10 * q - a \in Int
    BY <2>1, <2>2
  <2>4. Digit(i) = a - 10 * q
    BY <2>1, <2>3 DEF Digit, Abs
  <2>5. Abs(Quotient(i)) = q
    BY <2>1, <2>2 DEF Abs
  <2> QED
    BY <2>1, <2>2, <2>4, <2>5
<1>2. CASE ~(i < 0)
  <2> DEFINE q == i \div 10
  <2>1. i \in Nat /\ q \in Nat /\ 10 * q <= i /\ i <= 10 * q + 9
    BY <1>2
  <2>2. Abs(i) = i /\ Quotient(i) = q
    BY <1>2 DEF Abs, Quotient
  <2> HIDE DEF q
  <2>3. i - 10 * Quotient(i) = i - 10 * q /\ i - 10 * q \in Nat
    BY <2>1, <2>2
  <2>4. Digit(i) = i - 10 * q
    BY <2>1, <2>3 DEF Digit, Abs
  <2>5. Abs(Quotient(i)) = q
    BY <2>1, <2>2 DEF Abs
  <2> QED
    BY <2>1, <2>2, <2>4, <2>5
<1> QED
  BY <1>1, <1>2

(* The recursion of LowestFirst ends: each quotient is nearer to zero.     *)
LEMMA LowestFirstDef ==
    ASSUME NEW i \in Int
    PROVE  LowestFirst[i] =
               <<Digit(i)>> \o (IF Quotient(i) = 0 THEN <<>> ELSE LowestFirst[Quotient(i)])
<1> DEFINE Def(f, x) == <<Digit(x)>> \o (IF Quotient(x) = 0 THEN <<>> ELSE f[Quotient(x)])
           R == {ss \in Int \X Int : Abs(ss[1]) < Abs(ss[2])}
<1>1. IsWellFoundedOn(R, Int)
  <2> SUFFICES ASSUME NEW T \in SUBSET Int, T # {}
               PROVE  \E x \in T : \A y \in T : ~(<<y, x>> \in R)
    BY MinWF
  <2> DEFINE N == {Abs(x) : x \in T}
             Less == OpToRel(<, Nat)
  <2>1. N \subseteq Nat /\ N # {}
    BY OneDigit
  <2>2. IsWellFoundedOn(Less, Nat)
    BY NatLessThanWellFounded
  <2>3. \A m, n \in Nat : m < n => <<m, n>> \in Less
    BY DEF OpToRel
  <2> HIDE DEF Less, N
  <2>4. PICK n \in N : \A m \in N : ~(<<m, n>> \in Less)
    BY <2>1, <2>2, WFMin
  <2>5. \A m \in N : ~(m < n)
    BY <2>1, <2>3, <2>4
  <2>6. PICK x \in T : n = Abs(x)
    BY DEF N
  <2>7. \A y \in T : ~(Abs(y) < Abs(x))
    BY <2>5, <2>6 DEF N
  <2> QED
    BY <2>7
<1>2. WFDefOn(R, Int, Def)
  <2> SUFFICES ASSUME NEW g, NEW h, NEW x \in Int,
                      \A y \in SetLessThan(x, R, Int) : g[y] = h[y]
               PROVE  Def(g, x) = Def(h, x)
    BY DEF WFDefOn
  <2>1. CASE Quotient(x) = 0
    BY <2>1
  <2>2. CASE Quotient(x) # 0
    <3>1. Quotient(x) \in SetLessThan(x, R, Int)
      BY <2>2, OneDigit DEF SetLessThan
    <3>2. g[Quotient(x)] = h[Quotient(x)]
      BY <3>1
    <3> QED
      BY <2>2, <3>2
  <2> QED
    BY <2>1, <2>2
<1>3. OpDefinesFcn(LowestFirst, Int, Def)
  BY DEF OpDefinesFcn, LowestFirst
<1> HIDE DEF R
<1>4. WFInductiveDefines(LowestFirst, Int, Def)
  BY <1>1, <1>2, <1>3, WFInductiveDef
<1>5. LowestFirst = [x \in Int |-> Def(LowestFirst, x)]
  BY <1>4 DEF WFInductiveDefines
<1> HIDE DEF Def
<1>6. LowestFirst[i] = Def(LowestFirst, i)
  BY <1>5
<1> QED
  BY <1>6 DEF Def

(* Decimal reads a row of digits from the left: a digit more at the end    *)
(* is worth that digit, and the others ten times as much.                  *)
LEMMA DecimalAppend ==
    ASSUME NEW s \in Seq(0 .. 9), NEW d \in 0 .. 9
    PROVE  Decimal(s) \in Nat /\ Decimal(s \o <<d>>) = 10 * Decimal(s) + d
<1> DEFINE t == s \o <<d>>
           S == {k \in Nat : k <= Len(s) => Decimals(s)[k] \in Nat /\ Decimals(t)[k] = Decimals(s)[k]}
<1>1. t \in Seq(0 .. 9) /\ Len(t) = Len(s) + 1 /\ t[Len(t)] = d /\ Len(s) \in Nat
      /\ \A i \in 1 .. Len(s) : t[i] = s[i] /\ s[i] \in Nat
  OBVIOUS
<1> HIDE DEF t
<1>2. /\ Decimals(s)[0] = 0
      /\ \A i \in 1 .. Len(s) : Decimals(s)[i] = 10 * Decimals(s)[i - 1] + s[i]
  BY <1>1, DecimalsDef
<1>3. /\ Decimals(t)[0] = 0
      /\ \A i \in 1 .. Len(t) : Decimals(t)[i] = 10 * Decimals(t)[i - 1] + t[i]
  BY <1>1, DecimalsDef
<1>4. 0 \in S
  BY <1>2, <1>3
<1>5. ASSUME NEW k \in Nat, k \in S PROVE k + 1 \in S
  <2> SUFFICES ASSUME k + 1 <= Len(s)
               PROVE  Decimals(s)[k + 1] \in Nat /\ Decimals(t)[k + 1] = Decimals(s)[k + 1]
    OBVIOUS
  <2>1. k <= Len(s) /\ k + 1 \in 1 .. Len(s) /\ k + 1 \in 1 .. Len(t) /\ (k + 1) - 1 = k
    BY <1>1
  <2>2. Decimals(s)[k] \in Nat /\ Decimals(t)[k] = Decimals(s)[k]
    BY <1>5, <2>1
  <2>3. Decimals(s)[k + 1] = 10 * Decimals(s)[k] + s[k + 1]
    BY <1>2, <2>1
  <2>4. Decimals(t)[k + 1] = 10 * Decimals(t)[k] + t[k + 1]
    BY <1>3, <2>1
  <2> QED
    BY <1>1, <2>1, <2>2, <2>3, <2>4
<1>6. Nat \subseteq S
  <2> HIDE DEF S
  <2> QED
    BY <1>4, <1>5, SetInduction
<1>7. Decimals(s)[Len(s)] \in Nat /\ Decimals(t)[Len(s)] = Decimals(s)[Len(s)]
  BY <1>1, <1>6
<1>8. Decimals(t)[Len(t)] = 10 * Decimals(t)[Len(t) - 1] + t[Len(t)] /\ Len(t) - 1 = Len(s)
  BY <1>1, <1>3
<1> QED
  BY <1>1, <1>7, <1>8 DEF Decimal, t

(* A first element is the last one of the reversed sequence, and a last    *)
(* element the first.                                                      *)
LEMMA ReverseEnds ==
    ASSUME NEW s \in Seq(Nat), NEW d \in Nat
    PROVE  /\ Reverse(s) \in Seq(Nat) /\ Len(Reverse(s)) = Len(s)
           /\ Reverse(<<d>> \o s) = Reverse(s) \o <<d>>
           /\ Reverse(s \o <<d>>) = <<d>> \o Reverse(s)
<1>1. Len(Reverse(s)) = Len(s) /\ \A i \in 1 .. Len(s) : Reverse(s)[i] = s[Len(s) - i + 1]
  BY DEF Reverse
<1>2. Reverse(s) \in Seq(Nat)
  BY DEF Reverse
<1>3. Reverse(<<d>> \o s) = Reverse(s) \o <<d>>
  <2> DEFINE t == <<d>> \o s
  <2>1. t \in Seq(Nat) /\ Len(t) = Len(s) + 1 /\ t[1] = d /\ \A i \in 1 .. Len(s) : t[i + 1] = s[i]
    OBVIOUS
  <2> HIDE DEF t
  <2>2. Reverse(t) \in Seq(Nat) /\ Len(Reverse(t)) = Len(s) + 1
        /\ \A i \in 1 .. Len(s) + 1 : Reverse(t)[i] = t[Len(s) + 1 - i + 1]
    BY <2>1 DEF Reverse
  <2>3. Reverse(s) \o <<d>> \in Seq(Nat) /\ Len(Reverse(s) \o <<d>>) = Len(s) + 1
        /\ (Reverse(s) \o <<d>>)[Len(s) + 1] = d
        /\ \A i \in 1 .. Len(s) : (Reverse(s) \o <<d>>)[i] = Reverse(s)[i]
    BY <1>1, <1>2
  <2>4. ASSUME NEW i \in 1 .. Len(s) + 1 PROVE Reverse(t)[i] = (Reverse(s) \o <<d>>)[i]
    <3>1. CASE i = Len(s) + 1
      <4>1. Len(s) + 1 - i + 1 = 1
        BY <3>1
      <4> QED
        BY <2>1, <2>2, <2>3, <3>1, <4>1
    <3>2. CASE i # Len(s) + 1
      <4>1. i \in 1 .. Len(s) /\ Len(s) - i + 1 \in 1 .. Len(s)
            /\ (Len(s) - i + 1) + 1 = Len(s) + 1 - i + 1
        BY <3>2
      <4> QED
        BY <1>1, <2>1, <2>2, <2>3, <4>1
    <3> QED
      BY <3>1, <3>2
  <2> QED
    BY <2>2, <2>3, <2>4, SeqEqual DEF t
<1>4. Reverse(s \o <<d>>) = <<d>> \o Reverse(s)
  <2> DEFINE t == s \o <<d>>
  <2>1. t \in Seq(Nat) /\ Len(t) = Len(s) + 1 /\ t[Len(s) + 1] = d /\ \A i \in 1 .. Len(s) : t[i] = s[i]
    OBVIOUS
  <2> HIDE DEF t
  <2>2. Reverse(t) \in Seq(Nat) /\ Len(Reverse(t)) = Len(s) + 1
        /\ \A i \in 1 .. Len(s) + 1 : Reverse(t)[i] = t[Len(s) + 1 - i + 1]
    BY <2>1 DEF Reverse
  <2>3. <<d>> \o Reverse(s) \in Seq(Nat) /\ Len(<<d>> \o Reverse(s)) = Len(s) + 1
        /\ (<<d>> \o Reverse(s))[1] = d
        /\ \A i \in 1 .. Len(s) : (<<d>> \o Reverse(s))[i + 1] = Reverse(s)[i]
    BY <1>1, <1>2
  <2>4. ASSUME NEW i \in 1 .. Len(s) + 1 PROVE Reverse(t)[i] = (<<d>> \o Reverse(s))[i]
    <3>1. CASE i = 1
      BY <2>1, <2>2, <2>3, <3>1
    <3>2. CASE i # 1
      <4>1. i - 1 \in 1 .. Len(s) /\ Len(s) - (i - 1) + 1 \in 1 .. Len(s) /\ (i - 1) + 1 = i
            /\ Len(s) - (i - 1) + 1 = Len(s) + 1 - i + 1
        BY <3>2
      <4> QED
        BY <1>1, <2>1, <2>2, <2>3, <4>1
    <3> QED
      BY <3>1, <3>2
  <2> QED
    BY <2>2, <2>3, <2>4, SeqEqual DEF t
<1> QED
  BY <1>1, <1>2, <1>3, <1>4

(* The digits of an integer, lowest first, are at least one and stand for  *)
(* it without its sign.                                                    *)
DigitsRight(i) ==
    /\ LowestFirst[i] \in Seq(0 .. 9) /\ Len(LowestFirst[i]) >= 1
    /\ Decimal(Reverse(LowestFirst[i])) = Abs(i)

(* What convert writes of a number is what it writes of the quotient, and  *)
(* a digit more.                                                           *)
LEMMA DigitsOfQuotient ==
    ASSUME NEW i \in Int, Quotient(i) # 0 => DigitsRight(Quotient(i))
    PROVE  DigitsRight(i)
<1> DEFINE d == Digit(i)
           q == Quotient(i)
<1>1. /\ d \in 0 .. 9 /\ q \in Int /\ Abs(i) \in Nat /\ Abs(q) \in Nat
      /\ Abs(i) = 10 * Abs(q) + d
  BY OneDigit
<1>2. LowestFirst[i] = <<d>> \o (IF q = 0 THEN <<>> ELSE LowestFirst[q])
  BY LowestFirstDef
<1>3. q # 0 => DigitsRight(q)
  OBVIOUS
<1>4. Abs(0) = 0
  BY DEF Abs
<1> HIDE DEF d, q
<1> DEFINE s == IF q = 0 THEN <<>> ELSE LowestFirst[q]
           r == Reverse(s)
<1>5. s \in Seq(0 .. 9) /\ r \in Seq(0 .. 9) /\ Decimal(r) = Abs(q)
  <2>1. CASE q = 0
    <3>1. s = <<>>
      BY <2>1
    <3>2. r = <<>>
      BY <3>1 DEF Reverse
    <3>3. Len(r) = 0 /\ Len(r) \in Nat
      BY <3>2
    <3>4. Decimals(r)[0] = 0
      BY <3>3, DecimalsDef
    <3>5. Decimal(r) = 0
      BY <3>3, <3>4 DEF Decimal
    <3>6. Abs(q) = 0
      BY <1>4, <2>1
    <3> HIDE DEF s, r
    <3> QED
      BY <3>1, <3>2, <3>5, <3>6
  <2>2. CASE q # 0
    <3>1. s = LowestFirst[q]
      BY <2>2
    <3>2. s \in Seq(0 .. 9) /\ Decimal(r) = Abs(q)
      BY <1>3, <2>2, <3>1 DEF DigitsRight
    <3> HIDE DEF s
    <3>3. r \in Seq(0 .. 9)
      BY <3>2 DEF Reverse
    <3> QED
      BY <3>2, <3>3
  <2> QED
    BY <2>1, <2>2
<1>6. LowestFirst[i] = <<d>> \o s
  BY <1>2
<1> HIDE DEF s
<1>7. s \in Seq(Nat) /\ d \in Nat
  BY SMTT(30), <1>1, <1>5
<1>8. Reverse(<<d>> \o s) = r \o <<d>>
  BY <1>7, ReverseEnds
<1> HIDE DEF r
<1>9. Decimal(r \o <<d>>) = 10 * Decimal(r) + d
  BY <1>1, <1>5, DecimalAppend
<1>10. <<d>> \o s \in Seq(0 .. 9) /\ Len(<<d>> \o s) >= 1
  BY <1>1, <1>5
<1> QED
  BY <1>1, <1>5, <1>6, <1>8, <1>9, <1>10 DEF DigitsRight

(* So every integer has its digits, by induction over its distance from 0. *)
LEMMA DigitsAreRight == \A i \in Int : DigitsRight(i)
<1> DEFINE S == {n \in Nat : \A i \in Int : Abs(i) <= n => DigitsRight(i)}
<1>1. 0 \in S
  <2> SUFFICES ASSUME NEW i \in Int, Abs(i) <= 0 PROVE DigitsRight(i)
    OBVIOUS
  <2>1. Abs(i) \in Nat /\ Quotient(i) \in Int /\ (Quotient(i) # 0 => Abs(Quotient(i)) < Abs(i))
    BY OneDigit
  <2>2. Abs(Quotient(i)) \in Nat
    BY <2>1, OneDigit
  <2> QED
    BY <2>1, <2>2, DigitsOfQuotient
<1>2. ASSUME NEW n \in Nat, n \in S PROVE n + 1 \in S
  <2> SUFFICES ASSUME NEW i \in Int, Abs(i) <= n + 1 PROVE DigitsRight(i)
    OBVIOUS
  <2>1. Abs(i) \in Nat /\ Quotient(i) \in Int /\ (Quotient(i) # 0 => Abs(Quotient(i)) < Abs(i))
    BY OneDigit
  <2>2. Abs(Quotient(i)) \in Nat
    BY <2>1, OneDigit
  <2>3. Quotient(i) # 0 => DigitsRight(Quotient(i))
    BY <1>2, <2>1, <2>2
  <2> QED
    BY <2>3, DigitsOfQuotient
<1>3. Nat \subseteq S
  <2> HIDE DEF S
  <2> QED
    BY <1>1, <1>2, SetInduction
<1>4. \A i \in Int : Abs(i) \in S
  BY <1>3, OneDigit
<1> QED
  BY <1>4, OneDigit

(* What convert writes begins with a digit or with the minus sign, and is  *)
(* the number again when it is read.                                       *)
LEMMA ConvertIsRight ==
    ASSUME NEW t \in Int
    PROVE  convert(t) \in Seq(Nat) /\ Value(convert(t)) = t
<1> DEFINE s == LowestFirst[t]
<1>1. s \in Seq(0 .. 9) /\ Len(s) >= 1 /\ Decimal(Reverse(s)) = Abs(t)
  BY DigitsAreRight DEF DigitsRight
<1>2. convert(t) = Reverse(s \o (IF t < 0 THEN <<Minus>> ELSE <<>>))
  BY DEF convert
<1> HIDE DEF s
<1>3. s \in Seq(Nat) /\ Minus \in Nat
  BY <1>1 DEF Minus
<1> DEFINE r == Reverse(s)
<1>4. r \in Seq(Nat) /\ Len(r) = Len(s)
  BY <1>3, ReverseEnds
<1>5. CASE t < 0
  <2>1. convert(t) = <<Minus>> \o r
    BY <1>2, <1>3, <1>5, ReverseEnds
  <2> HIDE DEF r
  <2>2. <<Minus>> \o r \in Seq(Nat) /\ (<<Minus>> \o r)[1] = Minus /\ Tail(<<Minus>> \o r) = r
    <3>1. <<Minus>> \o r \in Seq(Nat) /\ Len(<<Minus>> \o r) = Len(r) + 1 /\ (<<Minus>> \o r)[1] = Minus
          /\ \A i \in 1 .. Len(r) : (<<Minus>> \o r)[i + 1] = r[i]
      BY <1>3, <1>4
    <3> QED
      BY <1>3, <1>4, <3>1, SeqEqual
  <2>3. Value(convert(t)) = -Decimal(r)
    BY <2>1, <2>2 DEF Value
  <2> QED
    BY <1>1, <1>5, <2>1, <2>2, <2>3 DEF r, Abs
<1>6. CASE ~(t < 0)
  <2>1. convert(t) = r
    BY <1>2, <1>3, <1>6
  <2>2. r[1] \in 0 .. 9
    BY <1>1 DEF Reverse
  <2>3. Value(convert(t)) = Decimal(r)
    BY <2>1, <2>2 DEF Value, Minus
  <2> QED
    BY <1>1, <1>4, <1>6, <2>1, <2>3 DEF Abs
<1> QED
  BY <1>5, <1>6

-------------------------------------------------------------------------------
(* The buffer.                                                             *)

(* The items of a completed message; what Put appends of one, and when.    *)
Parts == Items \cup {Text(1), Integer(0), Newline}

Characters(item) ==
    CASE item.kind = "text"    -> Letters(item.value)
      [] item.kind = "newline" -> <<EndOfLine>>
      [] item.kind = "integer" -> convert(item.value)
      [] item.kind = "double"  -> Snprintf(item.value)

HasRoom(buffer, item) ==
    IF item.kind \in {"text", "newline"}
    THEN Len(Characters(item)) < Remain(buffer)
    ELSE Remain(buffer) >= NumericSize

(* A number is never longer than the room that is asked for it, and what   *)
(* is appended is how the item is spelled, unless it is a double longer    *)
(* than snprintf is allowed to write.                                      *)
LEMMA PartsAre ==
    ASSUME NEW item \in Parts
    PROVE  /\ Characters(item) \in Seq(Nat)
           /\ item.kind \in {"text", "newline", "integer", "double"}
           /\ item.kind \in {"integer", "double"} => Len(Characters(item)) < NumericSize
           /\ (item.kind = "double" => item.value < DoubleSize) => Spelled(item) = Characters(item)
<1> USE LoggerConstantsOK
<1>1. ASSUME NEW n \in Nat, item = Text(n)
      PROVE  /\ Characters(item) \in Seq(Nat) /\ item.kind = "text" /\ Spelled(item) = Characters(item)
  <2>1. item.kind = "text" /\ item.value = n
    BY <1>1 DEF Text
  <2>2. Characters(item) = Letters(n) /\ Spelled(item) = Letters(n)
    BY <2>1 DEF Characters, Spelled
  <2>3. Letters(n) \in Seq(Nat)
    BY DEF Letters, Letter
  <2> QED
    BY <2>1, <2>2, <2>3
<1>2. ASSUME item = Newline
      PROVE  /\ Characters(item) \in Seq(Nat) /\ item.kind = "newline" /\ Spelled(item) = Characters(item)
  <2>1. item.kind = "newline"
    BY <1>2 DEF Newline
  <2>2. Characters(item) = <<EndOfLine>> /\ Spelled(item) = <<EndOfLine>>
    BY <2>1 DEF Characters, Spelled
  <2> QED
    BY <2>1, <2>2 DEF EndOfLine
<1>3. ASSUME NEW t \in Numbers \cup {0}, item = Integer(t)
      PROVE  /\ Characters(item) \in Seq(Nat) /\ item.kind = "integer" /\ Spelled(item) = Characters(item)
             /\ Len(Characters(item)) < NumericSize
  <2>1. item.kind = "integer" /\ item.value = t
    BY <1>3 DEF Integer
  <2>2. Characters(item) = convert(t) /\ Spelled(item) = convert(t)
    BY <2>1 DEF Characters, Spelled
  <2>3. t \in Int
    BY DEF Numbers
  <2>4. convert(t) \in Seq(Nat) /\ Len(convert(t)) < NumericSize
    BY <2>3, ConvertIsRight, NumbersFit
  <2> QED
    BY <2>1, <2>2, <2>4
<1>4. ASSUME NEW n \in DoubleLengths, item = Double(n)
      PROVE  /\ Characters(item) \in Seq(Nat) /\ item.kind = "double"
             /\ Len(Characters(item)) < NumericSize
             /\ item.value < DoubleSize => Spelled(item) = Characters(item)
  <2>1. item.kind = "double" /\ item.value = n /\ n \in Nat /\ n < NumericSize
    BY <1>4 DEF Double
  <2>2. Characters(item) = Snprintf(n) /\ Spelled(item) = Letters(n)
    BY <2>1 DEF Characters, Spelled
  <2>3. Snprintf(n) \in Seq(Nat) /\ Len(Snprintf(n)) = n
    BY <2>1 DEF Snprintf, Letter, Unset
  <2>4. n < DoubleSize => Letters(n) = Snprintf(n)
    BY <2>1 DEF Snprintf, Letters
  <2> QED
    BY <2>1, <2>2, <2>3, <2>4
<1>5. \/ \E n \in Nat : item = Text(n)
      \/ item = Newline
      \/ \E t \in Numbers \cup {0} : item = Integer(t)
      \/ \E n \in DoubleLengths : item = Double(n)
  BY DEF Parts, Items
<1> QED
  BY <1>1, <1>2, <1>3, <1>4, <1>5

(* Put takes an item completely or not at all, and keeps the last byte of  *)
(* the buffer free.                                                        *)
LEMMA PutTakes ==
    ASSUME NEW item \in Parts, NEW buffer \in Seq(Nat), Len(buffer) < SmallSize
    PROVE  /\ Put(buffer, item) = IF HasRoom(buffer, item) THEN buffer \o Characters(item) ELSE buffer
           /\ Put(buffer, item) \in Seq(Nat) /\ Len(Put(buffer, item)) < SmallSize
<1>1. /\ Characters(item) \in Seq(Nat)
      /\ item.kind \in {"text", "newline", "integer", "double"}
      /\ item.kind \in {"integer", "double"} => Len(Characters(item)) < NumericSize
  BY PartsAre
<1>2. Put(buffer, item) = IF HasRoom(buffer, item) THEN buffer \o Characters(item) ELSE buffer
  BY <1>1 DEF Put, HasRoom, Characters, AppendText, PutNumber
<1>3. HasRoom(buffer, item) => Len(Characters(item)) < Remain(buffer)
  <2>1. Remain(buffer) \in Int /\ Len(Characters(item)) \in Int /\ NumericSize \in Int
    BY <1>1, LoggerConstantsOK DEF Remain
  <2> QED
    BY <1>1, <2>1 DEF HasRoom
<1>4. HasRoom(buffer, item) =>
          /\ buffer \o Characters(item) \in Seq(Nat)
          /\ Len(buffer \o Characters(item)) < SmallSize
  BY <1>1, <1>3, LoggerConstantsOK DEF Remain
<1> QED
  BY <1>2, <1>4

(* A completed message begins with the time and ends with the place.       *)
LEMMA CompleteIs ==
    ASSUME NEW message \in Messages
    PROVE  /\ Complete(message) \in Seq(Parts) /\ Len(Complete(message)) \in Nat \ {0}
           /\ Printable(message) =>
                  \A i \in 1 .. Len(Complete(message)) :
                      LET item == Complete(message)[i]
                      IN  item.kind = "double" => item.value < DoubleSize
<1>1. message \in Seq(Items)
  BY LoggerConstantsOK DEF Messages
<1>2. message \in Seq(Parts)
  BY <1>1, SeqMonotonic DEF Parts
<1>3. formatTime \in Seq(Parts) /\ Place \in Seq(Parts) /\ Len(formatTime) = 3 /\ Len(Place) = 5
  BY DEF formatTime, Place, Parts
<1>4. /\ \A i \in 1 .. 3 : formatTime[i].kind # "double"
      /\ \A i \in 1 .. 5 : Place[i].kind # "double"
  BY DEF formatTime, Place, Text, Integer, Newline
<1> DEFINE t == Complete(message)
           n == Len(message)
<1>5. /\ t \in Seq(Parts) /\ Len(t) = 8 + n /\ n \in Nat
      /\ \A i \in 1 .. 8 + n :
             t[i] = IF i <= 3 THEN formatTime[i]
                    ELSE IF i <= 3 + n THEN message[i - 3] ELSE Place[i - 3 - n]
  <2> DEFINE head == formatTime \o message
  <2>1. /\ head \in Seq(Parts) /\ Len(head) = 3 + n /\ n \in Nat
        /\ \A i \in 1 .. 3 + n : head[i] = IF i <= 3 THEN formatTime[i] ELSE message[i - 3]
    <3>1. /\ head \in Seq(Parts)
          /\ Len(head) = Len(formatTime) + n
          /\ \A i \in 1 .. Len(formatTime) + n :
                 head[i] = IF i <= Len(formatTime) THEN formatTime[i] ELSE message[i - Len(formatTime)]
      BY <1>2, <1>3, ConcatProperties
    <3>2. n \in Nat
      BY <1>2
    <3> QED
      BY <1>3, <3>1, <3>2
  <2>2. t = head \o Place
    BY DEF Complete
  <2> HIDE DEF head, t, n
  <2>3. /\ t \in Seq(Parts) /\ Len(t) = 8 + n
        /\ \A i \in 1 .. 8 + n : t[i] = IF i <= 3 + n THEN head[i] ELSE Place[i - (3 + n)]
    <3>1. /\ head \o Place \in Seq(Parts)
          /\ Len(head \o Place) = Len(head) + Len(Place)
          /\ \A i \in 1 .. Len(head) + Len(Place) :
                 (head \o Place)[i] = IF i <= Len(head) THEN head[i] ELSE Place[i - Len(head)]
      BY <1>3, <2>1, ConcatProperties
    <3>2. Len(head) + Len(Place) = 8 + n
      BY <1>3, <2>1
    <3> QED
      BY <1>3, <2>1, <2>2, <3>1, <3>2
  <2>4. ASSUME NEW i \in 1 .. 8 + n
        PROVE  t[i] = IF i <= 3 THEN formatTime[i]
                      ELSE IF i <= 3 + n THEN message[i - 3] ELSE Place[i - 3 - n]
    <3>1. CASE i <= 3 + n
      BY <2>1, <2>3, <3>1
    <3>2. CASE ~(i <= 3 + n)
      <4>1. i - (3 + n) = i - 3 - n /\ ~(i <= 3)
        BY <2>1, <3>2
      <4> QED
        BY <2>3, <3>2, <4>1
    <3> QED
      BY <3>1, <3>2
  <2> QED
    BY <2>1, <2>3, <2>4
<1>6. DOMAIN message = 1 .. n
  BY <1>2
<1>7. ASSUME Printable(message), NEW i \in 1 .. Len(t) PROVE t[i].kind = "double" => t[i].value < DoubleSize
  <2>1. CASE i <= 3
    <3>1. t[i] = formatTime[i] /\ i \in 1 .. 3
      BY <1>5, <2>1
    <3> QED
      BY <1>4, <3>1
  <2>2. CASE 3 < i /\ i <= 3 + n
    <3>1. t[i] = message[i - 3] /\ i - 3 \in 1 .. n
      BY <1>5, <2>2
    <3> QED
      BY <1>6, <1>7, <3>1 DEF Printable
  <2>3. CASE 3 + n < i
    <3>1. t[i] = Place[i - 3 - n] /\ i - 3 - n \in 1 .. 5
      BY <1>5, <2>3
    <3> QED
      BY <1>4, <3>1
  <2> QED
    BY <1>5, <2>1, <2>2, <2>3
<1> QED
  BY <1>5, <1>7

-------------------------------------------------------------------------------
(* The line.                                                               *)

(* However many items there are, what is in the buffer after each of them  *)
(* is shorter than the buffer.                                             *)
LEMMA BufferInside ==
    ASSUME NEW items \in Seq(Parts)
    PROVE  \A i \in 0 .. Len(items) :
               BufferAfter(items)[i] \in Seq(Nat) /\ Len(BufferAfter(items)[i]) < SmallSize
<1> DEFINE n == Len(items)
           after == BufferAfter(items)
           S == {k \in Nat : k <= n => after[k] \in Seq(Nat) /\ Len(after[k]) < SmallSize}
<1>1. n \in Nat /\ \A i \in 1 .. n : items[i] \in Parts
  OBVIOUS
<1>2. after[0] = <<>> /\ \A i \in 1 .. n : after[i] = Put(after[i - 1], items[i])
  BY <1>1, BufferAfterDef
<1> HIDE DEF after
<1>3. 0 \in S
  <2>1. after[0] \in Seq(Nat) /\ Len(after[0]) = 0
    BY <1>2
  <2> QED
    BY <2>1, LoggerConstantsOK
<1>4. ASSUME NEW k \in Nat, k \in S PROVE k + 1 \in S
  <2> SUFFICES ASSUME k + 1 <= n
               PROVE  after[k + 1] \in Seq(Nat) /\ Len(after[k + 1]) < SmallSize
    OBVIOUS
  <2>1. k <= n /\ k + 1 \in 1 .. n /\ (k + 1) - 1 = k
    BY <1>1
  <2>2. after[k] \in Seq(Nat) /\ Len(after[k]) < SmallSize
    BY <1>4, <2>1
  <2>3. after[k + 1] = Put(after[k], items[k + 1]) /\ items[k + 1] \in Parts
    BY <1>1, <1>2, <2>1
  <2> QED
    BY <2>2, <2>3, PutTakes
<1>5. Nat \subseteq S
  <2> HIDE DEF S
  <2> QED
    BY <1>3, <1>4, SetInduction
<1> QED
  BY <1>1, <1>5 DEF after

(* If each item adds its member of seqs to the buffer, as long as nothing  *)
(* was lost before it, the buffer holds all of seqs at the end.            *)
LEMMA BufferFlatten ==
    ASSUME NEW items \in Seq(Parts), NEW seqs, Len(seqs) = Len(items), Len(items) # 0,
           \A i \in 1 .. Len(items) : seqs[i] \in Seq(Nat),
           \A i \in 1 .. Len(items) :
               Len(BufferAfter(items)[i - 1] \o seqs[i]) <= Len(FlattenSeq(seqs))
                   => BufferAfter(items)[i] = BufferAfter(items)[i - 1] \o seqs[i]
    PROVE  BufferAfter(items)[Len(items)] = FlattenSeq(seqs)
<1> DEFINE n == Len(items)
           after == BufferAfter(items)
           total == Len(FlattenSeq(seqs))
<1>1. n \in Nat \ {0}
  OBVIOUS
<1>2. after[0] = <<>>
  BY <1>1, BufferAfterDef
<1>3. PICK f : /\ f[0] = <<>>
               /\ \A i \in 1 .. n : f[i] = f[i - 1] \o seqs[i]
               /\ FlattenSeq(seqs) = f[n]
               /\ \A i \in 0 .. n : f[i] \in Seq(Nat) /\ Len(f[i]) <= total
  BY <1>1, FlattenDef
<1>4. \A i \in 1 .. n : Len(after[i - 1] \o seqs[i]) <= total => after[i] = after[i - 1] \o seqs[i]
  OBVIOUS
<1> DEFINE S == {k \in Nat : k <= n => after[k] = f[k]}
<1> HIDE DEF after, total
<1>5. 0 \in S
  BY <1>2, <1>3
<1>6. ASSUME NEW k \in Nat, k \in S PROVE k + 1 \in S
  <2> SUFFICES ASSUME k + 1 <= n PROVE after[k + 1] = f[k + 1]
    OBVIOUS
  <2>1. k <= n /\ k + 1 \in 1 .. n /\ (k + 1) - 1 = k
    BY <1>1
  <2>2. after[k] = f[k]
    BY <1>6, <2>1
  <2>3. f[k + 1] = f[k] \o seqs[k + 1]
    BY <1>3, <2>1
  <2>4. k + 1 \in 0 .. n
    BY <1>1, <2>1
  <2>5. Len(f[k + 1]) <= total
    BY <1>3, <2>4
  <2> QED
    BY <1>4, <2>1, <2>2, <2>3, <2>5
<1>7. Nat \subseteq S
  <2> HIDE DEF S
  <2> QED
    BY <1>5, <1>6, SetInduction
<1>8. after[n] = f[n]
  BY <1>1, <1>7
<1> QED
  BY <1>3, <1>8 DEF after

(* So is every line, with or without its newline.                          *)
LEMMA LineInside ==
    ASSUME NEW message \in Messages
    PROVE  InsideBuffer(message) /\ Line(message) \in Seq(Nat)
<1> DEFINE items == Complete(message)
<1>1. items \in Seq(Parts) /\ Len(items) \in Nat
  BY CompleteIs
<1>2. Line(message) = BufferAfter(items)[Len(items)]
  BY DEF Line
<1> HIDE DEF items
<1>3. Len(items) \in 0 .. Len(items)
  BY <1>1
<1>4. BufferAfter(items)[Len(items)] \in Seq(Nat) /\ Len(BufferAfter(items)[Len(items)]) < SmallSize
  BY <1>1, <1>3, BufferInside
<1> QED
  BY <1>2, <1>4 DEF InsideBuffer

(* The items that find room are the ones that are in the line.             *)
LEMMA LineNotCut ==
    ASSUME NEW message \in Messages, Printable(message)
    PROVE  ItemsNotCut(message)
<1> DEFINE items == Complete(message)
           after == BufferAfter(items)
           n == Len(items)
           kept == {i \in DOMAIN items : HasRoom(after[i - 1], items[i])}
           seqs == [i \in DOMAIN items |-> IF i \in kept THEN Spelled(items[i]) ELSE <<>>]
<1>1. /\ items \in Seq(Parts) /\ n \in Nat \ {0}
      /\ \A i \in 1 .. n : items[i].kind = "double" => items[i].value < DoubleSize
  BY CompleteIs
<1>2. Line(message) = after[n] /\ kept \in SUBSET DOMAIN items
  BY DEF Line
<1> SUFFICES after[n] = FlattenSeq(seqs)
  BY <1>2 DEF ItemsNotCut
<1> HIDE DEF items
<1>3. DOMAIN items = 1 .. n /\ \A i \in 1 .. n : items[i] \in Parts
  BY <1>1
<1>4. ASSUME NEW i \in 1 .. n PROVE seqs[i] \in Seq(Nat) /\ after[i] = after[i - 1] \o seqs[i]
  <2>1. after[i - 1] \in Seq(Nat) /\ Len(after[i - 1]) < SmallSize
    <3>1. i - 1 \in 0 .. n
      BY <1>1
    <3> QED
      BY <1>1, <3>1, BufferInside
  <2>2. after[i] = Put(after[i - 1], items[i])
    BY <1>1, BufferAfterDef
  <2> HIDE DEF after
  <2>3. /\ Characters(items[i]) \in Seq(Nat)
        /\ Spelled(items[i]) = Characters(items[i])
    BY <1>1, <1>3, PartsAre
  <2>4. after[i] = IF HasRoom(after[i - 1], items[i])
                   THEN after[i - 1] \o Characters(items[i]) ELSE after[i - 1]
    BY <1>3, <2>1, <2>2, PutTakes
  <2>5. after[i - 1] \o <<>> = after[i - 1]
    BY <2>1, ConcatEmptySeq
  <2>6. seqs[i] = IF HasRoom(after[i - 1], items[i]) THEN Spelled(items[i]) ELSE <<>>
    BY <1>3
  <2> HIDE DEF seqs
  <2>7. CASE HasRoom(after[i - 1], items[i])
    <3>1. seqs[i] = Characters(items[i]) /\ after[i] = after[i - 1] \o Characters(items[i])
      BY <2>3, <2>4, <2>6, <2>7
    <3> QED
      BY <2>3, <3>1
  <2>8. CASE ~HasRoom(after[i - 1], items[i])
    <3>1. seqs[i] = <<>> /\ after[i] = after[i - 1]
      BY <2>4, <2>6, <2>8
    <3> QED
      BY <2>5, <3>1
  <2> QED
    BY <2>7, <2>8
<1>5. Len(seqs) = n
  BY <1>1, <1>3
<1> HIDE DEF seqs
<1> QED
  BY <1>1, <1>4, <1>5, BufferFlatten

(* If the whole message leaves room for a number, each item finds room.    *)
LEMMA LineWhole ==
    ASSUME NEW message \in Messages, Printable(message)
    PROVE  Whole(message)
<1> DEFINE items == Complete(message)
           after == BufferAfter(items)
           n == Len(items)
           seqs == [i \in DOMAIN items |-> Spelled(items[i])]
           total == Len(FlattenSeq(seqs))
<1>1. /\ items \in Seq(Parts) /\ n \in Nat \ {0}
      /\ \A i \in 1 .. n : items[i].kind = "double" => items[i].value < DoubleSize
  BY CompleteIs
<1>2. Line(message) = after[n]
  BY DEF Line
<1> SUFFICES ASSUME total + NumericSize <= SmallSize PROVE after[n] = FlattenSeq(seqs)
  BY <1>2 DEF Whole, SpelledOut
<1> HIDE DEF items
<1>3. DOMAIN items = 1 .. n /\ \A i \in 1 .. n : items[i] \in Parts
  BY <1>1
<1>4. Len(seqs) = n
  BY <1>1, <1>3
<1>5. \A i \in 1 .. n : seqs[i] = Spelled(items[i])
  BY <1>3
<1>6. NumericSize \in Nat \ {0} /\ SmallSize \in Nat
  <2>1. convert(0) \in Seq(Nat)
    BY ConvertIsRight
  <2>2. Len(convert(0)) < NumericSize /\ Len(convert(0)) \in Nat
    BY <2>1, NumbersFit
  <2> QED
    BY <2>2, LoggerConstantsOK
<1> HIDE DEF seqs
<1>7. ASSUME NEW i \in 1 .. n PROVE seqs[i] \in Seq(Nat) /\ seqs[i] = Characters(items[i])
  BY <1>1, <1>3, <1>5, PartsAre
<1>8. total \in Nat
  <2>1. \A i \in 1 .. n : seqs[i] \in Seq(Nat)
    BY <1>7
  <2>2. \E f : FlattenSeq(seqs) = f[n] /\ \A i \in 0 .. n : f[i] \in Seq(Nat)
    BY <1>1, <1>4, <2>1, FlattenDef
  <2>3. FlattenSeq(seqs) \in Seq(Nat)
    BY <1>1, <2>2
  <2> QED
    BY <2>3
<1>9. ASSUME NEW i \in 1 .. n, Len(after[i - 1] \o seqs[i]) <= total
      PROVE  after[i] = after[i - 1] \o seqs[i]
  <2>1. after[i - 1] \in Seq(Nat) /\ Len(after[i - 1]) < SmallSize
    <3>1. i - 1 \in 0 .. n
      BY <1>1
    <3> QED
      BY <1>1, <3>1, BufferInside
  <2>2. after[i] = Put(after[i - 1], items[i])
    BY <1>1, BufferAfterDef
  <2> HIDE DEF after
  <2>3. Len(after[i - 1] \o seqs[i]) = Len(after[i - 1]) + Len(seqs[i])
    BY <1>7, <2>1, ConcatProperties
  <2>4. Len(after[i - 1]) \in Nat /\ Len(seqs[i]) \in Nat
    BY <1>7, <2>1
  <2>5. Remain(after[i - 1]) >= NumericSize /\ Len(seqs[i]) < Remain(after[i - 1])
    <3> DEFINE a == Len(after[i - 1])
               b == Len(seqs[i])
    <3>1. Len(after[i - 1] \o seqs[i]) <= total /\ total + NumericSize <= SmallSize
      BY <1>9
    <3>2. a + b <= total /\ a \in Nat /\ b \in Nat
      BY <2>3, <2>4, <3>1
    <3> HIDE DEF total, a, b
    <3>3. SmallSize - a >= NumericSize /\ b < SmallSize - a
      BY <1>6, <1>8, <3>1, <3>2
    <3> QED
      BY <3>3 DEF Remain, a, b
  <2>6. HasRoom(after[i - 1], items[i])
    BY <1>7, <2>5 DEF HasRoom
  <2> QED
    BY ZenonT(60), <1>3, <1>7, <2>1, <2>2, <2>6, PutTakes
<1> QED
  BY <1>1, <1>4, <1>7, <1>9, BufferFlatten

(* Whatever is logged (Logger.cc:26-47, LogStream.cc:29-126): integers are *)
(* written right, a line stays inside its buffer, is complete while there  *)
(* is room for one more number, and of a longer one whole items are left   *)
(* out and none is cut.                                                    *)
THEOREM EveryLineIsSpelledOut == LinesAreSpelledOut
<1>1. \A t \in Numbers : t \in Int
  BY LoggerConstantsOK DEF Numbers
<1>2. \A t \in Numbers : Value(convert(t)) = t
  BY <1>1, ConvertIsRight
<1> QED
  BY <1>2, LineInside, LineNotCut, LineWhole DEF LinesAreSpelledOut
===============================================================================
