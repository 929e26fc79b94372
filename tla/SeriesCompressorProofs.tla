----------------------- MODULE SeriesCompressorProofs -----------------------
(***************************************************************************)
(* Proofs about SeriesCompressor, for every MaxInt, every set of samples    *)
(* clear of the ends of int and every length of series.                     *)
(***************************************************************************)
EXTENDS SeriesCompressor, SequenceTheorems, TLAPS

Small == -(MaxInt \div 4)..(MaxInt \div 4)

Tokens == [base: Int64, step: Int64, repeat: Nat]

-----------------------------------------------------------------------------
(* Arithmetic of wrapping ints and of tokens.                               *)

(* Go's subtraction of two ints is an int.                                  *)
LEMMA SubType ==
    ASSUME NEW x \in Int64, NEW y \in Int64
    PROVE  Sub(x, y) \in Int64
  BY ValuesAssumption DEF Int64, MinInt, Sub

(* The difference of two samples does not wrap.                             *)
LEMMA SubSmall ==
    ASSUME NEW x \in Small, NEW y \in Small
    PROVE  Sub(x, y) = x - y
  BY ValuesAssumption DEF Small, MinInt, Sub

(* Samples are ints, and so are the two ends.                               *)
LEMMA SmallInt64 ==
    /\ Small \subseteq Int64 /\ Values \subseteq Small
    /\ MinInt \in Int64 /\ MaxInt \in Int64 /\ 0 \in Int64 /\ Int64 \subseteq Int
  BY ValuesAssumption DEF Int64, MinInt, Small

(* A token stands for repeat + 1 ints.                                      *)
LEMMA ExpandType ==
    ASSUME NEW b \in Int, NEW d \in Int, NEW n \in Nat
    PROVE  /\ Expand(Token(b, d, n)) \in Seq(Int)
           /\ Len(Expand(Token(b, d, n))) = n + 1
           /\ \A m \in 1..(n + 1) : Expand(Token(b, d, n))[m] = b + (m - 1) * d
  <1>1. Expand(Token(b, d, n)) \in [1..(n + 1) -> Int]
    BY DEF Expand, Token
  <1>2. Expand(Token(b, d, n)) \in Seq(Int)
    BY <1>1, SeqDef, n + 1 \in Nat
  <1>3. \A m \in 1..(n + 1) : Expand(Token(b, d, n))[m] = b + (m - 1) * d
    BY DEF Expand, Token
  <1> QED
    BY <1>1, <1>2, <1>3, LenProperties

(* One more repetition appends one more int.                                *)
LEMMA ExpandAppend ==
    ASSUME NEW b \in Int, NEW d \in Int, NEW n \in Nat
    PROVE  Expand(Token(b, d, n + 1))
             = Append(Expand(Token(b, d, n)), b + (n + 1) * d)
  <1> DEFINE s == Expand(Token(b, d, n + 1))
             p == Expand(Token(b, d, n))
             e == b + (n + 1) * d
  <1>1. /\ s \in Seq(Int) /\ Len(s) = n + 2
        /\ \A m \in 1..(n + 2) : s[m] = b + (m - 1) * d
    <2>1. n + 1 \in Nat /\ (n + 1) + 1 = n + 2
      OBVIOUS
    <2> QED BY <2>1, ExpandType
  <1>2. /\ p \in Seq(Int) /\ Len(p) = n + 1
        /\ \A m \in 1..(n + 1) : p[m] = b + (m - 1) * d
    BY ExpandType
  <1>3. e \in Int /\ s[n + 2] = e
    <2>1. n + 2 \in 1..(n + 2) /\ (n + 2) - 1 = n + 1
      OBVIOUS
    <2> QED BY <1>1, <2>1
  <1>4. \A m \in 1..(n + 1) : s[m] = p[m]
    BY <1>1, <1>2
  <1> HIDE DEF s, p, e
  <1>5. /\ Append(p, e) \in Seq(Int)
        /\ Len(Append(p, e)) = n + 2
        /\ \A m \in 1..(n + 2) :
             Append(p, e)[m] = IF m = n + 2 THEN e ELSE p[m]
    BY <1>2, <1>3
  <1>6. \A m \in 1..Len(s) : s[m] = Append(p, e)[m]
    BY <1>1, <1>3, <1>4, <1>5
  <1>7. s = Append(p, e)
    BY <1>1, <1>5, <1>6, SeqEqual
  <1> QED BY <1>7 DEF s, p, e

(* What appending an int to ints makes.                                     *)
LEMMA AppendInts ==
    ASSUME NEW s \in Seq(Int), NEW c \in Int
    PROVE  /\ Append(s, c) \in Seq(Int)
           /\ Len(Append(s, c)) = Len(s) + 1
           /\ \A m \in 1..Len(s) : Append(s, c)[m] = s[m]
           /\ Append(s, c)[Len(s) + 1] = c
  <1>1. Append(s, c) \in Seq(Int) /\ Len(Append(s, c)) = Len(s) + 1
    OBVIOUS
  <1>2. \A m \in 1..Len(s) : Append(s, c)[m] = s[m]
    OBVIOUS
  <1>3. Append(s, c)[Len(s) + 1] = c
    OBVIOUS
  <1> QED BY <1>1, <1>2, <1>3

(* Three evenly spaced samples are a token with two repetitions.            *)
LEMMA ThreeSpaced ==
    ASSUME NEW a \in Int, NEW d \in Int
    PROVE  Expand(Token(a, d, 2)) = <<a, a + d, a + 2 * d>>
  <1>1. Expand(Token(a, d, 2)) = [n \in 1..3 |-> a + (n - 1) * d]
    BY DEF Expand, Token
  <1>2. [n \in 1..3 |-> a + (n - 1) * d] = <<a, a + d, a + 2 * d>>
    <2>1. a + (1 - 1) * d = a /\ a + (2 - 1) * d = a + d /\ a + (3 - 1) * d = a + 2 * d
      OBVIOUS
    <2> QED BY <2>1
  <1> QED BY <1>1, <1>2

(* The same of three samples whose differences are equal.                   *)
LEMMA SpacedSamples ==
    ASSUME NEW a \in Int, NEW b \in Int, NEW c \in Int, c - b = b - a
    PROVE  /\ Expand(Token(a, b - a, 2)) = <<a, b, c>>
           /\ c = a + (1 + 1) * (c - b)
           /\ Append(<<a, b>>, c) = <<a, b, c>>
  <1>1. b - a \in Int /\ a + (b - a) = b /\ a + 2 * (b - a) = c
    OBVIOUS
  <1>2. Expand(Token(a, b - a, 2)) = <<a, b, c>>
    BY <1>1, ThreeSpaced
  <1>3. c = a + (1 + 1) * (c - b)
    OBVIOUS
  <1>4. Append(<<a, b>>, c) = <<a, b, c>>
    <2> DEFINE s == <<a, b>>
               t == <<a, b, c>>
    <2>1. s \in Seq(Int) /\ Len(s) = 2 /\ s[1] = a /\ s[2] = b
      OBVIOUS
    <2>2. t \in Seq(Int) /\ Len(t) = 3 /\ t[1] = a /\ t[2] = b /\ t[3] = c
      OBVIOUS
    <2> HIDE DEF s, t
    <2>3. /\ Append(s, c) \in Seq(Int) /\ Len(Append(s, c)) = 3
          /\ Append(s, c)[1] = a /\ Append(s, c)[2] = b /\ Append(s, c)[3] = c
      <3>1. /\ Append(s, c) \in Seq(Int)
            /\ Len(Append(s, c)) = Len(s) + 1
            /\ \A m \in 1..Len(s) : Append(s, c)[m] = s[m]
            /\ Append(s, c)[Len(s) + 1] = c
        BY <2>1, AppendInts, Zenon
      <3>2. Len(s) + 1 = 3 /\ 1 \in 1..Len(s) /\ 2 \in 1..Len(s)
        BY <2>1
      <3> QED BY <2>1, <3>1, <3>2, Zenon
    <2>4. Append(s, c) = t
      BY <2>2, <2>3, SeqEqual
    <2> QED BY <2>4 DEF s, t
  <1> QED BY <1>2, <1>3, <1>4

(* Appending after a concatenation, and moving the head of what follows.    *)
LEMMA AppendConcat ==
    ASSUME NEW s \in Seq(Int), NEW t \in Seq(Int), NEW v \in Int
    PROVE  s \o Append(t, v) = Append(s \o t, v)
  <1>1. Append(t, v) \in Seq(Int) /\ s \o t \in Seq(Int)
    OBVIOUS
  <1>2. s \o Append(t, v) \in Seq(Int) /\ Append(s \o t, v) \in Seq(Int)
    BY <1>1
  <1> QED BY <1>1, <1>2, SeqEqual

LEMMA PairConcat ==
    ASSUME NEW s \in Seq(Int), NEW a \in Int, NEW b \in Int
    PROVE  s \o <<a, b>> = Append(s \o <<a>>, b)
  <1>1. s \o <<a, b>> \in Seq(Int) /\ Append(s \o <<a>>, b) \in Seq(Int)
    OBVIOUS
  <1> QED BY <1>1, SeqEqual

LEMMA ConcatPair ==
    ASSUME NEW s \in Seq(Int), NEW a \in Int, NEW b \in Int, NEW c \in Int
    PROVE  (s \o <<a>>) \o <<b, c>> = Append(s \o <<a, b>>, c)
  <1>1. /\ (s \o <<a>>) \o <<b, c>> \in Seq(Int)
        /\ Append(s \o <<a, b>>, c) \in Seq(Int)
    OBVIOUS
  <1> QED BY <1>1, SeqEqual

-----------------------------------------------------------------------------
(* Type correctness.                                                        *)

(* The parts of the writer function keep the writer's type.                 *)
LEMMA ExtendType ==
    ASSUME NEW u \in Writer
    PROVE  Extend(u) \in Writer
  <1>1. CASE u.count < 1
    <2>1. Extend(u) = [u EXCEPT !.base = u.v0, !.count = 1]
      BY <1>1 DEF Extend
    <2>2. 1 \in {n \in Int : n >= -3 /\ n # 0} /\ u.v0 \in Int64
      BY DEF Writer
    <2>3. [u EXCEPT !.base = u.v0, !.count = 1] \in Writer
      BY <2>2 DEF Writer
    <2> QED BY <2>1, <2>3
  <1>2. CASE ~(u.count < 1)
    <2>1. Extend(u) = [u EXCEPT !.count = @ + 1]
      BY <1>2 DEF Extend
    <2>2. u.count + 1 \in {n \in Int : n >= -3 /\ n # 0}
      BY <1>2 DEF Writer
    <2> QED BY <2>1, <2>2 DEF Writer
  <1> QED BY <1>1, <1>2

LEMMA EmitType ==
    ASSUME NEW u \in Writer, NEW b \in Int64, NEW d \in Int64, NEW n \in Nat
    PROVE  /\ Emit(u, Token(b, d, n)) \in Writer
           /\ Expand(Token(b, d, n)) \in Seq(Int)
  <1>1. Token(b, d, n) \in Tokens
    BY DEF Token, Tokens
  <1>2. Append(u.out, Token(b, d, n)) \in Seq(Tokens)
    BY <1>1 DEF Writer, Tokens
  <1>3. Expand(Token(b, d, n)) \in Seq(Int)
    BY SmallInt64, ExpandType
  <1>4. u.decoded \o Expand(Token(b, d, n)) \in Seq(Int)
    BY <1>3, ConcatProperties DEF Writer
  <1> QED BY <1>2, <1>3, <1>4 DEF Emit, Writer, Tokens

LEMMA EmitExpandingType ==
    ASSUME NEW u \in Writer, u.count > 0
    PROVE  /\ emitExpanding(u) \in Writer
           /\ Expand(Token(u.base, Sub(u.v1, u.v0), u.count + 1)) \in Seq(Int)
  <1>1. u.base \in Int64 /\ u.v0 \in Int64 /\ u.v1 \in Int64
    BY DEF Writer
  <1>2. u.count + 1 \in Nat
    BY DEF Writer
  <1> QED BY <1>1, <1>2, EmitType, SubType DEF emitExpanding

LEMMA BreakType ==
    ASSUME NEW u \in Writer
    PROVE  Break(u) \in Writer
  <1>1. CASE u.count < -1
    <2>1. Break(u) = [u EXCEPT !.count = @ + 1]
      BY <1>1 DEF Break, Writer
    <2>2. u.count + 1 \in {n \in Int : n >= -3 /\ n # 0}
      BY <1>1 DEF Writer
    <2>3. [u EXCEPT !.count = u.count + 1] \in Writer
      BY <2>2 DEF Writer
    <2> QED BY <2>1, <2>3, Zenon
  <1>2. CASE u.count = -1
    <2>1. Break(u) = Emit(u, Token(u.v0, 0, 0))
      BY <1>2 DEF Break, Writer
    <2>2. u.v0 \in Int64
      BY DEF Writer
    <2> QED BY <2>1, <2>2, EmitType, SmallInt64
  <1>3. CASE u.count > 0
    <2>1. Break(u) = [emitExpanding(u) EXCEPT !.count = -2, !.v1 = MaxInt]
      BY <1>3 DEF Break, Writer
    <2>2. -2 \in {n \in Int : n >= -3 /\ n # 0}
      OBVIOUS
    <2>3. \A x \in Writer : [x EXCEPT !.count = -2, !.v1 = MaxInt] \in Writer
      BY <2>2, SmallInt64 DEF Writer
    <2> QED BY <1>3, <2>1, <2>3, EmitExpandingType
  <1> QED BY <1>1, <1>2, <1>3 DEF Writer

(* Writing any int, the sentinels of Close included, keeps the writer's type. *)
LEMMA WriterType ==
    ASSUME NEW u \in Writer, NEW v \in Int64
    PROVE  writerFunc(u, v) \in Writer
  BY ExtendType, BreakType DEF writerFunc, Shift, Writer

LEMMA TypeInit == Init => TypeOK
  <1>1. newCompressingSeriesWriter \in Writer
    BY SmallInt64, EmptySeq DEF Writer, newCompressingSeriesWriter
  <1>2. <<>> \in Seq(Values)
    OBVIOUS
  <1> QED BY <1>1, <1>2 DEF Init, TypeOK

LEMMA TypeNext == TypeOK /\ [Next]_vars => TypeOK'
  <1> SUFFICES ASSUME TypeOK, [Next]_vars PROVE TypeOK'
    OBVIOUS
  <1>1. ASSUME NEW v \in Values, Write(v) PROVE TypeOK'
    <2>1. writerFunc(w, v) \in Writer
      BY SmallInt64, WriterType DEF TypeOK
    <2> QED BY <1>1, <2>1 DEF Write, TypeOK
  <1>2. CASE Close
    <2>1. writerFunc(w, MinInt) \in Writer
      BY SmallInt64, WriterType DEF TypeOK
    <2>2. writerFunc(writerFunc(w, MinInt), 0) \in Writer
      BY <2>1, SmallInt64, WriterType
    <2> QED BY <1>2, <2>2 DEF Close, TypeOK
  <1>3. CASE UNCHANGED vars
    BY <1>3 DEF vars, TypeOK
  <1> QED BY <1>1, <1>2, <1>3 DEF Next

(* The writer's fields keep their types whatever is written.                *)
THEOREM TypeCorrect == Spec => []TypeOK
  BY TypeInit, TypeNext, PTL DEF Spec

-----------------------------------------------------------------------------
(* What the writer's fields say of each other. A sample is Small, so it     *)
(* differs from the markers of an empty history.                            *)

Shape(u) ==
    /\ u.count = -3 => u.v0 = 0 /\ u.v1 = MaxInt /\ u.decoded = <<>>
    /\ u.count # -3 => u.v1 \in Small
    /\ u.count = -2 => u.v0 = MaxInt
    /\ u.count > -2 => u.v0 \in Small
    /\ u.count > 0 =>
         u.base \in Int /\ u.v1 = u.base + (u.count + 1) * (u.v1 - u.v0)

(* The comparison of three samples with room for one each is exact; with an *)
(* empty place in the history it never succeeds, but for a first sample -2. *)
LEMMA Spacing ==
    ASSUME NEW u \in Writer, Shape(u), NEW v \in Small
    PROVE  /\ u.count > -2 => (EvenlySpaced(u, v) <=> u.v1 - u.v0 = v - u.v1)
           /\ u.count = -2 => ~EvenlySpaced(u, v)
           /\ u.count = -3 => (EvenlySpaced(u, v) <=> v = -2)
  <1>1. CASE u.count > -2
    <2>1. u.v0 \in Small /\ u.v1 \in Small
      BY <1>1 DEF Shape, Writer
    <2> QED BY <1>1, <2>1, SubSmall DEF EvenlySpaced
  <1>2. CASE u.count = -2
    <2>1. u.v0 = MaxInt /\ u.v1 \in Small
      BY <1>2 DEF Shape
    <2> QED BY <1>2, <2>1, ValuesAssumption DEF EvenlySpaced, Sub, Small, MinInt
  <1>3. CASE u.count = -3
    <2>1. u.v0 = 0 /\ u.v1 = MaxInt
      BY <1>3 DEF Shape
    <2> QED BY <1>3, <2>1, ValuesAssumption DEF EvenlySpaced, Sub, Small, MinInt
  <1> QED BY <1>1, <1>2, <1>3 DEF Writer

(* What one call of the writer function does to each field, when the new    *)
(* sample continues a run and, by the count, when it does not.              *)
LEMMA SpacedFields ==
    ASSUME NEW u \in Writer, NEW v \in Int64, EvenlySpaced(u, v)
    PROVE  /\ writerFunc(u, v).v0 = u.v1 /\ writerFunc(u, v).v1 = v
           /\ writerFunc(u, v).decoded = u.decoded
           /\ u.count < 1 => /\ writerFunc(u, v).count = 1
                             /\ writerFunc(u, v).base = u.v0
           /\ u.count > 0 => /\ writerFunc(u, v).count = u.count + 1
                             /\ writerFunc(u, v).base = u.base
  <1>1. writerFunc(u, v) = Shift(Extend(u), v)
    BY DEF writerFunc
  <1>2. \A y \in Writer :
          /\ Shift(y, v).v0 = y.v1 /\ Shift(y, v).v1 = v
          /\ Shift(y, v).decoded = y.decoded
          /\ Shift(y, v).count = y.count /\ Shift(y, v).base = y.base
    BY DEF Shift, Writer
  <1>3. /\ Extend(u).v1 = u.v1 /\ Extend(u).decoded = u.decoded
        /\ u.count < 1 => Extend(u).count = 1 /\ Extend(u).base = u.v0
        /\ u.count > 0 => Extend(u).count = u.count + 1 /\ Extend(u).base = u.base
    BY DEF Extend, Writer
  <1> QED BY <1>1, <1>2, <1>3, ExtendType

LEMMA ShiftFields ==
    ASSUME NEW u \in Writer, NEW v \in Int64, ~EvenlySpaced(u, v)
    PROVE  /\ writerFunc(u, v).v0 = Break(u).v1 /\ writerFunc(u, v).v1 = v
           /\ writerFunc(u, v).decoded = Break(u).decoded
           /\ writerFunc(u, v).count = Break(u).count
  <1>1. writerFunc(u, v) = Shift(Break(u), v)
    BY DEF writerFunc
  <1>2. \A y \in Writer :
          /\ Shift(y, v).v0 = y.v1 /\ Shift(y, v).v1 = v
          /\ Shift(y, v).decoded = y.decoded /\ Shift(y, v).count = y.count
    BY DEF Shift, Writer
  <1> QED BY <1>1, <1>2, BreakType

LEMMA FillFields ==
    ASSUME NEW u \in Writer, NEW v \in Int64, ~EvenlySpaced(u, v), u.count < -1
    PROVE  /\ writerFunc(u, v).v0 = u.v1 /\ writerFunc(u, v).v1 = v
           /\ writerFunc(u, v).count = u.count + 1
           /\ writerFunc(u, v).decoded = u.decoded
  <1>1. /\ Break(u).v1 = u.v1 /\ Break(u).decoded = u.decoded
        /\ Break(u).count = u.count + 1
    BY DEF Break, Writer
  <1> QED BY <1>1, ShiftFields

LEMMA EmitFields ==
    ASSUME NEW u \in Writer, NEW t
    PROVE  /\ Emit(u, t).v1 = u.v1 /\ Emit(u, t).count = u.count
           /\ Emit(u, t).decoded = u.decoded \o Expand(t)
  BY DEF Emit, Writer

LEMMA SingleFields ==
    ASSUME NEW u \in Writer, NEW v \in Int64, ~EvenlySpaced(u, v), u.count = -1
    PROVE  /\ writerFunc(u, v).v0 = u.v1 /\ writerFunc(u, v).v1 = v
           /\ writerFunc(u, v).count = -1
           /\ writerFunc(u, v).decoded = u.decoded \o <<u.v0>>
  <1>1. Break(u) = Emit(u, Token(u.v0, 0, 0))
    BY DEF Break
  <1>2. u.v0 \in Int
    BY SmallInt64 DEF Writer
  <1>3. Expand(Token(u.v0, 0, 0)) = <<u.v0>>
    BY <1>2 DEF Expand, Token
  <1>4. Break(u).v1 = u.v1 /\ Break(u).count = -1
    BY <1>1, EmitFields
  <1>5. Break(u).decoded = u.decoded \o <<u.v0>>
    BY <1>1, <1>3, EmitFields
  <1> QED BY <1>4, <1>5, ShiftFields

LEMMA RunFields ==
    ASSUME NEW u \in Writer, NEW v \in Int64, ~EvenlySpaced(u, v), u.count > 0
    PROVE  /\ writerFunc(u, v).v0 = MaxInt /\ writerFunc(u, v).v1 = v
           /\ writerFunc(u, v).count = -2
           /\ writerFunc(u, v).decoded = u.decoded
                \o Expand(Token(u.base, Sub(u.v1, u.v0), u.count + 1))
  <1> DEFINE t == Token(u.base, Sub(u.v1, u.v0), u.count + 1)
  <1>1. Break(u) = [Emit(u, t) EXCEPT !.count = -2, !.v1 = MaxInt]
    BY DEF Break, Writer, emitExpanding
  <1>2. \A y \in Writer : LET z == [y EXCEPT !.count = -2, !.v1 = MaxInt]
                          IN z.v1 = MaxInt /\ z.count = -2 /\ z.decoded = y.decoded
    BY DEF Writer
  <1>3. Emit(u, t) \in Writer
    BY EmitExpandingType DEF emitExpanding
  <1> HIDE DEF t
  <1>4. Break(u).v1 = MaxInt /\ Break(u).count = -2
    BY <1>1, <1>2, <1>3
  <1>5. Break(u).decoded = u.decoded \o Expand(t)
    BY <1>1, <1>2, <1>3, EmitFields
  <1> QED BY <1>4, <1>5, ShiftFields DEF t

(* One call of the writer function neither loses nor invents a sample: what *)
(* was decoded and pending, and the new sample, is decoded or pending after. *)
LEMMA Step ==
    ASSUME NEW u \in Writer, Shape(u), NEW v \in Small,
           u.count = -3 => v # -2
    PROVE  /\ Shape(writerFunc(u, v)) /\ writerFunc(u, v).count # -3
           /\ writerFunc(u, v).decoded \o Pending(writerFunc(u, v))
                = Append(u.decoded \o Pending(u), v)
           /\ Len(u.decoded) <= Len(writerFunc(u, v).decoded)
  <1> DEFINE x == writerFunc(u, v)
             d == u.v1 - u.v0
  <1>0. /\ Small \subseteq Int /\ v \in Int64 /\ u.decoded \in Seq(Int)
        /\ u.v0 \in Int /\ u.v1 \in Int /\ u.base \in Int /\ u.count \in Int
        /\ u.count >= -3 /\ u.count # 0 /\ MaxInt \in Int /\ d \in Int /\ v \in Int
    <2>1. /\ u.v0 \in Int64 /\ u.v1 \in Int64 /\ u.base \in Int64
          /\ u.decoded \in Seq(Int)
          /\ u.count \in Int /\ u.count >= -3 /\ u.count # 0
      BY DEF Writer
    <2>2. u.v0 \in Int /\ u.v1 \in Int /\ v \in Int /\ v \in Int64
      BY <2>1, SmallInt64
    <2>3. d \in Int
      BY <2>2
    <2> HIDE DEF d
    <2> QED BY <2>1, <2>2, <2>3, SmallInt64
  <1>1. CASE u.count = -3
    <2>1. ~EvenlySpaced(u, v)
      BY <1>1, Spacing
    <2>2. /\ x.count = -2 /\ x.v0 = MaxInt /\ x.v1 = v
          /\ x.decoded = <<>> /\ u.decoded = <<>>
      BY <1>0, <1>1, <2>1, FillFields DEF Shape
    <2> HIDE DEF x
    <2>3. Pending(x) = <<v>> /\ Pending(u) = <<>>
      BY <1>1, <2>2 DEF Pending
    <2>4. Shape(x)
      BY <2>2 DEF Shape
    <2> QED BY <1>0, <2>2, <2>3, <2>4 DEF x
  <1>2. CASE u.count = -2
    <2>1. ~EvenlySpaced(u, v)
      BY <1>2, Spacing
    <2>2. x.count = -1 /\ x.v0 = u.v1 /\ x.v1 = v /\ x.decoded = u.decoded
      BY <1>0, <1>2, <2>1, FillFields
    <2> HIDE DEF x
    <2>3. Pending(x) = <<u.v1, v>> /\ Pending(u) = <<u.v1>>
      BY <1>2, <2>2 DEF Pending
    <2>4. Shape(x)
      BY <1>2, <2>2 DEF Shape
    <2>5. x.decoded \o Pending(x) = Append(u.decoded \o Pending(u), v)
      <3>1. u.decoded \o <<u.v1, v>> = Append(u.decoded \o <<u.v1>>, v)
        BY <1>0, PairConcat, Zenon
      <3> QED BY <2>2, <2>3, <3>1, Zenon
    <2>6. x.count # -3 /\ Len(u.decoded) <= Len(x.decoded)
      BY <1>0, <2>2
    <2> QED BY <2>4, <2>5, <2>6, Zenon DEF x
  <1>3. CASE u.count = -1 /\ ~EvenlySpaced(u, v)
    <2>1. /\ x.count = -1 /\ x.v0 = u.v1 /\ x.v1 = v
          /\ x.decoded = u.decoded \o <<u.v0>>
      BY <1>0, <1>3, SingleFields
    <2> HIDE DEF x
    <2>2. Pending(x) = <<u.v1, v>> /\ Pending(u) = <<u.v0, u.v1>>
      BY <1>3, <2>1 DEF Pending
    <2>3. Shape(x)
      BY <1>3, <2>1 DEF Shape
    <2>4. x.decoded \o Pending(x) = Append(u.decoded \o Pending(u), v)
      <3>1. (u.decoded \o <<u.v0>>) \o <<u.v1, v>>
              = Append(u.decoded \o <<u.v0, u.v1>>, v)
        <4>1. /\ u.decoded \in Seq(Int)
              /\ u.v0 \in Int /\ u.v1 \in Int /\ v \in Int
          BY <1>0
        <4> QED BY <4>1, ConcatPair, Zenon
      <3> QED BY <2>1, <2>2, <3>1, Zenon
    <2>5. x.count # -3 /\ Len(u.decoded) <= Len(x.decoded)
      BY <1>0, <2>1
    <2> QED BY <2>3, <2>4, <2>5, Zenon DEF x
  <1>4. CASE u.count = -1 /\ EvenlySpaced(u, v)
    <2>0. u.v0 \in Small /\ u.v1 \in Small /\ v - u.v1 = d
      BY <1>0, <1>4, Spacing DEF Shape
    <2>1. /\ x.count = 1 /\ x.base = u.v0 /\ x.v0 = u.v1 /\ x.v1 = v
          /\ x.decoded = u.decoded
      BY <1>0, <1>4, SpacedFields
    <2> HIDE DEF x
    <2>2. Shape(x)
      <3>1. x.v1 = x.base + (x.count + 1) * (x.v1 - x.v0)
        <4>1. v = u.v0 + (1 + 1) * (v - u.v1)
          <5>1. /\ u.v0 \in Int /\ u.v1 \in Int /\ v \in Int
                /\ v - u.v1 = u.v1 - u.v0
            BY <1>0, <2>0
          <5> QED BY <5>1, SpacedSamples, Zenon
        <4> QED BY <2>1, <4>1, Zenon
      <3>2. u.v0 \in Int
        BY <1>0
      <3> QED BY <2>0, <2>1, <3>1, <3>2 DEF Shape
    <2>3. Sub(x.v1, x.v0) = d
      BY <2>0, <2>1, SubSmall
    <2>4. Pending(u) = <<u.v0, u.v1>>
      BY <1>4 DEF Pending
    <2>5. Pending(x) = <<u.v0, u.v1, v>>
      <3>1. Pending(x) = Expand(Token(u.v0, u.v1 - u.v0, 2))
        BY <2>1, <2>3 DEF Pending
      <3> QED BY <1>0, <2>0, <3>1, SpacedSamples
    <2>6. Append(<<u.v0, u.v1>>, v) = <<u.v0, u.v1, v>>
      BY <1>0, <2>0, SpacedSamples
    <2>7. <<u.v0, u.v1>> \in Seq(Int)
      BY <1>0
    <2>8. x.decoded \o Pending(x) = Append(u.decoded \o Pending(u), v)
      <3>1. u.decoded \o Append(<<u.v0, u.v1>>, v)
              = Append(u.decoded \o <<u.v0, u.v1>>, v)
        BY <1>0, <2>7, AppendConcat
      <3> QED BY <2>1, <2>4, <2>5, <2>6, <3>1, Zenon
    <2> QED BY <1>0, <2>1, <2>2, <2>8 DEF x
  <1>5. CASE u.count > 0 /\ EvenlySpaced(u, v)
    <2>0. u.v0 \in Small /\ u.v1 \in Small /\ v - u.v1 = d
      <3>1. u.count > -2 /\ u.count # -3
        BY <1>0, <1>5
      <3>2. u.v1 - u.v0 = v - u.v1
        BY <1>5, <3>1, Spacing
      <3>3. u.v0 \in Small /\ u.v1 \in Small
        BY <3>1 DEF Shape
      <3> QED BY <3>2, <3>3
    <2>1. /\ x.count = u.count + 1 /\ x.base = u.base /\ x.v0 = u.v1
          /\ x.v1 = v /\ x.decoded = u.decoded
      BY <1>0, <1>5, SpacedFields
    <2> HIDE DEF x
    <2>2. v = u.base + ((u.count + 1) + 1) * d
      <3>1. u.v1 = u.base + (u.count + 1) * d
        BY <1>5 DEF Shape
      <3> HIDE DEF d
      <3>2. (u.count + 1) * d + d = ((u.count + 1) + 1) * d
        BY <1>0
      <3>3. v = u.v1 + d
        BY <1>0, <2>0
      <3>4. (u.count + 1) * d \in Int
        BY <1>0
      <3> QED BY <1>0, <3>1, <3>2, <3>3, <3>4
    <2>3. Shape(x)
      <3>1. x.v1 - x.v0 = d
        BY <1>0, <2>0, <2>1
      <3> HIDE DEF d
      <3>2. x.v1 = x.base + (x.count + 1) * (x.v1 - x.v0)
        BY <2>1, <2>2, <3>1
      <3>3. x.count > 0 /\ x.base \in Int /\ x.v0 \in Small /\ x.v1 \in Small
        BY <1>0, <1>5, <2>0, <2>1
      <3> QED BY <3>2, <3>3 DEF Shape
    <2>4. Sub(x.v1, x.v0) = d /\ Sub(u.v1, u.v0) = d
      BY <2>0, <2>1, SubSmall
    <2> HIDE DEF d
    <2>5. u.count + 1 \in Nat
      BY <1>0, <1>5
    <2>6. Pending(u) = Expand(Token(u.base, d, u.count + 1))
      BY <1>5, <2>4 DEF Pending
    <2>7. Pending(x) = Expand(Token(u.base, d, (u.count + 1) + 1))
      BY <1>0, <1>5, <2>1, <2>4 DEF Pending
    <2>8. Pending(x) = Append(Pending(u), v)
      <3>1. Pending(x) = Append(Pending(u), u.base + ((u.count + 1) + 1) * d)
        <4> DEFINE n == u.count + 1
        <4>1. n \in Nat /\ u.base \in Int /\ d \in Int
          BY <1>0, <2>5
        <4>2. Pending(u) = Expand(Token(u.base, d, n))
          BY <2>6
        <4>3. Pending(x) = Expand(Token(u.base, d, n + 1))
          BY <2>7
        <4> HIDE DEF n
        <4>4. Expand(Token(u.base, d, n + 1))
                = Append(Expand(Token(u.base, d, n)), u.base + (n + 1) * d)
          BY <4>1, ExpandAppend
        <4> QED BY <4>2, <4>3, <4>4, Zenon DEF n
      <3> QED BY <2>2, <3>1
    <2>9. Pending(u) \in Seq(Int)
      <3>1. u.base \in Int /\ d \in Int
        BY <1>0
      <3>2. Expand(Token(u.base, d, u.count + 1)) \in Seq(Int)
        BY <2>5, <3>1, ExpandType, Zenon
      <3> QED BY <2>6, <3>2, Zenon
    <2>10. x.decoded \o Pending(x) = Append(u.decoded \o Pending(u), v)
      <3>1. u.decoded \o Append(Pending(u), v) = Append(u.decoded \o Pending(u), v)
        BY <1>0, <2>9, AppendConcat, Zenon
      <3> QED BY <2>1, <2>8, <3>1, Zenon
    <2>11. x.count # -3 /\ Len(u.decoded) <= Len(x.decoded)
      BY <1>0, <1>5, <2>1
    <2> QED BY <2>3, <2>10, <2>11, Zenon DEF x
  <1>6. CASE u.count > 0 /\ ~EvenlySpaced(u, v)
    <2> DEFINE e == Expand(Token(u.base, Sub(u.v1, u.v0), u.count + 1))
    <2>1. /\ x.count = -2 /\ x.v0 = MaxInt /\ x.v1 = v
          /\ x.decoded = u.decoded \o e
      BY <1>0, <1>6, RunFields
    <2>2. e \in Seq(Int)
      BY <1>6, EmitExpandingType
    <2> HIDE DEF x
    <2>3. Pending(u) = e /\ Pending(x) = <<v>>
      BY <1>6, <2>1 DEF Pending
    <2>4. Shape(x)
      BY <2>1 DEF Shape
    <2> HIDE DEF e
    <2>5. Len(u.decoded) <= Len(u.decoded \o e)
      BY <1>0, <2>2
    <2>6. x.decoded \o Pending(x) = Append(u.decoded \o Pending(u), v)
      <3>1. u.decoded \o e \in Seq(Int)
        BY <1>0, <2>2
      <3>2. (u.decoded \o e) \o <<v>> = Append(u.decoded \o e, v)
        BY <1>0, <3>1, AppendIsConcat, Zenon
      <3> QED BY <2>1, <2>3, <3>2, Zenon
    <2>7. x.count # -3 /\ Len(u.decoded) <= Len(x.decoded)
      BY <2>1, <2>5
    <2> QED BY <2>4, <2>6, <2>7, Zenon DEF x
  <1>7. \/ u.count = -3 \/ u.count = -2 \/ u.count = -1 \/ u.count > 0
    BY <1>0
  <1> HIDE DEF x, d
  <1> QED BY <1>1, <1>2, <1>3, <1>4, <1>5, <1>6, <1>7, Zenon DEF x

-----------------------------------------------------------------------------
(* Close.                                                                   *)

(* Its first sentinel continues no run. Its second is even with the first   *)
(* exactly when the sample before them is 0.                                *)
LEMMA MinIntSpacing ==
    ASSUME NEW u \in Writer, Shape(u)
    PROVE  ~EvenlySpaced(u, MinInt)
  <1>1. CASE u.count = -3
    <2>1. u.v0 = 0 /\ u.v1 = MaxInt
      BY <1>1 DEF Shape
    <2> QED BY <2>1, ValuesAssumption DEF EvenlySpaced, Sub, MinInt
  <1>2. CASE u.count = -2
    <2>1. u.v0 = MaxInt /\ u.v1 \in Small
      BY <1>2 DEF Shape
    <2> QED BY <2>1, ValuesAssumption DEF EvenlySpaced, Sub, Small, MinInt
  <1>3. CASE u.count > -2
    <2>1. u.v0 \in Small /\ u.v1 \in Small
      BY <1>3 DEF Shape, Writer
    <2>2. Sub(u.v1, u.v0) = u.v1 - u.v0
      BY <2>1, SubSmall
    <2> QED BY <2>1, <2>2, ValuesAssumption DEF EvenlySpaced, Sub, Small, MinInt
  <1> QED BY <1>1, <1>2, <1>3 DEF Writer

LEMMA ZeroSpacing ==
    ASSUME NEW u \in Writer, u.v1 = MinInt
    PROVE  /\ u.v0 = MaxInt => ~EvenlySpaced(u, 0)
           /\ u.v0 \in Small => (EvenlySpaced(u, 0) <=> u.v0 = 0)
  BY ValuesAssumption DEF EvenlySpaced, Sub, Small, MinInt

(* Close prints what is pending, or all of it but a last sample 0.          *)
LEMMA CloseStep ==
    ASSUME NEW u \in Writer, Shape(u)
    PROVE  LET z == writerFunc(writerFunc(u, MinInt), 0).decoded
           IN u.decoded \o Pending(u) = z \/ u.decoded \o Pending(u) = Append(z, 0)
  <1> DEFINE m == writerFunc(u, MinInt)
             z == writerFunc(m, 0)
             s == u.decoded
  <1>0. /\ MinInt \in Int64 /\ 0 \in Int64 /\ m \in Writer /\ s \in Seq(Int)
        /\ u.v0 \in Int64 /\ u.v1 \in Int64 /\ Int64 \subseteq Int
        /\ u.count \in Int /\ u.count >= -3 /\ u.count # 0
    <2>1. m \in Writer
      BY SmallInt64, WriterType
    <2> QED BY <2>1, SmallInt64 DEF Writer
  <1>1. ~EvenlySpaced(u, MinInt)
    BY MinIntSpacing
  <1>2. CASE u.count = -3
    <2>1. m.v0 = MaxInt /\ m.v1 = MinInt /\ m.count = -2 /\ m.decoded = s
      BY <1>0, <1>1, <1>2, FillFields DEF Shape
    <2> HIDE DEF m
    <2>2. z.decoded = s
      BY <1>0, <2>1, ZeroSpacing, FillFields
    <2>3. Pending(u) = <<>> /\ s \o <<>> = s
      BY <1>0, <1>2 DEF Pending
    <2> HIDE DEF z, s
    <2> QED BY <2>2, <2>3 DEF m, z, s
  <1>3. CASE u.count = -2
    <2>1. m.v0 = u.v1 /\ m.v1 = MinInt /\ m.count = -1 /\ m.decoded = s
      BY <1>0, <1>1, <1>3, FillFields
    <2>2. u.v1 \in Small
      BY <1>3 DEF Shape
    <2> HIDE DEF m
    <2>3. Pending(u) = <<u.v1>>
      BY <1>3 DEF Pending
    <2>4. CASE u.v1 = 0
      <3>1. z.decoded = s
        BY <1>0, <2>1, <2>2, <2>4, ZeroSpacing, SpacedFields
      <3>2. s \o <<0>> = Append(s, 0)
        BY <1>0, AppendIsConcat
      <3> QED BY <2>3, <2>4, <3>1, <3>2, Zenon DEF m, z, s
    <2>5. CASE u.v1 # 0
      <3>1. z.decoded = s \o <<u.v1>>
        <4>1. ~EvenlySpaced(m, 0)
          BY <1>0, <2>1, <2>2, <2>5, ZeroSpacing
        <4>2. m.count = -1 /\ m.v0 = u.v1 /\ m.decoded = s /\ m \in Writer
          BY <1>0, <2>1
        <4> QED BY <1>0, <4>1, <4>2, SingleFields
      <3> QED BY <2>3, <3>1, Zenon DEF m, z, s
    <2> QED BY <2>4, <2>5
  <1>4. CASE u.count = -1
    <2>1. /\ m.v0 = u.v1 /\ m.v1 = MinInt /\ m.count = -1
          /\ m.decoded = s \o <<u.v0>>
      BY <1>0, <1>1, <1>4, SingleFields
    <2>2. u.v1 \in Small
      BY <1>4 DEF Shape
    <2> HIDE DEF m
    <2>3. Pending(u) = <<u.v0, u.v1>>
      BY <1>4 DEF Pending
    <2>4. CASE u.v1 = 0
      <3>1. z.decoded = s \o <<u.v0>>
        BY <1>0, <2>1, <2>2, <2>4, ZeroSpacing, SpacedFields
      <3>2. s \o <<u.v0, 0>> = Append(s \o <<u.v0>>, 0)
        BY <1>0, PairConcat
      <3> QED BY <2>3, <2>4, <3>1, <3>2, Zenon DEF m, z, s
    <2>5. CASE u.v1 # 0
      <3>1. z.decoded = (s \o <<u.v0>>) \o <<u.v1>>
        <4>1. z.decoded = m.decoded \o <<m.v0>>
          BY <1>0, <2>1, <2>2, <2>5, ZeroSpacing, SingleFields
        <4> QED BY <2>1, <4>1, Zenon
      <3>2. s \o <<u.v0>> \in Seq(Int)
        <4>1. u.v0 \in Int
          BY <1>0
        <4>2. <<u.v0>> \in Seq(Int)
          BY <4>1
        <4> QED BY <1>0, <4>2, ConcatProperties
      <3>3. (s \o <<u.v0>>) \o <<u.v1>> = Append(s \o <<u.v0>>, u.v1)
        BY <1>0, <3>2, AppendIsConcat
      <3>4. s \o <<u.v0, u.v1>> = Append(s \o <<u.v0>>, u.v1)
        BY <1>0, PairConcat
      <3> QED BY <2>3, <3>1, <3>3, <3>4, Zenon DEF m, z, s
    <2> QED BY <2>4, <2>5
  <1>5. CASE u.count > 0
    <2> DEFINE e == Expand(Token(u.base, Sub(u.v1, u.v0), u.count + 1))
    <2>1. m.v0 = MaxInt /\ m.v1 = MinInt /\ m.count = -2 /\ m.decoded = s \o e
      BY <1>0, <1>1, <1>5, RunFields
    <2> HIDE DEF m, e
    <2>2. z.decoded = s \o e
      <3>1. ~EvenlySpaced(m, 0) /\ m.count < -1
        BY <1>0, <2>1, ZeroSpacing
      <3>2. z.decoded = m.decoded
        BY <1>0, <3>1, FillFields
      <3> QED BY <2>1, <3>2, Zenon
    <2>3. Pending(u) = e
      BY <1>5 DEF Pending, e
    <2> QED BY <2>2, <2>3, Zenon DEF m, z, s
  <1>6. \/ u.count = -3 \/ u.count = -2 \/ u.count = -1 \/ u.count > 0
    BY <1>0
  <1> HIDE DEF m, z, s
  <1> QED BY <1>2, <1>3, <1>4, <1>5, <1>6, Zenon

-----------------------------------------------------------------------------
(* The invariant behind losslessness: until Close the fields have their     *)
(* shape and what was written is decoded or pending; and the writer is      *)
(* fresh exactly when nothing was written.                                  *)
IInv ==
    /\ TypeOK
    /\ ~closed => (w.count = -3 <=> written = <<>>)
    /\ ~closed /\ FirstIsRead =>
         Shape(w) /\ written = w.decoded \o Pending(w)
    /\ Lossless

LEMMA InitIInv == Init => IInv
  <1> SUFFICES ASSUME Init PROVE IInv
    OBVIOUS
  <1>1. TypeOK
    BY TypeInit
  <1>2. w.count = -3 /\ w.v0 = 0 /\ w.v1 = MaxInt /\ w.decoded = <<>>
    BY DEF Init, newCompressingSeriesWriter
  <1>3. Pending(w) = <<>> /\ written = <<>> /\ ~closed
    BY <1>2 DEF Pending, Init
  <1>4. Shape(w)
    BY <1>2 DEF Shape
  <1>5. <<>> \o <<>> = <<>>
    OBVIOUS
  <1> QED BY <1>1, <1>2, <1>3, <1>4, <1>5 DEF IInv, Lossless

(* The part of a Write step that both theorems below use.                   *)
LEMMA WriteStep ==
    ASSUME IInv, NEW v \in Values, Write(v)
    PROVE  /\ IInv'
           /\ FirstIsRead' => Len(w.decoded) <= Len(w'.decoded)
  <1>1. /\ w \in Writer /\ w' = writerFunc(w, v) /\ ~closed /\ ~closed'
        /\ written \in Seq(Values) /\ written' = Append(written, v)
        /\ v \in Small /\ v \in Int64
    BY SmallInt64 DEF IInv, TypeOK, Write
  <1>2. TypeOK'
    BY <1>1, WriterType DEF TypeOK, Write, IInv
  <1>3. w'.count # -3
    <2>0. w.count \in Int /\ w.count >= -3 /\ w.count # 0
      BY <1>1 DEF Writer
    <2>1. CASE EvenlySpaced(w, v)
      <3>1. /\ w.count < 1 => w'.count = 1
            /\ w.count > 0 => w'.count = w.count + 1
        BY <1>1, <2>1, SpacedFields
      <3> QED BY <2>0, <3>1
    <2>2. CASE ~EvenlySpaced(w, v) /\ w.count < -1
      <3>1. w'.count = w.count + 1
        BY <1>1, <2>2, FillFields
      <3> QED BY <2>0, <3>1
    <2>3. CASE ~EvenlySpaced(w, v) /\ w.count = -1
      <3>1. w'.count = -1
        BY <1>1, <2>3, SingleFields
      <3> QED BY <3>1
    <2>4. CASE ~EvenlySpaced(w, v) /\ w.count > 0
      <3>1. w'.count = -2
        BY <1>1, <2>4, RunFields
      <3> QED BY <3>1
    <2> QED BY <2>0, <2>1, <2>2, <2>3, <2>4
  <1>4. ASSUME FirstIsRead'
        PROVE  /\ Shape(w') /\ written' = w'.decoded \o Pending(w')
               /\ Len(w.decoded) <= Len(w'.decoded)
    <2>1. written'[1] = IF written = <<>> THEN v ELSE written[1]
      BY <1>1
    <2>2. FirstIsRead /\ (w.count = -3 => v # -2)
      BY <1>1, <1>3, <1>4, <2>1 DEF FirstIsRead, IInv
    <2>3. Shape(w) /\ written = w.decoded \o Pending(w)
      BY <1>1, <2>2 DEF IInv
    <2> QED BY <1>1, <2>2, <2>3, Step
  <1>5. Lossless'
    BY <1>1, <1>4 DEF Lossless
  <1>6. written' # <<>>
    BY <1>1, AppendProperties
  <1> QED BY <1>1, <1>2, <1>3, <1>4, <1>5, <1>6 DEF IInv

LEMMA NextIInv == IInv /\ [Next]_vars => IInv'
  <1> SUFFICES ASSUME IInv, [Next]_vars PROVE IInv'
    OBVIOUS
  <1>1. ASSUME NEW v \in Values, Write(v) PROVE IInv'
    BY <1>1, WriteStep
  <1>2. CASE Close
    <2>1. TypeOK'
      BY <1>2, TypeNext DEF IInv, Next
    <2>2. closed' /\ ~closed /\ written' = written /\ w \in Writer
      BY <1>2 DEF Close, IInv, TypeOK
    <2>3. ASSUME FirstIsRead'
          PROVE  written' = w'.decoded \/ written' = Append(w'.decoded, 0)
      <3>1. Shape(w) /\ written = w.decoded \o Pending(w)
        BY <2>2, <2>3 DEF FirstIsRead, IInv
      <3>2. w' = writerFunc(writerFunc(w, MinInt), 0)
        BY <1>2 DEF Close
      <3> QED BY <2>2, <3>1, <3>2, CloseStep
    <2>4. Lossless'
      BY <2>2, <2>3 DEF Lossless
    <2> QED BY <2>1, <2>2, <2>4 DEF IInv
  <1>3. CASE UNCHANGED vars
    BY <1>3, TypeNext DEF vars, IInv, FirstIsRead, Lossless
  <1> QED BY <1>1, <1>2, <1>3 DEF Next

(* No sample is lost, invented or reordered, but for a last 0 at Close.     *)
THEOREM LosslessCorrect == Spec => []Lossless
  <1>1. IInv => Lossless
    BY DEF IInv
  <1> QED BY <1>1, InitIInv, NextIInv, PTL DEF Spec

-----------------------------------------------------------------------------
(* The writer implements SampleStream.                                      *)

LEMMA PendingType ==
    ASSUME NEW u \in Writer
    PROVE  Pending(u) \in Seq(Int)
  <1>0. /\ u.v0 \in Int /\ u.v1 \in Int
        /\ u.count \in Int /\ u.count >= -3 /\ u.count # 0
    BY SmallInt64 DEF Writer
  <1>1. CASE u.count = -3
    BY <1>1 DEF Pending
  <1>2. CASE u.count = -2
    <2>1. Pending(u) = <<u.v1>>
      BY <1>2 DEF Pending
    <2> QED BY <1>0, <2>1
  <1>3. CASE u.count = -1
    <2>1. Pending(u) = <<u.v0, u.v1>>
      BY <1>3 DEF Pending
    <2> QED BY <1>0, <2>1
  <1>4. CASE u.count > 0
    BY <1>4, EmitExpandingType DEF Pending
  <1> QED BY <1>0, <1>1, <1>2, <1>3, <1>4

LEMMA PrefixOfConcat ==
    ASSUME NEW s \in Seq(Int), NEW t \in Seq(Int)
    PROVE  /\ Len(s) <= Len(s \o t) /\ Len(s) \in Nat /\ Len(s \o t) \in Nat
           /\ SubSeq(s \o t, 1, Len(s)) = s
  <1>1. s \o t \in Seq(Int) /\ Len(s \o t) = Len(s) + Len(t)
    BY ConcatProperties
  <1>2. CASE Len(s) = 0
    <2>1. s = <<>>
      BY <1>2, EmptySeq
    <2>2. SubSeq(s \o t, 1, 0) = <<>>
      BY SubSeqEmpty
    <2> QED BY <1>1, <1>2, <2>1, <2>2
  <1>3. CASE Len(s) # 0
    <2>1. 1 \in 1..Len(s) /\ Len(s) \in 1..Len(s)
      BY <1>3, LenProperties
    <2>2. SubSeq(s \o t, 1, Len(s)) = SubSeq(s, 1, Len(s))
      BY <2>1, SubSeqOfConcat1
    <2> QED BY <1>1, <2>2, SubSeqFull
  <1> QED BY <1>2, <1>3

(* Every step of the writer on samples other than -2 is a step of           *)
(* SampleStream.                                                            *)
THEOREM StreamImplemented ==
    ASSUME -2 \notin Values
    PROVE  Spec => ImplementsStream
  <1>1. Init => Stream!StreamInit
    BY DEF Init, newCompressingSeriesWriter, Stream!StreamInit
  <1>2. IInv /\ [Next]_vars => [Stream!StreamNext]_(Stream!streamVars)
    <2> SUFFICES ASSUME IInv, [Next]_vars
                 PROVE  [Stream!StreamNext]_(Stream!streamVars)
      OBVIOUS
    <2>1. ASSUME NEW v \in Values, Write(v) PROVE Stream!Write(v)
      <3>1. IInv' /\ (FirstIsRead' => Len(w.decoded) <= Len(w'.decoded))
        BY <2>1, WriteStep
      <3>2. /\ written' = Append(written, v) /\ ~closed /\ closed' = closed
            /\ w \in Writer /\ w' \in Writer
            /\ written \in Seq(Values) /\ written' \in Seq(Values)
        BY <2>1, <3>1 DEF Write, IInv, TypeOK
      <3>3. FirstIsRead'
        BY <3>2 DEF FirstIsRead
      <3>4. written' = w'.decoded \o Pending(w')
        BY <3>1, <3>2, <3>3 DEF IInv
      <3>5. w.decoded \in Seq(Int) /\ w'.decoded \in Seq(Int)
        BY <3>2 DEF Writer
      <3>6. Pending(w') \in Seq(Int)
        BY <3>2, PendingType
      <3>7. /\ Len(w'.decoded) <= Len(written')
            /\ SubSeq(written', 1, Len(w'.decoded)) = w'.decoded
            /\ Len(w'.decoded) \in Nat /\ Len(written') \in Nat
        BY <3>4, <3>5, <3>6, PrefixOfConcat
      <3>8. Len(w'.decoded) \in Len(w.decoded)..Len(written')
        <4>1. Len(w.decoded) \in Nat
          BY <3>5
        <4> QED BY <3>1, <3>3, <3>7, <4>1
      <3> QED BY <3>2, <3>7, <3>8 DEF Stream!Write
    <2>2. CASE Close
      <3>1. closed' /\ ~closed /\ written' = written
        BY <2>2 DEF Close
      <3>2. FirstIsRead
        BY DEF FirstIsRead, IInv, TypeOK
      <3>3. Lossless'
        BY NextIInv DEF IInv
      <3>4. written = w'.decoded \/ written = Append(w'.decoded, 0)
        BY <3>1, <3>2, <3>3 DEF Lossless, FirstIsRead
      <3>5. closed' = TRUE
        BY <2>2 DEF Close
      <3> QED BY <3>1, <3>4, <3>5 DEF Stream!StreamNext, Stream!Close
    <2>3. CASE UNCHANGED vars
      BY <2>3 DEF vars, Stream!streamVars
    <2> QED BY <2>1, <2>2, <2>3 DEF Next, Stream!StreamNext
  <1> QED
    BY <1>1, <1>2, InitIInv, NextIInv, PTL
      DEF Spec, ImplementsStream, Stream!StreamSpec

-----------------------------------------------------------------------------
(* Greed. The token t may follow the tokens s when it has not two samples,  *)
(* does not continue a run at their end, and makes no third evenly spaced   *)
(* sample after two printed one by one.                                     *)
Fits(s, t) ==
    /\ t.repeat # 1
    /\ Len(s) > 0 /\ s[Len(s)].repeat > 0 =>
         t.base # s[Len(s)].base + (s[Len(s)].repeat + 1) * s[Len(s)].step
    /\ Len(s) > 1 /\ s[Len(s) - 1].repeat = 0 /\ s[Len(s)].repeat = 0 /\ t.repeat = 0 =>
         s[Len(s)].base - s[Len(s) - 1].base # t.base - s[Len(s)].base

Single(a) == Token(a, 0, 0)

Run(u) == Token(u.base, Sub(u.v1, u.v0), u.count + 1)

AllFit(s) ==
    \A n \in 1..Len(s) :
      /\ s[n].repeat # 1
      /\ n + 1 <= Len(s) /\ s[n].repeat > 0 =>
           s[n + 1].base # s[n].base + (s[n].repeat + 1) * s[n].step
      /\ n + 2 <= Len(s) /\ s[n].repeat = 0 /\ s[n + 1].repeat = 0 /\ s[n + 2].repeat = 0 =>
           s[n + 1].base - s[n].base # s[n + 2].base - s[n + 1].base

LEMMA FitAppend ==
    ASSUME NEW s \in Seq(Tokens), NEW t \in Tokens, AllFit(s), Fits(s, t)
    PROVE  AllFit(Append(s, t))
  <1> DEFINE a == Append(s, t)
  <1>1. /\ Len(s) \in Nat /\ Len(a) = Len(s) + 1 /\ a[Len(s) + 1] = t
        /\ \A m \in 1..Len(s) : a[m] = s[m]
    BY AppendProperties
  <1> HIDE DEF a
  <1>2. ASSUME NEW n \in 1..Len(a)
        PROVE  /\ a[n].repeat # 1
               /\ n + 1 <= Len(a) /\ a[n].repeat > 0 =>
                    a[n + 1].base # a[n].base + (a[n].repeat + 1) * a[n].step
               /\ n + 2 <= Len(a) /\ a[n].repeat = 0 /\ a[n + 1].repeat = 0 /\ a[n + 2].repeat = 0 =>
                    a[n + 1].base - a[n].base # a[n + 2].base - a[n + 1].base
    <2>1. CASE n = Len(s) + 1
      BY <1>1, <2>1 DEF Fits
    <2>2. CASE n = Len(s)
      <3>1. a[n] = s[Len(s)] /\ a[n + 1] = t /\ n \in 1..Len(s)
        BY <1>1, <1>2, <2>2
      <3> QED BY <1>1, <2>2, <3>1 DEF Fits, AllFit
    <2>3. CASE n = Len(s) - 1
      <3>1. /\ a[n] = s[Len(s) - 1] /\ a[n + 1] = s[Len(s)] /\ a[n + 2] = t
            /\ n \in 1..Len(s) /\ a[n] = s[n] /\ a[n + 1] = s[n + 1] /\ n + 1 <= Len(s)
        BY <1>1, <1>2, <2>3
      <3>2. a[n].repeat # 1 /\ (a[n].repeat > 0 => a[n + 1].base # a[n].base + (a[n].repeat + 1) * a[n].step)
        BY <3>1 DEF AllFit
      <3>3. Len(s) > 1
        BY <1>1, <1>2, <2>3
      <3> QED BY <3>1, <3>2, <3>3 DEF Fits
    <2>4. CASE n + 2 <= Len(s)
      <3>1. a[n] = s[n] /\ a[n + 1] = s[n + 1] /\ a[n + 2] = s[n + 2] /\ n \in 1..Len(s) /\ n + 1 <= Len(s)
        BY <1>1, <1>2, <2>4
      <3> QED BY <2>4, <3>1 DEF AllFit
    <2> QED BY <1>1, <2>1, <2>2, <2>3, <2>4
  <1>3. AllFit(a)
    BY <1>2 DEF AllFit
  <1> QED BY <1>3 DEF a

(* Tokens that fit are what Greedy asks of the output.                      *)
LEMMA GreedyMeans == TypeOK => (AllFit(w.out) => Greedy)
  <1> SUFFICES ASSUME TypeOK, AllFit(w.out), NEW n \in DOMAIN w.out
               PROVE  LET Only(m) == m \in DOMAIN w.out /\ w.out[m].repeat = 0
                          t == w.out[n]
                      IN /\ t.repeat # 1
                         /\ Only(n) /\ Only(n + 1) /\ Only(n + 2) =>
                              w.out[n + 1].base - t.base # w.out[n + 2].base - w.out[n + 1].base
                         /\ t.repeat > 0 /\ n + 1 \in DOMAIN w.out =>
                              w.out[n + 1].base # t.base + (t.repeat + 1) * t.step
    BY DEF Greedy
  <1>1. w.out \in Seq(Tokens) /\ DOMAIN w.out = 1..Len(w.out)
    BY DEF TypeOK, Writer, Tokens
  <1> QED BY <1>1 DEF AllFit

(* What one call adds to the output: a sample, a run, or nothing.           *)
LEMMA OutFields ==
    ASSUME NEW u \in Writer, NEW v \in Int64
    PROVE  writerFunc(u, v).out =
             IF EvenlySpaced(u, v) \/ u.count < -1 THEN u.out
             ELSE IF u.count = -1 THEN Append(u.out, Single(u.v0))
             ELSE Append(u.out, Run(u))
  <1>0. \A y \in Writer : Shift(y, v).out = y.out
    BY DEF Shift, Writer
  <1>1. CASE EvenlySpaced(u, v)
    <2>1. Extend(u).out = u.out
      BY DEF Extend, Writer
    <2> QED BY <1>0, <1>1, <2>1, ExtendType DEF writerFunc
  <1>2. CASE ~EvenlySpaced(u, v)
    <2>0. writerFunc(u, v).out = Break(u).out
      BY <1>0, <1>2, BreakType DEF writerFunc
    <2>1. CASE u.count < -1
      <3>1. Break(u).out = u.out
        BY <2>1 DEF Break, Writer
      <3> QED BY <1>2, <2>0, <2>1, <3>1
    <2>2. CASE u.count = -1
      <3>1. Break(u) = Emit(u, Single(u.v0))
        BY <2>2 DEF Break, Single
      <3>2. Emit(u, Single(u.v0)).out = Append(u.out, Single(u.v0))
        BY DEF Emit, Writer
      <3> QED BY <1>2, <2>0, <2>2, <3>1, <3>2
    <2>3. CASE u.count > 0
      <3>1. Break(u) = [Emit(u, Run(u)) EXCEPT !.count = -2, !.v1 = MaxInt]
        BY <2>3 DEF Break, Writer, emitExpanding, Run
      <3>2. \A y \in Writer : [y EXCEPT !.count = -2, !.v1 = MaxInt].out = y.out
        BY DEF Writer
      <3>3. Emit(u, Run(u)) \in Writer
        BY <2>3, EmitExpandingType DEF emitExpanding, Run
      <3>4. Emit(u, Run(u)).out = Append(u.out, Run(u))
        BY DEF Emit, Writer
      <3>5. Break(u).out = Append(u.out, Run(u))
        BY <3>1, <3>2, <3>3, <3>4
      <3>6. ~(u.count < -1) /\ u.count # -1
        BY <2>3 DEF Writer
      <3> QED BY <1>2, <2>0, <3>5, <3>6
    <2> QED BY <2>1, <2>2, <2>3 DEF Writer
  <1> QED BY <1>1, <1>2

(* What the writer holds back fits its output, sample by sample or as the   *)
(* run it is so far; a sample alone in the history follows a run.           *)
HeldFits(u) ==
    /\ AllFit(u.out)
    /\ u.count = -3 => u.out = <<>>
    /\ u.count = -2 => (u.out = <<>> \/ u.out[Len(u.out)].repeat > 0) /\ Fits(u.out, Single(u.v1))
    /\ u.count = -1 => Fits(u.out, Single(u.v0)) /\ Fits(Append(u.out, Single(u.v0)), Single(u.v1))
    /\ u.count > 0 => Fits(u.out, Run(u))

(* A run fits where a sample or a run that starts alike does.               *)
LEMMA FitsLonger ==
    ASSUME NEW s \in Seq(Tokens), NEW t \in Tokens, NEW r \in Tokens,
           Fits(s, t), r.base = t.base, r.repeat > 1
    PROVE  Fits(s, r)
  <1>1. r.repeat # 0 /\ r.repeat # 1
    BY DEF Tokens
  <1> QED BY <1>1 DEF Fits

(* Whatever follows no token at all, or one, is not the third in a row.     *)
LEMMA FitsFirst ==
    ASSUME NEW a \in Int64
    PROVE  Fits(<<>>, Single(a))
  <1>1. Len(<<>>) = 0
    OBVIOUS
  <1> QED BY <1>1 DEF Fits, Single, Token

LEMMA FitsSingle ==
    ASSUME NEW s \in Seq(Tokens), NEW a \in Int64, NEW b \in Int64,
           \/ s = <<>>
           \/ s[Len(s)].repeat > 0
           \/ s[Len(s)].base - a # a - b /\ s[Len(s)].base \in Int
    PROVE  Fits(Append(s, Single(a)), Single(b))
  <1> DEFINE r == Append(s, Single(a))
  <1>1. /\ Single(a).repeat = 0 /\ Single(b).repeat = 0 /\ Single(a).base = a /\ Single(b).base = b
        /\ Single(a) \in Tokens /\ a \in Int /\ b \in Int
    BY SmallInt64 DEF Single, Token, Tokens
  <1>2. /\ Len(s) \in Nat /\ Len(r) = Len(s) + 1 /\ r[Len(s) + 1] = Single(a)
        /\ Len(s) > 0 => r[Len(s)] = s[Len(s)]
    BY <1>1, AppendProperties
  <1>3. s = <<>> => Len(s) = 0
    OBVIOUS
  <1> HIDE DEF r
  <1>4. Fits(r, Single(b))
    BY <1>1, <1>2, <1>3 DEF Fits
  <1> QED BY <1>4 DEF r

LEMMA RunType ==
    ASSUME NEW u \in Writer, u.count > 0
    PROVE  Run(u) \in Tokens /\ Run(u).base = u.base /\ Run(u).repeat = u.count + 1
  <1>1. u.base \in Int64 /\ Sub(u.v1, u.v0) \in Int64 /\ u.count + 1 \in Nat
    BY SubType DEF Writer
  <1> QED BY <1>1 DEF Run, Token, Tokens

(* What does not continue a run fits after it.                              *)
LEMMA FitsRun ==
    ASSUME NEW u \in Writer, Shape(u), u.count > 0, NEW v \in Small, ~EvenlySpaced(u, v)
    PROVE  Fits(Append(u.out, Run(u)), Single(v))
  <1> DEFINE r == Append(u.out, Run(u))
             d == u.v1 - u.v0
  <1>1. /\ u.v1 \in Small /\ u.v0 \in Small /\ u.v1 \in Int /\ u.v0 \in Int /\ v \in Int
        /\ u.base \in Int /\ u.count \in Nat
        /\ u.v1 = u.base + (u.count + 1) * d /\ d # v - u.v1
    <2>1. u.v1 \in Small /\ u.v0 \in Small /\ u.base \in Int /\ u.v1 = u.base + (u.count + 1) * d
      BY DEF Shape, Writer
    <2>2. u.count \in Nat /\ u.count > -2
      BY DEF Writer
    <2>3. d # v - u.v1
      BY <2>2, Spacing
    <2> HIDE DEF d
    <2> QED BY <2>1, <2>2, <2>3, SmallInt64
  <1>2. Run(u).step = d
    <2>1. Sub(u.v1, u.v0) = d
      BY <1>1, SubSmall
    <2> QED BY <2>1 DEF Run, Token
  <1>3. d \in Int
    BY <1>1
  <1> HIDE DEF d
  <1>4. v # u.base + (u.count + 1 + 1) * d
    <2>1. (u.count + 1 + 1) * d = (u.count + 1) * d + d
      BY <1>1, <1>3
    <2> QED BY <1>1, <1>3, <2>1
  <1>5. /\ u.out \in Seq(Tokens) /\ Run(u) \in Tokens
        /\ Run(u).base = u.base /\ Run(u).repeat = u.count + 1
    BY RunType DEF Writer, Tokens
  <1>6. /\ Len(u.out) \in Nat /\ Len(r) = Len(u.out) + 1 /\ r[Len(u.out) + 1] = Run(u)
    BY <1>5, AppendProperties
  <1>7. Single(v).base = v /\ Single(v).repeat = 0
    BY DEF Single, Token
  <1> HIDE DEF r
  <1>8. r[Len(r)] = Run(u) /\ r[Len(r)].repeat = u.count + 1 /\ u.count + 1 > 0
    BY <1>1, <1>5, <1>6
  <1>9. Fits(r, Single(v))
    BY <1>1, <1>2, <1>4, <1>5, <1>7, <1>8 DEF Fits
  <1> QED BY <1>9 DEF r

(* One call of the writer function keeps all of this.                       *)
LEMMA HeldStep ==
    ASSUME NEW u \in Writer, Shape(u), HeldFits(u), NEW v \in Small,
           u.count = -3 => v # -2
    PROVE  HeldFits(writerFunc(u, v))
  <1> DEFINE x == writerFunc(u, v)
             s == u.out
  <1>0. /\ v \in Int64 /\ v \in Int /\ u.v0 \in Int64 /\ u.v1 \in Int64 /\ s \in Seq(Tokens)
        /\ u.v0 \in Int /\ u.v1 \in Int /\ Len(s) \in Nat
        /\ u.count \in Int /\ u.count >= -3 /\ u.count # 0 /\ x \in Writer
        /\ \A a \in Int64 : Single(a) \in Tokens /\ Single(a).repeat = 0 /\ Single(a).base = a
    <2>1. x \in Writer
      BY SmallInt64, WriterType
    <2>2. \A a \in Int64 : Single(a) \in Tokens /\ Single(a).repeat = 0 /\ Single(a).base = a
      BY SmallInt64 DEF Tokens, Single, Token
    <2>3. /\ u.v0 \in Int64 /\ u.v1 \in Int64 /\ s \in Seq(Tokens)
          /\ u.count \in Int /\ u.count >= -3 /\ u.count # 0
      BY DEF Writer, Tokens
    <2> HIDE DEF x, s
    <2>4. Len(s) \in Nat
      BY <2>3
    <2>5. v \in Int64 /\ v \in Int /\ u.v0 \in Int /\ u.v1 \in Int
      BY <2>3, SmallInt64
    <2> QED BY <2>1, <2>2, <2>3, <2>4, <2>5
  <1>1. CASE u.count = -3
    <2>1. ~EvenlySpaced(u, v)
      BY <1>1, Spacing
    <2>2. x.count = -2 /\ x.v1 = v /\ x.out = <<>>
      BY <1>0, <1>1, <2>1, FillFields, OutFields DEF HeldFits
    <2> HIDE DEF x
    <2>3. AllFit(x.out)
      BY <2>2 DEF AllFit
    <2>9. HeldFits(x)
      BY <1>0, <2>2, <2>3, FitsFirst DEF HeldFits
    <2> QED BY <2>9, Zenon DEF x
  <1>2. CASE u.count = -2
    <2>1. ~EvenlySpaced(u, v)
      BY <1>2, Spacing
    <2>2. x.count = -1 /\ x.v0 = u.v1 /\ x.v1 = v /\ x.out = s
      BY <1>0, <1>2, <2>1, FillFields, OutFields
    <2>3. Fits(s, Single(u.v1)) /\ AllFit(s)
      BY <1>2 DEF HeldFits
    <2>4. Fits(Append(s, Single(u.v1)), Single(v))
      BY <1>0, <1>2, FitsSingle DEF HeldFits
    <2> HIDE DEF x, s
    <2>9. HeldFits(x)
      BY <2>2, <2>3, <2>4 DEF HeldFits
    <2> QED BY <2>9, Zenon DEF x
  <1>3. CASE u.count = -1 /\ ~EvenlySpaced(u, v)
    <2>0. x.out = Append(s, Single(u.v0))
      <3>1. ~(EvenlySpaced(u, v) \/ u.count < -1) /\ u.count = -1
        BY <1>3
      <3> QED BY <1>0, <3>1, OutFields, Zenon
    <2>1. x.count = -1 /\ x.v0 = u.v1 /\ x.v1 = v /\ x.out = Append(s, Single(u.v0))
      BY <1>0, <1>3, <2>0, SingleFields
    <2>2. Fits(s, Single(u.v0)) /\ Fits(Append(s, Single(u.v0)), Single(u.v1)) /\ AllFit(s)
      BY <1>3 DEF HeldFits
    <2> DEFINE r == Append(s, Single(u.v0))
    <2>3. AllFit(r) /\ r \in Seq(Tokens)
      BY <1>0, <2>2, FitAppend
    <2>4. Fits(Append(r, Single(u.v1)), Single(v))
      <3>1. r[Len(r)].base = u.v0
        <4>1. Len(r) = Len(s) + 1 /\ r[Len(s) + 1] = Single(u.v0)
          BY <1>0, AppendProperties
        <4> QED BY <1>0, <4>1
      <3>2. u.v1 - u.v0 # v - u.v1
        BY <1>3, Spacing
      <3>3. u.v0 - u.v1 # u.v1 - v
        BY <1>0, <3>2
      <3> HIDE DEF r
      <3> QED BY <1>0, <2>3, <3>1, <3>3, FitsSingle
    <2> HIDE DEF x, s
    <2>9. HeldFits(x)
      BY <2>1, <2>2, <2>3, <2>4 DEF HeldFits
    <2> QED BY <2>9, Zenon DEF x
  <1>4. CASE u.count = -1 /\ EvenlySpaced(u, v)
    <2>1. x.count = 1 /\ x.base = u.v0 /\ x.out = s
      BY <1>0, <1>4, SpacedFields, OutFields
    <2>2. Fits(s, Single(u.v0)) /\ AllFit(s)
      BY <1>4 DEF HeldFits
    <2> HIDE DEF x, s
    <2>3. Run(x) \in Tokens /\ Run(x).base = u.v0 /\ Run(x).repeat = 2
      BY <1>0, <2>1, RunType
    <2>4. Fits(s, Run(x))
      BY <1>0, <2>2, <2>3, FitsLonger
    <2>9. HeldFits(x)
      BY <2>1, <2>2, <2>4 DEF HeldFits
    <2> QED BY <2>9, Zenon DEF x
  <1>5. CASE u.count > 0 /\ EvenlySpaced(u, v)
    <2>1. x.count = u.count + 1 /\ x.base = u.base /\ x.out = s
      BY <1>0, <1>5, SpacedFields, OutFields
    <2>2. Fits(s, Run(u)) /\ AllFit(s)
      BY <1>5 DEF HeldFits
    <2>3. Run(u) \in Tokens /\ Run(u).base = u.base
      BY <1>5, RunType
    <2> HIDE DEF x, s
    <2>4. x.count > 0 /\ x.count \in Int /\ ~(x.count \in {-3, -2, -1})
      BY <1>0, <1>5, <2>1
    <2>5. Run(x) \in Tokens /\ Run(x).base = u.base /\ Run(x).repeat > 1
      BY <1>0, <2>1, <2>4, RunType
    <2>6. Fits(s, Run(x))
      BY <1>0, <2>2, <2>3, <2>5, FitsLonger
    <2>9. HeldFits(x)
      BY <2>1, <2>2, <2>4, <2>6 DEF HeldFits
    <2> QED BY <2>9, Zenon DEF x
  <1>6. CASE u.count > 0 /\ ~EvenlySpaced(u, v)
    <2>0. x.out = Append(s, Run(u))
      <3>1. ~(EvenlySpaced(u, v) \/ u.count < -1) /\ u.count # -1
        BY <1>0, <1>6
      <3> QED BY <1>0, <3>1, OutFields
    <2>1. x.count = -2 /\ x.v1 = v /\ x.out = Append(s, Run(u))
      BY <1>0, <1>6, <2>0, RunFields
    <2>2. Fits(s, Run(u)) /\ AllFit(s)
      BY <1>6 DEF HeldFits
    <2>3. Run(u) \in Tokens /\ Run(u).repeat = u.count + 1
      BY <1>6, RunType
    <2>4. AllFit(Append(s, Run(u)))
      BY <1>0, <2>2, <2>3, FitAppend
    <2>5. Fits(Append(s, Run(u)), Single(v))
      BY <1>6, FitsRun
    <2>6. Append(s, Run(u))[Len(Append(s, Run(u)))].repeat > 0
      <3>1. Len(Append(s, Run(u))) = Len(s) + 1 /\ Append(s, Run(u))[Len(s) + 1] = Run(u)
        BY <1>0, <2>3, AppendProperties
      <3> QED BY <1>0, <1>6, <2>3, <3>1
    <2> HIDE DEF x, s
    <2>9. HeldFits(x)
      BY <2>1, <2>4, <2>5, <2>6 DEF HeldFits
    <2> QED BY <2>9, Zenon DEF x
  <1>7. \/ u.count = -3 \/ u.count = -2 \/ u.count = -1 \/ u.count > 0
    BY <1>0
  <1> HIDE DEF x, s
  <1> QED BY <1>1, <1>2, <1>3, <1>4, <1>5, <1>6, <1>7, Zenon DEF x

(* Close prints what is held back as it stands, or all but its last sample. *)
LEMMA CloseFits ==
    ASSUME NEW u \in Writer, Shape(u), HeldFits(u)
    PROVE  AllFit(writerFunc(writerFunc(u, MinInt), 0).out)
  <1> DEFINE m == writerFunc(u, MinInt)
             z == writerFunc(m, 0)
             s == u.out
  <1>0. /\ MinInt \in Int64 /\ 0 \in Int64 /\ m \in Writer /\ s \in Seq(Tokens)
        /\ u.v0 \in Int64 /\ u.v1 \in Int64
        /\ u.count \in Int /\ u.count >= -3 /\ u.count # 0 /\ AllFit(s)
        /\ \A a \in Int64 : Single(a) \in Tokens
    BY SmallInt64, WriterType DEF Writer, Tokens, Single, Token, HeldFits
  <1>1. ~EvenlySpaced(u, MinInt)
    BY MinIntSpacing
  <1>2. CASE u.count < -1
    <2>1. m.v1 = MinInt /\ m.count = u.count + 1 /\ m.v0 = u.v1 /\ m.out = s
      BY <1>0, <1>1, <1>2, FillFields, OutFields
    <2> HIDE DEF m
    <2>2. z.out = s \/ (u.count = -2 /\ z.out = Append(s, Single(u.v1)))
      <3>1. z.out = IF EvenlySpaced(m, 0) \/ m.count < -1 THEN m.out
                    ELSE IF m.count = -1 THEN Append(m.out, Single(m.v0))
                    ELSE Append(m.out, Run(m))
        BY <1>0, OutFields
      <3> HIDE DEF z, s
      <3>2. CASE u.count = -3
        <4>1. m.count < -1
          BY <2>1, <3>2
        <4> QED BY <2>1, <3>1, <4>1, Zenon
      <3>3. CASE u.count = -2
        <4>1. m.count = -1 /\ ~(m.count < -1)
          BY <2>1, <3>3
        <4> QED BY <2>1, <3>1, <3>3, <4>1, Zenon
      <3> QED BY <1>0, <1>2, <3>2, <3>3
    <2>3. u.count = -2 => AllFit(Append(s, Single(u.v1)))
      BY <1>0, FitAppend DEF HeldFits
    <2> HIDE DEF z, s
    <2> QED BY <1>0, <2>2, <2>3 DEF m, z
  <1>3. CASE u.count = -1
    <2>0. m.out = Append(s, Single(u.v0))
      <3>1. ~(EvenlySpaced(u, MinInt) \/ u.count < -1) /\ u.count = -1
        BY <1>1, <1>3
      <3> QED BY <1>0, <3>1, OutFields, Zenon
    <2>1. m.v1 = MinInt /\ m.count = -1 /\ m.v0 = u.v1 /\ m.out = Append(s, Single(u.v0))
      BY <1>0, <1>1, <1>3, <2>0, SingleFields
    <2> HIDE DEF m
    <2>2. AllFit(Append(s, Single(u.v0))) /\ Append(s, Single(u.v0)) \in Seq(Tokens)
      BY <1>0, <1>3, FitAppend DEF HeldFits
    <2>3. AllFit(Append(Append(s, Single(u.v0)), Single(u.v1)))
      BY <1>0, <1>3, <2>2, FitAppend DEF HeldFits
    <2>4. \/ z.out = Append(s, Single(u.v0))
          \/ z.out = Append(Append(s, Single(u.v0)), Single(u.v1))
      BY <1>0, <2>1, OutFields
    <2> HIDE DEF z, s
    <2> QED BY <2>2, <2>3, <2>4 DEF m, z
  <1>4. CASE u.count > 0
    <2>0. m.out = Append(s, Run(u))
      <3>1. ~(EvenlySpaced(u, MinInt) \/ u.count < -1) /\ u.count # -1
        BY <1>0, <1>1, <1>4
      <3> QED BY <1>0, <3>1, OutFields
    <2>1. m.v1 = MinInt /\ m.count = -2 /\ m.out = Append(s, Run(u))
      BY <1>0, <1>1, <1>4, <2>0, RunFields
    <2> HIDE DEF m
    <2>2. z.out = Append(s, Run(u))
      BY <1>0, <2>1, OutFields
    <2>3. AllFit(Append(s, Run(u)))
      BY <1>0, <1>4, RunType, FitAppend DEF HeldFits
    <2> HIDE DEF z, s
    <2> QED BY <2>2, <2>3 DEF m, z
  <1>5. u.count < -1 \/ u.count = -1 \/ u.count > 0
    BY <1>0
  <1> HIDE DEF m, z, s
  <1> QED BY <1>2, <1>3, <1>4, <1>5, Zenon DEF m, z

(* The invariant of the output: it is greedy, and what is held back fits.   *)
GreedyInv ==
    FirstIsRead => AllFit(w.out) /\ (~closed => HeldFits(w))

LEMMA InitGreedy == Init => GreedyInv
  <1> SUFFICES ASSUME Init PROVE GreedyInv
    OBVIOUS
  <1>1. w.count = -3 /\ w.out = <<>>
    BY DEF Init, newCompressingSeriesWriter
  <1>2. AllFit(w.out)
    BY <1>1 DEF AllFit
  <1> QED BY <1>1, <1>2 DEF GreedyInv, HeldFits

LEMMA NextGreedy == IInv /\ GreedyInv /\ [Next]_vars => GreedyInv'
  <1> SUFFICES ASSUME IInv, GreedyInv, [Next]_vars PROVE GreedyInv'
    OBVIOUS
  <1>1. ASSUME NEW v \in Values, Write(v), FirstIsRead'
        PROVE  AllFit(w'.out) /\ HeldFits(w')
    <2>1. /\ w \in Writer /\ w' = writerFunc(w, v) /\ ~closed
          /\ written \in Seq(Values) /\ written' = Append(written, v) /\ v \in Small
      BY <1>1, SmallInt64 DEF IInv, TypeOK, Write
    <2>2. written'[1] = IF written = <<>> THEN v ELSE written[1]
      BY <2>1
    <2>3. written' # <<>>
      BY <2>1, AppendProperties
    <2>4. FirstIsRead /\ (w.count = -3 => v # -2)
      BY <1>1, <2>1, <2>2, <2>3 DEF FirstIsRead, IInv
    <2>5. Shape(w) /\ HeldFits(w)
      BY <2>1, <2>4 DEF IInv, GreedyInv
    <2>6. HeldFits(w')
      BY <2>1, <2>4, <2>5, HeldStep
    <2> QED BY <2>6 DEF HeldFits
  <1>2. CASE Close
    <2>1. closed' /\ ~closed /\ written' = written /\ w \in Writer
          /\ w' = writerFunc(writerFunc(w, MinInt), 0)
      BY <1>2 DEF Close, IInv, TypeOK
    <2>2. FirstIsRead' => Shape(w) /\ HeldFits(w)
      BY <2>1 DEF FirstIsRead, IInv, GreedyInv
    <2> QED BY <2>1, <2>2, CloseFits DEF GreedyInv
  <1>3. CASE UNCHANGED vars
    BY <1>3 DEF vars, GreedyInv, FirstIsRead
  <1> QED BY <1>1, <1>2, <1>3 DEF Next, GreedyInv

(* The compression is greedy, whatever is written and when it is closed: no *)
(* run of two samples, no three samples printed alone that are evenly       *)
(* spaced, no run that could have gone on.                                  *)
THEOREM GreedyCorrect == Spec => []Greedy
  <1>1. IInv /\ GreedyInv => Greedy
    <2> SUFFICES ASSUME IInv, GreedyInv, FirstIsRead PROVE Greedy
      BY DEF Greedy
    <2> QED BY GreedyMeans DEF IInv, GreedyInv
  <1> QED BY <1>1, InitIInv, NextIInv, InitGreedy, NextGreedy, PTL DEF Spec
=============================================================================
