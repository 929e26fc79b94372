------------------------ MODULE SeriesGeneratorProofs ------------------------
(***************************************************************************)
(* Proofs about SeriesGenerator, for every series file and all flags: the   *)
(* timestamps of a series increase, the state keeps its types, and steps   *)
(* run out. What the compressing writers do is taken from                   *)
(* SeriesCompressorProofs.                                                  *)
(***************************************************************************)
EXTENDS SeriesGenerator, SequenceTheorems, FiniteSetTheorems, WellFoundedInduction, TLAPS

CP == INSTANCE SeriesCompressorProofs WITH
        w <- csw[1], written <- <<>>, closed <- FALSE, Values <- {0}, MaxLen <- MaxPoints

-----------------------------------------------------------------------------
(* Sequences whose elements are not all of one kind.                        *)

IsSeq(s) == \E S : s \in Seq(S)

LEMMA ConcatParts ==
    ASSUME NEW s, NEW u, IsSeq(s), IsSeq(u)
    PROVE  /\ IsSeq(s \o u) /\ Len(s) \in Nat /\ Len(u) \in Nat
           /\ DOMAIN s = 1..Len(s) /\ DOMAIN u = 1..Len(u)
           /\ Len(s \o u) = Len(s) + Len(u) /\ DOMAIN (s \o u) = 1..(Len(s) + Len(u))
           /\ \A n \in 1..Len(s) : (s \o u)[n] = s[n]
           /\ \A n \in 1..Len(u) : (s \o u)[Len(s) + n] = u[n]
  <1>1. PICK S : s \in Seq(S)
    BY DEF IsSeq
  <1>2. PICK T : u \in Seq(T)
    BY DEF IsSeq
  <1> PICK R : R = S \cup T
    OBVIOUS
  <1>3. s \in Seq(R) /\ u \in Seq(R)
    BY <1>1, <1>2
  <1>4. s \o u \in Seq(R)
    BY <1>3
  <1> QED
    BY <1>3, <1>4 DEF IsSeq

LEMMA SubSeqParts ==
    ASSUME NEW s, IsSeq(s), NEW m \in 0..Len(s)
    PROVE  /\ IsSeq(SubSeq(s, 1, m)) /\ Len(SubSeq(s, 1, m)) = m
           /\ DOMAIN SubSeq(s, 1, m) = 1..m
           /\ \A n \in 1..m : SubSeq(s, 1, m)[n] = s[n]
  <1>1. PICK S : s \in Seq(S)
    BY DEF IsSeq
  <1>2. SubSeq(s, 1, m) \in Seq(S) /\ Len(SubSeq(s, 1, m)) = m
        /\ \A n \in 1..m : SubSeq(s, 1, m)[n] = s[n]
    BY <1>1
  <1> QED
    BY <1>2 DEF IsSeq

LEMMA TailParts ==
    ASSUME NEW s, IsSeq(s), s # <<>>
    PROVE  /\ IsSeq(Tail(s)) /\ Len(Tail(s)) = Len(s) - 1
           /\ Len(s) \in Nat \ {0} /\ DOMAIN Tail(s) = 1..(Len(s) - 1)
           /\ \A n \in 1..(Len(s) - 1) : Tail(s)[n] = s[n + 1]
  <1>1. PICK S : s \in Seq(S)
    BY DEF IsSeq
  <1>2. /\ Tail(s) \in Seq(S) /\ Len(Tail(s)) = Len(s) - 1 /\ Len(s) \in Nat \ {0}
        /\ \A n \in 1..(Len(s) - 1) : Tail(s)[n] = s[n + 1]
    BY <1>1
  <1> QED
    BY <1>2 DEF IsSeq

LEMMA Singleton ==
    ASSUME NEW x
    PROVE  /\ IsSeq(<<x>>) /\ Len(<<x>>) = 1 /\ DOMAIN <<x>> = 1..1 /\ <<x>>[1] = x
           /\ IsSeq(<<>>) /\ Len(<<>>) = 0
  <1>1. <<x>> \in Seq({x}) /\ <<>> \in Seq({x})
    OBVIOUS
  <1>2. IsSeq(<<x>>) /\ IsSeq(<<>>)
    BY <1>1, Zenon DEF IsSeq
  <1> QED
    BY <1>2

-----------------------------------------------------------------------------
(* A write to the output: samples come from the output as it was or, behind *)
(* it and in their order, from the lines. The distance is one less when the *)
(* first of the lines was garbled.                                          *)
Adds(lines) ==
    /\ IsSeq(out')
    /\ \E d \in 0..1 : \A n \in DOMAIN out' :
         \/ out'[n][1] # "sample"
         \/ n \in DOMAIN out /\ out'[n] = out[n]
         \/ \E m \in DOMAIN lines :
              n = Len(out) + m - d /\ n > Len(out) /\ out'[n] = lines[m]

LEMMA WriteAdds ==
    ASSUME NEW lines, IsSeq(out), IsSeq(lines), Write(lines)
    PROVE  Adds(lines)
  <1>0. /\ DOMAIN out = 1..Len(out) /\ DOMAIN lines = 1..Len(lines)
        /\ Len(out) \in Nat /\ Len(lines) \in Nat
    BY ConcatParts
  <1>1. CASE out # <<>> /\ lines # <<>> /\ Last(out) = <<"torn">>
    <2> PICK x : x = <<"garbled">>
      OBVIOUS
    <2> PICK g : g = <<x>>
      OBVIOUS
    <2> PICK a : a = Front(out)
      OBVIOUS
    <2> PICK b : b = Tail(lines)
      OBVIOUS
    <2> PICK c : c = a \o g
      OBVIOUS
    <2>1. out' = c \o b
      BY <1>1 DEF Write
    <2>2. Len(out) - 1 \in 0..Len(out)
      BY <1>0, <1>1, TailParts
    <2>3. /\ IsSeq(a) /\ Len(a) = Len(out) - 1
          /\ \A n \in 1..(Len(out) - 1) : a[n] = out[n]
      BY <2>2, SubSeqParts DEF Front
    <2>4. /\ IsSeq(b) /\ Len(b) = Len(lines) - 1
          /\ \A n \in 1..(Len(lines) - 1) : b[n] = lines[n + 1]
      BY <1>1, TailParts
    <2>5. IsSeq(g) /\ Len(g) = 1 /\ g[1] = <<"garbled">>
      BY Singleton, Zenon
    <2>6. /\ IsSeq(c) /\ Len(c) = Len(out)
          /\ \A n \in 1..(Len(out) - 1) : c[n] = out[n]
          /\ c[Len(out)] = <<"garbled">>
      <3>1. /\ IsSeq(c) /\ Len(c) = Len(a) + Len(g)
            /\ \A n \in 1..Len(a) : c[n] = a[n]
            /\ \A n \in 1..Len(g) : c[Len(a) + n] = g[n]
        BY <2>3, <2>5, ConcatParts
      <3>2. 1 \in 1..Len(g) /\ Len(a) + 1 = Len(out)
        BY <1>0, <2>3, <2>5
      <3> QED
        BY <1>0, <2>3, <2>5, <3>1, <3>2
    <2>7. /\ IsSeq(out') /\ DOMAIN out' = 1..(Len(out) + Len(b))
          /\ \A n \in 1..Len(out) : out'[n] = c[n]
          /\ \A n \in 1..Len(b) : out'[Len(out) + n] = b[n]
      <3>1. /\ IsSeq(c \o b) /\ DOMAIN (c \o b) = 1..(Len(c) + Len(b))
            /\ \A n \in 1..Len(c) : (c \o b)[n] = c[n]
            /\ \A n \in 1..Len(b) : (c \o b)[Len(c) + n] = b[n]
        BY <2>4, <2>6, ConcatParts
      <3> QED
        BY <2>1, <2>6, <3>1
    <2>8. ASSUME NEW n \in DOMAIN out'
          PROVE  \/ out'[n][1] # "sample"
                 \/ n \in DOMAIN out /\ out'[n] = out[n]
                 \/ \E m \in DOMAIN lines :
                      n = Len(out) + m - 1 /\ n > Len(out) /\ out'[n] = lines[m]
      <3>1. CASE n = Len(out)
        <4>1. out'[n] = <<"garbled">>
          BY <1>0, <2>6, <2>7, <3>1
        <4> QED
          BY <4>1
      <3>2. CASE n < Len(out)
        <4>1. n \in 1..(Len(out) - 1)
          BY <1>0, <2>4, <2>7, <3>2
        <4>2. n \in 1..Len(out) /\ c[n] = out[n]
          BY <1>0, <2>6, <4>1
        <4>3. out'[n] = c[n]
          BY <2>7, <4>2
        <4> QED
          BY <1>0, <4>2, <4>3
      <3>3. CASE n > Len(out)
        <4>1. PICK j : j = n - Len(out)
          OBVIOUS
        <4>2. j \in 1..Len(b) /\ n = Len(out) + j
          BY <1>0, <2>4, <2>7, <3>3, <4>1
        <4>3. out'[n] = lines[j + 1] /\ j + 1 \in DOMAIN lines
          <5>1. out'[Len(out) + j] = b[j]
            BY <2>7, <4>2
          <5>2. b[j] = lines[j + 1] /\ j + 1 \in 1..Len(lines)
            BY <1>0, <2>4, <4>2
          <5> QED
            BY <1>0, <4>2, <5>1, <5>2
        <4>4. n = Len(out) + (j + 1) - 1
          BY <1>0, <4>2
        <4> QED
          BY <3>3, <4>3, <4>4
      <3> QED
        BY <1>0, <2>4, <2>7, <3>1, <3>2, <3>3
    <2> QED
      BY <2>7, <2>8 DEF Adds
  <1>2. CASE ~(out # <<>> /\ lines # <<>> /\ Last(out) = <<"torn">>)
    <2>1. out' = out \o lines
      BY <1>2 DEF Write
    <2>2. /\ IsSeq(out') /\ DOMAIN out' = 1..(Len(out) + Len(lines))
          /\ \A n \in 1..Len(out) : out'[n] = out[n]
          /\ \A n \in 1..Len(lines) : out'[Len(out) + n] = lines[n]
      BY <2>1, ConcatParts
    <2>3. ASSUME NEW n \in DOMAIN out', n \notin DOMAIN out
          PROVE  \E m \in DOMAIN lines :
                   n = Len(out) + m - 0 /\ n > Len(out) /\ out'[n] = lines[m]
      <3>1. PICK j : j = n - Len(out)
        OBVIOUS
      <3>2. j \in 1..Len(lines) /\ n = Len(out) + j /\ n > Len(out)
        BY <1>0, <2>2, <2>3, <3>1
      <3>3. out'[n] = lines[j] /\ n = Len(out) + j - 0
        BY <1>0, <2>2, <3>2
      <3> QED
        BY <1>0, <3>2, <3>3
    <2> QED
      BY <1>0, <2>2, <2>3 DEF Adds
  <1> QED
    BY <1>1, <1>2

LEMMA WriteFailsAdds ==
    ASSUME NEW lines, IsSeq(out), IsSeq(lines), WriteFails(lines)
    PROVE  Adds(lines)
  <1>0. DOMAIN out = 1..Len(out) /\ DOMAIN lines = 1..Len(lines)
        /\ Len(out) \in Nat /\ Len(lines) \in Nat
    BY ConcatParts
  <1>1. PICK k \in 0..(Len(lines) - 1), torn \in {<<>>, <<<<"torn">>>>} :
          Write(SubSeq(lines, 1, k) \o torn)
    BY DEF WriteFails
  <1> DEFINE part == SubSeq(lines, 1, k)
             all == part \o torn
  <1>2. IsSeq(part) /\ Len(part) = k /\ \A n \in 1..k : part[n] = lines[n]
    BY <1>0, SubSeqParts
  <1>3. IsSeq(torn) /\ Len(torn) \in 0..1 /\ \A n \in 1..Len(torn) : torn[n] = <<"torn">>
    <2>1. CASE torn = <<>>
      <3>1. IsSeq(<<>>) /\ Len(<<>>) = 0
        BY Singleton
      <3> QED
        BY <2>1, <3>1
    <2>2. CASE torn = <<<<"torn">>>>
      <3> PICK x : x = <<"torn">>
        OBVIOUS
      <3>1. torn = <<x>>
        BY <2>2
      <3>2. IsSeq(<<x>>) /\ Len(<<x>>) = 1 /\ <<x>>[1] = x
        BY Singleton
      <3> QED
        BY <3>1, <3>2
    <2> QED
      BY <2>1, <2>2
  <1> HIDE DEF part
  <1>4. /\ IsSeq(all) /\ DOMAIN all = 1..(k + Len(torn))
        /\ \A n \in 1..k : all[n] = lines[n]
        /\ \A n \in 1..Len(torn) : all[k + n] = <<"torn">>
    BY <1>2, <1>3, ConcatParts
  <1>5. Adds(all)
    BY <1>1, <1>4, WriteAdds DEF part
  <1> HIDE DEF all
  <1>6. \A m \in DOMAIN all : all[m][1] # "sample" \/ (m \in DOMAIN lines /\ all[m] = lines[m])
    <2> SUFFICES ASSUME NEW m \in DOMAIN all
                 PROVE  all[m][1] # "sample" \/ (m \in DOMAIN lines /\ all[m] = lines[m])
      OBVIOUS
    <2>1. CASE m \in 1..k
      BY <1>0, <1>4, <2>1
    <2>2. CASE m \notin 1..k
      <3>1. m - k \in 1..Len(torn) /\ m = k + (m - k)
        BY <1>3, <1>4, <2>2
      <3>2. all[m] = <<"torn">>
        BY <1>4, <3>1
      <3> QED
        BY <3>2
    <2> QED
      BY <2>1, <2>2
  <1> QED
    BY <1>5, <1>6 DEF Adds

-----------------------------------------------------------------------------
Premise == Parse.interval >= Second /\ DistinctSeries

(* The pairs that are done.                                                 *)
Before(p) == p[1] < family \/ (p[1] = family /\ p[2] < pair)

InPair == pc \in {"generate", "generated"}

(* Every sample in the output is of a pair that is done, or a success of    *)
(* the pair in hand and earlier than the next point.                        *)
Placed ==
    pc # "returned" =>
      \A n \in DOMAIN out : out[n][1] = "sample" =>
        /\ out[n][4] \in Int
        /\ \E p \in PairsOf, i \in 1..2 :
             /\ out[n][2] = Name(p, i)
             /\ \/ Before(p)
                \/ p = position /\ i = 1 /\ InPair /\ out[n][4] < Unix(t)

(* The failures that wait are those of the pair in hand, in order.          *)
Buffered ==
    InPair => \A n \in DOMAIN buf :
      /\ buf[n][1] = "sample" /\ buf[n][2] = Name(position, 2)
      /\ buf[n][4] \in Int /\ buf[n][4] < Unix(t)
      /\ \A m \in DOMAIN buf : m < n => buf[m][4] < buf[n][4]

Located ==
    /\ pc \in {"pair", "generate", "generated"} => family \in DOMAIN config.families
    /\ InPair => pair \in DOMAIN Pairs

(* The inductive invariant.                                                 *)
IInv ==
    /\ config \in Configs /\ flags \in Flags /\ t \in Int
    /\ family \in Nat \ {0} /\ pair \in Nat \ {0}
    /\ IsSeq(out) /\ IsSeq(buf)
    /\ Located
    /\ TimestampsIncrease
    /\ Premise => Placed /\ Buffered

-----------------------------------------------------------------------------
LEMMA InputTypes ==
    ASSUME config \in Configs, flags \in Flags
    PROVE  /\ Parse.start \in Int /\ Parse.end \in Int /\ Parse.interval \in Int
           /\ config.families \in Seq(FamilyConfig)
           /\ \A f \in DOMAIN config.families :
                config.families[f].pairs \in Seq(PairConfig)
           /\ \A f \in DOMAIN config.families : \A s \in DOMAIN config.families[f].pairs :
                config.families[f].pairs[s] \in PairConfig
  <1>1. /\ config \in [families: Seq(FamilyConfig), start: Int, end: Int, interval: Int]
        /\ flags \in [start: Int, end: Int, interval: Int]
    BY InputAssumption
  <1>2. Parse.start \in Int /\ Parse.end \in Int /\ Parse.interval \in Int
    BY <1>1 DEF Parse
  <1>3. config.families \in Seq(FamilyConfig)
    BY <1>1
  <1>4. \A f \in DOMAIN config.families : config.families[f] \in FamilyConfig
    BY <1>3
  <1>5. \A x \in FamilyConfig : x.pairs \in Seq(PairConfig)
    BY DEF FamilyConfig
  <1>6. \A f \in DOMAIN config.families : config.families[f].pairs \in Seq(PairConfig)
    BY <1>4, <1>5
  <1> QED
    BY <1>2, <1>3, <1>6

(* With an interval of a second or more, the clock of the output advances.  *)
LEMMA UnixAdvances ==
    ASSUME NEW a \in Int, NEW d \in Int, d >= Second
    PROVE  Unix(a) \in Int /\ Unix(a + d) \in Int /\ Unix(a) < Unix(a + d)
  BY TimeAssumption DEF Unix

(* The names the generator writes are the ones the file stands for.         *)
LEMMA NamesMeant ==
    ASSUME config \in Configs, flags \in Flags,
           family \in DOMAIN config.families, pair \in DOMAIN Pairs
    PROVE  /\ SeriesName(1) = Name(position, 1) /\ SeriesName(2) = Name(position, 2)
           /\ position \in PairsOf /\ ~Before(position)
  <1> PICK p : p = config.families[family].pairs[pair]
    OBVIOUS
  <1>1. p \in PairConfig
    BY InputTypes DEF Pairs
  <1>2. p.labels \in Seq(STRING) /\ p.status \in STRING \X STRING
    BY <1>1 DEF PairConfig
  <1>3. \A i \in 1..2 : p.status[i] \in STRING
    BY <1>2
  <1>4. \A i \in 1..2 : Append(p.labels, p.status[i]) = p.labels \o <<p.status[i]>>
    BY <1>2, <1>3, AppendIsConcat
  <1>5. position[1] = family /\ position[2] = pair
    BY DEF position
  <1>6. /\ generateLabels(p)[1] = Append(p.labels, p.status[1])
        /\ generateLabels(p)[2] = Append(p.labels, p.status[2])
    BY DEF generateLabels
  <1>7. SeriesName(1) = Name(position, 1) /\ SeriesName(2) = Name(position, 2)
    <2>1. \A i \in 1..2 :
            SeriesName(i) = <<config.families[family].name, generateLabels(p)[i]>>
      BY DEF SeriesName, Pairs
    <2>2. \A i \in 1..2 :
            Name(position, i) = <<config.families[family].name, p.labels \o <<p.status[i]>>>>
      BY <1>5 DEF Name
    <2>3. 1 \in 1..2 /\ 2 \in 1..2
      OBVIOUS
    <2>4. generateLabels(p)[1] = p.labels \o <<p.status[1]>>
      BY <1>4, <1>6, <2>3, Zenon
    <2>5. generateLabels(p)[2] = p.labels \o <<p.status[2]>>
      BY <1>4, <1>6, <2>3, Zenon
    <2> QED
      BY <2>1, <2>2, <2>3, <2>4, <2>5, Zenon
  <1>8. position \in PairsOf
    BY DEF PairsOf, position, Pairs
  <1>9. config.families \in Seq(FamilyConfig) /\ Pairs \in Seq(PairConfig)
    BY InputTypes DEF Pairs
  <1>10. family \in Nat /\ pair \in Nat
    BY <1>9
  <1> QED
    BY <1>5, <1>7, <1>8, <1>10 DEF Before

-----------------------------------------------------------------------------
(* Steps that write no samples.                                             *)

Keeps ==
    \A n \in DOMAIN out' : out'[n][1] = "sample" => n \in DOMAIN out /\ out'[n] = out[n]

LEMMA QuietKeeps ==
    ASSUME NEW lines, Adds(lines), \A m \in DOMAIN lines : lines[m][1] # "sample"
    PROVE  IsSeq(out') /\ Keeps
  BY DEF Adds, Keeps

(* The input is constant, and with it what it stands for.                   *)
LEMMA InputConstant ==
    ASSUME UNCHANGED input
    PROVE  /\ config' = config /\ flags' = flags /\ output' = output
           /\ Parse' = Parse /\ PairsOf' = PairsOf /\ (Premise' <=> Premise)
           /\ \A p, i : Name(p, i)' = Name(p, i)
  <1>1. config' = config /\ flags' = flags /\ output' = output
    BY DEF input
  <1>2. Parse' = Parse /\ PairsOf' = PairsOf /\ \A p, i : Name(p, i)' = Name(p, i)
    BY <1>1 DEF Parse, PairsOf, Name
  <1>3. DistinctSeries' <=> DistinctSeries
    BY <1>1, <1>2 DEF DistinctSeries, Name
  <1> QED
    BY <1>1, <1>2, <1>3 DEF Premise

(* How far the pairs are does not go back.                                  *)
Onward ==
    \A p \in PairsOf :
      /\ Before(p) => Before(p)'
      /\ p = position /\ InPair =>
           \/ InPair' /\ position' = p /\ (Premise => Unix(t) <= Unix(t)')
           \/ Before(p)'

LEMMA KeepsStep ==
    ASSUME IInv, UNCHANGED input, IsSeq(out'), Keeps,
           pc' = "returned" \/ (pc # "returned" /\ Onward), t' \in Int
    PROVE  TimestampsIncrease' /\ (Premise => Placed)'
  <1>0. /\ config' = config /\ flags' = flags
        /\ Parse' = Parse /\ PairsOf' = PairsOf /\ (Premise' <=> Premise)
        /\ \A p, i : Name(p, i)' = Name(p, i)
    BY InputConstant
  <1>1. TimestampsIncrease'
    <2>1. Premise' => Premise /\ TimestampsIncrease
      BY <1>0 DEF IInv
    <2> QED
      BY <2>1 DEF TimestampsIncrease, Premise, Keeps
  <1>2. ASSUME Premise' PROVE Placed'
    <2> SUFFICES ASSUME pc' # "returned",
                        NEW n \in DOMAIN out', out'[n][1] = "sample"
                 PROVE  /\ out'[n][4] \in Int
                        /\ \E p \in PairsOf', i \in 1..2 :
                             /\ out'[n][2] = Name(p, i)'
                             /\ \/ Before(p)'
                                \/ p = position' /\ i = 1 /\ InPair' /\ out'[n][4] < Unix(t)'
      BY DEF Placed
    <2>1. Premise /\ Placed /\ Onward
      BY <1>0, <1>2 DEF IInv
    <2>2. n \in DOMAIN out /\ out'[n] = out[n]
      BY DEF Keeps
    <2>3. out[n][4] \in Int
      BY <2>1, <2>2 DEF Placed
    <2>4. PICK p \in PairsOf, i \in 1..2 :
            /\ out[n][2] = Name(p, i)
            /\ \/ Before(p)
               \/ p = position /\ i = 1 /\ InPair /\ out[n][4] < Unix(t)
      BY <2>1, <2>2 DEF Placed
    <2>5. \/ Before(p)'
          \/ p = position' /\ i = 1 /\ InPair' /\ out[n][4] < Unix(t)'
      <3>1. CASE Before(p)
        BY <2>1, <3>1 DEF Onward
      <3>2. CASE p = position /\ i = 1 /\ InPair /\ out[n][4] < Unix(t)
        <4>1. Unix(t) \in Int /\ Unix(t)' \in Int
          BY TimeAssumption DEF Unix, IInv
        <4> QED
          BY <2>1, <2>3, <3>2, <4>1 DEF Onward
      <3> QED
        BY <2>4, <3>1, <3>2
    <2>6. out'[n][2] = Name(p, i)'
      BY <1>0, <2>2, <2>4
    <2> QED
      BY <1>0, <2>2, <2>3, <2>5, <2>6
  <1> QED
    BY <1>1, <1>2

LEMMA OneQuiet ==
    ASSUME NEW x, x[1] # "sample", IsSeq(out), Write(<<x>>) \/ WriteFails(<<x>>)
    PROVE  IsSeq(out') /\ Keeps
  <1> PICK lines : lines = <<x>>
    OBVIOUS
  <1>1. IsSeq(lines) /\ \A m \in DOMAIN lines : lines[m] = x
    <2>1. IsSeq(<<x>>) /\ DOMAIN <<x>> = 1..1 /\ <<x>>[1] = x
      BY Singleton
    <2> QED
      BY <2>1
  <1>2. Adds(lines)
    BY <1>1, WriteAdds, WriteFailsAdds
  <1> QED
    BY <1>1, <1>2, QuietKeeps

LEMMA SameKeeps ==
    ASSUME IsSeq(out), out' = out
    PROVE  IsSeq(out') /\ Keeps
  BY DEF IsSeq, Keeps

LEMMA SamePosition ==
    ASSUME UNCHANGED <<family, pair>>
    PROVE  position' = position /\ \A p : Before(p) => Before(p)'
  BY DEF position, Before

LEMMA QuietStep ==
    ASSUME IInv, UNCHANGED input, IsSeq(out') /\ Keeps,
           pc' = "returned" \/ (pc # "returned" /\ Onward), t' \in Int,
           IsSeq(buf'), family' \in Nat \ {0}, pair' \in Nat \ {0},
           Located', Premise => Buffered'
    PROVE  IInv'
  <1>1. config' \in Configs /\ flags' \in Flags /\ (Premise' <=> Premise)
    BY InputConstant DEF IInv
  <1>2. TimestampsIncrease' /\ (Premise => Placed)'
    BY KeepsStep
  <1> QED
    BY <1>1, <1>2 DEF IInv

LEMMA StartStep ==
    ASSUME IInv, Start
    PROVE  IInv'
  <1>1. /\ pc = "run" /\ pc' \in {"family", "returned"}
        /\ UNCHANGED input /\ UNCHANGED <<family, pair, t, buf, out>>
    BY DEF Start, Goto, Return, position, generation
  <1>2. Onward /\ ~InPair'
    BY <1>1, SamePosition DEF Onward, InPair
  <1> QED
    BY <1>1, <1>2, SameKeeps, QuietStep DEF IInv, Located, Buffered, InPair

LEMMA BeginFamilyStep ==
    ASSUME IInv, BeginFamily
    PROVE  IInv'
  <1>1. /\ pc = "family" /\ family <= Len(config.families) /\ pc' \in {"pair", "returned"}
        /\ UNCHANGED input /\ UNCHANGED <<family, pair, t, buf>>
    BY DEF BeginFamily, Goto, Return, position, generation
  <1>2. IsSeq(out') /\ Keeps
    <2> PICK x : x = <<"help", family>>
      OBVIOUS
    <2>1. CASE Write(<<x>>) \/ WriteFails(<<x>>)
      <3>1. x[1] # "sample"
        OBVIOUS
      <3> QED
        BY <2>1, <3>1, OneQuiet DEF IInv
    <2>2. CASE out' = out
      BY <2>2, SameKeeps DEF IInv
    <2> QED
      BY <2>1, <2>2 DEF BeginFamily
  <1>3. Onward /\ ~InPair'
    BY <1>1, SamePosition DEF Onward, InPair
  <1>4. Located'
    <2>1. config.families \in Seq(FamilyConfig) /\ config' = config
      BY <1>1, InputTypes, InputConstant DEF IInv
    <2> QED
      BY <1>1, <1>3, <2>1 DEF IInv, Located
  <1> QED
    BY <1>1, <1>2, <1>3, <1>4, QuietStep DEF IInv, Buffered

LEMMA BeginPairStep ==
    ASSUME IInv, BeginPair
    PROVE  IInv'
  <1>1. /\ pc = "pair" /\ pair <= Len(Pairs) /\ pc' = "generate"
        /\ t' = Parse.start /\ buf' = <<>>
        /\ UNCHANGED input /\ UNCHANGED <<family, pair, out>>
    BY DEF BeginPair, Goto, position
  <1>2. Onward
    BY <1>1, SamePosition DEF Onward, InPair
  <1>3. Located'
    <2>1. Pairs \in Seq(PairConfig) /\ config' = config /\ Pairs' = Pairs
      BY <1>1, InputTypes, InputConstant DEF IInv, Located, Pairs
    <2>2. pair \in DOMAIN Pairs
      BY <1>1, <2>1 DEF IInv
    <2> QED
      BY <1>1, <2>1, <2>2 DEF IInv, Located
  <1>4. IsSeq(<<>>) /\ Parse.start \in Int
    BY InputTypes, Singleton DEF IInv
  <1>5. Buffered'
    BY <1>1 DEF Buffered
  <1> QED
    BY <1>1, <1>2, <1>3, <1>4, <1>5, SameKeeps, QuietStep DEF IInv

LEMMA EndFamilyStep ==
    ASSUME IInv, EndFamily
    PROVE  IInv'
  <1>1. /\ pc = "pair" /\ pc' = "family" /\ family' = family + 1 /\ pair' = 1
        /\ UNCHANGED input /\ UNCHANGED <<t, buf, out>>
    BY DEF EndFamily, Goto, generation
  <1>2. Onward /\ ~InPair'
    <2>1. \A p \in PairsOf : p[1] \in Int
      <3>1. config.families \in Seq(FamilyConfig)
        BY InputTypes DEF IInv
      <3> QED
        BY <3>1 DEF PairsOf
    <2> QED
      BY <1>1, <2>1 DEF Onward, InPair, Before, IInv
  <1> QED
    BY <1>1, <1>2, SameKeeps, QuietStep DEF IInv, Located, Buffered, InPair

LEMMA GenerateFailsStep ==
    ASSUME IInv, GenerateFails
    PROVE  IInv'
  <1>1. /\ pc = "generate" /\ pc' = "generated" /\ buf' = buf
        /\ UNCHANGED input /\ UNCHANGED <<family, pair, t>>
    BY DEF GenerateFails, BufferedOnError, Goto, position
  <1>2. IsSeq(out') /\ Keeps
    <2> PICK x : x = Line(1)
      OBVIOUS
    <2> PICK lines : lines = <<x>>
      OBVIOUS
    <2>1. IsSeq(lines) /\ Len(lines) = 1
      BY Singleton
    <2>2. PICK k \in 0..(Len(lines) - 1), torn \in {<<>>, <<<<"torn">>>>} :
            Write(SubSeq(lines, 1, k) \o torn)
      BY DEF GenerateFails, WriteFails
    <2>3. SubSeq(lines, 1, k) = <<>>
      <3>1. k = 0
        BY <2>1
      <3> QED
        BY <3>1
    <2> PICK e : e = SubSeq(lines, 1, k) \o torn
      OBVIOUS
    <2>6. Write(e) /\ e = torn
      <3>1. \E S : torn \in Seq(S)
        BY Singleton DEF IsSeq
      <3>2. <<>> \o torn = torn
        BY <3>1, ConcatEmptySeq
      <3>3. e = torn
        BY <2>3, <3>2
      <3> QED
        BY <2>2, <3>3
    <2>4. CASE torn = <<>>
      <3>1. Write(<<>>)
        BY <2>6, <2>4
      <3>2. out' = out
        BY <3>1 DEF IInv, IsSeq, Write
      <3> QED
        BY <3>2, SameKeeps DEF IInv
    <2>5. CASE torn = <<<<"torn">>>>
      <3> PICK y : y = <<"torn">>
        OBVIOUS
      <3>1. Write(<<y>>)
        BY <2>6, <2>5
      <3>2. y[1] # "sample"
        OBVIOUS
      <3> QED
        BY <3>1, <3>2, OneQuiet DEF IInv
    <2> QED
      BY <2>4, <2>5
  <1>3. Onward
    <2>1. Unix(t)' = Unix(t) /\ Unix(t) \in Int
      BY <1>1, TimeAssumption DEF IInv, Unix
    <2> QED
      BY <1>1, <2>1, SamePosition DEF Onward, InPair
  <1>4. config' = config /\ flags' = flags /\ \A p, i : Name(p, i)' = Name(p, i)
    BY <1>1, InputConstant
  <1>5. Located'
    BY <1>1, <1>4 DEF IInv, Located, Pairs, InPair
  <1>6. Premise => Buffered'
    BY <1>1, <1>4 DEF IInv, Buffered, InPair, Name, position, Unix
  <1> QED
    BY <1>1, <1>2, <1>3, <1>5, <1>6, QuietStep DEF IInv

LEMMA GenerateEndStep ==
    ASSUME IInv, GenerateEnd
    PROVE  IInv'
  <1>1. /\ pc = "generate" /\ pc' = "generated"
        /\ UNCHANGED input /\ UNCHANGED <<family, pair, t, buf, out>>
    BY DEF GenerateEnd, Goto, position, generation
  <1>2. Onward
    <2>1. Unix(t)' = Unix(t) /\ Unix(t) \in Int
      BY <1>1, TimeAssumption DEF IInv, Unix
    <2> QED
      BY <1>1, <2>1, SamePosition DEF Onward, InPair
  <1>3. config' = config /\ flags' = flags /\ \A p, i : Name(p, i)' = Name(p, i)
    BY <1>1, InputConstant
  <1>4. Located'
    BY <1>1, <1>3 DEF IInv, Located, Pairs, InPair
  <1>5. Premise => Buffered'
    BY <1>1, <1>3 DEF IInv, Buffered, InPair, Name, position, Unix
  <1> QED
    BY <1>1, <1>2, <1>4, <1>5, SameKeeps, QuietStep DEF IInv

(* The next pair's turn.                                                    *)
LEMMA PairDone ==
    ASSUME IInv, family' = family, pair' = pair + 1
    PROVE  Onward
  <1>1. \A p \in PairsOf : p[1] \in Int /\ p[2] \in Int
    <2>1. config.families \in Seq(FamilyConfig)
      BY InputTypes DEF IInv
    <2>2. \A f \in DOMAIN config.families : config.families[f].pairs \in Seq(PairConfig)
      BY InputTypes DEF IInv
    <2> QED
      BY <2>1, <2>2 DEF PairsOf
  <1> QED
    BY <1>1 DEF Onward, Before, position, IInv

LEMMA CloseWritersStep ==
    ASSUME IInv, CloseWriters
    PROVE  IInv'
  <1>1. /\ pc = "generated" /\ pc' = "pair" /\ family' = family /\ pair' = pair + 1
        /\ UNCHANGED input /\ UNCHANGED <<t, buf>>
    BY DEF CloseWriters, Goto, generation
  <1>2. IsSeq(out') /\ Keeps
    <2> DEFINE entry(i) == <<"series", SeriesName(i), Closed(csw[i]).decoded>>
    <2> PICK lines : lines = [i \in 1..2 |-> entry(i)]
      OBVIOUS
    <2>1. \A i : entry(i)[1] # "sample"
      OBVIOUS
    <2>2. out' = out \o lines
      BY DEF CloseWriters
    <2> HIDE DEF entry
    <2>3. lines \in Seq({entry(1), entry(2)}) /\ \A m \in 1..2 : lines[m] = entry(m)
      OBVIOUS
    <2>4. IsSeq(lines) /\ Len(lines) = 2
      <3>1. IsSeq(lines)
        BY <2>3, Zenon DEF IsSeq
      <3> QED
        BY <3>1
    <2>5. /\ IsSeq(out \o lines) /\ Len(out) \in Nat /\ DOMAIN out = 1..Len(out)
          /\ DOMAIN (out \o lines) = 1..(Len(out) + 2)
          /\ \A n \in 1..Len(out) : (out \o lines)[n] = out[n]
          /\ \A n \in 1..2 : (out \o lines)[Len(out) + n] = lines[n]
      BY <2>4, ConcatParts DEF IInv
    <2>6. ASSUME NEW n \in DOMAIN out', out'[n][1] = "sample"
          PROVE  n \in DOMAIN out /\ out'[n] = out[n]
      <3>1. CASE n > Len(out)
        <4>1. n - Len(out) \in 1..2 /\ n = Len(out) + (n - Len(out))
          BY <2>2, <2>5, <3>1
        <4>2. out'[n] = entry(n - Len(out))
          BY <2>2, <2>3, <2>5, <4>1
        <4> QED
          BY <2>1, <2>6, <4>2
      <3> QED
        BY <2>2, <2>5, <3>1
    <2> QED
      BY <2>2, <2>5, <2>6 DEF Keeps
  <1>3. Onward
    BY <1>1, PairDone
  <1>4. Located'
    BY <1>1, InputConstant DEF IInv, Located, InPair
  <1>5. Buffered'
    BY <1>1 DEF Buffered, InPair
  <1> QED
    BY <1>1, <1>2, <1>3, <1>4, <1>5, QuietStep DEF IInv

LEMMA FinishStep ==
    ASSUME IInv, Finish
    PROVE  IInv'
  <1>1. /\ pc' = "returned" /\ UNCHANGED input /\ UNCHANGED <<family, pair, t, buf>>
    BY DEF Finish, Return, position, generation
  <1>2. IsSeq(out') /\ Keeps
    <2> PICK x : x = <<"EOF">>
      OBVIOUS
    <2>1. CASE Write(<<x>>) \/ WriteFails(<<x>>)
      <3>1. x[1] # "sample"
        OBVIOUS
      <3> QED
        BY <2>1, <3>1, OneQuiet DEF IInv
    <2>2. CASE out' = out
      BY <2>2, SameKeeps DEF IInv
    <2>3. CASE out' = <<>>
      BY <2>3, Singleton DEF Keeps
    <2> QED
      BY <2>1, <2>2, <2>3 DEF Finish
  <1>3. Located' /\ Buffered'
    BY <1>1 DEF Located, Buffered, InPair
  <1> QED
    BY <1>1, <1>2, <1>3, QuietStep DEF IInv

-----------------------------------------------------------------------------
(* Steps that write samples: a success of the pair in hand, or all of its   *)
(* failures.                                                                *)

(* What the samples written before can have in common with the pair.        *)
LEMMA SamplesBefore ==
    ASSUME IInv, Premise, InPair, NEW n \in DOMAIN out, out[n][1] = "sample"
    PROVE  /\ out[n][2] # Name(position, 2)
           /\ out[n][2] = Name(position, 1) => out[n][4] < Unix(t)
  <1>1. PICK p \in PairsOf, i \in 1..2 :
          /\ out[n][2] = Name(p, i)
          /\ Before(p) \/ (p = position /\ i = 1 /\ out[n][4] < Unix(t))
    BY DEF IInv, Placed, InPair
  <1>2. position \in PairsOf /\ ~Before(position)
    BY NamesMeant DEF IInv, Located, InPair
  <1>3. \A j \in 1..2 : Name(p, i) = Name(position, j) => p = position /\ i = j
    BY <1>2 DEF Premise, DistinctSeries
  <1> QED
    BY <1>1, <1>2, <1>3

LEMMA SuccessWritten ==
    ASSUME IInv, GeneratePoint, UNCHANGED input, OpenMetricsAsked
    PROVE  /\ IsSeq(out')
           /\ TimestampsIncrease'
           /\ (Premise => Placed)'
  <1>1. /\ pc = "generate" /\ pc' = "generate" /\ t' = t + Parse.interval
        /\ UNCHANGED <<family, pair>>
    BY DEF GeneratePoint, position, Advance
  <1>2. /\ config' = config /\ flags' = flags
        /\ Parse' = Parse /\ PairsOf' = PairsOf /\ (Premise' <=> Premise)
        /\ \A p, i : Name(p, i)' = Name(p, i)
    BY InputConstant
  <1> PICK x : x = Line(1)
    OBVIOUS
  <1> PICK lines : lines = <<x>>
    OBVIOUS
  <1>3. IsSeq(lines) /\ DOMAIN lines = 1..1 /\ lines[1] = x
    BY Singleton
  <1>4. Write(lines)
    BY DEF GeneratePoint, OpenMetricsAsked
  <1>5. Adds(lines)
    BY <1>3, <1>4, WriteAdds DEF IInv
  <1>6. x[1] = "sample" /\ x[2] = Name(position, 1) /\ x[4] = Unix(t)
    <2>1. SeriesName(1) = Name(position, 1)
      BY <1>1, NamesMeant DEF IInv, Located, InPair
    <2> QED
      BY <2>1 DEF Line
  <1>7. PICK d \in 0..1 : \A n \in DOMAIN out' : out'[n][1] = "sample" =>
          \/ n \in DOMAIN out /\ out'[n] = out[n]
          \/ n = Len(out) + 1 - d /\ n > Len(out) /\ out'[n] = x
    BY <1>3, <1>5 DEF Adds
  <1>8. DOMAIN out = 1..Len(out) /\ Len(out) \in Nat
    BY ConcatParts DEF IInv
  <1>9. Premise => Unix(t) \in Int /\ Unix(t') \in Int /\ Unix(t) < Unix(t')
    BY <1>1, InputTypes, UnixAdvances DEF IInv, Premise
  <1>10. ASSUME Premise'
         PROVE  \A n, m \in DOMAIN out' :
                  (n < m /\ out'[n][1] = "sample" /\ out'[m][1] = "sample"
                     /\ out'[n][2] = out'[m][2]) => out'[n][4] < out'[m][4]
    <2> SUFFICES ASSUME NEW n \in DOMAIN out', NEW m \in DOMAIN out', n < m,
                        out'[n][1] = "sample", out'[m][1] = "sample",
                        out'[n][2] = out'[m][2]
                 PROVE  out'[n][4] < out'[m][4]
      OBVIOUS
    <2>0. Premise
      BY <1>2, <1>10
    <2>1. CASE m \in DOMAIN out /\ out'[m] = out[m]
      <3>1. n \in DOMAIN out /\ out'[n] = out[n]
        BY <1>7, <1>8, <2>1
      <3> QED
        BY <2>0, <2>1, <3>1 DEF IInv, TimestampsIncrease, Premise
    <2>2. CASE m = Len(out) + 1 - d /\ m > Len(out) /\ out'[m] = x
      <3>1. n \in DOMAIN out /\ out'[n] = out[n]
        BY <1>7, <1>8, <2>2
      <3> QED
        BY <1>1, <1>6, <2>0, <2>2, <3>1, SamplesBefore DEF InPair
    <2> QED
      BY <1>7, <2>1, <2>2
  <1>11. TimestampsIncrease'
    BY <1>10 DEF TimestampsIncrease, Premise
  <1>12. ASSUME Premise' PROVE Placed'
    <2> SUFFICES ASSUME NEW n \in DOMAIN out', out'[n][1] = "sample"
                 PROVE  /\ out'[n][4] \in Int
                        /\ \E p \in PairsOf, i \in 1..2 :
                             /\ out'[n][2] = Name(p, i)
                             /\ \/ Before(p)
                                \/ p = position /\ i = 1 /\ out'[n][4] < Unix(t')
      BY <1>1, <1>2 DEF Placed, Before, position, InPair, Unix
    <2>0. Premise
      BY <1>2, <1>12
    <2>1. CASE n \in DOMAIN out /\ out'[n] = out[n]
      <3>1. PICK p \in PairsOf, i \in 1..2 :
              /\ out[n][4] \in Int /\ out[n][2] = Name(p, i)
              /\ Before(p) \/ (p = position /\ i = 1 /\ out[n][4] < Unix(t))
        BY <1>1, <2>0, <2>1 DEF IInv, Placed
      <3>2. out[n][4] < Unix(t) => out[n][4] < Unix(t')
        BY <1>9, <2>0, <3>1
      <3> QED
        BY <2>1, <3>1, <3>2
    <2>2. CASE out'[n] = x
      <3>1. position \in PairsOf
        BY <1>1, NamesMeant DEF IInv, Located, InPair
      <3> QED
        BY <1>6, <1>9, <2>0, <2>2, <3>1
    <2> QED
      BY <1>7, <2>1, <2>2
  <1> QED
    BY <1>5, <1>11, <1>12 DEF Adds

LEMMA GeneratePointStep ==
    ASSUME IInv, GeneratePoint
    PROVE  IInv'
  <1>1. /\ pc = "generate" /\ pc' = "generate" /\ t' = t + Parse.interval
        /\ UNCHANGED input /\ UNCHANGED <<family, pair>>
    BY DEF GeneratePoint, position, Advance
  <1>2. /\ config' = config /\ flags' = flags /\ (Premise' <=> Premise)
        /\ \A p, i : Name(p, i)' = Name(p, i)
    BY <1>1, InputConstant
  <1>3. t' \in Int /\ (Premise => Unix(t) \in Int /\ Unix(t') \in Int /\ Unix(t) < Unix(t'))
    <2>1. t \in Int /\ Parse.interval \in Int
      BY InputTypes DEF IInv
    <2>2. t' \in Int
      BY <1>1, <2>1
    <2> QED
      BY <1>1, <2>1, <2>2, UnixAdvances DEF Premise
  <1>4. Located'
    BY <1>1, <1>2 DEF IInv, Located, Pairs, InPair
  <1>5. CASE OpenMetricsAsked /\ buf' = Append(buf, Line(2))
    <2>1. IsSeq(out') /\ TimestampsIncrease' /\ (Premise => Placed)'
      BY <1>1, <1>5, SuccessWritten
    <2> PICK y : y = Line(2)
      OBVIOUS
    <2>2. y[1] = "sample" /\ y[2] = Name(position, 2) /\ y[4] = Unix(t)
      <3>1. SeriesName(2) = Name(position, 2)
        BY <1>1, NamesMeant DEF IInv, Located, InPair
      <3> QED
        BY <3>1 DEF Line
    <2>3. /\ IsSeq(buf') /\ Len(buf) \in Nat /\ DOMAIN buf = 1..Len(buf)
          /\ DOMAIN buf' = 1..(Len(buf) + 1)
          /\ buf'[Len(buf) + 1] = y /\ \A n \in 1..Len(buf) : buf'[n] = buf[n]
      <3>1. PICK S : buf \in Seq(S)
        BY DEF IInv, IsSeq
      <3> PICK R : R = S \cup {y}
        OBVIOUS
      <3>2. buf \in Seq(R) /\ y \in R /\ buf' = Append(buf, y)
        BY <1>5, <3>1
      <3>3. buf' \in Seq(R)
        BY <3>2
      <3> QED
        BY <3>2, <3>3 DEF IsSeq
    <2>4. ASSUME Premise PROVE Buffered'
      <3> SUFFICES ASSUME NEW n \in DOMAIN buf'
                   PROVE  /\ buf'[n][1] = "sample" /\ buf'[n][2] = Name(position, 2)
                          /\ buf'[n][4] \in Int /\ buf'[n][4] < Unix(t')
                          /\ \A m \in DOMAIN buf' : m < n => buf'[m][4] < buf'[n][4]
        BY <1>1, <1>2 DEF Buffered, position, Unix, Name
      <3>1. \A m \in 1..Len(buf) :
              /\ buf[m][1] = "sample" /\ buf[m][2] = Name(position, 2)
              /\ buf[m][4] \in Int /\ buf[m][4] < Unix(t)
              /\ \A l \in 1..Len(buf) : l < m => buf[l][4] < buf[m][4]
        BY <1>1, <2>3, <2>4 DEF IInv, Buffered, InPair
      <3>2. CASE n \in 1..Len(buf)
        <4>1. \A m \in DOMAIN buf' : m < n => m \in 1..Len(buf)
          BY <2>3, <3>2
        <4>2. buf[n][4] < Unix(t')
          BY <1>3, <2>4, <3>1, <3>2
        <4> QED
          BY <2>3, <3>1, <3>2, <4>1, <4>2
      <3>3. CASE n = Len(buf) + 1
        <4>1. \A m \in DOMAIN buf' : m < n => m \in 1..Len(buf)
          BY <2>3, <3>3
        <4>2. buf'[n] = y
          BY <2>3, <3>3
        <4> QED
          BY <1>3, <2>2, <2>3, <2>4, <3>1, <4>1, <4>2
      <3> QED
        BY <2>3, <3>2, <3>3
    <2> QED
      BY <1>1, <1>2, <1>3, <1>4, <2>1, <2>3, <2>4 DEF IInv
  <1>6. CASE out' = out /\ buf' = buf
    <2>1. Onward
      <3>1. Premise => Unix(t) <= Unix(t')
        BY <1>3
      <3> QED
        BY <1>1, <3>1, SamePosition DEF Onward, InPair, Unix
    <2>2. ASSUME Premise PROVE Buffered'
      <3>1. \A n \in DOMAIN buf :
              /\ buf[n][1] = "sample" /\ buf[n][2] = Name(position, 2)
              /\ buf[n][4] \in Int /\ buf[n][4] < Unix(t)
              /\ \A m \in DOMAIN buf : m < n => buf[m][4] < buf[n][4]
        BY <1>1, <2>2 DEF IInv, Buffered, InPair
      <3>2. \A n \in DOMAIN buf : buf[n][4] < Unix(t')
        BY <1>3, <2>2, <3>1
      <3> QED
        BY <1>1, <1>2, <1>6, <3>1, <3>2 DEF Buffered, position, Unix, Name
    <2> QED
      BY <1>1, <1>3, <1>4, <1>6, <2>1, <2>2, SameKeeps, QuietStep DEF IInv
  <1> QED
    BY <1>5, <1>6 DEF GeneratePoint

LEMMA CopyFailuresStep ==
    ASSUME IInv, CopyFailures
    PROVE  IInv'
  <1>1. /\ pc = "generated" /\ family' = family /\ UNCHANGED input
        /\ UNCHANGED <<t, buf>>
        /\ \/ pc' = "pair" /\ pair' = pair + 1
           \/ pc' = "returned" /\ pair' = pair
    BY DEF CopyFailures, Goto, Return, generation
  <1>2. /\ config' = config /\ flags' = flags
        /\ Parse' = Parse /\ PairsOf' = PairsOf /\ (Premise' <=> Premise)
        /\ \A p, i : Name(p, i)' = Name(p, i)
    BY <1>1, InputConstant
  <1>3. Adds(buf)
    BY WriteAdds, WriteFailsAdds DEF CopyFailures, IInv
  <1>4. PICK d \in 0..1 : \A n \in DOMAIN out' : out'[n][1] = "sample" =>
          \/ n \in DOMAIN out /\ out'[n] = out[n]
          \/ \E m \in DOMAIN buf :
               n = Len(out) + m - d /\ n > Len(out) /\ out'[n] = buf[m]
    BY <1>3 DEF Adds
  <1>5. /\ DOMAIN out = 1..Len(out) /\ Len(out) \in Nat
        /\ DOMAIN buf = 1..Len(buf) /\ Len(buf) \in Nat
    BY ConcatParts DEF IInv
  <1>6. Premise => \A m \in DOMAIN buf :
          /\ buf[m][2] = Name(position, 2) /\ buf[m][4] \in Int
          /\ \A l \in DOMAIN buf : l < m => buf[l][4] < buf[m][4]
    BY <1>1 DEF IInv, Buffered, InPair
  <1>7. ASSUME Premise
        PROVE  \A n, m \in DOMAIN out' :
                 (n < m /\ out'[n][1] = "sample" /\ out'[m][1] = "sample"
                    /\ out'[n][2] = out'[m][2]) => out'[n][4] < out'[m][4]
    <2> SUFFICES ASSUME NEW n \in DOMAIN out', NEW m \in DOMAIN out', n < m,
                        out'[n][1] = "sample", out'[m][1] = "sample",
                        out'[n][2] = out'[m][2]
                 PROVE  out'[n][4] < out'[m][4]
      OBVIOUS
    <2>1. CASE m \in DOMAIN out /\ out'[m] = out[m]
      <3>1. n \in DOMAIN out /\ out'[n] = out[n]
        BY <1>4, <1>5, <2>1
      <3> QED
        BY <1>7, <2>1, <3>1 DEF IInv, TimestampsIncrease, Premise
    <2>2. ASSUME NEW j \in DOMAIN buf,
                 m = Len(out) + j - d /\ m > Len(out) /\ out'[m] = buf[j]
          PROVE  out'[n][4] < out'[m][4]
      <3>1. CASE n \in DOMAIN out /\ out'[n] = out[n]
        <4>1. out[n][2] # Name(position, 2)
          BY <1>1, <1>7, <3>1, SamplesBefore DEF InPair
        <4> QED
          BY <1>6, <1>7, <2>2, <3>1, <4>1
      <3>2. ASSUME NEW l \in DOMAIN buf, n = Len(out) + l - d /\ out'[n] = buf[l]
            PROVE  out'[n][4] < out'[m][4]
        <4>1. l < j
          BY <1>5, <2>2, <3>2
        <4> QED
          BY <1>6, <1>7, <2>2, <3>2, <4>1
      <3> QED
        BY <1>4, <3>1, <3>2
    <2> QED
      BY <1>4, <2>1, <2>2
  <1>8. TimestampsIncrease'
    BY <1>2, <1>7 DEF TimestampsIncrease, Premise
  <1>9. ASSUME Premise, pc' # "returned" PROVE Placed'
    <2>1. pair' = pair + 1
      BY <1>1, <1>9
    <2>2. Onward
      BY <1>1, <2>1, PairDone
    <2>3. position \in PairsOf
      BY <1>1, NamesMeant DEF IInv, Located, InPair
    <2>4. \A p \in PairsOf : Before(p) \/ p = position => Before(p)'
      BY <1>1, <1>9, <2>2 DEF Onward, InPair
    <2> SUFFICES ASSUME NEW n \in DOMAIN out', out'[n][1] = "sample"
                 PROVE  /\ out'[n][4] \in Int
                        /\ \E p \in PairsOf, i \in 1..2 : out'[n][2] = Name(p, i) /\ Before(p)'
      BY <1>2 DEF Placed
    <2>5. CASE n \in DOMAIN out /\ out'[n] = out[n]
      <3>1. PICK p \in PairsOf, i \in 1..2 :
              /\ out[n][4] \in Int /\ out[n][2] = Name(p, i)
              /\ Before(p) \/ p = position
        BY <1>1, <1>9, <2>5 DEF IInv, Placed
      <3> QED
        BY <2>4, <2>5, <3>1
    <2>6. ASSUME NEW j \in DOMAIN buf, out'[n] = buf[j]
          PROVE  /\ out'[n][4] \in Int
                 /\ \E p \in PairsOf, i \in 1..2 : out'[n][2] = Name(p, i) /\ Before(p)'
      <3>1. out'[n][2] = Name(position, 2) /\ out'[n][4] \in Int
        BY <1>6, <1>9, <2>6
      <3> QED
        BY <2>3, <2>4, <3>1
    <2> QED
      BY <1>4, <2>5, <2>6
  <1>10. (Premise => Placed)'
    BY <1>2, <1>9 DEF Placed
  <1>11. Located' /\ Buffered'
    BY <1>1, <1>2 DEF IInv, Located, Buffered, InPair
  <1> QED
    BY <1>1, <1>2, <1>3, <1>8, <1>10, <1>11 DEF IInv, Adds

-----------------------------------------------------------------------------
LEMMA InitIInv == Init => IInv
  <1> SUFFICES ASSUME Init PROVE IInv
    OBVIOUS
  <1>1. IsSeq(out) /\ IsSeq(buf)
    BY Singleton DEF Init
  <1> QED
    BY <1>1 DEF Init, IInv, Located, InPair, Placed, Buffered, TimestampsIncrease

LEMMA NextIInv == IInv /\ [Next]_vars => IInv'
  <1> SUFFICES ASSUME IInv, [Next]_vars PROVE IInv'
    OBVIOUS
  <1>1. CASE UNCHANGED vars
    <2>1. UNCHANGED input /\ UNCHANGED <<pc, family, pair, t, buf, out>>
      BY <1>1 DEF vars, position, generation
    <2>2. config' = config /\ flags' = flags /\ \A p, i : Name(p, i)' = Name(p, i)
      BY <2>1, InputConstant
    <2>3. Located' /\ (Premise => Buffered')
      BY <2>1, <2>2 DEF IInv, Located, Pairs, Buffered, InPair, Name, position, Unix
    <2>4. Onward
      <3>1. Unix(t)' = Unix(t) /\ Unix(t) \in Int
        BY <2>1, TimeAssumption DEF IInv, Unix
      <3> QED
        BY <2>1, <3>1, SamePosition DEF Onward, InPair
    <2> QED
      BY <2>1, <2>3, <2>4, SameKeeps, QuietStep DEF IInv
  <1> QED
    BY <1>1, StartStep, BeginFamilyStep, BeginPairStep, EndFamilyStep, GeneratePointStep,
       GenerateFailsStep, GenerateEndStep, CopyFailuresStep, CloseWritersStep, FinishStep
    DEF Next

(* For every file whose series have distinct names and every interval of a  *)
(* second or more, the timestamps of a series increase: whatever writes     *)
(* fail, in whatever family or pair, with any flags.                        *)
THEOREM TimestampsCorrect == Spec => []TimestampsIncrease
  <1>1. IInv => TimestampsIncrease
    BY DEF IInv
  <1> QED
    BY <1>1, InitIInv, NextIInv, PTL DEF Spec

-----------------------------------------------------------------------------
(* A set of natural numbers has a least element, and one with an upper      *)
(* bound a greatest.                                                        *)
LEMMA LeastNatural ==
    ASSUME NEW T \in SUBSET Nat, T # {}
    PROVE  \E x \in T : \A y \in T : x <= y
  <1> DEFINE F == {1..n : n \in T}
  <1>1. F \subseteq FiniteSubsetsOf(Nat) /\ F # {}
    <2> SUFFICES ASSUME NEW n \in T PROVE 1..n \in FiniteSubsetsOf(Nat)
      OBVIOUS
    <2>1. IsFiniteSet(1..n)
      BY FS_Interval
    <2> QED
      BY <2>1 DEF FiniteSubsetsOf
  <1> HIDE DEF F
  <1>2. PICK X \in F : \A Y \in F : <<Y, X>> \notin StrictSubsetOrdering(Nat)
    BY <1>1, FS_StrictSubsetOrderingWellFounded, WFMin
  <1> USE DEF F
  <1>3. PICK x \in T : X = 1..x
    OBVIOUS
  <1>4. ASSUME NEW y \in T, ~(x <= y) PROVE FALSE
    <2>1. 1..y \in F /\ 1..y \subseteq 1..x /\ x \in 1..x /\ x \notin 1..y
      BY <1>4
    <2>2. 1..y # X /\ 1..y \in SUBSET Nat /\ X \in SUBSET Nat
      BY <1>3, <2>1
    <2>3. <<1..y, X>> \in StrictSubsetOrdering(Nat)
      BY <1>3, <2>1, <2>2 DEF StrictSubsetOrdering
    <2> QED
      BY <1>2, <2>1, <2>3
  <1> QED
    BY <1>4

LEMMA GreatestNatural ==
    ASSUME NEW b \in Nat, NEW T \in SUBSET (0..b), T # {}
    PROVE  \E x \in T : \A y \in T : y <= x
  <1> DEFINE U == {b - y : y \in T}
  <1>1. U \in SUBSET Nat /\ U # {}
    OBVIOUS
  <1>2. PICK u \in U : \A v \in U : u <= v
    BY <1>1, LeastNatural
  <1>3. PICK x \in T : u = b - x
    OBVIOUS
  <1>4. \A y \in T : u <= b - y
    BY <1>2
  <1> QED
    BY <1>3, <1>4

(* A sum over the points of a series is well defined, and made of ints.     *)
LEMMA SumsExist ==
    ASSUME NEW M, NEW K \in Nat
    PROVE  \E g : g = [n \in 0..K |-> IF n = 0 THEN 0 ELSE Add(g[n - 1], M[n])]
  <1> DEFINE Ok(g, k) == g = [n \in 0..k |-> IF n = 0 THEN 0 ELSE Add(g[n - 1], M[n])]
             T == {k \in Nat : \A g : ~Ok(g, k)}
  <1>1. SUFFICES ASSUME T # {} PROVE FALSE
    OBVIOUS
  <1>2. PICK k \in T : \A y \in T : k <= y
    BY <1>1, LeastNatural
  <1>3. CASE k = 0
    <2> DEFINE g == [n \in 0..0 |-> 0]
    <2>1. g = [n \in 0..0 |-> IF n = 0 THEN 0 ELSE Add(g[n - 1], M[n])]
      OBVIOUS
    <2>2. Ok(g, k)
      BY <1>3, <2>1
    <2> QED
      BY <2>2
  <1>4. CASE k # 0
    <2>1. k - 1 \in Nat /\ k - 1 \notin T
      BY <1>2, <1>4
    <2>2. PICK g : Ok(g, k - 1)
      BY <2>1
    <2> DEFINE h == [n \in 0..k |-> IF n = k THEN Add(g[k - 1], M[k]) ELSE g[n]]
    <2>3. \A n \in 0..(k - 1) : h[n] = g[n]
      OBVIOUS
    <2>4. \A n \in 0..k : h[n] = IF n = 0 THEN 0 ELSE Add(h[n - 1], M[n])
      <3> SUFFICES ASSUME NEW n \in 0..k
                   PROVE  h[n] = IF n = 0 THEN 0 ELSE Add(h[n - 1], M[n])
        OBVIOUS
      <3>1. CASE n = k
        <4>1. h[n] = Add(g[n - 1], M[n]) /\ n - 1 \in 0..(k - 1) /\ n # 0
          BY <1>4, <3>1
        <4> QED
          BY <2>3, <4>1
      <3>2. CASE n # k
        <4>1. n \in 0..(k - 1) /\ (n # 0 => n - 1 \in 0..(k - 1))
          BY <3>2
        <4>2. g[n] = IF n = 0 THEN 0 ELSE Add(g[n - 1], M[n])
          BY <2>2, <4>1
        <4> QED
          BY <2>3, <4>1, <4>2
      <3> QED
        BY <3>1, <3>2
    <2>5. h = [n \in 0..k |-> h[n]]
      OBVIOUS
    <2> HIDE DEF h
    <2>6. [n \in 0..k |-> h[n]] = [n \in 0..k |-> IF n = 0 THEN 0 ELSE Add(h[n - 1], M[n])]
      BY <2>4
    <2>7. Ok(h, k)
      BY <2>5, <2>6
    <2> QED
      BY <2>7
  <1> QED
    BY <1>3, <1>4

-----------------------------------------------------------------------------
(* What generates the samples of a pair.                                    *)
KindsOf(p) == config.families[p[1]].pairs[p[2]].kinds

(* The recursive function of the totals is what its definition says.        *)
LEMMA TotalMeans ==
    ASSUME NEW p, NEW i
    PROVE  /\ DOMAIN Total(p, i) = 0..MaxPoints
           /\ Total(p, i)[0] = 0
           /\ \A n \in 1..MaxPoints :
                Total(p, i)[n] = Add(Total(p, i)[n - 1], Meant(KindsOf(p), n)[i])
  <1> DEFINE M == [n \in 1..MaxPoints |-> Meant(KindsOf(p), n)[i]]
             Step(g) == [n \in 0..MaxPoints |-> IF n = 0 THEN 0 ELSE Add(g[n - 1], Meant(KindsOf(p), n)[i])]
  <1>1. PICK g : g = [n \in 0..MaxPoints |-> IF n = 0 THEN 0 ELSE Add(g[n - 1], M[n])]
    BY SumsExist, TimeAssumption
  <1>2. \A n \in 0..MaxPoints : n # 0 => M[n] = Meant(KindsOf(p), n)[i]
    BY TimeAssumption
  <1> HIDE DEF M
  <1>3. g = Step(g)
    BY <1>1, <1>2
  <1>4. Total(p, i) = CHOOSE total : total = Step(total)
    BY DEF Total, KindsOf
  <1>5. Total(p, i) = Step(Total(p, i))
    BY <1>3, <1>4
  <1> QED
    BY <1>5, TimeAssumption

-----------------------------------------------------------------------------
(* The compressing writers, of which SeriesCompressorProofs speaks.         *)

(* What SeriesCompressorProofs assumes of its constants holds here.         *)
LEMMA CompressorAssumed ==
    /\ MaxInt \in Nat /\ MaxInt > 3
    /\ {0} \subseteq -(MaxInt \div 4)..(MaxInt \div 4)
    /\ MaxPoints \in Nat
  BY IntAssumption, TimeAssumption

(* The two instances of the compressor are one.                             *)
LEMMA SameWriter ==
    /\ CP!Writer = C!Writer /\ CP!Int64 = C!Int64 /\ C!Int64 = Ints
    /\ CP!newCompressingSeriesWriter = C!newCompressingSeriesWriter
    /\ CP!MinInt = C!MinInt
    /\ \A u, v : CP!writerFunc(u, v) = C!writerFunc(u, v)
  <1>1. CP!Int64 = C!Int64 /\ C!Int64 = Ints
    BY DEF CP!Int64, C!Int64, CP!MinInt, C!MinInt, Ints
  <1>2. CP!Writer = C!Writer
    BY <1>1 DEF CP!Writer, C!Writer
  <1>3. \A u, v : CP!writerFunc(u, v) = C!writerFunc(u, v)
    BY DEF CP!writerFunc, C!writerFunc, CP!Shift, C!Shift, CP!EvenlySpaced, C!EvenlySpaced,
       CP!Extend, C!Extend, CP!Break, C!Break, CP!Emit, C!Emit, CP!Token, C!Token,
       CP!emitExpanding, C!emitExpanding, CP!Sub, C!Sub, CP!Expand, C!Expand,
       CP!MinInt, C!MinInt
  <1> QED
    BY <1>1, <1>2, <1>3 DEF CP!newCompressingSeriesWriter, C!newCompressingSeriesWriter,
       CP!MinInt, C!MinInt

(* A writer stays one, whatever total it is given.                          *)
LEMMA WriterKept ==
    /\ C!newCompressingSeriesWriter \in C!Writer
    /\ \A u \in C!Writer, v \in Ints : C!writerFunc(u, v) \in C!Writer
  <1>1. \A u \in CP!Writer, v \in CP!Int64 : CP!writerFunc(u, v) \in CP!Writer
    BY CP!WriterType, CompressorAssumed
  <1>2. CP!newCompressingSeriesWriter \in CP!Writer
    <2>1. /\ 0 \in CP!Int64 /\ MaxInt \in CP!Int64
      BY IntAssumption DEF CP!Int64, CP!MinInt
    <2> QED
      BY <2>1 DEF CP!newCompressingSeriesWriter, CP!Writer
  <1> QED
    BY <1>1, <1>2, SameWriter

(* Sums and differences of ints are ints.                                   *)
LEMMA WrappedInts ==
    ASSUME NEW x \in Ints, NEW y \in Ints
    PROVE  Add(x, y) \in Ints /\ C!Sub(x, y) \in Ints
  BY IntAssumption DEF Ints, Add, C!Sub, C!MinInt

-----------------------------------------------------------------------------
(* A generator is of exactly one kind.                                      *)
LEMMA OneKind ==
    ASSUME NEW k \in Kinds, Cardinality(DOMAIN k) = 1
    PROVE  \/ DOMAIN k = {"constant"} /\ k.constant \in ConstantKind
           \/ DOMAIN k = {"binomial"} /\ k.binomial \in BinomialKind
  <1>1. CASE k = <<>>
    <2>1. DOMAIN k = {}
      BY <1>1
    <2> QED
      BY <2>1, FS_EmptySet
  <1>2. CASE k \in [constant: ConstantKind, binomial: BinomialKind]
    <2>1. DOMAIN k = {"constant"} \cup {"binomial"} /\ "binomial" \notin {"constant"}
      BY <1>2
    <2>2. Cardinality({"constant"}) = 1 /\ IsFiniteSet({"constant"})
      BY FS_Singleton
    <2>3. Cardinality({"constant"} \cup {"binomial"}) = 2
      BY <2>1, <2>2, FS_AddElement
    <2> QED
      BY <2>1, <2>3
  <1>3. CASE k \in [constant: ConstantKind]
    BY <1>3
  <1>4. CASE k \in [binomial: BinomialKind]
    BY <1>4
  <1> QED
    BY <1>1, <1>2, <1>3, <1>4 DEF Kinds

Found(all, u) == SelectLastInSeq(all, LAMBDA o : InForce(o, u))

(* The loop over the overrides finds the last one in force.                 *)
LEMMA LastInForce ==
    ASSUME NEW all \in Seq(Override), NEW u
    PROVE  LET j == Found(all, u)
               fits == {x \in DOMAIN all : InForce(all[x], u)}
           IN IF fits = {} THEN j = 0 ELSE j \in fits /\ \A x \in fits : x <= j
  <1> DEFINE j == Found(all, u)
             fits == {x \in DOMAIN all : InForce(all[x], u)}
  <1>1. Len(all) \in Nat /\ DOMAIN all = 1..Len(all)
    OBVIOUS
  <1>2. j = IF fits # {} THEN Max(fits) ELSE 0
    BY <1>1 DEF Found, SelectLastInSeq
  <1>3. fits \in SUBSET (0..Len(all))
    BY <1>1
  <1> HIDE DEF fits
  <1>4. ASSUME fits # {} PROVE Max(fits) \in fits /\ \A x \in fits : x <= Max(fits)
    <2>1. PICK x \in fits : \A y \in fits : y <= x
      BY <1>1, <1>3, <1>4, GreatestNatural
    <2>2. \E z \in fits : \A y \in fits : z >= y
      BY <1>3, <2>1
    <2>3. Max(fits) \in fits /\ \A y \in fits : Max(fits) >= y
      BY <2>2 DEF Max
    <2> QED
      BY <1>3, <2>3
  <1> HIDE DEF j
  <1>5. IF fits = {} THEN j = 0 ELSE j \in fits /\ \A x \in fits : x <= j
    BY <1>2, <1>4
  <1> QED
    BY <1>5 DEF fits, j

(* The rates of a point are ints.                                           *)
LEMMA RatesType ==
    ASSUME NEW k \in Kinds, Cardinality(DOMAIN k) = 1, NEW n \in 1..MaxPoints, NEW u
    PROVE  Rates(k, n, u) \in Ints \X Ints
  <1>1. CASE DOMAIN k = {"constant"} /\ k.constant \in ConstantKind
    <2> DEFINE all == k.constant.overrides
               j == Found(all, u)
    <2>1. all \in Seq(Override) /\ k.constant.rates \in Ints \X Ints
      BY <1>1 DEF ConstantKind
    <2>2. j = 0 \/ j \in DOMAIN all
      BY <2>1, LastInForce
    <2>3. ConstantRates(k.constant, u) = IF j = 0 THEN k.constant.rates ELSE all[j].rates
      BY DEF ConstantRates, Found
    <2>4. j # 0 => all[j] \in Override
      BY <2>1, <2>2
    <2> QED
      BY <1>1, <2>1, <2>3, <2>4 DEF Rates, Override
  <1>2. CASE DOMAIN k = {"binomial"} /\ k.binomial \in BinomialKind
    <2>1. k.binomial.throughput \in Ints
      BY <1>2 DEF BinomialKind
    <2>2. Draw(k.binomial.throughput, n) \in Ints
      BY <2>1, IntAssumption
    <2>3. Rates(k, n, u) = BinomialRates(k.binomial, n)
      BY <1>2 DEF Rates
    <2> QED
      BY <2>1, <2>2, <2>3, WrappedInts DEF BinomialRates
  <1> QED
    BY <1>1, <1>2, OneKind

-----------------------------------------------------------------------------
(* Generation only starts from a file that is accepted.                     *)
Started == pc \notin {"run", "returned"} => Accepted

(* The inductive invariant of the types.                                    *)
TInv == IInv /\ TypeOK /\ Started

LEMMA KindInHand ==
    ASSUME TInv, InPair
    PROVE  /\ family \in DOMAIN config.families /\ pair \in DOMAIN Pairs
           /\ Pairs[pair].kinds \in Kinds /\ Cardinality(DOMAIN Pairs[pair].kinds) = 1
  <1>1. family \in DOMAIN config.families /\ pair \in DOMAIN Pairs
    BY DEF TInv, IInv, Located, InPair
  <1>2. Pairs[pair] \in PairConfig
    BY <1>1, InputTypes DEF TInv, IInv, Pairs
  <1>3. Accepted
    BY DEF TInv, Started, InPair
  <1> QED
    BY <1>1, <1>2, <1>3 DEF PairConfig, Accepted, Pairs

(* The next totals are two ints.                                            *)
LEMMA SumType ==
    ASSUME TInv, pc = "generate", points < MaxPoints
    PROVE  Sum \in Ints \X Ints /\ points + 1 \in 1..MaxPoints
  <1> DEFINE rates == Rates(Pairs[pair].kinds, points + 1, t)
  <1>1. points + 1 \in 1..MaxPoints
    BY TimeAssumption DEF TInv, TypeOK
  <1>2. rates \in Ints \X Ints
    BY <1>1, KindInHand, RatesType DEF InPair
  <1>3. totals \in Ints \X Ints
    BY DEF TInv, TypeOK
  <1>4. Sum = [i \in 1..2 |-> Add(totals[i], rates[i])]
    BY DEF Sum
  <1> HIDE DEF rates
  <1>5. Add(totals[1], rates[1]) \in Ints /\ Add(totals[2], rates[2]) \in Ints
    BY <1>2, <1>3, WrappedInts
  <1>6. Sum = <<Add(totals[1], rates[1]), Add(totals[2], rates[2])>>
    BY <1>4
  <1> QED
    BY <1>1, <1>5, <1>6

LEMMA InitTInv == Init => TInv
  <1> SUFFICES ASSUME Init PROVE TInv
    OBVIOUS
  <1>1. config.families \in Seq(FamilyConfig)
    BY InputTypes DEF Init
  <1>2. \A i \in 1..2 : csw[i] \in C!Writer
    BY WriterKept DEF Init
  <1>3. 0 \in Ints /\ 0 \in 0..MaxPoints
    BY IntAssumption, TimeAssumption DEF Ints
  <1>4. TypeOK
    BY <1>1, <1>2, <1>3 DEF Init, TypeOK
  <1> QED
    BY <1>4, InitIInv DEF TInv, Started, Init

LEMMA NextTInv == TInv /\ [Next]_vars => TInv'
  <1> SUFFICES ASSUME TInv, [Next]_vars PROVE TInv'
    OBVIOUS
  <1>0. IInv' /\ IInv
    BY NextIInv DEF TInv
  <1>1. CASE UNCHANGED vars
    BY <1>0, <1>1 DEF vars, input, position, generation, TInv, TypeOK, Started, Accepted
  <1>2. ASSUME UNCHANGED input, pc # "run", pc # "returned" PROVE Started'
    BY <1>2 DEF TInv, Started, Accepted, input
  <1>3. CASE Start
    <2>1. Started'
      BY <1>3 DEF Start, Goto, Return, Started, Accepted, input
    <2> QED
      BY <1>0, <1>3, <2>1 DEF Start, Goto, Return, input, position, generation, TInv, TypeOK
  <1>4. CASE BeginFamily
    BY <1>0, <1>2, <1>4 DEF BeginFamily, Goto, Return, input, position, generation, TInv, TypeOK
  <1>5. CASE BeginPair
    <2>1. 0 \in Ints /\ 0 \in 0..MaxPoints /\ Parse.start \in Int
      BY <1>0, IntAssumption, TimeAssumption, InputTypes DEF Ints, IInv
    <2>2. \A i \in 1..2 : csw'[i] \in C!Writer
      BY <1>5, WriterKept DEF BeginPair
    <2> QED
      BY <1>0, <1>2, <1>5, <2>1, <2>2 DEF BeginPair, Goto, input, position, TInv, TypeOK
  <1>6. CASE EndFamily
    <2>1. family \in DOMAIN config.families /\ config.families \in Seq(FamilyConfig)
      BY <1>0, <1>6, InputTypes DEF EndFamily, IInv, Located
    <2> QED
      BY <1>0, <1>2, <1>6, <2>1 DEF EndFamily, Goto, input, generation, TInv, TypeOK
  <1>7. CASE GeneratePoint
    <2>1. /\ Sum \in Ints \X Ints /\ points + 1 \in 1..MaxPoints
          /\ Parse.interval \in Int /\ t \in Int
      BY <1>0, <1>7, SumType, InputTypes DEF GeneratePoint, IInv
    <2>2. \A i \in 1..2 : csw'[i] \in C!Writer
      <3>1. Sum[1] \in Ints /\ Sum[2] \in Ints
        BY <2>1
      <3>2. \A i \in 1..2 : C!writerFunc(csw[i], Sum[i]) \in C!Writer
        BY <3>1, WriterKept DEF TInv, TypeOK
      <3> QED
        BY <1>7, <3>2 DEF GeneratePoint, TInv, TypeOK
    <2>3. Len(buf') <= points + 1
      <3>1. Len(buf) \in Nat /\ Len(buf) <= points /\ points \in Nat
        BY <1>0, ConcatParts DEF TInv, TypeOK, IInv
      <3>2. Len(Append(buf, Line(2))) = Len(buf) + 1
        BY <1>0 DEF IInv, IsSeq
      <3> QED
        BY <1>7, <3>1, <3>2 DEF GeneratePoint
    <2>4. t' \in Int /\ totals' = Sum /\ points' = points + 1 /\ points' \in 0..MaxPoints
      BY <1>7, <2>1 DEF GeneratePoint, Advance
    <2>5. UNCHANGED <<input, pc, result, family, pair, dropped>>
      BY <1>7 DEF GeneratePoint, position
    <2>6. TypeOK'
      BY <2>1, <2>2, <2>3, <2>4, <2>5 DEF TInv, TypeOK, input
    <2> QED
      BY <1>0, <1>2, <1>7, <2>5, <2>6 DEF TInv, GeneratePoint
  <1>8. CASE GenerateFails
    <2>1. family \in DOMAIN config.families /\ pair \in Nat \ {0}
      BY <1>0, <1>8, InputTypes DEF GenerateFails, IInv, Located
    <2>2. dropped' \subseteq (DOMAIN config.families) \X (Nat \ {0})
      BY <1>8, <2>1 DEF GenerateFails, position, TInv, TypeOK
    <2> QED
      BY <1>0, <1>2, <1>8, <2>2 DEF GenerateFails, BufferedOnError, Goto, input, position,
         TInv, TypeOK
  <1>9. CASE GenerateEnd
    BY <1>0, <1>2, <1>9 DEF GenerateEnd, Goto, input, position, generation, TInv, TypeOK
  <1>10. CASE CopyFailures
    <2>1. pair + 1 \in Nat \ {0}
      BY <1>0 DEF IInv
    <2> QED
      BY <1>0, <1>2, <1>10, <2>1 DEF CopyFailures, Goto, Return, input, generation, TInv, TypeOK
  <1>11. CASE CloseWriters
    <2>1. pair + 1 \in Nat \ {0}
      BY <1>0 DEF IInv
    <2> QED
      BY <1>0, <1>2, <1>11, <2>1 DEF CloseWriters, Goto, input, generation, TInv, TypeOK
  <1>12. CASE Finish
    BY <1>0, <1>2, <1>12 DEF Finish, Return, input, position, generation, TInv, TypeOK
  <1> QED
    BY <1>1, <1>3, <1>4, <1>5, <1>6, <1>7, <1>8, <1>9, <1>10, <1>11, <1>12 DEF Next

(* Totals stay ints, the writers of a unit test keep their types and no     *)
(* more failures wait than there were points, whatever writes fail.         *)
THEOREM TypeCorrect == Spec => []TypeOK
  <1>1. TInv => TypeOK
    BY DEF TInv
  <1> QED
    BY <1>1, InitTInv, NextTInv, PTL DEF Spec

-----------------------------------------------------------------------------
(* Termination: a command takes finitely many steps and is never blocked,   *)
(* if the interval is positive or there is nothing to generate.             *)

Bounded == Parse.interval > 0 \/ Parse.start >= Parse.end

(* The format is one of the code's, and the loop of generate is not entered *)
(* for an empty window, and otherwise passes a tick or more a turn.         *)
Underway ==
    /\ output \in {"openmetrics", "tsdb", "unittest", "other"}
    /\ pc \notin {"run", "returned"} => output # "other"
    /\ pc = "generate" /\ Parse.start >= Parse.end => t >= Parse.end
    /\ pc = "generate" /\ Parse.interval > 0 => Parse.start + points <= t

LEMMA NextUnderway == TInv /\ Underway /\ [Next]_vars => Underway'
  <1> SUFFICES ASSUME TInv, Underway, [Next]_vars PROVE Underway'
    OBVIOUS
  <1>1. output' = output /\ Parse' = Parse
    <2>1. UNCHANGED input
      BY DEF Next, Start, BeginFamily, BeginPair, EndFamily, GeneratePoint, GenerateFails,
         GenerateEnd, CopyFailures, CloseWriters, Finish, vars
    <2> QED
      BY <2>1, InputConstant
  <1>2. /\ Parse.start \in Int /\ Parse.end \in Int /\ Parse.interval \in Int
        /\ t \in Int /\ points \in Nat
    BY InputTypes, TimeAssumption DEF TInv, IInv, TypeOK
  <1>3. pc' \notin {"run", "returned"} => output' # "other"
    <2>1. CASE Start
      BY <1>1, <2>1 DEF Start, Goto, Return
    <2>2. CASE ~Start
      <3>1. pc' # "returned" => pc' = pc \/ pc \notin {"run", "returned"}
        BY <2>2 DEF Next, BeginFamily, BeginPair, EndFamily, GeneratePoint, GenerateFails,
           GenerateEnd, CopyFailures, CloseWriters, Finish, vars
      <3> QED
        BY <1>1, <3>1 DEF Underway
    <2> QED
      BY <2>1, <2>2
  <1>4. ASSUME pc' = "generate"
        PROVE  /\ Parse.start >= Parse.end => t' >= Parse.end
               /\ Parse.interval > 0 => Parse.start + points' <= t'
    <2>1. CASE BeginPair
      BY <1>2, <2>1 DEF BeginPair
    <2>2. CASE GeneratePoint
      BY <1>2, <2>2 DEF GeneratePoint, Advance, Underway
    <2>3. CASE UNCHANGED vars
      BY <1>2, <1>4, <2>3 DEF vars, generation, Underway
    <2>4. BeginPair \/ GeneratePoint \/ UNCHANGED vars
      <3>1. Start \/ BeginFamily \/ EndFamily \/ GenerateFails => pc' # "generate"
        BY DEF Start, BeginFamily, EndFamily, GenerateFails, Goto, Return
      <3>2. GenerateEnd \/ CopyFailures \/ CloseWriters \/ Finish => pc' # "generate"
        BY DEF GenerateEnd, CopyFailures, CloseWriters, Finish, Goto, Return
      <3> QED
        BY <1>4, <3>1, <3>2 DEF Next
    <2> QED
      BY <2>1, <2>2, <2>3, <2>4
  <1> QED
    BY <1>1, <1>3, <1>4 DEF Underway

LEMMA UnderwayInvariance == Spec => [](TInv /\ Underway)
  <1>1. Init => Underway
    BY DEF Init, Underway
  <1> QED
    BY <1>1, InitTInv, NextTInv, NextUnderway, PTL DEF Spec

(* What is left: families, pairs of the family in hand, ticks of the pair   *)
(* in hand. The count of a loop includes the step that ends it.             *)
FamiliesLeft ==
    CASE pc = "returned" -> 0
      [] pc = "run" -> Len(config.families) + 2
      [] OTHER -> Len(config.families) + 2 - family

PairsLeft ==
    CASE pc = "family" /\ family \in DOMAIN config.families -> Len(Pairs) + 1
      [] pc \in {"pair", "generate", "generated"} /\ pair <= Len(Pairs) -> Len(Pairs) + 1 - pair
      [] OTHER -> 0

TicksFrom(u) == IF u < Parse.end THEN Parse.end - u ELSE 0

TicksLeft ==
    CASE pc = "pair" -> TicksFrom(Parse.start) + 3
      [] pc = "generate" -> TicksFrom(t) + 2
      [] pc = "generated" -> 1
      [] OTHER -> 0

Left == <<FamiliesLeft, <<PairsLeft, TicksLeft>>>>

Counts == Nat \X (Nat \X Nat)

Less == {p \in Nat \X Nat : p[1] < p[2]}

(* Triples of counts, of which the earlier weighs more.                     *)
Fewer == LexPairOrdering(Less, LexPairOrdering(Less, Less, Nat, Nat), Nat, Nat \X Nat)

LEMMA FewerWellFounded == IsWellFoundedOn(Fewer, Counts)
  <1>1. Less = OpToRel(<, Nat)
    BY Zenon DEF Less, OpToRel
  <1>2. IsWellFoundedOn(Less, Nat)
    BY <1>1, NatLessThanWellFounded, Zenon
  <1>3. IsWellFoundedOn(LexPairOrdering(Less, Less, Nat, Nat), Nat \X Nat)
    BY <1>2, WFLexPairOrdering
  <1> QED
    BY <1>2, <1>3, WFLexPairOrdering DEF Fewer, Counts

LEMMA FewerIf ==
    ASSUME NEW a \in Nat, NEW b \in Nat, NEW c \in Nat,
           NEW d \in Nat, NEW e \in Nat, NEW f \in Nat,
           \/ a < d
           \/ a = d /\ (b < e \/ (b = e /\ c < f))
    PROVE  <<<<a, <<b, c>>>>, <<d, <<e, f>>>>>> \in Fewer
  <1> DEFINE Inner == LexPairOrdering(Less, Less, Nat, Nat)
  <1>1. /\ a < d => <<a, d>> \in Less
        /\ b < e => <<b, e>> \in Less
        /\ c < f => <<c, f>> \in Less
    BY DEF Less
  <1>2. b < e \/ (b = e /\ c < f) => <<<<b, c>>, <<e, f>>>> \in Inner
    BY <1>1 DEF LexPairOrdering
  <1> HIDE DEF Inner
  <1>3. <<<<a, <<b, c>>>>, <<d, <<e, f>>>>>> \in LexPairOrdering(Less, Inner, Nat, Nat \X Nat)
    BY <1>1, <1>2 DEF LexPairOrdering
  <1> QED
    BY <1>3 DEF Fewer, Inner

LEMMA PairsTyped ==
    ASSUME TInv, family \in DOMAIN config.families
    PROVE  Len(Pairs) \in Nat /\ pair \in Nat \ {0}
  <1>1. Pairs \in Seq(PairConfig)
    BY InputTypes DEF TInv, IInv, Pairs
  <1> QED
    BY <1>1 DEF TInv, IInv

LEMMA LeftType == TInv => FamiliesLeft \in Nat /\ PairsLeft \in Nat /\ TicksLeft \in Nat
  <1> SUFFICES ASSUME TInv
               PROVE  FamiliesLeft \in Nat /\ PairsLeft \in Nat /\ TicksLeft \in Nat
    OBVIOUS
  <1>1. /\ Len(config.families) \in Nat /\ family \in 1..(Len(config.families) + 1)
        /\ Parse.start \in Int /\ Parse.end \in Int /\ t \in Int
    BY InputTypes DEF TInv, IInv, TypeOK
  <1>2. FamiliesLeft \in Nat
    BY <1>1 DEF FamiliesLeft
  <1>3. TicksLeft \in Nat
    BY <1>1 DEF TicksLeft, TicksFrom
  <1>4. pc \in {"pair", "generate", "generated"} => family \in DOMAIN config.families
    BY DEF TInv, IInv, Located
  <1>5. PairsLeft \in Nat
    BY <1>4, PairsTyped DEF PairsLeft
  <1> QED
    BY <1>2, <1>3, <1>5

LEMMA NextLowers ==
    ASSUME TInv, Underway, Bounded, Next
    PROVE  \/ FamiliesLeft' < FamiliesLeft
           \/ /\ FamiliesLeft' = FamiliesLeft
              /\ \/ PairsLeft' < PairsLeft
                 \/ PairsLeft' = PairsLeft /\ TicksLeft' < TicksLeft
  <1>1. /\ Len(config.families) \in Nat /\ family \in 1..(Len(config.families) + 1)
        /\ Parse.start \in Int /\ Parse.end \in Int /\ Parse.interval \in Int /\ t \in Int
        /\ DOMAIN config.families = 1..Len(config.families)
    BY InputTypes DEF TInv, IInv, TypeOK
  <1>2. config' = config /\ Parse' = Parse
    <2>1. UNCHANGED input
      BY DEF Next, Start, BeginFamily, BeginPair, EndFamily, GeneratePoint, GenerateFails,
         GenerateEnd, CopyFailures, CloseWriters, Finish
    <2> QED
      BY <2>1, InputConstant
  <1>3. family \in DOMAIN config.families => Len(Pairs) \in Nat /\ pair \in Nat \ {0}
    BY PairsTyped
  <1>4. /\ pc \in {"pair", "generate", "generated"} => family \in DOMAIN config.families
        /\ pc \in {"generate", "generated"} => pair <= Len(Pairs)
    <2>1. /\ pc \in {"pair", "generate", "generated"} => family \in DOMAIN config.families
          /\ pc \in {"generate", "generated"} => pair \in DOMAIN Pairs
      BY DEF TInv, IInv, Located, InPair
    <2>2. family \in DOMAIN config.families => DOMAIN Pairs = 1..Len(Pairs)
      BY InputTypes DEF TInv, IInv, Pairs
    <2> QED
      BY <2>1, <2>2
  <1>5. ASSUME pc # "returned", pc' = "returned" PROVE FamiliesLeft' < FamiliesLeft
    BY <1>1, <1>5 DEF FamiliesLeft
  <1>6. CASE Start
    BY <1>1, <1>2, <1>5, <1>6 DEF Start, Goto, Return, position, FamiliesLeft, TInv, TypeOK
  <1>7. CASE EndFamily
    <2>1. family' = family + 1 /\ pc = "pair" /\ pc' = "family"
      BY <1>7 DEF EndFamily, Goto
    <2>2. FamiliesLeft = Len(config.families) + 2 - family
      BY <2>1 DEF FamiliesLeft
    <2>3. FamiliesLeft' = Len(config.families) + 2 - (family + 1)
      BY <1>2, <2>1 DEF FamiliesLeft
    <2> QED
      BY <1>1, <2>2, <2>3
  <1>8. ASSUME pc \notin {"run", "returned"}, pc' \notin {"run", "returned"}, family' = family
        PROVE  FamiliesLeft' = FamiliesLeft
    BY <1>2, <1>8 DEF FamiliesLeft
  <1>9. ASSUME family' = family PROVE Pairs' = Pairs
    BY <1>2, <1>9 DEF Pairs
  <1>10. CASE BeginFamily /\ pc' # "returned"
    <2>1. /\ pc = "family" /\ pc' = "pair" /\ family' = family /\ pair' = pair
          /\ family \in DOMAIN config.families
      BY <1>1, <1>10 DEF BeginFamily, Goto, Return, position
    <2>2. PairsLeft = Len(Pairs) + 1
      BY <2>1 DEF PairsLeft
    <2>3. PairsLeft' = IF pair <= Len(Pairs) THEN Len(Pairs) + 1 - pair ELSE 0
      BY <1>9, <2>1 DEF PairsLeft
    <2> QED
      BY <1>3, <1>8, <2>1, <2>2, <2>3
  <1>11. ASSUME pc \in {"pair", "generate", "generated"}, pc' \in {"pair", "generate", "generated"},
                family' = family, pair' = pair
         PROVE  PairsLeft' = PairsLeft
    BY <1>9, <1>11 DEF PairsLeft
  <1>12. CASE BeginPair
    <2>1. /\ pc = "pair" /\ pc' = "generate" /\ family' = family /\ pair' = pair
          /\ t' = Parse.start
      BY <1>12 DEF BeginPair, Goto, position
    <2>2. TicksLeft' < TicksLeft
      BY <1>1, <1>2, <2>1 DEF TicksLeft, TicksFrom
    <2> QED
      BY <1>8, <1>11, <2>1, <2>2
  <1>13. CASE GeneratePoint
    <2>1. /\ pc = "generate" /\ pc' = pc /\ family' = family /\ pair' = pair
          /\ t < Parse.end /\ t' = t + Parse.interval
      BY <1>13 DEF GeneratePoint, Advance, position
    <2>2. Parse.interval > 0
      BY <1>1, <2>1 DEF Underway, Bounded
    <2>3. TicksFrom(t)' < TicksFrom(t)
      BY <1>1, <1>2, <2>1, <2>2 DEF TicksFrom
    <2>4. TicksLeft' < TicksLeft
      BY <1>1, <1>2, <2>1, <2>3 DEF TicksLeft, TicksFrom
    <2> QED
      BY <1>8, <1>11, <2>1, <2>4
  <1>14. CASE GenerateFails \/ GenerateEnd
    <2>1. pc = "generate" /\ pc' = "generated" /\ family' = family /\ pair' = pair
      BY <1>14 DEF GenerateFails, GenerateEnd, Goto, position
    <2>2. TicksLeft' < TicksLeft
      BY <1>1, <2>1 DEF TicksLeft, TicksFrom
    <2> QED
      BY <1>8, <1>11, <2>1, <2>2
  <1>15. CASE (CopyFailures /\ pc' # "returned") \/ CloseWriters
    <2>1. pc = "generated" /\ pc' = "pair" /\ family' = family /\ pair' = pair + 1
      BY <1>15 DEF CopyFailures, CloseWriters, Goto, Return
    <2>2. PairsLeft = Len(Pairs) + 1 - pair /\ pair <= Len(Pairs)
      BY <1>4, <2>1 DEF PairsLeft
    <2>3. PairsLeft' = IF pair + 1 <= Len(Pairs) THEN Len(Pairs) + 1 - (pair + 1) ELSE 0
      BY <1>9, <2>1 DEF PairsLeft
    <2>4. Len(Pairs) \in Nat /\ pair \in Nat
      BY <1>3, <1>4, <2>1
    <2> QED
      BY <1>8, <2>1, <2>2, <2>3, <2>4
  <1>16. CASE pc' = "returned"
    <2>1. pc # "returned"
      BY DEF Next, Start, BeginFamily, BeginPair, EndFamily, GeneratePoint, GenerateFails,
         GenerateEnd, CopyFailures, CloseWriters, Finish
    <2> QED
      BY <1>5, <1>16, <2>1
  <1>17. Finish => pc' = "returned"
    BY DEF Finish, Return
  <1> QED
    BY <1>6, <1>7, <1>10, <1>12, <1>13, <1>14, <1>15, <1>16, <1>17 DEF Next

(* A step that lowers the counts.                                           *)
Lowered == <<Left', Left>> \in Fewer

(* With a positive interval, however small, or an empty window, each step   *)
(* lowers a triple of counts in an order without infinite descent: the      *)
(* loops over families, pairs and points end, whatever file, flags and      *)
(* failing writes, and with no bound on the points of a series.             *)
THEOREM StepsRunOut ==
    /\ IsWellFoundedOn(Fewer, Counts)
    /\ Spec => [](Left \in Counts) /\ [][Bounded => Lowered]_vars
  <1>1. TInv => Left \in Counts
    BY LeftType DEF Left, Counts
  <1>2. TInv /\ Underway /\ TInv' /\ [Next]_vars => [Bounded => Lowered]_vars
    <2> SUFFICES ASSUME TInv, Underway, TInv', Next, Bounded PROVE Lowered
      OBVIOUS
    <2>1. (TInv => FamiliesLeft \in Nat /\ PairsLeft \in Nat /\ TicksLeft \in Nat)'
      BY LeftType, PTL
    <2>2. /\ FamiliesLeft \in Nat /\ PairsLeft \in Nat /\ TicksLeft \in Nat
          /\ FamiliesLeft' \in Nat /\ PairsLeft' \in Nat /\ TicksLeft' \in Nat
      BY <2>1, LeftType
    <2> QED
      BY <2>2, NextLowers, FewerIf DEF Left, Lowered
  <1>3. Spec => [](Left \in Counts) /\ [][Bounded => Lowered]_vars
    BY <1>1, <1>2, UnderwayInvariance, PTL DEF Spec
  <1> QED
    BY <1>3, FewerWellFounded

(* The guards of the steps. MaxPoints is the model's bound on a loop.       *)
CanStep ==
    \/ pc \in {"run", "pair"}
    \/ pc \in {"family", "generated"} /\ (OpenMetricsAsked \/ output = "unittest")
    \/ pc = "generate" /\ (~(t < Parse.end) \/ OpenMetricsAsked)
    \/ pc = "generate" /\ points < MaxPoints /\ output = "unittest"

(* The window has no more ticks than a series may have points.              *)
WindowFits == Parse.end - Parse.start <= MaxPoints

(* Until it returns, a command has a step: no format is accepted that one   *)
(* of the later switches does not know, and a loop that advances passes the *)
(* end of the window.                                                       *)
THEOREM NeverBlocked ==
    Spec => [](Bounded /\ WindowFits => pc = "returned" \/ CanStep)
  <1>1. TInv /\ Underway => (Bounded /\ WindowFits => pc = "returned" \/ CanStep)
    <2> SUFFICES ASSUME TInv, Underway, Bounded, WindowFits, pc # "returned" PROVE CanStep
      OBVIOUS
    <2>1. /\ Parse.start \in Int /\ Parse.end \in Int /\ Parse.interval \in Int
          /\ t \in Int /\ points \in 0..MaxPoints /\ MaxPoints \in Nat
          /\ pc \in {"run", "family", "pair", "generate", "generated"}
      BY InputTypes, TimeAssumption DEF TInv, IInv, TypeOK
    <2>2. pc # "run" => OpenMetricsAsked \/ output = "unittest"
      BY <2>1 DEF Underway, OpenMetricsAsked
    <2>3. pc = "generate" /\ t < Parse.end => points < MaxPoints
      BY <2>1 DEF Underway, Bounded, WindowFits
    <2> QED
      BY <2>1, <2>2, <2>3 DEF CanStep
  <1> QED
    BY <1>1, UnderwayInvariance, PTL
=============================================================================
