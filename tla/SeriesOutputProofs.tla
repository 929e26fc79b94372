------------------------- MODULE SeriesOutputProofs -------------------------
(***************************************************************************)
(* SeriesGenerator: what is in the output of a successful run, for every    *)
(* series file and all flags. The samples of a backfill fill the window in  *)
(* which its rules are evaluated; without a dropped error the output is     *)
(* the one the configuration stands for; with one it is truncated evenly.   *)
(***************************************************************************)
EXTENDS SeriesGeneratorProofs

(* OpenMetrics are being written, and no error was dropped.                 *)
Filling ==
    OpenMetricsAsked /\ dropped = {} /\ Parse.start < Parse.end /\ pc # "returned"

Written(lines, name, u) ==
    \E n \in DOMAIN lines :
      lines[n][1] = "sample" /\ lines[n][2] = name /\ lines[n][4] = Unix(u)

(* The first point is written, and one less than an interval before u.      *)
Reached(lines, name, u) ==
    Written(lines, name, Parse.start) /\ Written(lines, name, u - Parse.interval)

Within(lines) ==
    \A n \in DOMAIN lines :
      lines[n][1] = "sample" => lines[n][4] \in Unix(Parse.start)..Unix(Parse.end)

Untorn == \A n \in DOMAIN out : out[n][1] # "torn"

(* The failures that wait are samples.                                      *)
Waiting == InPair => \A n \in DOMAIN buf : buf[n][1] = "sample"

(* A pair that is done has samples up to a point at or past the end.        *)
PairsReached ==
    \A p \in PairsOf, i \in 1..2 : Before(p) =>
      \E u \in Int : u >= Parse.end /\ Reached(out, Name(p, i), u)

(* The pair in hand has samples up to its next point.                       *)
PairReaches ==
    InPair =>
      /\ Within(buf)
      /\ \/ t = Parse.start
         \/ /\ t > Parse.start
            /\ Reached(out, Name(position, 1), t)
            /\ Reached(buf, Name(position, 2), t)
      /\ pc = "generated" => t >= Parse.end

(* With an interval of 0, or a negative one, no pair is ever done.          *)
Endless ==
    Parse.interval <= 0 =>
      (\A p \in PairsOf : ~Before(p)) /\ (InPair => pc = "generate" /\ t <= Parse.start)

Fills == Parse.interval > 0 => Within(out) /\ PairsReached /\ PairReaches

(* The inductive invariant, beside IInv.                                    *)
WInv ==
    /\ pc # "returned" => result # "ok"
    /\ RulesSeeSeries
    /\ Filling => Untorn /\ Waiting /\ Endless /\ Fills

-----------------------------------------------------------------------------
LEMMA UnixMonotone ==
    ASSUME NEW a \in Int, NEW b \in Int, a <= b
    PROVE  Unix(a) \in Int /\ Unix(b) \in Int /\ Unix(a) <= Unix(b)
  BY TimeAssumption DEF Unix

LEMMA UntornWrite ==
    ASSUME NEW lines, IsSeq(out), Untorn, Write(lines)
    PROVE  out' = out \o lines
  <1>1. DOMAIN out = 1..Len(out) /\ Len(out) \in Nat /\ (out # <<>> => Len(out) # 0)
    BY ConcatParts, TailParts
  <1>2. ASSUME out # <<>> PROVE Last(out) # <<"torn">>
    <2>1. Len(out) \in DOMAIN out
      BY <1>1, <1>2
    <2>2. out[Len(out)][1] # "torn"
      BY <2>1 DEF Untorn
    <2> QED
      BY <2>2 DEF Last
  <1> QED
    BY <1>2 DEF Write

(* What is appended to lines takes nothing from them.                       *)
LEMMA AppendedKeeps ==
    ASSUME NEW s, NEW u, IsSeq(s), IsSeq(u)
    PROVE  /\ \A name, x : Written(s, name, x) \/ Written(u, name, x) => Written(s \o u, name, x)
           /\ Within(s) /\ Within(u) => Within(s \o u)
           /\ (\A n \in DOMAIN s : s[n][1] # "torn") /\ (\A n \in DOMAIN u : u[n][1] # "torn")
                => \A n \in DOMAIN (s \o u) : (s \o u)[n][1] # "torn"
  <1> PICK v : v = s \o u
    OBVIOUS
  <1>1. /\ DOMAIN s = 1..Len(s) /\ DOMAIN u = 1..Len(u)
        /\ Len(s) \in Nat /\ Len(u) \in Nat /\ DOMAIN v = 1..(Len(s) + Len(u))
        /\ \A n \in 1..Len(s) : v[n] = s[n]
        /\ \A n \in 1..Len(u) : v[Len(s) + n] = u[n]
    BY ConcatParts
  <1>2. /\ \A n \in DOMAIN s : n \in DOMAIN v /\ v[n] = s[n]
        /\ \A n \in DOMAIN u : Len(s) + n \in DOMAIN v /\ v[Len(s) + n] = u[n]
    BY <1>1
  <1>3. \A n \in DOMAIN v : \/ n \in DOMAIN s /\ v[n] = s[n]
                            \/ \E m \in DOMAIN u : v[n] = u[m]
    <2> SUFFICES ASSUME NEW n \in DOMAIN v, n \notin DOMAIN s
                 PROVE  \E m \in DOMAIN u : v[n] = u[m]
      BY <1>2
    <2>1. n - Len(s) \in DOMAIN u /\ n = Len(s) + (n - Len(s))
      BY <1>1
    <2> QED
      BY <1>2, <2>1
  <1>4. \A name, x : Written(s, name, x) \/ Written(u, name, x) => Written(v, name, x)
    BY <1>2 DEF Written
  <1>5. Within(s) /\ Within(u) => Within(v)
    BY <1>3 DEF Within
  <1>6. (\A n \in DOMAIN s : s[n][1] # "torn") /\ (\A n \in DOMAIN u : u[n][1] # "torn")
          => \A n \in DOMAIN v : v[n][1] # "torn"
    BY <1>3
  <1> QED
    BY <1>4, <1>5, <1>6

LEMMA OneLine ==
    ASSUME NEW x
    PROVE  /\ IsSeq(<<x>>) /\ \A n \in DOMAIN <<x>> : <<x>>[n] = x
           /\ \E n \in DOMAIN <<x>> : <<x>>[n] = x
  <1>1. IsSeq(<<x>>) /\ DOMAIN <<x>> = 1..1 /\ <<x>>[1] = x
    BY Singleton
  <1> QED
    BY <1>1

-----------------------------------------------------------------------------
(* Every step but the last leaves the result and the window of the rules to *)
(* later ones.                                                              *)
LEMMA StepMeans ==
    ASSUME IInv, Next
    PROVE  /\ UNCHANGED input /\ pc # "returned"
           /\ config' = config /\ flags' = flags /\ output' = output
           /\ Parse' = Parse /\ PairsOf' = PairsOf
           /\ \A p, i : Name(p, i)' = Name(p, i)
           /\ result' = result \/ pc' = "returned"
           /\ dropped \subseteq dropped'
           /\ Filling' => Filling
           /\ Finish \/ result' = result \/ result' = "error"
  <1>1. /\ UNCHANGED input /\ pc # "returned" /\ dropped \subseteq dropped'
        /\ result' = result \/ pc' = "returned"
        /\ Finish \/ result' = result \/ result' = "error"
    BY Zenon DEF Next, Start, BeginFamily, BeginPair, EndFamily, GeneratePoint, GenerateFails,
       GenerateEnd, CopyFailures, CloseWriters, Finish, Goto, Return
  <1>2. /\ config' = config /\ flags' = flags /\ output' = output
        /\ Parse' = Parse /\ PairsOf' = PairsOf
        /\ \A p, i : Name(p, i)' = Name(p, i)
    BY <1>1, InputConstant
  <1> QED
    BY <1>1, <1>2 DEF Filling, OpenMetricsAsked

(* What the properties of the output say of it, after lines are appended.   *)
LEMMA OutputGrows ==
    ASSUME IInv, WInv, Next, Filling', NEW lines, IsSeq(lines), out' = out \o lines,
           \A n \in DOMAIN lines : lines[n][1] # "torn"
    PROVE  /\ Untorn'
           /\ \A name, u : Reached(out, name, u) => Reached(out', name, u)
           /\ Parse.interval > 0 /\ Within(lines) => Within(out')
           /\ Parse.interval > 0 =>
                \A p \in PairsOf, i \in 1..2 : Before(p) =>
                  \E u \in Int : u >= Parse.end /\ Reached(out', Name(p, i), u)
  <1>1. Filling /\ IsSeq(out)
    BY StepMeans DEF IInv
  <1>2. Untorn /\ Fills
    BY <1>1 DEF WInv
  <1>3. \A name, u : Reached(out, name, u) => Reached(out', name, u)
    BY <1>1, AppendedKeeps DEF Reached
  <1>4. Untorn'
    BY <1>1, <1>2, AppendedKeeps DEF Untorn
  <1>5. Parse.interval > 0 /\ Within(lines) => Within(out')
    BY <1>1, <1>2, AppendedKeeps DEF Fills
  <1> QED
    BY <1>2, <1>3, <1>4, <1>5 DEF Fills, PairsReached

(* A step after which no pair is in hand, and which writes no samples.      *)
LEMMA FillsKept ==
    ASSUME IInv, WInv, Next, Filling', NEW lines, IsSeq(lines), out' = out \o lines,
           \A n \in DOMAIN lines : lines[n][1] \notin {"sample", "torn"},
           ~InPair', \A p \in PairsOf : Before(p)' => Before(p)
    PROVE  (Untorn /\ Waiting /\ Endless /\ Fills)'
  <1>1. /\ Filling /\ Parse' = Parse /\ PairsOf' = PairsOf
        /\ \A p, i : Name(p, i)' = Name(p, i)
    BY StepMeans
  <1>2. Within(lines)
    BY DEF Within
  <1>3. /\ Untorn' /\ (Parse.interval > 0 => Within(out'))
        /\ Parse.interval > 0 =>
                \A p \in PairsOf, i \in 1..2 : Before(p) =>
                  \E u \in Int : u >= Parse.end /\ Reached(out', Name(p, i), u)
    BY <1>2, OutputGrows
  <1>4. Waiting' /\ PairReaches'
    BY DEF Waiting, PairReaches
  <1>5. Endless'
    BY <1>1 DEF WInv, Endless
  <1>6. Parse.interval > 0 => Within(out)'
    BY <1>1, <1>3 DEF Within, Unix
  <1>7. ASSUME Parse.interval > 0 PROVE PairsReached'
    <2> SUFFICES ASSUME NEW p \in PairsOf, NEW i \in 1..2, Before(p)'
                 PROVE  \E u \in Int : u >= Parse'.end /\ Reached(out, Name(p, i), u)'
      BY <1>1 DEF PairsReached
    <2>1. PICK u \in Int : u >= Parse.end /\ Reached(out', Name(p, i), u)
      BY <1>3, <1>7
    <2>2. Reached(out, Name(p, i), u)'
      BY <1>1, <2>1 DEF Reached, Written, Unix
    <2> QED
      BY <1>1, <2>1, <2>2
  <1> QED
    BY <1>1, <1>3, <1>4, <1>5, <1>6, <1>7 DEF Fills

LEMMA NothingWritten ==
    ASSUME IsSeq(out), out' = out
    PROVE  IsSeq(<<>>) /\ out' = out \o <<>> /\ DOMAIN <<>> = {}
  <1>1. PICK S : out \in Seq(S)
    BY DEF IsSeq
  <1>2. out \o <<>> = out
    BY <1>1
  <1>3. DOMAIN <<>> = {}
    OBVIOUS
  <1> QED
    BY <1>2, <1>3, Singleton

LEMMA StartFills ==
    ASSUME IInv, WInv, Next, Filling', Start
    PROVE  (Untorn /\ Waiting /\ Endless /\ Fills)'
  <1>1. pc' = "family" /\ UNCHANGED <<out, family, pair>>
    BY DEF Start, Goto, Return, Filling, position
  <1>2. ~InPair' /\ \A p \in PairsOf : Before(p)' => Before(p)
    BY <1>1 DEF InPair, Before
  <1> QED
    BY <1>1, <1>2, NothingWritten, FillsKept DEF IInv

LEMMA BeginFamilyFills ==
    ASSUME IInv, WInv, Next, Filling', BeginFamily
    PROVE  (Untorn /\ Waiting /\ Endless /\ Fills)'
  <1> PICK x : x = <<"help", family>>
    OBVIOUS
  <1>0. Filling
    BY StepMeans
  <1>1. pc' = "pair" /\ Write(<<x>>) /\ UNCHANGED <<family, pair>>
    BY <1>0 DEF BeginFamily, Goto, Return, Filling, position, OpenMetricsAsked
  <1>2. ~InPair' /\ \A p \in PairsOf : Before(p)' => Before(p)
    BY <1>1 DEF InPair, Before
  <1> PICK lines : lines = <<x>>
    OBVIOUS
  <1>3. IsSeq(lines) /\ \A n \in DOMAIN lines : lines[n] = x
    BY OneLine
  <1>4. out' = out \o lines
    BY <1>0, <1>1, <1>3, UntornWrite DEF IInv, WInv
  <1>5. x[1] \notin {"sample", "torn"}
    OBVIOUS
  <1> QED
    BY <1>2, <1>3, <1>4, <1>5, FillsKept

LEMMA EndFamilyFills ==
    ASSUME IInv, WInv, Next, Filling', EndFamily
    PROVE  (Untorn /\ Waiting /\ Endless /\ Fills)'
  <1>1. /\ pc = "pair" /\ pair > Len(Pairs) /\ pc' = "family"
        /\ family' = family + 1 /\ pair' = 1 /\ out' = out
    BY DEF EndFamily, Goto
  <1>2. \A p \in PairsOf : Before(p)' => Before(p)
    <2> SUFFICES ASSUME NEW f \in DOMAIN config.families,
                        NEW s \in DOMAIN config.families[f].pairs,
                        NEW p, p = <<f, s>>, Before(p)'
                 PROVE  Before(p)
      BY DEF PairsOf
    <2>1. f \in Nat /\ config.families[f].pairs \in Seq(PairConfig)
      BY InputTypes DEF IInv
    <2>2. s \in Nat /\ s <= Len(config.families[f].pairs)
      BY <2>1
    <2> QED
      BY <1>1, <2>1, <2>2 DEF IInv, Before, Pairs
  <1> QED
    BY <1>1, <1>2, NothingWritten, FillsKept DEF IInv, InPair

LEMMA BeginPairFills ==
    ASSUME IInv, WInv, Next, Filling', BeginPair
    PROVE  (Untorn /\ Waiting /\ Endless /\ Fills)'
  <1>1. /\ pc = "pair" /\ pc' = "generate" /\ t' = Parse.start /\ buf' = <<>>
        /\ UNCHANGED <<out, family, pair>>
    BY DEF BeginPair, Goto, position
  <1>2. /\ Filling /\ Parse' = Parse /\ PairsOf' = PairsOf /\ Parse.start \in Int
        /\ \A p, i : Name(p, i)' = Name(p, i)
    BY StepMeans, InputTypes DEF IInv
  <1>3. \A p \in PairsOf : Before(p)' <=> Before(p)
    BY <1>1 DEF Before
  <1>4. Untorn' /\ Waiting' /\ Endless'
    BY <1>1, <1>2, <1>3 DEF WInv, Untorn, Waiting, Endless, InPair
  <1>5. Parse.interval > 0 => Within(out)' /\ PairsReached'
    BY <1>1, <1>2, <1>3 DEF WInv, Fills, Within, PairsReached, Reached, Written, Unix
  <1>6. PairReaches'
    BY <1>1, <1>2 DEF PairReaches, Within
  <1> QED
    BY <1>2, <1>4, <1>5, <1>6 DEF Fills

LEMMA GenerateEndFills ==
    ASSUME IInv, WInv, Next, Filling', GenerateEnd
    PROVE  (Untorn /\ Waiting /\ Endless /\ Fills)'
  <1>1. /\ pc = "generate" /\ pc' = "generated" /\ t >= Parse.end
        /\ UNCHANGED <<out, buf, t, family, pair>>
    BY InputTypes DEF GenerateEnd, Goto, position, generation, IInv
  <1>2. /\ Filling /\ Parse' = Parse /\ PairsOf' = PairsOf
        /\ Parse.start \in Int /\ Parse.end \in Int /\ t \in Int
        /\ \A p, i : Name(p, i)' = Name(p, i)
    BY StepMeans, InputTypes DEF IInv
  <1>3. position' = position /\ \A p \in PairsOf : Before(p)' <=> Before(p)
    BY <1>1 DEF Before, position
  <1>4. ~(Parse.interval <= 0)
    BY <1>1, <1>2 DEF WInv, Endless, InPair, Filling
  <1>5. Untorn' /\ Waiting' /\ Endless'
    BY <1>1, <1>2, <1>4 DEF WInv, Untorn, Waiting, Endless, InPair
  <1>6. Parse.interval > 0 => Within(out)' /\ PairsReached'
    BY <1>1, <1>2, <1>3 DEF WInv, Fills, Within, PairsReached, Reached, Written, Unix
  <1>7. Parse.interval > 0 => PairReaches'
    BY <1>1, <1>2, <1>3 DEF WInv, Fills, PairReaches, Within, Reached, Written, Unix, InPair
  <1> QED
    BY <1>2, <1>5, <1>6, <1>7 DEF Fills

-----------------------------------------------------------------------------
(* Steps that write samples.                                                *)

(* A line of the pair in hand.                                              *)
LEMMA LineMeans ==
    ASSUME IInv, InPair, NEW i \in 1..2
    PROVE  Line(i)[1] = "sample" /\ Line(i)[2] = Name(position, i) /\ Line(i)[4] = Unix(t)
  <1>1. SeriesName(1) = Name(position, 1) /\ SeriesName(2) = Name(position, 2)
    BY NamesMeant DEF IInv, Located, InPair
  <1>2. SeriesName(i) = Name(position, i)
    BY <1>1
  <1> QED
    BY <1>2 DEF Line

(* One line more takes what is reached to the next point.                   *)
LEMMA ReachesNext ==
    ASSUME NEW lines, IsSeq(lines), NEW x, NEW name, NEW u \in Int, IInv,
           x[1] = "sample", x[2] = name, x[4] = Unix(u),
           u = Parse.start \/ Reached(lines, name, u)
    PROVE  Reached(lines \o <<x>>, name, u + Parse.interval)
  <1> PICK one : one = <<x>>
    OBVIOUS
  <1>1. IsSeq(one) /\ \E n \in DOMAIN one : one[n] = x
    BY OneLine
  <1>2. Written(one, name, u)
    BY <1>1 DEF Written
  <1>3. \A v : Written(lines, name, v) \/ Written(one, name, v) => Written(lines \o one, name, v)
    BY <1>1, AppendedKeeps
  <1>4. (u + Parse.interval) - Parse.interval = u
    BY InputTypes DEF IInv
  <1>5. Written(lines \o one, name, Parse.start)
    BY <1>2, <1>3 DEF Reached
  <1> QED
    BY <1>2, <1>3, <1>4, <1>5 DEF Reached

LEMMA GeneratePointFills ==
    ASSUME IInv, WInv, Next, Filling', GeneratePoint
    PROVE  (Untorn /\ Waiting /\ Endless /\ Fills)'
  <1> PICK x : x = Line(1)
    OBVIOUS
  <1> PICK y : y = Line(2)
    OBVIOUS
  <1> PICK xs : xs = <<x>>
    OBVIOUS
  <1> PICK ys : ys = <<y>>
    OBVIOUS
  <1>0. /\ Filling /\ Parse' = Parse /\ PairsOf' = PairsOf
        /\ Parse.start \in Int /\ Parse.end \in Int /\ Parse.interval \in Int /\ t \in Int
        /\ \A p, i : Name(p, i)' = Name(p, i)
    BY StepMeans, InputTypes DEF IInv
  <1>1. /\ pc = "generate" /\ pc' = "generate" /\ t < Parse.end /\ t' = t + Parse.interval
        /\ UNCHANGED <<family, pair>>
    BY DEF GeneratePoint, position, Advance
  <1>2. Write(xs) /\ buf' = Append(buf, y)
    BY <1>0 DEF GeneratePoint, Filling, OpenMetricsAsked
  <1>3. position' = position /\ \A p \in PairsOf : Before(p)' <=> Before(p)
    BY <1>1 DEF Before, position
  <1>4. /\ x[1] = "sample" /\ x[2] = Name(position, 1) /\ x[4] = Unix(t)
        /\ y[1] = "sample" /\ y[2] = Name(position, 2) /\ y[4] = Unix(t)
    <2>1. InPair /\ 1 \in 1..2 /\ 2 \in 1..2
      BY <1>1 DEF InPair
    <2> QED
      BY <2>1, LineMeans
  <1>5. /\ IsSeq(xs) /\ \A n \in DOMAIN xs : xs[n] = x
        /\ IsSeq(ys) /\ \A n \in DOMAIN ys : ys[n] = y
    BY OneLine
  <1>6. out' = out \o xs
    BY <1>0, <1>2, <1>5, UntornWrite DEF IInv, WInv
  <1>7. buf' = buf \o ys
    <2>1. PICK S : buf \in Seq(S)
      BY DEF IInv, IsSeq
    <2> PICK R : R = S \cup {y}
      OBVIOUS
    <2>2. buf \in Seq(R) /\ y \in R
      BY <2>1
    <2> QED
      BY <1>2, <2>2, AppendIsConcat
  <1>8. /\ Untorn'
        /\ Parse.interval > 0 /\ Within(xs) => Within(out')
        /\ Parse.interval > 0 =>
             \A p \in PairsOf, i \in 1..2 : Before(p) =>
               \E u \in Int : u >= Parse.end /\ Reached(out', Name(p, i), u)
    BY <1>4, <1>5, <1>6, OutputGrows
  <1>9. Waiting'
    <2>1. \A n \in DOMAIN buf : buf[n][1] = "sample"
      BY <1>0, <1>1 DEF WInv, Waiting, InPair
    <2>2. \A n \in DOMAIN (buf \o ys) : \/ \E m \in DOMAIN buf : (buf \o ys)[n] = buf[m]
                                        \/ \E m \in DOMAIN ys : (buf \o ys)[n] = ys[m]
      <3>1. /\ DOMAIN buf = 1..Len(buf) /\ DOMAIN ys = 1..Len(ys)
            /\ Len(buf) \in Nat /\ Len(ys) \in Nat
            /\ DOMAIN (buf \o ys) = 1..(Len(buf) + Len(ys))
            /\ \A n \in 1..Len(buf) : (buf \o ys)[n] = buf[n]
            /\ \A n \in 1..Len(ys) : (buf \o ys)[Len(buf) + n] = ys[n]
        BY <1>5, ConcatParts DEF IInv
      <3> SUFFICES ASSUME NEW n \in DOMAIN (buf \o ys), n \notin DOMAIN buf
                   PROVE  \E m \in DOMAIN ys : (buf \o ys)[n] = ys[m]
        BY <3>1
      <3>2. n - Len(buf) \in DOMAIN ys /\ n = Len(buf) + (n - Len(buf))
        BY <3>1
      <3> QED
        BY <3>1, <3>2
    <2> QED
      BY <1>4, <1>5, <1>7, <2>1, <2>2 DEF Waiting
  <1>10. Endless'
    <2>1. Parse.interval <= 0 => t <= Parse.start /\ \A p \in PairsOf : ~Before(p)
      BY <1>0, <1>1 DEF WInv, Endless, InPair
    <2>2. Parse.interval <= 0 => t' <= Parse.start
      BY <1>0, <1>1, <2>1
    <2> QED
      BY <1>0, <1>1, <1>3, <2>1, <2>2 DEF Endless
  <1>11. ASSUME Parse.interval > 0 PROVE Within(out)' /\ PairsReached' /\ PairReaches'
    <2>1. /\ Within(buf) /\ t >= Parse.start
          /\ t = Parse.start \/ Reached(out, Name(position, 1), t)
          /\ t = Parse.start \/ Reached(buf, Name(position, 2), t)
      BY <1>0, <1>1, <1>11 DEF WInv, Fills, PairReaches, InPair
    <2>2. Unix(t) \in Unix(Parse.start)..Unix(Parse.end)
      <3>1. /\ Unix(Parse.start) \in Int /\ Unix(t) \in Int /\ Unix(Parse.end) \in Int
            /\ Unix(Parse.start) <= Unix(t)
        BY <1>0, <1>1, <2>1, UnixMonotone
      <3>2. Unix(t) <= Unix(Parse.end) /\ Unix(Parse.end) \in Int
        BY <1>0, <1>1, UnixMonotone
      <3> QED
        BY <3>1, <3>2
    <2>3. Within(xs) /\ Within(ys)
      BY <1>4, <1>5, <2>2 DEF Within
    <2>4. Within(out') /\ Within(buf')
      BY <1>5, <1>7, <1>8, <1>11, <2>1, <2>3, AppendedKeeps DEF IInv
    <2>5. Reached(out', Name(position, 1), t')
      BY <1>0, <1>1, <1>4, <1>6, <2>1, ReachesNext DEF IInv
    <2>6. Reached(buf', Name(position, 2), t')
      BY <1>0, <1>1, <1>4, <1>7, <2>1, ReachesNext DEF IInv
    <2>7. Within(out)' /\ Within(buf)'
      BY <1>0, <2>4 DEF Within, Unix
    <2>8. PairsReached'
      <3> SUFFICES ASSUME NEW p \in PairsOf, NEW i \in 1..2, Before(p)'
                   PROVE  \E u \in Int : u >= Parse'.end /\ Reached(out, Name(p, i), u)'
        BY <1>0 DEF PairsReached
      <3>1. PICK u \in Int : u >= Parse.end /\ Reached(out', Name(p, i), u)
        BY <1>3, <1>8, <1>11
      <3>2. Reached(out, Name(p, i), u)'
        BY <1>0, <3>1 DEF Reached, Written, Unix
      <3> QED
        BY <1>0, <3>1, <3>2
    <2>9. PairReaches'
      <3>1. t' > Parse.start
        BY <1>0, <1>1, <1>11, <2>1
      <3>2. Name(position, 1)' = Name(position, 1) /\ Name(position, 2)' = Name(position, 2)
        BY <1>0, <1>3 DEF Name
      <3>3. Reached(out, Name(position, 1), t)' /\ Reached(buf, Name(position, 2), t)'
        BY <1>0, <2>5, <2>6, <3>2 DEF Reached, Written, Unix
      <3> QED
        BY <1>0, <1>1, <2>7, <3>1, <3>3 DEF PairReaches
    <2> QED
      BY <2>7, <2>8, <2>9
  <1> QED
    BY <1>0, <1>8, <1>9, <1>10, <1>11 DEF Fills

LEMMA CopyFailuresFills ==
    ASSUME IInv, WInv, Next, Filling', CopyFailures
    PROVE  (Untorn /\ Waiting /\ Endless /\ Fills)'
  <1>0. /\ Filling /\ Parse' = Parse /\ PairsOf' = PairsOf
        /\ Parse.start \in Int /\ Parse.end \in Int /\ Parse.interval \in Int /\ t \in Int
        /\ \A p, i : Name(p, i)' = Name(p, i)
    BY StepMeans, InputTypes DEF IInv
  <1>1. /\ pc = "generated" /\ pc' = "pair" /\ Write(buf)
        /\ family' = family /\ pair' = pair + 1
    BY DEF CopyFailures, Goto, Return, Filling
  <1>2. Parse.interval > 0
    BY <1>0, <1>1 DEF WInv, Endless, InPair
  <1>3. /\ Within(buf) /\ \A n \in DOMAIN buf : buf[n][1] = "sample"
        /\ t >= Parse.end
        /\ Reached(out, Name(position, 1), t) /\ Reached(buf, Name(position, 2), t)
    BY <1>0, <1>1, <1>2 DEF WInv, Fills, PairReaches, Waiting, InPair, Filling
  <1>4. out' = out \o buf /\ IsSeq(out) /\ IsSeq(buf)
    BY <1>0, <1>1, UntornWrite DEF IInv, WInv
  <1>5. /\ Untorn' /\ Within(out')
        /\ \A name, u : Reached(out, name, u) => Reached(out', name, u)
        /\ \A p \in PairsOf, i \in 1..2 : Before(p) =>
             \E u \in Int : u >= Parse.end /\ Reached(out', Name(p, i), u)
    BY <1>2, <1>3, <1>4, OutputGrows
  <1>6. Reached(out', Name(position, 1), t) /\ Reached(out', Name(position, 2), t)
    BY <1>3, <1>4, <1>5, AppendedKeeps DEF Reached
  <1>7. \A p \in PairsOf : Before(p)' => Before(p) \/ p = position
    <2> SUFFICES ASSUME NEW f \in DOMAIN config.families,
                        NEW s \in DOMAIN config.families[f].pairs,
                        NEW p, p = <<f, s>>, Before(p)'
                 PROVE  Before(p) \/ p = position
      BY DEF PairsOf
    <2>1. s \in Nat
      BY InputTypes DEF IInv
    <2> QED
      BY <1>1, <2>1 DEF IInv, Before, position
  <1>8. PairsReached'
    <2> SUFFICES ASSUME NEW p \in PairsOf, NEW i \in 1..2, Before(p)'
                 PROVE  \E u \in Int : u >= Parse'.end /\ Reached(out, Name(p, i), u)'
      BY <1>0 DEF PairsReached
    <2>1. PICK u \in Int : u >= Parse.end /\ Reached(out', Name(p, i), u)
      <3>1. CASE Before(p)
        BY <1>5, <3>1
      <3>2. CASE p = position
        <4>1. i = 1 \/ i = 2
          OBVIOUS
        <4> QED
          BY <1>0, <1>3, <1>6, <3>2, <4>1
      <3> QED
        BY <1>7, <3>1, <3>2
    <2>2. Reached(out, Name(p, i), u)'
      BY <1>0, <2>1 DEF Reached, Written, Unix
    <2> QED
      BY <1>0, <2>1, <2>2
  <1>9. Within(out)'
    BY <1>0, <1>5 DEF Within, Unix
  <1>10. Waiting' /\ PairReaches' /\ Endless'
    BY <1>0, <1>1, <1>2 DEF Waiting, PairReaches, Endless, InPair
  <1> QED
    BY <1>5, <1>8, <1>9, <1>10 DEF Fills

-----------------------------------------------------------------------------
(* The end of a successful run: every pair is done.                         *)
LEMMA FinishFills ==
    ASSUME IInv, WInv, Next, Finish
    PROVE  RulesSeeSeries'
  <1> PICK x : x = <<"EOF">>
    OBVIOUS
  <1> PICK one : one = <<x>>
    OBVIOUS
  <1> SUFFICES ASSUME result' = "ok", output' = "tsdb", dropped' = {},
                      Parse.start < Parse.end,
                      NEW p \in PairsOf, NEW i \in 1..2
               PROVE  LET times == {l[4] : l \in {m \in ToSet(out') :
                                                    m[1] = "sample" /\ m[2] = Name(p, i)}}
                      IN /\ Unix(window'[1]) \in times
                         /\ times \subseteq Unix(window'[1])..Unix(window'[2])
                         /\ \E u \in times : Unix(window'[2] - Parse.interval) <= u
    BY StepMeans DEF RulesSeeSeries, Unix
  <1>0. /\ Parse.start \in Int /\ Parse.end \in Int /\ Parse.interval \in Int
        /\ output = "tsdb" /\ dropped = {}
    BY StepMeans, InputTypes DEF IInv
  <1>1. /\ pc = "family" /\ family > Len(config.families)
        /\ Write(one) /\ window' = RulesWindow
    BY <1>0 DEF Finish, Return
  <1>2. Filling
    BY <1>0, <1>1 DEF Filling, OpenMetricsAsked
  <1>3. IsSeq(one) /\ \A n \in DOMAIN one : one[n] = x
    BY OneLine
  <1>4. out' = out \o one
    BY <1>1, <1>2, UntornWrite DEF IInv, WInv
  <1>5. Before(p)
    <2>1. PICK f \in DOMAIN config.families :
            \E s \in DOMAIN config.families[f].pairs : p = <<f, s>>
      BY DEF PairsOf
    <2>2. f <= Len(config.families) /\ f \in Nat /\ Len(config.families) \in Nat
      BY InputTypes DEF IInv
    <2> QED
      BY <1>1, <2>1, <2>2 DEF Before, IInv
  <1>6. Within(out) /\ \E u \in Int : u >= Parse.end /\ Reached(out, Name(p, i), u)
    BY <1>0, <1>2, <1>5 DEF WInv, Endless, Fills, PairsReached
  <1>7. Within(one)
    BY <1>3 DEF Within
  <1>8. Within(out') /\ \A name, u : Written(out, name, u) => Written(out', name, u)
    BY <1>3, <1>4, <1>6, <1>7, AppendedKeeps DEF IInv
  <1>9. PICK u \in Int : u >= Parse.end /\ Written(out', Name(p, i), Parse.start)
                           /\ Written(out', Name(p, i), u - Parse.interval)
    BY <1>6, <1>8 DEF Reached
  <1> DEFINE times == {l[4] : l \in {m \in ToSet(out') : m[1] = "sample" /\ m[2] = Name(p, i)}}
  <1>10. \A v : Written(out', Name(p, i), v) => Unix(v) \in times
    BY DEF Written, ToSet
  <1>11. times \subseteq Unix(Parse.start)..Unix(Parse.end)
    BY <1>8 DEF Within, ToSet
  <1>12. Unix(Parse.end - Parse.interval) <= Unix(u - Parse.interval)
    BY <1>0, <1>9, UnixMonotone
  <1>13. window'[1] = Parse.start /\ window'[2] = Parse.end
    BY <1>0, <1>1 DEF RulesWindow
  <1> QED
    BY <1>9, <1>10, <1>11, <1>12, <1>13

LEMMA InitWInv == Init => WInv
  <1> SUFFICES ASSUME Init PROVE WInv
    OBVIOUS
  <1>1. /\ pc = "run" /\ result = "none" /\ out = <<>> /\ family = 1 /\ pair = 1
        /\ config \in Configs /\ flags \in Flags
    BY DEF Init
  <1>2. \A p \in PairsOf : ~Before(p)
    <2> SUFFICES ASSUME NEW f \in DOMAIN config.families,
                        NEW s \in DOMAIN config.families[f].pairs
                 PROVE  ~Before(<<f, s>>)
      BY DEF PairsOf
    <2>1. /\ config.families \in Seq(FamilyConfig)
          /\ config.families[f].pairs \in Seq(PairConfig)
      BY <1>1, InputTypes
    <2>2. f \in Nat \ {0} /\ s \in Nat \ {0}
      BY <2>1
    <2> QED
      BY <1>1, <2>2 DEF Before
  <1>3. ~InPair /\ DOMAIN out = {}
    BY <1>1 DEF InPair
  <1> QED
    BY <1>1, <1>2, <1>3 DEF WInv, RulesSeeSeries, Untorn, Waiting, Endless, Fills, Within,
       PairsReached, PairReaches

LEMMA NextWInv == IInv /\ WInv /\ [Next]_vars => WInv'
  <1> SUFFICES ASSUME IInv, WInv, [Next]_vars PROVE WInv'
    OBVIOUS
  <1>1. CASE Next
    <2>1. pc' # "returned" => result' # "ok"
      BY <1>1, StepMeans DEF WInv
    <2>2. RulesSeeSeries'
      <3>1. CASE Finish
        BY <1>1, <3>1, FinishFills
      <3>2. CASE ~Finish
        <4>1. result' # "ok"
          BY <1>1, <3>2, StepMeans DEF WInv
        <4> QED
          BY <4>1 DEF RulesSeeSeries
      <3> QED
        BY <3>1, <3>2
    <2>3. ASSUME Filling' PROVE (Untorn /\ Waiting /\ Endless /\ Fills)'
      <3>1. ~GenerateFails
        BY <2>3 DEF Filling, GenerateFails
      <3>2. ~CloseWriters
        BY <1>1, <2>3, StepMeans DEF Filling, CloseWriters, OpenMetricsAsked
      <3>3. ~Finish
        BY <2>3 DEF Filling, Finish, Return
      <3> QED
        BY <1>1, <2>3, <3>1, <3>2, <3>3, StartFills, BeginFamilyFills, BeginPairFills,
           EndFamilyFills, GeneratePointFills, GenerateEndFills, CopyFailuresFills DEF Next
    <2> QED
      BY <2>1, <2>2, <2>3 DEF WInv
  <1>2. CASE UNCHANGED vars
    <2>1. UNCHANGED <<config, flags, output, pc, result, family, pair, t, buf, out, window, dropped>>
      BY <1>2 DEF vars, input, position, generation
    <2>2. /\ Parse' = Parse /\ PairsOf' = PairsOf /\ position' = position
          /\ \A p, i : Name(p, i)' = Name(p, i)
      BY <2>1, InputConstant DEF input, position
    <2>3. RulesSeeSeries'
      BY <2>1, <2>2 DEF WInv, RulesSeeSeries, Unix
    <2>4. Filling' => Filling /\ Untorn' /\ Waiting' /\ Endless'
      BY <2>1, <2>2 DEF WInv, Filling, OpenMetricsAsked, Untorn, Waiting, Endless, InPair, Before
    <2>5. Filling' => Fills'
      <3>1. Parse.interval > 0 /\ Filling => Within(out)' /\ PairsReached'
        BY <2>1, <2>2 DEF WInv, Fills, Within, PairsReached, Reached, Written, Unix, Before
      <3>2. Parse.interval > 0 /\ Filling => PairReaches'
        BY <2>1, <2>2 DEF WInv, Fills, PairReaches, Within, Reached, Written, Unix, InPair, Name
      <3> QED
        BY <2>2, <2>4, <3>1, <3>2 DEF Fills
    <2> QED
      BY <2>1, <2>3, <2>4, <2>5 DEF WInv
  <1> QED
    BY <1>1, <1>2

(* When a backfill's series were written without error, each of them has a  *)
(* sample at the start of the window of the rules, none outside of it, and  *)
(* one less than an interval before its end: for every file, its start, end *)
(* and interval from the file or from flags, one series named twice         *)
(* included, and intervals of less than a second.                           *)
THEOREM WindowCorrect == Spec => []RulesSeeSeries
  <1>1. WInv => RulesSeeSeries
    BY DEF WInv
  <1> QED
    BY <1>1, InitIInv, NextIInv, InitWInv, NextWInv, PTL DEF Spec

-----------------------------------------------------------------------------
(* What the configuration means is constant.                                *)
LEMMA MeaningConstant ==
    ASSUME UNCHANGED input
    PROVE  /\ NumPoints' = NumPoints /\ (OpenMetricsAsked' <=> OpenMetricsAsked)
           /\ \A n : PointTime(n)' = PointTime(n)
           /\ \A p, i : Total(p, i)' = Total(p, i)
           /\ \A p, i : Totals(p, i)' = Totals(p, i)
           /\ \A p, i : Lines(p, i)' = Lines(p, i)
           /\ \A p, i : Compressible(p, i)' <=> Compressible(p, i)
           /\ Slots' = Slots
           /\ \A l, k : Wanted(l, k)' <=> Wanted(l, k)
  <1>1. /\ config' = config /\ output' = output /\ Parse' = Parse /\ PairsOf' = PairsOf
        /\ \A p, i : Name(p, i)' = Name(p, i)
    BY InputConstant
  <1>2. \A n : PointTime(n)' = PointTime(n)
    BY <1>1 DEF PointTime
  <1>3. NumPoints' = NumPoints
    BY <1>1, <1>2 DEF NumPoints
  <1>4. \A p, i : Total(p, i)' = Total(p, i)
    BY <1>1 DEF Total, Meant, PointTime
  <1>5. \A p, i : Totals(p, i)' = Totals(p, i)
    BY <1>3, <1>4 DEF Totals
  <1>6. \A p, i : Lines(p, i)' = Lines(p, i)
    BY <1>1, <1>2, <1>3, <1>5 DEF Lines, Unix
  <1>7. \A p, i : Compressible(p, i)' <=> Compressible(p, i)
    BY <1>3, <1>5 DEF Compressible
  <1>8. OpenMetricsAsked' <=> OpenMetricsAsked
    BY <1>1 DEF OpenMetricsAsked
  <1>9. Slots' = Slots
    BY <1>1, <1>3, <1>8 DEF Slots
  <1>10. \A l, k : Wanted(l, k)' <=> Wanted(l, k)
    BY <1>1, <1>5, <1>6, <1>7 DEF Wanted
  <1> QED
    BY <1>2, <1>3, <1>4, <1>5, <1>6, <1>7, <1>8, <1>9, <1>10

-----------------------------------------------------------------------------
(* The points of a pair, and what the generator adds at each.               *)

(* The loop comes to point n.                                              *)
Reaches(n) == \A m \in 1..n : PointTime(m) < Parse.end

(* The points that come before the end count as points of the pair, and     *)
(* are all of them when the next does not.                                  *)
LEMMA PointsCount ==
    ASSUME NEW n \in 0..MaxPoints, Reaches(n)
    PROVE  /\ NumPoints \in 0..MaxPoints /\ n <= NumPoints
           /\ ~(PointTime(n + 1) < Parse.end) => NumPoints = n
  <1> DEFINE S == {x \in 1..MaxPoints : \A m \in 1..x : PointTime(m) < Parse.end}
  <1>0. MaxPoints \in Nat /\ n \in Nat /\ n <= MaxPoints
    BY TimeAssumption
  <1>1. IsFiniteSet(1..MaxPoints) /\ Cardinality(1..MaxPoints) = MaxPoints
    BY <1>0, FS_Interval
  <1>2. IsFiniteSet(1..n) /\ Cardinality(1..n) = n
    BY <1>0, FS_Interval
  <1>3. S \in SUBSET (1..MaxPoints) /\ 1..n \in SUBSET S
    BY <1>0 DEF Reaches
  <1>4. ASSUME ~(PointTime(n + 1) < Parse.end) PROVE S = 1..n
    <2>1. ASSUME NEW x \in S PROVE x \in 1..n
      <3>1. x \in 1..MaxPoints /\ \A m \in 1..x : PointTime(m) < Parse.end
        OBVIOUS
      <3>2. ~(n + 1 \in 1..x)
        BY <1>4, <3>1
      <3> QED
        BY <1>0, <3>1, <3>2
    <2> QED
      BY <1>3, <2>1
  <1>5. NumPoints = Cardinality(S)
    BY DEF NumPoints
  <1> HIDE DEF S
  <1>6. IsFiniteSet(S) /\ Cardinality(S) <= MaxPoints /\ Cardinality(S) \in Nat
    BY <1>1, <1>3, FS_Subset, FS_CardinalityType
  <1>7. n <= Cardinality(S)
    BY <1>2, <1>3, <1>6, FS_Subset
  <1>8. ~(PointTime(n + 1) < Parse.end) => Cardinality(S) = n
    BY <1>2, <1>4
  <1> QED
    BY <1>5, <1>6, <1>7, <1>8

(* Points are an interval apart, from the start on.                         *)
LEMMA PointAdvances ==
    ASSUME NEW n \in Nat, Parse.start \in Int, Parse.interval \in Int
    PROVE  /\ PointTime(n + 1) \in Int /\ PointTime(n + 2) = PointTime(n + 1) + Parse.interval
           /\ PointTime(1) = Parse.start
  <1> DEFINE d == Parse.interval
  <1>1. /\ d \in Int /\ (n + 1) - 1 = n /\ (n + 2) - 1 = n + 1
        /\ n * d \in Int /\ (n + 1) * d = n * d + d /\ (1 - 1) * d = 0
    OBVIOUS
  <1> QED
    BY <1>1 DEF PointTime

(* The rates in force are those the configuration means.                    *)
LEMMA RatesMeant ==
    ASSUME NEW k \in Kinds, Cardinality(DOMAIN k) = 1, NEW n \in 1..MaxPoints, PointTime(n) \in Int
    PROVE  Rates(k, n, PointTime(n)) = Meant(k, n)
  <1> DEFINE u == PointTime(n)
  <1>1. CASE DOMAIN k = {"constant"} /\ k.constant \in ConstantKind
    <2> DEFINE all == k.constant.overrides
               fits == {x \in DOMAIN all : InForce(all[x], u)}
               applies == {x \in DOMAIN all : u \in all[x].start..(all[x].end - 1)}
               j == Found(all, u)
    <2>1. all \in Seq(Override)
      BY <1>1 DEF ConstantKind
    <2>2. fits = applies
      <3> SUFFICES ASSUME NEW x \in DOMAIN all
                   PROVE  InForce(all[x], u) <=> u \in all[x].start..(all[x].end - 1)
        OBVIOUS
      <3>1. all[x] \in Override
        BY <2>1
      <3>2. all[x].start \in Int /\ all[x].end \in Int
        BY <3>1 DEF Override
      <3> QED
        BY <3>2 DEF InForce
    <2>3. IF fits = {} THEN j = 0 ELSE j \in fits /\ \A x \in fits : x <= j
      BY <2>1, LastInForce
    <2>4. Rates(k, n, u) = IF j = 0 THEN k.constant.rates ELSE all[j].rates
      BY <1>1 DEF Rates, ConstantRates, Found
    <2>5. Meant(k, n) = IF applies = {} THEN k.constant.rates
                        ELSE all[CHOOSE x \in applies : \A y \in applies : y <= x].rates
      BY <1>1 DEF Meant
    <2>6. DOMAIN all \subseteq Nat \ {0}
      BY <2>1
    <2>7. fits \subseteq Nat \ {0}
      BY <2>6
    <2> HIDE DEF fits, applies, j, all
    <2>8. ASSUME fits # {} PROVE j = CHOOSE x \in applies : \A y \in applies : y <= x
      <3>1. j \in applies /\ \A x \in applies : x <= j
        BY <2>2, <2>3, <2>8
      <3>2. \A x \in applies : (\A y \in applies : y <= x) => x = j
        BY <2>2, <2>7, <3>1
      <3> QED
        BY <3>1, <3>2
    <2>9. fits # {} => j # 0
      BY <2>3, <2>7
    <2> QED
      BY <2>2, <2>3, <2>4, <2>5, <2>8, <2>9
  <1>2. CASE DOMAIN k = {"binomial"} /\ k.binomial \in BinomialKind
    BY <1>2 DEF Rates, BinomialRates, Meant
  <1> QED
    BY <1>1, <1>2, OneKind

-----------------------------------------------------------------------------
(* The generator is where the points so far take it.                        *)
Counted ==
    InPair =>
      /\ t = PointTime(points + 1) /\ Reaches(points)
      /\ \A i \in 1..2 : totals[i] = Total(position, i)[points]
      /\ pc = "generated" /\ position \notin dropped => points = NumPoints

(* The failures that wait are those of the points so far.                   *)
Held ==
    InPair /\ OpenMetricsAsked =>
      Len(buf) = points /\ \A n \in 1..points : buf[n] = Lines(position, 2)[n]

PInv == Counted /\ Held

(* The next totals and lines are the ones the configuration means.          *)
LEMMA SumMeant ==
    ASSUME TInv, Counted, pc = "generate", points < MaxPoints
    PROVE  /\ \A i \in 1..2 : Sum[i] = Total(position, i)[points + 1]
           /\ t < Parse.end => \A i \in 1..2 : Line(i) = Lines(position, i)[points + 1]
           /\ t < Parse.end => Reaches(points + 1) /\ points + 1 \in 1..NumPoints
  <1> DEFINE k == Pairs[pair].kinds
  <1>0. /\ InPair /\ points + 1 \in 1..MaxPoints /\ (points + 1) - 1 = points
        /\ t = PointTime(points + 1) /\ t \in Int /\ points + 1 \in 0..MaxPoints
        /\ Parse.end \in Int
    BY TimeAssumption, InputTypes DEF InPair, TInv, TypeOK, Counted, IInv
  <1>1. k \in Kinds /\ Cardinality(DOMAIN k) = 1 /\ KindsOf(position) = k
    BY <1>0, KindInHand DEF KindsOf, position, Pairs
  <1>2. Rates(k, points + 1, t) = Meant(k, points + 1)
    BY <1>0, <1>1, RatesMeant
  <1>3. ASSUME NEW i \in 1..2 PROVE Sum[i] = Total(position, i)[points + 1]
    <2>1. Sum[i] = Add(totals[i], Meant(k, points + 1)[i])
      BY <1>2 DEF Sum
    <2>2. totals[i] = Total(position, i)[points]
      BY <1>0 DEF Counted
    <2> QED
      BY <1>0, <1>1, <2>1, <2>2, TotalMeans
  <1>4. ASSUME t < Parse.end PROVE Reaches(points + 1) /\ points + 1 \in 1..NumPoints
    <2>1. Reaches(points + 1)
      BY <1>0, <1>4 DEF Counted, Reaches
    <2> QED
      BY <1>0, <2>1, PointsCount
  <1>5. ASSUME t < Parse.end, NEW i \in 1..2 PROVE Line(i) = Lines(position, i)[points + 1]
    <2>1. points + 1 \in 1..NumPoints
      BY <1>4, <1>5
    <2>2. SeriesName(1) = Name(position, 1) /\ SeriesName(2) = Name(position, 2)
      BY <1>0, KindInHand, NamesMeant DEF TInv, IInv
    <2>3. SeriesName(i) = Name(position, i)
      BY <2>2
    <2>4. Totals(position, i)[points + 1] = Sum[i]
      BY <1>3, <2>1 DEF Totals
    <2> QED
      BY <1>0, <2>1, <2>3, <2>4 DEF Line, Lines
  <1> QED
    BY <1>3, <1>4, <1>5

LEMMA InitPInv == Init => PInv
  BY DEF Init, PInv, Counted, Held, InPair

(* A pair starts at its first point, from totals of 0.                      *)
LEMMA BeginPairCounts ==
    ASSUME TInv, BeginPair
    PROVE  PInv'
  <1>1. /\ pc' = "generate" /\ t' = Parse.start /\ totals' = <<0, 0>> /\ points' = 0 /\ buf' = <<>>
        /\ UNCHANGED input
    BY DEF BeginPair, Goto
  <1>2. Parse.start \in Int /\ Parse.interval \in Int
    BY InputTypes DEF TInv, IInv
  <1>3. PointTime(1) = Parse.start
    BY <1>2, PointAdvances
  <1>4. \A p, i : Total(p, i)[0] = 0
    BY TotalMeans
  <1>5. /\ PointTime(1)' = PointTime(1)
        /\ \A p, i : Total(p, i)' = Total(p, i)
    BY <1>1, MeaningConstant
  <1>6. t' = PointTime(points + 1)' /\ Reaches(points)'
    BY <1>1, <1>3, <1>5 DEF Reaches, PointTime
  <1>7. \A i \in 1..2 : totals'[i] = Total(position, i)'[points']
    <2> SUFFICES ASSUME NEW i \in 1..2 PROVE totals'[i] = Total(position, i)'[points']
      OBVIOUS
    <2>1. Total(position, i)' = Total(position', i)
      BY <1>1 DEF Total, Meant, PointTime, Parse, input
    <2> QED
      BY <1>1, <1>4, <2>1
  <1>8. Counted'
    BY <1>1, <1>6, <1>7 DEF Counted
  <1>9. Held'
    BY <1>1 DEF Held
  <1> QED
    BY <1>8, <1>9 DEF PInv

(* What the pair in hand means is constant while it is.                     *)
LEMMA InHand ==
    ASSUME UNCHANGED input, UNCHANGED <<family, pair>>
    PROVE  /\ position' = position /\ Parse' = Parse
           /\ NumPoints' = NumPoints /\ (OpenMetricsAsked' <=> OpenMetricsAsked)
           /\ \A n : PointTime(n)' = PointTime(n)
           /\ \A i : Total(position, i)' = Total(position, i)
           /\ \A i : Lines(position, i)' = Lines(position, i)
  <1>1. position' = position
    BY DEF position
  <1>2. /\ NumPoints' = NumPoints /\ (OpenMetricsAsked' <=> OpenMetricsAsked)
        /\ \A n : PointTime(n)' = PointTime(n)
        /\ \A p, i : Total(p, i)' = Total(p, i)
        /\ \A p, i : Lines(p, i)' = Lines(p, i)
        /\ Parse' = Parse
    BY MeaningConstant, InputConstant
  <1>3. \A i : Total(position, i)' = Total(position, i) /\ Lines(position, i)' = Lines(position, i)
    BY <1>1, <1>2 DEF Total, Lines, Meant, PointTime, Parse, input, Totals, NumPoints, Name, Unix
  <1> QED
    BY <1>1, <1>2, <1>3

(* The loop goes on, or ends.                                               *)
LEMMA SameCounts ==
    ASSUME TInv, PInv, InPair, UNCHANGED input, UNCHANGED <<family, pair, t, totals, points, buf>>,
           pc' = "generated" /\ position' \notin dropped' => points = NumPoints
    PROVE  PInv'
  <1>2. /\ position' = position /\ Parse' = Parse
        /\ NumPoints' = NumPoints /\ (OpenMetricsAsked' <=> OpenMetricsAsked)
        /\ \A n : PointTime(n)' = PointTime(n)
        /\ \A i : Total(position, i)' = Total(position, i)
        /\ \A i : Lines(position, i)' = Lines(position, i)
    BY InHand
  <1>4. Reaches(points)' <=> Reaches(points)
    BY <1>2 DEF Reaches, PointTime
  <1>5. PointTime(points + 1)' = PointTime(points + 1)
    BY <1>2 DEF PointTime
  <1> QED
    BY <1>2, <1>4, <1>5 DEF PInv, Counted, Held

(* A turn of the loop takes the generator to the next point.                *)
LEMMA GeneratePointCounts ==
    ASSUME TInv, PInv, GeneratePoint
    PROVE  PInv'
  <1>1. /\ pc = "generate" /\ t < Parse.end /\ points < MaxPoints /\ pc' = "generate"
        /\ t' = t + Parse.interval /\ totals' = Sum /\ points' = points + 1
        /\ UNCHANGED input /\ UNCHANGED <<family, pair>>
        /\ OpenMetricsAsked => buf' = Append(buf, Line(2))
    BY DEF GeneratePoint, Advance, position, OpenMetricsAsked
  <1>2. /\ points \in Nat /\ points + 1 \in Nat /\ points \in 0..MaxPoints
        /\ Parse.start \in Int /\ Parse.interval \in Int
    BY InputTypes, TimeAssumption DEF TInv, IInv, TypeOK
  <1>3. /\ position' = position /\ Parse' = Parse
        /\ \A i : Total(position, i)' = Total(position, i)
        /\ \A i : Lines(position, i)' = Lines(position, i)
    BY <1>1, InHand
  <1>4. /\ \A i \in 1..2 : Sum[i] = Total(position, i)[points + 1]
        /\ \A i \in 1..2 : Line(i) = Lines(position, i)[points + 1]
        /\ Reaches(points + 1) /\ points + 1 \in 1..NumPoints
    BY <1>1, SumMeant DEF PInv
  <1>5. t' = PointTime(points + 2)
    BY <1>1, <1>2, PointAdvances DEF PInv, Counted, InPair
  <1>6. Counted'
    <2>1. (points + 1) + 1 = points + 2
      BY <1>2
    <2>2. t' = PointTime(points + 1)'
      BY <1>1, <1>3, <1>5, <2>1 DEF PointTime
    <2>3. Reaches(points)'
      BY <1>1, <1>3, <1>4 DEF Reaches, PointTime
    <2>4. \A i \in 1..2 : totals'[i] = Total(position, i)'[points']
      BY <1>1, <1>3, <1>4
    <2> QED
      BY <1>1, <2>2, <2>3, <2>4 DEF Counted
  <1>7. ASSUME OpenMetricsAsked' PROVE Len(buf') = points' /\ \A n \in 1..points' : buf'[n] = Lines(position, 2)'[n]
    <2>1. OpenMetricsAsked /\ IsSeq(buf)
      BY <1>1, <1>7 DEF OpenMetricsAsked, input, TInv, IInv
    <2>2. Len(buf) = points /\ \A n \in 1..points : buf[n] = Lines(position, 2)[n]
      BY <1>1, <2>1 DEF PInv, Held, InPair
    <2>3. PICK S : buf \in Seq(S)
      BY <2>1 DEF IsSeq
    <2> DEFINE b == Append(buf, Line(2))
    <2>4. /\ Len(b) = points + 1 /\ b[points + 1] = Line(2)
          /\ \A n \in 1..points : b[n] = buf[n]
      BY <1>2, <2>2, <2>3
    <2> HIDE DEF b
    <2>5. buf' = b
      BY <1>1, <2>1 DEF b
    <2>6. \A n \in 1..(points + 1) : n \in 1..points \/ n = points + 1
      BY <1>2
    <2> QED
      BY <1>1, <1>3, <1>4, <2>2, <2>4, <2>5, <2>6
  <1> QED
    BY <1>6, <1>7 DEF PInv, Held

LEMMA NextPInv == TInv /\ PInv /\ [Next]_vars => PInv'
  <1> SUFFICES ASSUME TInv, PInv, [Next]_vars PROVE PInv'
    OBVIOUS
  <1>1. ASSUME ~InPair' PROVE PInv'
    BY <1>1 DEF PInv, Counted, Held
  <1>2. CASE BeginPair
    BY <1>2, BeginPairCounts
  <1>3. CASE GeneratePoint
    BY <1>3, GeneratePointCounts
  <1>4. CASE GenerateFails
    <2>1. /\ InPair /\ UNCHANGED input /\ UNCHANGED <<family, pair, t, totals, points, buf>>
          /\ position' = position /\ position \in dropped'
      BY <1>4 DEF GenerateFails, InPair, position, BufferedOnError
    <2> QED
      BY <2>1, SameCounts
  <1>5. CASE GenerateEnd
    <2>1. /\ InPair /\ UNCHANGED input /\ UNCHANGED <<family, pair, t, totals, points, buf>>
          /\ ~(t < Parse.end)
      BY <1>5 DEF GenerateEnd, InPair, position, generation
    <2>2. points = NumPoints
      BY <2>1, PointsCount DEF PInv, Counted, TInv, TypeOK
    <2> QED
      BY <2>1, <2>2, SameCounts
  <1>6. CASE UNCHANGED vars
    <2>1. /\ UNCHANGED input /\ UNCHANGED <<family, pair, t, totals, points, buf>>
          /\ UNCHANGED <<pc, dropped>> /\ position' = position
      BY <1>6 DEF vars, position, generation
    <2>2. InPair' => InPair
      BY <2>1 DEF InPair
    <2>3. InPair /\ pc' = "generated" /\ position' \notin dropped' => points = NumPoints
      BY <2>1 DEF PInv, Counted
    <2> QED
      BY <1>1, <2>1, <2>2, <2>3, SameCounts
  <1>7. CASE Start \/ BeginFamily \/ EndFamily \/ CopyFailures \/ CloseWriters \/ Finish
    BY <1>1, <1>7 DEF Start, BeginFamily, EndFamily, CopyFailures, CloseWriters, Finish, Goto,
       Return, InPair
  <1> QED
    BY <1>2, <1>3, <1>4, <1>5, <1>6, <1>7 DEF Next

-----------------------------------------------------------------------------
(* A writer holds what the pair adds up to so far, in what it has printed   *)
(* and what it holds back.                                                  *)
Compressed(u, i) ==
    Compressible(position, i) =>
      /\ CP!Shape(u) /\ (points > 0 => u.count # -3)
      /\ u.decoded \o CP!Pending(u) = [n \in 1..points |-> Total(position, i)[n]]

UInv == InPair /\ output = "unittest" => \A i \in 1..2 : Compressed(csw[i], i)

(* A tabulated function, and the same with one more argument.               *)
LEMMA OneMore ==
    ASSUME NEW f, NEW m \in Nat
    PROVE  Append([n \in 1..m |-> f[n]], f[m + 1]) = [n \in 1..(m + 1) |-> f[n]]
  <1> DEFINE s == [n \in 1..m |-> f[n]]
             S == {f[n] : n \in 1..(m + 1)}
             u == [n \in 1..(m + 1) |-> f[n]]
  <1>1. s \in Seq(S) /\ Len(s) = m /\ \A n \in 1..m : s[n] = f[n]
    <2>1. \A n \in 1..m : n \in 1..(m + 1)
      OBVIOUS
    <2>2. s \in [1..m -> S]
      BY <2>1
    <2> QED
      BY <2>2, SeqDef, LenProperties
  <1>2. u \in Seq(S) /\ Len(u) = m + 1 /\ \A n \in 1..(m + 1) : u[n] = f[n]
    <2>1. u \in [1..(m + 1) -> S] /\ m + 1 \in Nat
      OBVIOUS
    <2> QED
      BY <2>1, SeqDef, LenProperties
  <1>3. f[m + 1] \in S
    OBVIOUS
  <1> HIDE DEF s, u, S
  <1>4. /\ Append(s, f[m + 1]) \in Seq(S) /\ Len(Append(s, f[m + 1])) = m + 1
        /\ \A n \in 1..m : Append(s, f[m + 1])[n] = s[n]
        /\ Append(s, f[m + 1])[m + 1] = f[m + 1]
    BY <1>1, <1>3
  <1>5. Append(s, f[m + 1]) = u
    BY <1>1, <1>2, <1>4, SeqEqual
  <1> QED
    BY <1>5 DEF s, u

(* A new writer holds nothing.                                              *)
LEMMA FreshCompressed ==
    ASSUME NEW f
    PROVE  LET u == C!newCompressingSeriesWriter
           IN CP!Shape(u) /\ u.decoded \o CP!Pending(u) = [n \in 1..0 |-> f[n]]
  <1> DEFINE u == C!newCompressingSeriesWriter
  <1>1. u.count = -3 /\ u.v0 = 0 /\ u.v1 = MaxInt /\ u.decoded = <<>>
    BY DEF C!newCompressingSeriesWriter
  <1> HIDE DEF u
  <1>2. CP!Shape(u) /\ CP!Pending(u) = <<>>
    BY <1>1 DEF CP!Shape, CP!Pending
  <1>3. <<>> \o <<>> = <<>> /\ <<>> = [n \in 1..0 |-> f[n]]
    OBVIOUS
  <1>4. CP!Shape(u) /\ u.decoded \o CP!Pending(u) = [n \in 1..0 |-> f[n]]
    BY <1>1, <1>2, <1>3
  <1> QED
    BY <1>4 DEF u

(* What the next sample adds to a writer.                                   *)
LEMMA WriterStep ==
    ASSUME NEW u \in C!Writer, NEW i, NEW v, points \in Nat, points + 1 \in 1..NumPoints,
           NumPoints \in Nat, Compressible(position, i), Compressed(u, i),
           v = Total(position, i)[points + 1]
    PROVE  /\ CP!Shape(C!writerFunc(u, v)) /\ C!writerFunc(u, v).count # -3
           /\ C!writerFunc(u, v).decoded \o CP!Pending(C!writerFunc(u, v))
                = [n \in 1..(points + 1) |-> Total(position, i)[n]]
  <1>1. /\ CP!Shape(u) /\ (points > 0 => u.count # -3)
        /\ u.decoded \o CP!Pending(u) = [n \in 1..points |-> Total(position, i)[n]]
    BY DEF Compressed
  <1>2. v = Totals(position, i)[points + 1]
    BY DEF Totals
  <1>3. v \in CP!Small /\ (points = 0 => v # -2)
    BY <1>2 DEF Compressible, CP!Small
  <1>4. u \in CP!Writer /\ (u.count = -3 => v # -2)
    BY <1>1, <1>3, SameWriter
  <1>5. /\ CP!Shape(CP!writerFunc(u, v)) /\ CP!writerFunc(u, v).count # -3
        /\ CP!writerFunc(u, v).decoded \o CP!Pending(CP!writerFunc(u, v))
             = Append(u.decoded \o CP!Pending(u), v)
    BY <1>1, <1>3, <1>4, CP!Step, CompressorAssumed
  <1>6. Append(u.decoded \o CP!Pending(u), v) = [n \in 1..(points + 1) |-> Total(position, i)[n]]
    BY <1>1, OneMore
  <1> QED
    BY <1>5, <1>6, SameWriter

(* A closed writer has printed all, or all but a last 0.                    *)
LEMMA WriterCloses ==
    ASSUME NEW u \in C!Writer, NEW i, points = NumPoints, Compressible(position, i),
           Compressed(u, i)
    PROVE  Totals(position, i) \in {Closed(u).decoded, Append(Closed(u).decoded, 0)}
  <1>1. /\ CP!Shape(u) /\ u \in CP!Writer
        /\ u.decoded \o CP!Pending(u) = Totals(position, i)
    BY SameWriter DEF Compressed, Totals
  <1> DEFINE z == CP!writerFunc(CP!writerFunc(u, CP!MinInt), 0).decoded
  <1>2. u.decoded \o CP!Pending(u) = z \/ u.decoded \o CP!Pending(u) = Append(z, 0)
    BY <1>1, CP!CloseStep, CompressorAssumed
  <1>3. z = Closed(u).decoded
    BY SameWriter DEF Closed
  <1> HIDE DEF z
  <1> QED
    BY <1>1, <1>2, <1>3

LEMMA InitUInv == Init => UInv
  BY DEF Init, UInv, InPair

LEMMA NextUInv == TInv /\ PInv /\ UInv /\ [Next]_vars => UInv'
  <1> SUFFICES ASSUME TInv, PInv, UInv, [Next]_vars, InPair', output' = "unittest",
                      NEW i \in 1..2, Compressible(position, i)'
               PROVE  /\ CP!Shape(csw'[i]) /\ (points' > 0 => csw'[i].count # -3)
                      /\ csw'[i].decoded \o CP!Pending(csw'[i])
                           = [n \in 1..points' |-> Total(position, i)'[n]]
    BY DEF UInv, Compressed, CP!Shape, CP!Pending, CP!Small, CP!Expand, CP!Token, CP!Sub,
       CP!MinInt
  <1>1. CASE BeginPair
    <2>1. points' = 0 /\ csw'[i] = C!newCompressingSeriesWriter
      BY <1>1 DEF BeginPair
    <2> QED
      BY <2>1, FreshCompressed
  <1>2. ASSUME UNCHANGED input, UNCHANGED <<family, pair>>, InPair
        PROVE  /\ output = "unittest" /\ Compressible(position, i) /\ Compressed(csw[i], i)
               /\ Total(position, i)' = Total(position, i)
    <2>1. position' = position /\ output' = output /\ Total(position, i)' = Total(position, i)
      BY <1>2, InHand DEF input
    <2>2. Compressible(position, i)
      BY <1>2, <2>1, InHand DEF Compressible, Totals
    <2> QED
      BY <1>2, <2>1, <2>2 DEF UInv
  <1>3. CASE GeneratePoint
    <2>1. /\ UNCHANGED input /\ UNCHANGED <<family, pair>> /\ InPair /\ pc = "generate"
          /\ points < MaxPoints /\ t < Parse.end /\ points' = points + 1
      BY <1>3 DEF GeneratePoint, position, InPair
    <2>2. /\ output = "unittest" /\ Compressible(position, i) /\ Compressed(csw[i], i)
          /\ Total(position, i)' = Total(position, i)
      BY <1>2, <2>1
    <2>3. csw' = [j \in 1..2 |-> C!writerFunc(csw[j], Sum[j])]
      BY <1>3, <2>2 DEF GeneratePoint, OpenMetricsAsked
    <2>4. Sum[i] = Total(position, i)[points + 1] /\ points + 1 \in 1..NumPoints
      BY <2>1, SumMeant DEF PInv
    <2>5. points \in Nat /\ csw[i] \in C!Writer
      BY TimeAssumption DEF TInv, TypeOK
    <2>6. NumPoints \in Nat
      BY <2>1, PointsCount, TimeAssumption DEF PInv, Counted, TInv, TypeOK
    <2> PICK v : v = Sum[i]
      OBVIOUS
    <2>7. csw'[i] = C!writerFunc(csw[i], v)
      BY <2>3
    <2>8. /\ CP!Shape(C!writerFunc(csw[i], v)) /\ C!writerFunc(csw[i], v).count # -3
          /\ C!writerFunc(csw[i], v).decoded \o CP!Pending(C!writerFunc(csw[i], v))
               = [n \in 1..(points + 1) |-> Total(position, i)[n]]
      BY <2>2, <2>4, <2>5, <2>6, WriterStep
    <2> QED
      BY <2>1, <2>2, <2>7, <2>8
  <1>4. ASSUME UNCHANGED input, UNCHANGED <<family, pair, points, csw>>, InPair
        PROVE  /\ CP!Shape(csw'[i]) /\ (points' > 0 => csw'[i].count # -3)
               /\ csw'[i].decoded \o CP!Pending(csw'[i])
                    = [n \in 1..points' |-> Total(position, i)'[n]]
    BY <1>2, <1>4 DEF Compressed
  <1>5. CASE GenerateFails \/ GenerateEnd
    BY <1>4, <1>5 DEF GenerateFails, GenerateEnd, position, generation, InPair
  <1>6. CASE UNCHANGED vars
    BY <1>4, <1>6 DEF vars, position, generation, InPair
  <1>7. CASE Start \/ BeginFamily \/ EndFamily \/ CopyFailures \/ CloseWriters \/ Finish
    BY <1>7 DEF Start, BeginFamily, EndFamily, CopyFailures, CloseWriters, Finish, Goto,
       Return, InPair
  <1> QED
    BY <1>1, <1>3, <1>5, <1>6, <1>7 DEF Next

-----------------------------------------------------------------------------
(* A place has four parts.                                                  *)
Quads == Int \X Int \X Int \X Int

(* The places before c.                                                     *)
Behind(c) == {j \in Slots : Precedes(j, c)}

(* Places are in lexicographic order.                                       *)
LEMMA PrecedesMeans ==
    ASSUME NEW j \in Quads, NEW k \in Quads
    PROVE  Precedes(j, k) <=>
             \/ j[1] < k[1]
             \/ j[1] = k[1] /\ j[2] < k[2]
             \/ j[1] = k[1] /\ j[2] = k[2] /\ j[3] < k[3]
             \/ j[1] = k[1] /\ j[2] = k[2] /\ j[3] = k[3] /\ j[4] < k[4]
  <1>1. 1..4 = {1, 2, 3, 4} /\ 1..(1 - 1) = {} /\ 1..(2 - 1) = {1} /\ 1..(3 - 1) = {1, 2}
        /\ 1..(4 - 1) = {1, 2, 3}
    OBVIOUS
  <1>2. Precedes(j, k) <=> \E m \in {1, 2, 3, 4} : j[m] < k[m] /\ \A l \in 1..(m - 1) : j[l] = k[l]
    BY <1>1 DEF Precedes
  <1> QED
    BY <1>1, <1>2

(* It is a strict order.                                                    *)
LEMMA PrecedesOrder ==
    ASSUME NEW j \in Quads, NEW k \in Quads, NEW l \in Quads
    PROVE  ~Precedes(j, j) /\ (Precedes(j, k) /\ Precedes(k, l) => Precedes(j, l))
  <1>1. /\ j[1] \in Int /\ j[2] \in Int /\ j[3] \in Int /\ j[4] \in Int
        /\ k[1] \in Int /\ k[2] \in Int /\ k[3] \in Int /\ k[4] \in Int
        /\ l[1] \in Int /\ l[2] \in Int /\ l[3] \in Int /\ l[4] \in Int
    BY DEF Quads
  <1>2. ~Precedes(j, j)
    BY <1>1, PrecedesMeans
  <1>3. ASSUME Precedes(j, k), Precedes(k, l) PROVE Precedes(j, l)
    BY <1>1, <1>3, PrecedesMeans
  <1> QED
    BY <1>2, <1>3

(* Distinct elements outside of a finite set add to it as many as they are. *)
LEMMA CountMore ==
    ASSUME NEW B, IsFiniteSet(B), NEW m \in Nat, NEW K,
           \A a \in 1..m : K[a] \notin B,
           \A a, b \in 1..m : K[a] = K[b] => a = b,
           NEW D, \A x : x \in D <=> x \in B \/ \E a \in 1..m : x = K[a]
    PROVE  IsFiniteSet(D) /\ Cardinality(D) = Cardinality(B) + m
  <1> DEFINE T == {K[a] : a \in 1..m}
             f == [a \in 1..m |-> K[a]]
  <1>1. IsFiniteSet(1..m) /\ Cardinality(1..m) = m
    BY FS_Interval
  <1>2. f \in Bijection(1..m, T)
    BY DEF Bijection, Injection, Surjection, IsInjective
  <1>3. ExistsBijection(1..m, T)
    BY <1>2 DEF ExistsBijection
  <1>4. B \cap T = {} /\ D = B \cup T
    OBVIOUS
  <1> HIDE DEF T
  <1>5. IsFiniteSet(T) /\ Cardinality(T) = m
    BY <1>1, <1>3, FS_Bijection
  <1>6. Cardinality({}) = 0 /\ Cardinality(B) \in Nat
    BY FS_EmptySet, FS_CardinalityType
  <1>7. IsFiniteSet(B \cup T) /\ Cardinality(B \cup T) = Cardinality(B) + m - 0
    BY <1>4, <1>5, <1>6, FS_Union
  <1>8. IsFiniteSet(B \cup T) /\ Cardinality(B \cup T) = Cardinality(B) + m
    BY <1>6, <1>7
  <1> QED
    BY <1>4, <1>8

-----------------------------------------------------------------------------
(* The output holds what is wanted at every place before c.                 *)
Place(k) == Cardinality(Behind(k)) + 1

Filled(s, c) ==
    /\ IsFiniteSet(Behind(c)) /\ Len(s) = Cardinality(Behind(c))
    /\ \A k \in Behind(c) : Wanted(s[Place(k)], k)

(* The place of what is behind c is among as many as are behind c.          *)
LEMMA PlaceBehind ==
    ASSUME NEW c \in Quads, IsFiniteSet(Behind(c)), NEW k \in Behind(c), Slots \subseteq Quads
    PROVE  IsFiniteSet(Behind(k)) /\ Place(k) \in 1..Cardinality(Behind(c))
  <1>1. k \in Slots /\ k \in Quads /\ Precedes(k, c)
    BY DEF Behind
  <1>2. Behind(k) \cup {k} \in SUBSET Behind(c) /\ k \notin Behind(k)
    BY <1>1, PrecedesOrder DEF Behind
  <1>3. Behind(k) \in SUBSET Behind(c)
    BY <1>2
  <1>4. IsFiniteSet(Behind(k)) /\ Cardinality(Behind(k)) \in Nat
    BY <1>3, FS_Subset, FS_CardinalityType
  <1>5. Cardinality(Behind(k) \cup {k}) = Cardinality(Behind(k)) + 1
    BY <1>2, <1>4, FS_AddElement
  <1>6. Cardinality(Behind(k) \cup {k}) <= Cardinality(Behind(c)) /\ Cardinality(Behind(c)) \in Nat
    BY <1>2, FS_Subset, FS_CardinalityType
  <1> QED
    BY <1>4, <1>5, <1>6 DEF Place

(* Lines appended to the output fill the places that follow.                *)
LEMMA FillMore ==
    ASSUME Slots \subseteq Quads, NEW c \in Quads, NEW d \in Quads,
           NEW s, IsSeq(s), NEW u, IsSeq(u), NEW K,
           Filled(s, c),
           \A a \in DOMAIN u : K[a] \in Slots /\ K[a] \notin Behind(c),
           \A a, b \in DOMAIN u : K[a] = K[b] => a = b,
           \A a \in DOMAIN u : \A x :
             x \in Behind(K[a]) <=> x \in Behind(c) \/ \E b \in 1..(a - 1) : x = K[b],
           \A x : x \in Behind(d) <=> x \in Behind(c) \/ \E b \in 1..Len(u) : x = K[b],
           \A a \in DOMAIN u : Wanted(u[a], K[a])
    PROVE  Filled(s \o u, d)
  <1>1. /\ Len(s) \in Nat /\ Len(u) \in Nat /\ DOMAIN u = 1..Len(u)
        /\ Len(s \o u) = Len(s) + Len(u)
        /\ \A n \in 1..Len(s) : (s \o u)[n] = s[n]
        /\ \A n \in 1..Len(u) : (s \o u)[Len(s) + n] = u[n]
    BY ConcatParts
  <1>2. IsFiniteSet(Behind(c)) /\ Len(s) = Cardinality(Behind(c))
    BY DEF Filled
  <1>3. IsFiniteSet(Behind(d)) /\ Cardinality(Behind(d)) = Len(s) + Len(u)
    <2>1. /\ \A a \in 1..Len(u) : K[a] \notin Behind(c)
          /\ \A a, b \in 1..Len(u) : K[a] = K[b] => a = b
      BY <1>1
    <2>2. IsFiniteSet(Behind(d)) /\ Cardinality(Behind(d)) = Cardinality(Behind(c)) + Len(u)
      <3> PICK m : m = Len(u)
        OBVIOUS
      <3>1. /\ m \in Nat /\ IsFiniteSet(Behind(c))
            /\ \A a \in 1..m : K[a] \notin Behind(c)
            /\ \A a, b \in 1..m : K[a] = K[b] => a = b
            /\ \A x : x \in Behind(d) <=> x \in Behind(c) \/ \E b \in 1..m : x = K[b]
        BY <1>1, <1>2, <2>1
      <3>2. IsFiniteSet(Behind(d)) /\ Cardinality(Behind(d)) = Cardinality(Behind(c)) + m
        BY ONLY <3>1, CountMore, Zenon
      <3> QED
        BY <3>2
    <2> QED
      BY <1>2, <2>2
  <1>4. ASSUME NEW k \in Behind(c) PROVE Wanted((s \o u)[Place(k)], k)
    <2>1. Place(k) \in 1..Len(s)
      BY <1>2, PlaceBehind
    <2>2. Wanted(s[Place(k)], k)
      BY DEF Filled
    <2> QED
      BY <1>1, <2>1, <2>2
  <1>5. ASSUME NEW a \in 1..Len(u) PROVE Wanted((s \o u)[Place(K[a])], K[a])
    <2>1. a - 1 \in Nat /\ \A b \in 1..(a - 1) : b \in DOMAIN u
      BY <1>1
    <2>2. Cardinality(Behind(K[a])) = Cardinality(Behind(c)) + (a - 1)
      <3> PICK m, D : m = a - 1 /\ D = Behind(K[a])
        OBVIOUS
      <3>a. m \in Nat /\ IsFiniteSet(Behind(c)) /\ \A e \in 1..m : e \in DOMAIN u
        BY <1>2, <2>1
      <3>b. \A x : x \in D <=> x \in Behind(c) \/ \E b \in 1..m : x = K[b]
        <4>1. a \in DOMAIN u
          BY <1>1
        <4> QED
          BY <4>1, Zenon
      <3>1. /\ m \in Nat /\ IsFiniteSet(Behind(c))
            /\ \A e \in 1..m : K[e] \notin Behind(c)
            /\ \A e, b \in 1..m : K[e] = K[b] => e = b
            /\ \A x : x \in D <=> x \in Behind(c) \/ \E b \in 1..m : x = K[b]
        BY <3>a, <3>b, Zenon
      <3>2. IsFiniteSet(D) /\ Cardinality(D) = Cardinality(Behind(c)) + m
        BY ONLY <3>1, CountMore, Zenon
      <3> QED
        BY <3>2
    <2>3. Place(K[a]) = Len(s) + a
      BY <1>1, <1>2, <2>2 DEF Place
    <2> QED
      BY <1>1, <2>3
  <1>6. \A k \in Behind(d) : Wanted((s \o u)[Place(k)], k)
    <2> SUFFICES ASSUME NEW k \in Behind(d) PROVE Wanted((s \o u)[Place(k)], k)
      OBVIOUS
    <2>1. k \in Behind(c) \/ \E b \in 1..Len(u) : k = K[b]
      OBVIOUS
    <2> QED
      BY <1>4, <1>5, <2>1
  <1> QED
    BY <1>1, <1>3, <1>6 DEF Filled

-----------------------------------------------------------------------------
(* The places of each format.                                               *)
Size(f) == Len(config.families[f].pairs)

(* The families and pairs of a file, by their numbers.                      *)
LEMMA PairsCounted ==
    ASSUME config \in Configs, flags \in Flags
    PROVE  /\ Len(config.families) \in Nat /\ DOMAIN config.families = 1..Len(config.families)
           /\ \A f \in 1..Len(config.families) :
                Size(f) \in Nat /\ DOMAIN config.families[f].pairs = 1..Size(f)
           /\ \A p : p \in PairsOf <=> \E f \in 1..Len(config.families) : \E s \in 1..Size(f) :
                                         p = <<f, s>>
  <1>1. /\ config.families \in Seq(FamilyConfig)
        /\ \A f \in DOMAIN config.families : config.families[f].pairs \in Seq(PairConfig)
    BY InputTypes
  <1>2. Len(config.families) \in Nat /\ DOMAIN config.families = 1..Len(config.families)
    BY <1>1
  <1>3. \A f \in 1..Len(config.families) :
          Size(f) \in Nat /\ DOMAIN config.families[f].pairs = 1..Size(f)
    BY <1>1, <1>2 DEF Size
  <1>4. \A p : p \in PairsOf <=> \E f \in DOMAIN config.families :
                                   \E s \in DOMAIN config.families[f].pairs : p = <<f, s>>
    BY DEF PairsOf
  <1> QED
    BY <1>2, <1>3, <1>4

(* Slots is about a count of points.                                        *)
Sized == config \in Configs /\ flags \in Flags /\ NumPoints \in Nat

(* The places of OpenMetrics.                                               *)
LEMMA SlotsOfMetrics ==
    ASSUME Sized, OpenMetricsAsked, NEW x
    PROVE  x \in Slots <=>
             \/ \E f \in 1..(Len(config.families) + 1) : x = <<f, 0, 0, 0>>
             \/ \E f \in 1..Len(config.families) : \E s \in 1..Size(f) :
                  \E i \in 1..2, n \in 1..NumPoints : x = <<f, s, i, n>>
  <1>1. x \in Slots <=>
          \/ \E f \in 1..(Len(config.families) + 1) : x = <<f, 0, 0, 0>>
          \/ \E p \in PairsOf, i \in 1..2, n \in 1..NumPoints : x = <<p[1], p[2], i, n>>
    BY DEF Slots
  <1>2. ASSUME NEW p \in PairsOf, NEW i \in 1..2, NEW n \in 1..NumPoints, x = <<p[1], p[2], i, n>>
        PROVE  \E f \in 1..Len(config.families) : \E s \in 1..Size(f) :
                  \E j \in 1..2, m \in 1..NumPoints : x = <<f, s, j, m>>
    <2>1. PICK f \in 1..Len(config.families) : \E s \in 1..Size(f) : p = <<f, s>>
      BY PairsCounted DEF Sized
    <2>2. PICK s \in 1..Size(f) : p = <<f, s>>
      BY <2>1
    <2>3. x = <<f, s, i, n>>
      BY <1>2, <2>2
    <2> QED
      BY <2>3
  <1>3. ASSUME NEW f \in 1..Len(config.families), NEW s \in 1..Size(f), NEW i \in 1..2,
               NEW n \in 1..NumPoints, x = <<f, s, i, n>>
        PROVE  \E p \in PairsOf, j \in 1..2, m \in 1..NumPoints : x = <<p[1], p[2], j, m>>
    <2> PICK p : p = <<f, s>>
      OBVIOUS
    <2>1. p \in PairsOf
      BY PairsCounted DEF Sized
    <2>2. x = <<p[1], p[2], i, n>>
      BY <1>3
    <2> QED
      BY <2>1, <2>2
  <1> QED
    BY <1>1, <1>2, <1>3

(* The places of a unit test.                                               *)
LEMMA SlotsOfTest ==
    ASSUME Sized, ~OpenMetricsAsked, NEW x
    PROVE  x \in Slots <=>
             \E f \in 1..Len(config.families) : \E s \in 1..Size(f) :
               \E i \in 1..2 : x = <<f, s, i, 0>>
  <1>1. x \in Slots <=> \E p \in PairsOf, i \in 1..2 : x = <<p[1], p[2], i, 0>>
    BY DEF Slots
  <1>2. ASSUME NEW p \in PairsOf, NEW i \in 1..2, x = <<p[1], p[2], i, 0>>
        PROVE  \E f \in 1..Len(config.families) : \E s \in 1..Size(f) :
                  \E j \in 1..2 : x = <<f, s, j, 0>>
    <2>1. PICK f \in 1..Len(config.families) : \E s \in 1..Size(f) : p = <<f, s>>
      BY PairsCounted DEF Sized
    <2>2. PICK s \in 1..Size(f) : p = <<f, s>>
      BY <2>1
    <2>3. x = <<f, s, i, 0>>
      BY <1>2, <2>2
    <2> QED
      BY <2>3
  <1>3. ASSUME NEW f \in 1..Len(config.families), NEW s \in 1..Size(f), NEW i \in 1..2,
               x = <<f, s, i, 0>>
        PROVE  \E p \in PairsOf, j \in 1..2 : x = <<p[1], p[2], j, 0>>
    <2> PICK p : p = <<f, s>>
      OBVIOUS
    <2>1. p \in PairsOf
      BY PairsCounted DEF Sized
    <2>2. x = <<p[1], p[2], i, 0>>
      BY <1>3
    <2> QED
      BY <2>1, <2>2
  <1> QED
    BY <1>1, <1>2, <1>3

(* The same by the parts of a place.                                        *)
LEMMA SlotParts ==
    ASSUME Sized, NEW x \in Slots
    PROVE  /\ x \in Quads /\ x = <<x[1], x[2], x[3], x[4]>>
           /\ x[1] \in Nat \ {0} /\ x[2] \in Nat /\ x[3] \in 0..2 /\ x[4] \in Nat
           /\ x[2] > 0 => x[1] <= Len(config.families) /\ x[2] <= Size(x[1]) /\ x[3] > 0
           /\ OpenMetricsAsked => x[1] <= Len(config.families) + 1 /\ x[4] <= NumPoints
                                  /\ (x[2] > 0 => x[4] > 0) /\ (x[2] = 0 => x[3] = 0 /\ x[4] = 0)
           /\ ~OpenMetricsAsked => x[2] > 0 /\ x[4] = 0
  <1>0. Len(config.families) \in Nat /\ \A f \in 1..Len(config.families) : Size(f) \in Nat
    BY PairsCounted DEF Sized
  <1>1. CASE OpenMetricsAsked
    <2>1. CASE \E f \in 1..(Len(config.families) + 1) : x = <<f, 0, 0, 0>>
      BY <1>0, <1>1, <2>1 DEF Sized, Quads
    <2>2. CASE \E f \in 1..Len(config.families) : \E s \in 1..Size(f) :
                  \E i \in 1..2, n \in 1..NumPoints : x = <<f, s, i, n>>
      <3> PICK f \in 1..Len(config.families) : \E s \in 1..Size(f) :
                  \E i \in 1..2, n \in 1..NumPoints : x = <<f, s, i, n>>
        BY <2>2
      <3> PICK s \in 1..Size(f) : \E i \in 1..2, n \in 1..NumPoints : x = <<f, s, i, n>>
        OBVIOUS
      <3> PICK i \in 1..2, n \in 1..NumPoints : x = <<f, s, i, n>>
        OBVIOUS
      <3> QED
        BY <1>0, <1>1 DEF Sized, Quads
    <2> QED
      BY <1>1, <2>1, <2>2, SlotsOfMetrics
  <1>2. CASE ~OpenMetricsAsked
    <2> PICK f \in 1..Len(config.families) : \E s \in 1..Size(f) :
               \E i \in 1..2 : x = <<f, s, i, 0>>
      BY <1>2, SlotsOfTest
    <2> PICK s \in 1..Size(f) : \E i \in 1..2 : x = <<f, s, i, 0>>
      OBVIOUS
    <2> PICK i \in 1..2 : x = <<f, s, i, 0>>
      OBVIOUS
    <2> QED
      BY <1>0, <1>2 DEF Sized, Quads
  <1> QED
    BY <1>1, <1>2

-----------------------------------------------------------------------------
(* The places that lie between two others.                                  *)
Earlier(x, f, s, i, n) ==
    \/ x[1] < f
    \/ x[1] = f /\ x[2] < s
    \/ x[1] = f /\ x[2] = s /\ x[3] < i
    \/ x[1] = f /\ x[2] = s /\ x[3] = i /\ x[4] < n

(* What is behind a place, by its parts.                                    *)
LEMMA BehindMeans ==
    ASSUME Sized, NEW f \in Int, NEW s \in Int, NEW i \in Int, NEW n \in Int, NEW x
    PROVE  /\ <<f, s, i, n>> \in Quads
           /\ x \in Behind(<<f, s, i, n>>) <=> x \in Slots /\ Earlier(x, f, s, i, n)
  <1> DEFINE c == <<f, s, i, n>>
  <1>1. c \in Quads /\ c[1] = f /\ c[2] = s /\ c[3] = i /\ c[4] = n
    BY DEF Quads
  <1> HIDE DEF c
  <1>2. x \in Slots => x \in Quads
    BY SlotParts
  <1>3. x \in Behind(c) <=> x \in Slots /\ Earlier(x, f, s, i, n)
    BY <1>1, <1>2, PrecedesMeans DEF Behind, Earlier
  <1> QED
    BY <1>1, <1>3 DEF c

(* Between HELP of a family, or EOF, and the first pair there is nothing    *)
(* else.                                                                    *)
LEMMA HelpPlace ==
    ASSUME Sized, OpenMetricsAsked, NEW f \in 1..(Len(config.families) + 1), NEW x
    PROVE  /\ <<f, 0, 0, 0>> \in Slots
           /\ x \in Behind(<<f, 1, 0, 0>>) <=> x \in Behind(<<f, 0, 0, 0>>) \/ x = <<f, 0, 0, 0>>
  <1>1. f \in Int /\ f \in Nat
    BY PairsCounted DEF Sized
  <1>2. <<f, 0, 0, 0>> \in Slots
    BY SlotsOfMetrics
  <1>3. x = <<f, 0, 0, 0>> => x[1] = f /\ x[2] = 0 /\ x[3] = 0 /\ x[4] = 0
    OBVIOUS
  <1>4. x \in Slots => /\ x[1] \in Nat /\ x[2] \in Nat /\ x = <<x[1], x[2], x[3], x[4]>>
                        /\ (x[2] = 0 => x[3] = 0 /\ x[4] = 0)
                        /\ x[3] \in Nat /\ x[4] \in Nat
    BY SlotParts
  <1>5. /\ x \in Behind(<<f, 1, 0, 0>>) <=> x \in Slots /\ Earlier(x, f, 1, 0, 0)
        /\ x \in Behind(<<f, 0, 0, 0>>) <=> x \in Slots /\ Earlier(x, f, 0, 0, 0)
    BY <1>1, BehindMeans
  <1>6. ASSUME x \in Behind(<<f, 1, 0, 0>>)
        PROVE  x \in Behind(<<f, 0, 0, 0>>) \/ x = <<f, 0, 0, 0>>
    <2>1. x \in Slots /\ Earlier(x, f, 1, 0, 0)
      BY <1>5, <1>6
    <2>2. CASE x[1] < f
      BY <1>5, <2>1, <2>2 DEF Earlier
    <2>3. CASE ~(x[1] < f)
      <3>0. x[1] \in Nat /\ x[2] \in Nat /\ x[3] \in Nat /\ x[4] \in Nat
        BY <1>4, <2>1
      <3>1. x[1] = f /\ x[2] = 0
        BY <1>1, <2>1, <2>3, <3>0 DEF Earlier
      <3> QED
        BY <1>4, <2>1, <3>1
    <2> QED
      BY <2>2, <2>3
  <1>7. ASSUME x \in Behind(<<f, 0, 0, 0>>) PROVE x \in Behind(<<f, 1, 0, 0>>)
    <2>1. x \in Slots /\ Earlier(x, f, 0, 0, 0)
      BY <1>5, <1>7
    <2>2. Earlier(x, f, 1, 0, 0)
      BY <1>1, <1>4, <2>1 DEF Earlier
    <2> QED
      BY <1>5, <2>1, <2>2
  <1>8. ASSUME x = <<f, 0, 0, 0>> PROVE x \in Behind(<<f, 1, 0, 0>>)
    <2>1. x \in Slots /\ x[1] = f /\ x[2] = 0
      BY <1>2, <1>3, <1>8
    <2>2. Earlier(x, f, 1, 0, 0)
      BY <2>1 DEF Earlier
    <2> QED
      BY <1>5, <2>1, <2>2
  <1> QED
    BY <1>2, <1>6, <1>7, <1>8

(* Of OpenMetrics, the first line of a pair is its first success.           *)
LEMMA PairPlace ==
    ASSUME Sized, OpenMetricsAsked, NEW f \in 1..Len(config.families), NEW s \in 1..Size(f), NEW x
    PROVE  x \in Behind(<<f, s, 1, 1>>) <=> x \in Behind(<<f, s, 0, 0>>)
  <1>1. f \in Int /\ s \in Int /\ s > 0
    BY PairsCounted DEF Sized
  <1>2. x \in Slots => /\ x[1] \in Nat /\ x[2] \in Nat /\ x[3] \in Nat /\ x[4] \in Nat
                        /\ (x[2] > 0 => x[3] > 0 /\ x[4] > 0)
    BY SlotParts
  <1>3. /\ x \in Behind(<<f, s, 1, 1>>) <=> x \in Slots /\ Earlier(x, f, s, 1, 1)
        /\ x \in Behind(<<f, s, 0, 0>>) <=> x \in Slots /\ Earlier(x, f, s, 0, 0)
    BY <1>1, BehindMeans
  <1> QED
    BY <1>1, <1>2, <1>3 DEF Earlier

(* A success follows the one of the point before.                           *)
LEMMA PointPlace ==
    ASSUME Sized, OpenMetricsAsked, NEW f \in 1..Len(config.families), NEW s \in 1..Size(f), NEW x,
           NEW n \in 1..NumPoints
    PROVE  /\ <<f, s, 1, n>> \in Slots
           /\ x \in Behind(<<f, s, 1, n + 1>>) <=>
                x \in Behind(<<f, s, 1, n>>) \/ x = <<f, s, 1, n>>
  <1>1. f \in Int /\ s \in Int /\ s > 0 /\ n \in Int /\ n + 1 \in Int
    BY PairsCounted DEF Sized
  <1>2. <<f, s, 1, n>> \in Slots
    BY SlotsOfMetrics
  <1>3. x = <<f, s, 1, n>> => x[1] = f /\ x[2] = s /\ x[3] = 1 /\ x[4] = n
    OBVIOUS
  <1>4. x \in Slots => /\ x[1] \in Nat /\ x[2] \in Nat /\ x[3] \in Nat /\ x[4] \in Nat
                        /\ x = <<x[1], x[2], x[3], x[4]>>
    BY SlotParts
  <1>5. /\ x \in Behind(<<f, s, 1, n>>) <=> x \in Slots /\ Earlier(x, f, s, 1, n)
        /\ x \in Behind(<<f, s, 1, n + 1>>) <=> x \in Slots /\ Earlier(x, f, s, 1, n + 1)
    BY <1>1, BehindMeans
  <1> QED
    BY <1>1, <1>2, <1>3, <1>4, <1>5 DEF Earlier

(* The failures follow the last success, and the next pair follows them.    *)
LEMMA FailurePlaces ==
    ASSUME Sized, OpenMetricsAsked, NEW f \in 1..Len(config.families), NEW s \in 1..Size(f), NEW x
    PROVE  /\ \A n \in 1..NumPoints :
                /\ <<f, s, 2, n>> \in Slots /\ <<f, s, 2, n>> \notin Behind(<<f, s, 1, NumPoints + 1>>)
                /\ x \in Behind(<<f, s, 2, n>>) <=>
                     x \in Behind(<<f, s, 1, NumPoints + 1>>) \/ \E b \in 1..(n - 1) : x = <<f, s, 2, b>>
           /\ x \in Behind(<<f, s + 1, 0, 0>>) <=>
                x \in Behind(<<f, s, 1, NumPoints + 1>>) \/ \E b \in 1..NumPoints : x = <<f, s, 2, b>>
  <1>1. f \in Int /\ s \in Int /\ s > 0 /\ NumPoints \in Nat /\ NumPoints + 1 \in Int /\ s + 1 \in Int
    BY PairsCounted DEF Sized
  <1>2. \A n \in 1..NumPoints : <<f, s, 2, n>> \in Slots /\ n \in Int
    BY <1>1, SlotsOfMetrics
  <1>3. \A b \in Int : x = <<f, s, 2, b>> => x[1] = f /\ x[2] = s /\ x[3] = 2 /\ x[4] = b
    OBVIOUS
  <1>4. x \in Slots => /\ x[1] \in Nat /\ x[2] \in Nat /\ x[3] \in 0..2 /\ x[4] \in Nat
                        /\ x = <<x[1], x[2], x[3], x[4]>> /\ x[4] <= NumPoints
                        /\ (x[2] > 0 => x[3] > 0 /\ x[4] > 0)
    BY SlotParts
  <1>8. /\ x \in Behind(<<f, s, 1, NumPoints + 1>>) <=>
             x \in Slots /\ Earlier(x, f, s, 1, NumPoints + 1)
        /\ x \in Behind(<<f, s + 1, 0, 0>>) <=> x \in Slots /\ Earlier(x, f, s + 1, 0, 0)
        /\ \A n \in Int : x \in Behind(<<f, s, 2, n>>) <=> x \in Slots /\ Earlier(x, f, s, 2, n)
    BY <1>1, BehindMeans
  <1>5. ASSUME NEW n \in 1..NumPoints
        PROVE  <<f, s, 2, n>> \notin Behind(<<f, s, 1, NumPoints + 1>>)
    <2> PICK y : y = <<f, s, 2, n>>
      OBVIOUS
    <2>1. y[1] = f /\ y[2] = s /\ y[3] = 2
      OBVIOUS
    <2> QED
      BY <1>1, <2>1, BehindMeans DEF Earlier
  <1>6. ASSUME NEW n \in 1..NumPoints
        PROVE  x \in Behind(<<f, s, 2, n>>) <=>
                 x \in Behind(<<f, s, 1, NumPoints + 1>>) \/ \E b \in 1..(n - 1) : x = <<f, s, 2, b>>
    <2>0. n \in Int /\ \A b \in 1..(n - 1) : b \in 1..NumPoints
      BY <1>1
    <2>1. ASSUME x \in Behind(<<f, s, 2, n>>)
          PROVE  x \in Behind(<<f, s, 1, NumPoints + 1>>) \/ \E b \in 1..(n - 1) : x = <<f, s, 2, b>>
      <3>1. x \in Slots
        BY <2>1 DEF Behind
      <3>2. \/ x \in Behind(<<f, s, 1, NumPoints + 1>>)
            \/ x[1] = f /\ x[2] = s /\ x[3] = 2 /\ x[4] \in 1..(n - 1)
        BY <1>1, <1>4, <1>8, <2>0, <2>1, <3>1 DEF Earlier
      <3> QED
        BY <1>4, <3>1, <3>2
    <2>2. ASSUME NEW b \in 1..(n - 1), x = <<f, s, 2, b>>
          PROVE  x \in Behind(<<f, s, 2, n>>)
      <3>1. x \in Slots /\ x[1] = f /\ x[2] = s /\ x[3] = 2 /\ x[4] = b
        BY <1>2, <2>0, <2>2
      <3> QED
        BY <1>1, <1>4, <1>8, <2>0, <3>1 DEF Earlier
    <2>3. ASSUME x \in Behind(<<f, s, 1, NumPoints + 1>>)
          PROVE  x \in Behind(<<f, s, 2, n>>)
      BY <1>1, <1>4, <1>8, <2>0, <2>3 DEF Earlier
    <2> QED
      BY <2>1, <2>2, <2>3
  <1>7. x \in Behind(<<f, s + 1, 0, 0>>) <=>
          x \in Behind(<<f, s, 1, NumPoints + 1>>) \/ \E b \in 1..NumPoints : x = <<f, s, 2, b>>
    <2>1. ASSUME x \in Behind(<<f, s + 1, 0, 0>>)
          PROVE  x \in Behind(<<f, s, 1, NumPoints + 1>>) \/ \E b \in 1..NumPoints : x = <<f, s, 2, b>>
      <3>1. x \in Slots
        BY <2>1 DEF Behind
      <3>2. \/ x \in Behind(<<f, s, 1, NumPoints + 1>>)
            \/ x[1] = f /\ x[2] = s /\ x[3] = 2 /\ x[4] \in 1..NumPoints
        BY <1>1, <1>4, <1>8, <2>1, <3>1 DEF Earlier
      <3> QED
        BY <1>4, <3>1, <3>2
    <2>2. ASSUME NEW b \in 1..NumPoints, x = <<f, s, 2, b>>
          PROVE  x \in Behind(<<f, s + 1, 0, 0>>)
      <3>1. x \in Slots /\ x[1] = f /\ x[2] = s /\ x[3] = 2 /\ x[4] = b
        BY <1>2, <2>2
      <3> QED
        BY <1>1, <1>4, <1>8, <3>1 DEF Earlier
    <2>3. ASSUME x \in Behind(<<f, s, 1, NumPoints + 1>>)
          PROVE  x \in Behind(<<f, s + 1, 0, 0>>)
      BY <1>1, <1>4, <1>8, <2>3 DEF Earlier
    <2> QED
      BY <2>1, <2>2, <2>3
  <1> QED
    BY <1>2, <1>5, <1>6, <1>7

(* The two series of a unit test follow one another.                        *)
LEMMA SeriesPlaces ==
    ASSUME Sized, ~OpenMetricsAsked, NEW f \in 1..Len(config.families), NEW s \in 1..Size(f), NEW x
    PROVE  /\ \A n \in 1..2 :
                /\ <<f, s, n, 0>> \in Slots /\ <<f, s, n, 0>> \notin Behind(<<f, s, 0, 0>>)
                /\ x \in Behind(<<f, s, n, 0>>) <=>
                     x \in Behind(<<f, s, 0, 0>>) \/ \E b \in 1..(n - 1) : x = <<f, s, b, 0>>
           /\ x \in Behind(<<f, s + 1, 0, 0>>) <=>
                x \in Behind(<<f, s, 0, 0>>) \/ \E b \in 1..2 : x = <<f, s, b, 0>>
  <1>1. f \in Int /\ s \in Int /\ s > 0 /\ s + 1 \in Int
    BY PairsCounted DEF Sized
  <1>2. \A n \in 1..2 : <<f, s, n, 0>> \in Slots /\ n \in Int
    BY <1>1, SlotsOfTest
  <1>4. x \in Slots => /\ x[1] \in Nat /\ x[2] \in Nat /\ x[3] \in 0..2 /\ x[4] = 0
                        /\ x = <<x[1], x[2], x[3], x[4]>> /\ x[3] > 0
    BY SlotParts
  <1>8. /\ x \in Behind(<<f, s, 0, 0>>) <=> x \in Slots /\ Earlier(x, f, s, 0, 0)
        /\ x \in Behind(<<f, s + 1, 0, 0>>) <=> x \in Slots /\ Earlier(x, f, s + 1, 0, 0)
        /\ \A n \in Int : x \in Behind(<<f, s, n, 0>>) <=> x \in Slots /\ Earlier(x, f, s, n, 0)
    BY <1>1, BehindMeans
  <1>5. ASSUME NEW n \in 1..2
        PROVE  <<f, s, n, 0>> \notin Behind(<<f, s, 0, 0>>)
    <2> PICK y : y = <<f, s, n, 0>>
      OBVIOUS
    <2>1. y[1] = f /\ y[2] = s /\ y[3] = n
      OBVIOUS
    <2> QED
      BY <1>1, <2>1, BehindMeans DEF Earlier
  <1>6. ASSUME NEW n \in 1..2
        PROVE  x \in Behind(<<f, s, n, 0>>) <=>
                 x \in Behind(<<f, s, 0, 0>>) \/ \E b \in 1..(n - 1) : x = <<f, s, b, 0>>
    <2>0. n \in Int /\ \A b \in 1..(n - 1) : b \in 1..2
      BY <1>1
    <2>1. ASSUME x \in Behind(<<f, s, n, 0>>)
          PROVE  x \in Behind(<<f, s, 0, 0>>) \/ \E b \in 1..(n - 1) : x = <<f, s, b, 0>>
      <3>1. x \in Slots
        BY <2>1 DEF Behind
      <3>2. \/ x \in Behind(<<f, s, 0, 0>>)
            \/ x[1] = f /\ x[2] = s /\ x[3] \in 1..(n - 1) /\ x[4] = 0
        BY <1>1, <1>4, <1>8, <2>0, <2>1, <3>1 DEF Earlier
      <3> QED
        BY <1>4, <3>1, <3>2
    <2>2. ASSUME NEW b \in 1..(n - 1), x = <<f, s, b, 0>>
          PROVE  x \in Behind(<<f, s, n, 0>>)
      <3>1. x \in Slots /\ x[1] = f /\ x[2] = s /\ x[3] = b /\ x[4] = 0
        BY <1>2, <2>0, <2>2
      <3> QED
        BY <1>1, <1>4, <1>8, <2>0, <3>1 DEF Earlier
    <2>3. ASSUME x \in Behind(<<f, s, 0, 0>>)
          PROVE  x \in Behind(<<f, s, n, 0>>)
      BY <1>1, <1>4, <1>8, <2>0, <2>3 DEF Earlier
    <2> QED
      BY <2>1, <2>2, <2>3
  <1>7. x \in Behind(<<f, s + 1, 0, 0>>) <=>
          x \in Behind(<<f, s, 0, 0>>) \/ \E b \in 1..2 : x = <<f, s, b, 0>>
    <2>1. ASSUME x \in Behind(<<f, s + 1, 0, 0>>)
          PROVE  x \in Behind(<<f, s, 0, 0>>) \/ \E b \in 1..2 : x = <<f, s, b, 0>>
      <3>1. x \in Slots
        BY <2>1 DEF Behind
      <3>2. \/ x \in Behind(<<f, s, 0, 0>>)
            \/ x[1] = f /\ x[2] = s /\ x[3] \in 1..2 /\ x[4] = 0
        BY <1>1, <1>4, <1>8, <2>1, <3>1 DEF Earlier
      <3> QED
        BY <1>4, <3>1, <3>2
    <2>2. ASSUME NEW b \in 1..2, x = <<f, s, b, 0>>
          PROVE  x \in Behind(<<f, s + 1, 0, 0>>)
      <3>1. x \in Slots /\ x[1] = f /\ x[2] = s
        BY <1>2, <2>2
      <3> QED
        BY <1>1, <1>4, <1>8, <3>1 DEF Earlier
    <2>3. ASSUME x \in Behind(<<f, s, 0, 0>>)
          PROVE  x \in Behind(<<f, s + 1, 0, 0>>)
      BY <1>1, <1>4, <1>8, <2>3 DEF Earlier
    <2> QED
      BY <2>1, <2>2, <2>3
  <1> QED
    BY <1>2, <1>5, <1>6, <1>7

(* No place is between the last pair of a family and the next family.       *)
LEMMA FamilyPlace ==
    ASSUME Sized, NEW f \in 1..Len(config.families), NEW s \in Nat, s > Size(f), NEW x
    PROVE  x \in Behind(<<f + 1, 0, 0, 0>>) <=> x \in Behind(<<f, s, 0, 0>>)
  <1>1. f \in Int /\ f + 1 \in Int /\ Size(f) \in Nat
    BY PairsCounted DEF Sized
  <1>2. x \in Slots => /\ x[1] \in Nat /\ x[2] \in Nat /\ x[3] \in Nat /\ x[4] \in Nat
                        /\ (x[2] > 0 => x[2] <= Size(x[1]))
    BY SlotParts
  <1>3. /\ x \in Behind(<<f + 1, 0, 0, 0>>) <=> x \in Slots /\ Earlier(x, f + 1, 0, 0, 0)
        /\ x \in Behind(<<f, s, 0, 0>>) <=> x \in Slots /\ Earlier(x, f, s, 0, 0)
    BY <1>1, BehindMeans
  <1> QED
    BY <1>1, <1>2, <1>3 DEF Earlier

(* In a unit test nothing comes before the first pair of a family.          *)
LEMMA TestFamilyPlace ==
    ASSUME Sized, ~OpenMetricsAsked, NEW f \in Nat, NEW x
    PROVE  x \in Behind(<<f, 1, 0, 0>>) <=> x \in Behind(<<f, 0, 0, 0>>)
  <1>1. x \in Slots => x[1] \in Nat /\ x[2] \in Nat /\ x[2] > 0 /\ x[3] \in Nat /\ x[4] \in Nat
    BY SlotParts
  <1>2. /\ x \in Behind(<<f, 1, 0, 0>>) <=> x \in Slots /\ Earlier(x, f, 1, 0, 0)
        /\ x \in Behind(<<f, 0, 0, 0>>) <=> x \in Slots /\ Earlier(x, f, 0, 0, 0)
    BY BehindMeans
  <1> QED
    BY <1>1, <1>2 DEF Earlier

(* After the last family, every place is behind.                            *)
LEMMA LastPlace ==
    ASSUME Sized, NEW x
    PROVE  /\ OpenMetricsAsked =>
                (x \in Behind(<<Len(config.families) + 1, 1, 0, 0>>) <=> x \in Slots)
           /\ ~OpenMetricsAsked =>
                (x \in Behind(<<Len(config.families) + 1, 0, 0, 0>>) <=> x \in Slots)
  <1>1. Len(config.families) \in Nat
    BY PairsCounted DEF Sized
  <1> DEFINE f == Len(config.families) + 1
  <1>0. f \in Int
    BY <1>1
  <1>2. /\ x \in Slots => /\ x[1] \in Nat /\ x[2] \in Nat /\ x[3] \in Nat /\ x[4] \in Nat
        /\ x \in Slots /\ OpenMetricsAsked => x[1] <= f /\ (x[2] > 0 => x[1] < f)
        /\ x \in Slots /\ ~OpenMetricsAsked => x[1] < f
    BY <1>1, SlotParts
  <1>3. /\ x \in Behind(<<f, 1, 0, 0>>) <=> x \in Slots /\ Earlier(x, f, 1, 0, 0)
        /\ x \in Behind(<<f, 0, 0, 0>>) <=> x \in Slots /\ Earlier(x, f, 0, 0, 0)
    BY <1>1, BehindMeans
  <1> HIDE DEF f
  <1>4. /\ OpenMetricsAsked => (x \in Behind(<<f, 1, 0, 0>>) <=> x \in Slots)
        /\ ~OpenMetricsAsked => (x \in Behind(<<f, 0, 0, 0>>) <=> x \in Slots)
    <2>1. ASSUME x \in Slots, OpenMetricsAsked PROVE Earlier(x, f, 1, 0, 0)
      BY <1>0, <1>2, <2>1 DEF Earlier
    <2>2. ASSUME x \in Slots, ~OpenMetricsAsked PROVE Earlier(x, f, 0, 0, 0)
      BY <1>0, <1>2, <2>2 DEF Earlier
    <2> QED
      BY <1>3, <2>1, <2>2
  <1> QED
    BY <1>4 DEF f

-----------------------------------------------------------------------------
(* The place the next line is for.                                          *)
Cursor ==
    IF pc \in {"run", "family"} THEN <<family, 0, 0, 0>>
    ELSE IF InPair /\ OpenMetricsAsked THEN <<family, pair, 1, points + 1>>
    ELSE <<family, pair, 0, 0>>

(* Up to there the output is what is wanted, with no line torn.             *)
Full(s, c) ==
    /\ Filled(s, c)
    /\ OpenMetricsAsked => \A n \in DOMAIN s : s[n][1] # "torn"

(* The inductive invariant of the reference, beside TInv, WInv, PInv and    *)
(* UInv.                                                                    *)
EInv ==
    /\ pc \in {"run", "family"} => pair = 1
    /\ pc # "returned" /\ dropped = {} => Full(out, Cursor)
    /\ OutputIsReference

(* What the proofs below use of TInv.                                       *)
LEMMA InBounds ==
    ASSUME TInv
    PROVE  /\ Sized /\ Slots \subseteq Quads /\ IsSeq(out) /\ Cursor \in Quads
           /\ family \in 1..(Len(config.families) + 1) /\ pair \in Nat /\ pair > 0 /\ points \in Nat
           /\ pc \in {"pair", "generate", "generated"} => family \in 1..Len(config.families)
           /\ InPair => pair \in 1..Size(family)
  <1>1. config \in Configs /\ flags \in Flags /\ IsSeq(out) /\ Located
    BY DEF TInv, IInv
  <1>2. NumPoints \in Nat
    BY PointsCount, TimeAssumption DEF Reaches
  <1>3. Sized
    BY <1>1, <1>2 DEF Sized
  <1>4. Slots \subseteq Quads
    BY <1>3, SlotParts
  <1>5. /\ family \in 1..(Len(config.families) + 1) /\ pair \in Nat /\ pair > 0 /\ points \in Nat
        /\ Len(config.families) \in Nat
    BY <1>1, PairsCounted, TimeAssumption DEF TInv, TypeOK
  <1>6. Cursor \in Quads
    <2>1. family \in Int /\ pair \in Int /\ points + 1 \in Int /\ 0 \in Int /\ 1 \in Int
      BY <1>5
    <2> QED
      BY <2>1 DEF Cursor, Quads
  <1>7. pc \in {"pair", "generate", "generated"} => family \in 1..Len(config.families)
    BY <1>1, PairsCounted DEF Located
  <1>8. InPair => pair \in 1..Size(family)
    BY <1>1, <1>7, PairsCounted DEF Located, InPair, Pairs
  <1> QED
    BY <1>1, <1>3, <1>4, <1>5, <1>6, <1>7, <1>8

(* What is wanted being constant, Full may be shown for the next output     *)
(* and cursor with the input as it was.                                     *)
LEMMA FullConstant ==
    ASSUME UNCHANGED input, Full(out', Cursor')
    PROVE  Full(out, Cursor)'
  <1> PICK s, c : s = out' /\ c = Cursor'
    OBVIOUS
  <1>1. /\ (OpenMetricsAsked' <=> OpenMetricsAsked) /\ Slots' = Slots
        /\ \A l, k : Wanted(l, k)' <=> Wanted(l, k)
    BY MeaningConstant
  <1>2. \A k : Behind(k)' = Behind(k) /\ Place(k)' = Place(k)
    BY <1>1 DEF Behind, Precedes, Place
  <1>3. Filled(s, c)
    BY DEF Full
  <1>4. ASSUME NEW k \in Behind(c)' PROVE Wanted(s[Place(k)], k)'
    <2> PICK l : l = s[Place(k)']
      OBVIOUS
    <2>1. Wanted(l, k)'
      BY <1>1, <1>2, <1>3 DEF Filled
    <2> QED
      BY <2>1 DEF Wanted
  <1>7. IsFiniteSet(Behind(c)') /\ Len(s) = Cardinality(Behind(c)')
    BY <1>2, <1>3 DEF Filled
  <1>5. Filled(s, c)'
    BY <1>4, <1>7 DEF Filled
  <1>6. Filled(out, Cursor)'
    BY <1>5 DEF Filled, Behind
  <1> QED
    BY <1>1, <1>6 DEF Full

(* Nothing is wanted between c and d.                                       *)
LEMMA FillNone ==
    ASSUME NEW c, NEW d, NEW s, Full(s, c), \A x : x \in Behind(d) <=> x \in Behind(c)
    PROVE  Full(s, d)
  <1>1. Behind(d) = Behind(c)
    OBVIOUS
  <1> QED
    BY <1>1 DEF Full, Filled

(* One line is wanted between c and d.                                      *)
LEMMA FillOne ==
    ASSUME Slots \subseteq Quads, NEW c \in Slots, NEW d \in Quads, NEW s, IsSeq(s), NEW l,
           Full(s, c), \A x : x \in Behind(d) <=> x \in Behind(c) \/ x = c,
           Wanted(l, c), l[1] # "torn"
    PROVE  Full(s \o <<l>>, d)
  <1> DEFINE K == [a \in 1..1 |-> c]
             u == <<l>>
  <1>1. IsSeq(u) /\ DOMAIN u = 1..1 /\ Len(u) = 1 /\ u[1] = l /\ \A a \in 1..1 : a = 1
    BY Singleton
  <1>2. c \in Quads /\ c \notin Behind(c)
    BY PrecedesOrder DEF Behind
  <1>3. \A a \in DOMAIN u : K[a] \in Slots /\ K[a] \notin Behind(c)
    BY <1>1, <1>2
  <1>4. \A a, b \in DOMAIN u : K[a] = K[b] => a = b
    BY <1>1
  <1>5. \A a \in DOMAIN u : \A x :
          x \in Behind(K[a]) <=> x \in Behind(c) \/ \E b \in 1..(a - 1) : x = K[b]
    BY <1>1
  <1>6. \A x : x \in Behind(d) <=> x \in Behind(c) \/ \E b \in 1..Len(u) : x = K[b]
    BY <1>1
  <1>7. \A a \in DOMAIN u : Wanted(u[a], K[a])
    BY <1>1
  <1>8. \A a \in DOMAIN u : u[a][1] # "torn"
    BY <1>1
  <1>9. Filled(s, c)
    BY DEF Full
  <1> HIDE DEF K, u
  <1>10. Filled(s \o u, d)
    BY <1>1, <1>2, <1>3, <1>4, <1>5, <1>6, <1>7, <1>9, FillMore
  <1>11. Full(s \o u, d)
    BY <1>1, <1>8, <1>10, AppendedKeeps DEF Full
  <1> QED
    BY <1>11 DEF u

(* HELP is written where it is wanted.                                      *)
LEMMA BeginFamilyFull ==
    ASSUME TInv, EInv, BeginFamily, pc' # "returned", dropped' = {}
    PROVE  Full(out', Cursor')
  <1>1. /\ pc = "family" /\ family <= Len(config.families) /\ pc' = "pair"
        /\ UNCHANGED <<family, pair>> /\ dropped = {}
    BY DEF BeginFamily, Goto, Return, position
  <1>2. /\ Sized /\ Slots \subseteq Quads /\ IsSeq(out)
        /\ family \in 1..(Len(config.families) + 1)
    BY InBounds
  <1>3. pair = 1 /\ Full(out, Cursor) /\ Cursor = <<family, 0, 0, 0>>
    BY <1>1 DEF EInv, Cursor
  <1>4. Cursor' = <<family, 1, 0, 0>>
    BY <1>1, <1>3 DEF Cursor, InPair
  <1> PICK c, d, l : c = <<family, 0, 0, 0>> /\ d = <<family, 1, 0, 0>> /\ l = <<"help", family>>
    OBVIOUS
  <1>5. CASE OpenMetricsAsked
    <2>1. Write(<<l>>)
      BY <1>1, <1>5 DEF BeginFamily, Return, OpenMetricsAsked
    <2>2. out' = out \o <<l>>
      BY <1>2, <1>3, <1>5, <2>1, UntornWrite DEF Full, Untorn
    <2>3. c \in Slots /\ \A x : x \in Behind(d) <=> x \in Behind(c) \/ x = c
      BY <1>2, <1>5, HelpPlace
    <2>4. d \in Quads
      BY <1>2, BehindMeans
    <2>5. family \in DOMAIN config.families /\ output # "unittest"
      BY <1>1, <1>2, <1>5, PairsCounted DEF Sized, OpenMetricsAsked
    <2>6. Wanted(l, c) /\ l[1] # "torn"
      <3>1. c[1] = family /\ c[2] = 0
        OBVIOUS
      <3> QED
        BY <2>5, <3>1 DEF Wanted
    <2>7. Full(out \o <<l>>, d)
      BY <1>2, <1>3, <2>3, <2>4, <2>6, FillOne
    <2> QED
      BY <1>4, <2>2, <2>7
  <1>6. CASE ~OpenMetricsAsked
    <2>1. out' = out
      BY <1>6 DEF BeginFamily
    <2>2. family \in Nat
      BY <1>2, PairsCounted DEF Sized
    <2>3. \A x : x \in Behind(d) <=> x \in Behind(c)
      BY <1>2, <1>6, <2>2, TestFamilyPlace
    <2>4. Full(out, d)
      BY <1>3, <2>3, FillNone
    <2> QED
      BY <1>4, <2>1, <2>4
  <1> QED
    BY <1>5, <1>6

(* Nothing is wanted between two families.                                  *)
LEMMA EndFamilyFull ==
    ASSUME TInv, EInv, EndFamily, dropped' = {}
    PROVE  Full(out', Cursor')
  <1>1. /\ pc = "pair" /\ pair > Len(Pairs) /\ pc' = "family" /\ out' = out
        /\ family' = family + 1 /\ dropped = {}
    BY DEF EndFamily, Goto
  <1>2. /\ Sized /\ family \in 1..Len(config.families) /\ pair \in Nat
    BY <1>1, InBounds
  <1>3. Full(out, <<family, pair, 0, 0>>) /\ Cursor' = <<family + 1, 0, 0, 0>>
    BY <1>1 DEF EInv, Cursor, InPair
  <1>4. pair > Size(family)
    BY <1>1 DEF Size, Pairs
  <1>5. \A x : x \in Behind(<<family + 1, 0, 0, 0>>) <=> x \in Behind(<<family, pair, 0, 0>>)
    BY <1>2, <1>4, FamilyPlace
  <1> QED
    BY <1>1, <1>3, <1>5, FillNone

(* Nothing is wanted before the first line of a pair.                       *)
LEMMA BeginPairFull ==
    ASSUME TInv, EInv, BeginPair, dropped' = {}
    PROVE  Full(out', Cursor')
  <1>1. /\ pc = "pair" /\ pair <= Len(Pairs) /\ pc' = "generate" /\ out' = out
        /\ UNCHANGED <<family, pair>> /\ points' = 0 /\ dropped = {}
        /\ (OpenMetricsAsked' <=> OpenMetricsAsked)
    BY DEF BeginPair, Goto, position, OpenMetricsAsked, input
  <1>2. /\ Sized /\ family \in 1..Len(config.families) /\ pair \in Nat /\ pair > 0
    BY <1>1, InBounds
  <1>3. Full(out, <<family, pair, 0, 0>>)
    BY <1>1 DEF EInv, Cursor, InPair
  <1>4. pair \in 1..Size(family)
    BY <1>1, <1>2, PairsCounted DEF Size, Pairs, Sized
  <1>5. CASE OpenMetricsAsked
    <2>1. Cursor' = <<family, pair, 1, 1>>
      BY <1>1, <1>5 DEF Cursor, InPair
    <2>2. \A x : x \in Behind(<<family, pair, 1, 1>>) <=> x \in Behind(<<family, pair, 0, 0>>)
      BY <1>2, <1>4, <1>5, PairPlace
    <2> QED
      BY <1>1, <1>3, <2>1, <2>2, FillNone
  <1>6. CASE ~OpenMetricsAsked
    <2>1. Cursor' = <<family, pair, 0, 0>>
      BY <1>1, <1>6 DEF Cursor
    <2> QED
      BY <1>1, <1>3, <2>1
  <1> QED
    BY <1>5, <1>6

(* A success is written where it is wanted.                                 *)
LEMMA GeneratePointFull ==
    ASSUME TInv, PInv, EInv, GeneratePoint, dropped' = {}
    PROVE  Full(out', Cursor')
  <1>1. /\ pc = "generate" /\ pc' = "generate" /\ t < Parse.end /\ points < MaxPoints
        /\ UNCHANGED <<family, pair>> /\ points' = points + 1 /\ dropped = {}
        /\ (OpenMetricsAsked' <=> OpenMetricsAsked) /\ InPair /\ InPair'
    BY DEF GeneratePoint, position, OpenMetricsAsked, input, InPair
  <1>2. /\ Sized /\ Slots \subseteq Quads /\ IsSeq(out)
        /\ family \in 1..Len(config.families) /\ pair \in 1..Size(family) /\ points \in Nat
        /\ pair > 0
    BY <1>1, InBounds
  <1>3. CASE ~OpenMetricsAsked
    <2>1. Cursor' = <<family, pair, 0, 0>> /\ Cursor = <<family, pair, 0, 0>>
      BY <1>1, <1>3 DEF Cursor, InPair
    <2>2. out' = out
      BY <1>3 DEF GeneratePoint
    <2> QED
      BY <1>1, <2>1, <2>2 DEF EInv
  <1>4. CASE OpenMetricsAsked
    <2> PICK c, d, l, n : /\ n = points + 1 /\ c = <<family, pair, 1, n>> /\ l = Line(1)
                          /\ d = <<family, pair, 1, n + 1>>
      OBVIOUS
    <2>1. Cursor = c /\ Cursor' = d
      BY <1>1, <1>4 DEF Cursor, InPair
    <2>2. Full(out, c)
      BY <1>1, <2>1 DEF EInv
    <2>3. Write(<<l>>)
      BY <1>4 DEF GeneratePoint, OpenMetricsAsked
    <2>4. out' = out \o <<l>>
      BY <1>2, <1>4, <2>2, <2>3, UntornWrite DEF Full, Untorn
    <2>5. n \in 1..NumPoints /\ l = Lines(position, 1)[n]
      BY <1>1, SumMeant DEF PInv
    <2>6. c \in Slots /\ \A x : x \in Behind(d) <=> x \in Behind(c) \/ x = c
      BY <1>2, <1>4, <2>5, PointPlace
    <2>7. d \in Quads
      <3>1. family \in Int /\ pair \in Int /\ n + 1 \in Int
        BY <1>2, PairsCounted DEF Sized
      <3> QED
        BY <3>1 DEF Quads
    <2>8. Wanted(l, c)
      <3>1. c[1] = family /\ c[2] = pair /\ c[3] = 1 /\ c[4] = n /\ <<c[1], c[2]>> = position
        BY DEF position
      <3>2. c[2] > 0 /\ output # "unittest" /\ l = Lines(<<c[1], c[2]>>, c[3])[c[4]]
        BY <1>2, <1>4, <2>5, <3>1 DEF OpenMetricsAsked
      <3>3. ~(c[2] = 0)
        BY <1>2, <3>1
      <3> QED
        BY <3>2, <3>3 DEF Wanted
    <2>9. l[1] # "torn"
      BY DEF Line
    <2>10. Full(out \o <<l>>, d)
      BY <1>2, <2>2, <2>6, <2>7, <2>8, <2>9, FillOne
    <2> QED
      BY <2>1, <2>4, <2>10
  <1> QED
    BY <1>3, <1>4

(* The lines of u are, one by one, for the places from c up to d.           *)
Fits(u, K, c, d) ==
    /\ \A a \in DOMAIN u :
         K[a] \in Slots /\ K[a] \notin Behind(c) /\ Wanted(u[a], K[a]) /\ u[a][1] # "torn"
    /\ \A a, b \in DOMAIN u : K[a] = K[b] => a = b
    /\ \A a \in DOMAIN u : \A x :
         x \in Behind(K[a]) <=> x \in Behind(c) \/ \E b \in 1..(a - 1) : x = K[b]
    /\ \A x : x \in Behind(d) <=> x \in Behind(c) \/ \E b \in 1..Len(u) : x = K[b]

(* Lines that fit fill the output up to d.                                  *)
LEMMA FillSeveral ==
    ASSUME Slots \subseteq Quads, NEW c \in Quads, NEW d \in Quads, NEW s, IsSeq(s), NEW u, IsSeq(u),
           NEW K, Full(s, c), Fits(u, K, c, d)
    PROVE  Full(s \o u, d)
  <1>1. /\ \A a \in DOMAIN u : K[a] \in Slots /\ K[a] \notin Behind(c)
        /\ \A a, b \in DOMAIN u : K[a] = K[b] => a = b
        /\ \A a \in DOMAIN u : Wanted(u[a], K[a])
        /\ \A a \in DOMAIN u : u[a][1] # "torn"
        /\ \A a \in DOMAIN u : \A x :
             x \in Behind(K[a]) <=> x \in Behind(c) \/ \E b \in 1..(a - 1) : x = K[b]
        /\ \A x : x \in Behind(d) <=> x \in Behind(c) \/ \E b \in 1..Len(u) : x = K[b]
    BY Zenon DEF Fits
  <1>2. Filled(s, c)
    BY DEF Full
  <1>3. Filled(s \o u, d)
    BY <1>1, <1>2, FillMore
  <1> QED
    BY <1>1, <1>3, AppendedKeeps DEF Full

(* The failures that wait are the ones wanted.                              *)
LEMMA CopyFailuresFull ==
    ASSUME TInv, PInv, EInv, CopyFailures, pc' # "returned", dropped' = {}
    PROVE  Full(out', Cursor')
  <1>1. /\ pc = "generated" /\ pc' = "pair" /\ OpenMetricsAsked /\ Write(buf)
        /\ family' = family /\ pair' = pair + 1 /\ dropped = {} /\ InPair
    BY DEF CopyFailures, Goto, Return, InPair
  <1>2. /\ Sized /\ Slots \subseteq Quads /\ IsSeq(out) /\ IsSeq(buf)
        /\ family \in 1..Len(config.families) /\ pair \in 1..Size(family) /\ points \in Nat
        /\ pair \in Nat /\ pair > 0
    BY <1>1, InBounds DEF TInv, IInv
  <1>3. /\ points = NumPoints /\ Len(buf) = points
        /\ \A n \in 1..points : buf[n] = Lines(position, 2)[n]
    BY <1>1 DEF PInv, Counted, Held
  <1> PICK c, d, N : /\ N = NumPoints /\ c = <<family, pair, 1, N + 1>>
                     /\ d = <<family, pair + 1, 0, 0>>
    OBVIOUS
  <1>4. Cursor = c /\ Cursor' = d
    BY <1>1, <1>3 DEF Cursor, InPair
  <1>5. Full(out, c)
    BY <1>1, <1>4 DEF EInv
  <1>6. out' = out \o buf
    BY <1>1, <1>2, <1>5, UntornWrite DEF Full, Untorn
  <1>7. c \in Quads /\ d \in Quads /\ N \in Nat
    <2>1. family \in Int /\ pair \in Int /\ N \in Nat /\ N + 1 \in Int /\ pair + 1 \in Int
      BY <1>2, PairsCounted DEF Sized
    <2> QED
      BY <2>1 DEF Quads
  <1> PICK K : K = [n \in 1..N |-> <<family, pair, 2, n>>]
    OBVIOUS
  <1>8. \A n \in 1..N : K[n] = <<family, pair, 2, n>>
    OBVIOUS
  <1>9. ASSUME NEW x
        PROVE  /\ \A n \in 1..N :
                    /\ <<family, pair, 2, n>> \in Slots /\ <<family, pair, 2, n>> \notin Behind(c)
                    /\ x \in Behind(<<family, pair, 2, n>>) <=>
                         x \in Behind(c) \/ \E b \in 1..(n - 1) : x = <<family, pair, 2, b>>
               /\ x \in Behind(d) <=>
                    x \in Behind(c) \/ \E b \in 1..N : x = <<family, pair, 2, b>>
    BY <1>1, <1>2, FailurePlaces
  <1>10. ASSUME NEW x, NEW a \in 1..N
         PROVE  /\ K[a] \in Slots /\ K[a] \notin Behind(c)
                /\ x \in Behind(K[a]) <=> x \in Behind(c) \/ \E b \in 1..(a - 1) : x = K[b]
    <2>1. \A b \in 1..(a - 1) : b \in 1..N
      BY <1>7
    <2>2. \A b \in 1..(a - 1) : K[b] = <<family, pair, 2, b>>
      BY <1>8, <2>1
    <2>3. K[a] = <<family, pair, 2, a>>
      BY <1>8
    <2>4. (\E b \in 1..(a - 1) : x = K[b]) <=> \E b \in 1..(a - 1) : x = <<family, pair, 2, b>>
      BY <2>2, Zenon
    <2> QED
      BY <1>9, <2>3, <2>4, Zenon
  <1>11. \A x : x \in Behind(d) <=> x \in Behind(c) \/ \E b \in 1..N : x = K[b]
    BY <1>8, <1>9
  <1>12. \A a, b \in 1..N : K[a] = K[b] => a = b
    BY <1>8
  <1>13. ASSUME NEW a \in 1..N PROVE Wanted(buf[a], K[a]) /\ buf[a][1] # "torn"
    <2> PICK k : k = <<family, pair, 2, a>>
      OBVIOUS
    <2>1. k = K[a] /\ k[1] = family /\ k[2] = pair /\ k[3] = 2 /\ k[4] = a /\ <<k[1], k[2]>> = position
      BY <1>8 DEF position
    <2>0. k[2] > 0 /\ ~(k[2] = 0) /\ output # "unittest" /\ buf[a] = Lines(position, 2)[a]
      BY <1>1, <1>2, <1>3, <2>1 DEF OpenMetricsAsked
    <2>2. k[2] > 0 /\ ~(k[2] = 0) /\ output # "unittest" /\ buf[a] = Lines(<<k[1], k[2]>>, k[3])[k[4]]
      BY <2>0, <2>1, Zenon
    <2>3. Wanted(buf[a], k)
      BY <2>2 DEF Wanted
    <2>4. buf[a][1] # "torn"
      BY <1>3 DEF Lines
    <2> QED
      BY <2>1, <2>3, <2>4
  <1>14. Full(out \o buf, d)
    <2>1. DOMAIN buf = 1..N /\ Len(buf) = N
      BY <1>2, <1>3, ConcatParts
    <2>2. \A a \in DOMAIN buf :
            K[a] \in Slots /\ K[a] \notin Behind(c) /\ Wanted(buf[a], K[a]) /\ buf[a][1] # "torn"
      BY <1>10, <1>13, <2>1, Zenon
    <2>3. \A a, b \in DOMAIN buf : K[a] = K[b] => a = b
      BY <1>12, <2>1, Zenon
    <2>4. ASSUME NEW a \in DOMAIN buf, NEW x
          PROVE  x \in Behind(K[a]) <=> x \in Behind(c) \/ \E b \in 1..(a - 1) : x = K[b]
      BY <1>10, <2>1, Zenon
    <2>5. \A x : x \in Behind(d) <=> x \in Behind(c) \/ \E b \in 1..Len(buf) : x = K[b]
      BY <1>11, <2>1, Zenon
    <2>6. Fits(buf, K, c, d)
      BY <2>2, <2>3, <2>4, <2>5, Zenon DEF Fits
    <2> QED
      BY <1>2, <1>5, <1>7, <2>6, FillSeveral
  <1> QED
    BY <1>4, <1>6, <1>14

(* The two series of a unit test are the ones wanted.                       *)
LEMMA CloseWritersFull ==
    ASSUME TInv, PInv, UInv, EInv, CloseWriters, dropped' = {}
    PROVE  Full(out', Cursor')
  <1>1. /\ pc = "generated" /\ pc' = "pair" /\ output = "unittest" /\ ~OpenMetricsAsked
        /\ family' = family /\ pair' = pair + 1 /\ dropped = {} /\ InPair
    BY DEF CloseWriters, Goto, InPair, OpenMetricsAsked
  <1>2. /\ Sized /\ Slots \subseteq Quads /\ IsSeq(out)
        /\ family \in 1..Len(config.families) /\ pair \in 1..Size(family) /\ points \in Nat
        /\ pair \in Nat /\ pair > 0
    BY <1>1, InBounds
  <1>3. points = NumPoints
    BY <1>1 DEF PInv, Counted
  <1> PICK c, d, u : /\ c = <<family, pair, 0, 0>> /\ d = <<family, pair + 1, 0, 0>>
                     /\ u = [i \in 1..2 |-> <<"series", SeriesName(i), Closed(csw[i]).decoded>>]
    OBVIOUS
  <1>4. Cursor = c /\ Cursor' = d
    BY <1>1 DEF Cursor, InPair
  <1>5. Full(out, c)
    BY <1>1, <1>4 DEF EInv
  <1>6. out' = out \o u
    BY DEF CloseWriters
  <1>7. IsSeq(u) /\ Len(u) = 2 /\ \A i \in 1..2 : u[i] = <<"series", SeriesName(i), Closed(csw[i]).decoded>>
    <2> PICK f : f = [i \in 1..2 |-> <<"series", SeriesName(i), Closed(csw[i]).decoded>>]
      OBVIOUS
    <2>1. u \in [1..2 -> {f[1], f[2]}]
      OBVIOUS
    <2>2. u \in Seq({f[1], f[2]}) /\ Len(u) = 2
      BY <2>1, SeqDef, LenProperties
    <2> QED
      BY <2>2 DEF IsSeq
  <1>8. c \in Quads /\ d \in Quads
    <2>1. family \in Int /\ pair \in Int /\ pair + 1 \in Int
      BY <1>2, PairsCounted DEF Sized
    <2> QED
      BY <2>1 DEF Quads
  <1> PICK K : K = [n \in 1..2 |-> <<family, pair, n, 0>>]
    OBVIOUS
  <1>9. \A n \in 1..2 : K[n] = <<family, pair, n, 0>>
    OBVIOUS
  <1>10. ASSUME NEW x
         PROVE  /\ \A n \in 1..2 :
                     /\ <<family, pair, n, 0>> \in Slots /\ <<family, pair, n, 0>> \notin Behind(c)
                     /\ x \in Behind(<<family, pair, n, 0>>) <=>
                          x \in Behind(c) \/ \E b \in 1..(n - 1) : x = <<family, pair, b, 0>>
                /\ x \in Behind(d) <=>
                     x \in Behind(c) \/ \E b \in 1..2 : x = <<family, pair, b, 0>>
    <2>1. /\ \A n \in 1..2 :
               /\ <<family, pair, n, 0>> \in Slots
               /\ <<family, pair, n, 0>> \notin Behind(<<family, pair, 0, 0>>)
               /\ x \in Behind(<<family, pair, n, 0>>) <=>
                    x \in Behind(<<family, pair, 0, 0>>) \/ \E b \in 1..(n - 1) : x = <<family, pair, b, 0>>
          /\ x \in Behind(<<family, pair + 1, 0, 0>>) <=>
               x \in Behind(<<family, pair, 0, 0>>) \/ \E b \in 1..2 : x = <<family, pair, b, 0>>
      <3>1. Sized /\ ~OpenMetricsAsked /\ family \in 1..Len(config.families) /\ pair \in 1..Size(family)
        BY <1>1, <1>2
      <3> QED
        BY ONLY <3>1, SeriesPlaces
    <2>2. c = <<family, pair, 0, 0>> /\ d = <<family, pair + 1, 0, 0>>
      OBVIOUS
    <2> QED
      BY <2>1, <2>2, Zenon
  <1>11. ASSUME NEW x, NEW a \in 1..2
         PROVE  /\ K[a] \in Slots /\ K[a] \notin Behind(c)
                /\ x \in Behind(K[a]) <=> x \in Behind(c) \/ \E b \in 1..(a - 1) : x = K[b]
    <2>1. \A b \in 1..(a - 1) : K[b] = <<family, pair, b, 0>>
      BY <1>9
    <2>2. K[a] = <<family, pair, a, 0>>
      BY <1>9
    <2> QED
      BY <1>10, <2>1, <2>2
  <1>12. \A x : x \in Behind(d) <=> x \in Behind(c) \/ \E b \in 1..2 : x = K[b]
    BY <1>9, <1>10
  <1>13. \A a, b \in 1..2 : K[a] = K[b] => a = b
    BY <1>9
  <1>14. ASSUME NEW a \in 1..2 PROVE Wanted(u[a], K[a]) /\ u[a][1] # "torn"
    <2> PICK k, z : k = <<family, pair, a, 0>> /\ z = Closed(csw[a]).decoded
      OBVIOUS
    <2>1. k = K[a] /\ k[3] = a /\ <<k[1], k[2]>> = position
      BY <1>9 DEF position
    <2>2. SeriesName(1) = Name(position, 1) /\ SeriesName(2) = Name(position, 2)
      BY <1>1, KindInHand, NamesMeant DEF TInv, IInv
    <2>3. u[a] = <<"series", Name(position, a), z>>
      BY <1>7, <2>2
    <2>4. Compressible(position, a) => Totals(position, a) \in {z, Append(z, 0)}
      <3>1. csw[a] \in C!Writer /\ Compressed(csw[a], a)
        BY <1>1 DEF TInv, TypeOK, UInv
      <3> QED
        BY <1>3, <3>1, WriterCloses
    <2>5. Wanted(u[a], k)
      BY <1>1, <2>1, <2>3, <2>4 DEF Wanted
    <2> QED
      BY <2>1, <2>3, <2>5
  <1>15. Full(out \o u, d)
    <2>1. DOMAIN u = 1..2 /\ Len(u) = 2
      BY <1>7, ConcatParts
    <2>2. \A a \in DOMAIN u :
            K[a] \in Slots /\ K[a] \notin Behind(c) /\ Wanted(u[a], K[a]) /\ u[a][1] # "torn"
      BY <1>11, <1>14, <2>1, Zenon
    <2>3. \A a, b \in DOMAIN u : K[a] = K[b] => a = b
      BY <1>13, <2>1, Zenon
    <2>4. ASSUME NEW a \in DOMAIN u, NEW x
          PROVE  x \in Behind(K[a]) <=> x \in Behind(c) \/ \E b \in 1..(a - 1) : x = K[b]
      BY <1>11, <2>1, Zenon
    <2>5. \A x : x \in Behind(d) <=> x \in Behind(c) \/ \E b \in 1..Len(u) : x = K[b]
      BY <1>12, <2>1, Zenon
    <2>6. Fits(u, K, c, d)
      BY <2>2, <2>3, <2>4, <2>5, Zenon DEF Fits
    <2> QED
      BY <1>2, <1>5, <1>7, <1>8, <2>6, FillSeveral
  <1> QED
    BY <1>4, <1>6, <1>15

(* When every place is filled, the output is the reference.                 *)
LEMMA AllFilled ==
    ASSUME UNCHANGED input, NEW d, Filled(out', d), \A x : x \in Behind(d) <=> x \in Slots
    PROVE  OutputIsReference'
  <1>1. /\ Slots' = Slots /\ \A l, k : Wanted(l, k)' <=> Wanted(l, k)
    BY MeaningConstant
  <1>2. Behind(d) = Slots
    OBVIOUS
  <1>3. /\ Len(out') = Cardinality(Slots)
        /\ \A k \in Slots : Wanted(out'[Cardinality({j \in Slots : Precedes(j, k)}) + 1], k)
    BY <1>2 DEF Filled, Place, Behind
  <1>4. ASSUME NEW k \in Slots PROVE Wanted(out[Cardinality({j \in Slots : Precedes(j, k)}) + 1], k)'
    <2> PICK l : l = out'[Cardinality({j \in Slots : Precedes(j, k)}) + 1]
      OBVIOUS
    <2>1. Wanted(l, k)'
      BY <1>1, <1>3
    <2>2. {j \in Slots' : Precedes(j, k)'} = {j \in Slots : Precedes(j, k)}
      BY <1>1 DEF Precedes
    <2> QED
      BY <2>1, <2>2 DEF Wanted
  <1> QED
    BY <1>1, <1>3, <1>4 DEF OutputIsReference, Precedes

(* With EOF, or for a unit test without, the output is complete.            *)
LEMMA FinishFull ==
    ASSUME TInv, EInv, Finish, result' = "ok", dropped' = {}
    PROVE  OutputIsReference'
  <1>1. /\ pc = "family" /\ family > Len(config.families) /\ dropped = {} /\ UNCHANGED input
    BY DEF Finish
  <1>2. /\ Sized /\ Slots \subseteq Quads /\ IsSeq(out)
        /\ family \in 1..(Len(config.families) + 1)
    BY InBounds
  <1>3. Full(out, Cursor) /\ Cursor = <<family, 0, 0, 0>>
    BY <1>1 DEF EInv, Cursor
  <1>4. Len(config.families) \in Nat /\ DOMAIN config.families = 1..Len(config.families)
    BY <1>2, PairsCounted DEF Sized
  <1>5. family = Len(config.families) + 1
    BY <1>1, <1>2, <1>4
  <1> PICK c, d, l : c = <<family, 0, 0, 0>> /\ d = <<family, 1, 0, 0>> /\ l = <<"EOF">>
    OBVIOUS
  <1>6. CASE OpenMetricsAsked
    <2>1. Write(<<l>>)
      BY <1>6 DEF Finish, Return, OpenMetricsAsked
    <2>2. out' = out \o <<l>>
      BY <1>2, <1>3, <1>6, <2>1, UntornWrite DEF Full, Untorn
    <2>3. c \in Slots /\ \A x : x \in Behind(d) <=> x \in Behind(c) \/ x = c
      BY <1>2, <1>6, HelpPlace
    <2>4. d \in Quads
      BY <1>2, BehindMeans
    <2>5. family \notin DOMAIN config.families /\ output # "unittest"
      BY <1>1, <1>4, <1>6 DEF OpenMetricsAsked
    <2>6. Wanted(l, c) /\ l[1] # "torn"
      <3>1. c[1] = family /\ c[2] = 0
        OBVIOUS
      <3> QED
        BY <2>5, <3>1 DEF Wanted
    <2>7. Full(out \o <<l>>, d)
      BY <1>2, <1>3, <2>3, <2>4, <2>6, FillOne
    <2>8. \A x : x \in Behind(d) <=> x \in Slots
      BY <1>2, <1>5, <1>6, LastPlace
    <2> QED
      BY <1>1, <2>2, <2>7, <2>8, AllFilled DEF Full
  <1>7. CASE ~OpenMetricsAsked
    <2>1. out' = out
      BY <1>7 DEF Finish, Return
    <2>2. \A x : x \in Behind(c) <=> x \in Slots
      BY <1>2, <1>5, <1>7, LastPlace
    <2> QED
      BY <1>1, <1>3, <2>1, <2>2, AllFilled DEF Full
  <1> QED
    BY <1>6, <1>7

LEMMA InitEInv == Init /\ TInv => EInv
  <1> SUFFICES ASSUME Init, TInv PROVE EInv
    OBVIOUS
  <1>1. pc = "run" /\ result = "none" /\ out = <<>> /\ family = 1 /\ pair = 1
    BY DEF Init
  <1> PICK c : c = <<1, 0, 0, 0>>
    OBVIOUS
  <1>2. Cursor = c
    BY <1>1 DEF Cursor
  <1>3. \A x : x \notin Behind(c)
    <2> SUFFICES ASSUME NEW x \in Slots, Earlier(x, 1, 0, 0, 0) PROVE FALSE
      BY InBounds, BehindMeans
    <2>1. x[1] \in Nat \ {0} /\ x[2] \in Nat /\ x[3] \in Nat /\ x[4] \in Nat
      BY InBounds, SlotParts
    <2> QED
      BY <2>1 DEF Earlier
  <1>4. Behind(c) = {}
    BY <1>3
  <1>5. IsFiniteSet({}) /\ Cardinality({}) = 0
    BY FS_EmptySet
  <1>7. Len(<<>>) = 0 /\ DOMAIN <<>> = {}
    OBVIOUS
  <1> PICK s : s = out
    OBVIOUS
  <1>8. Len(s) = 0 /\ DOMAIN s = {}
    BY <1>1, <1>7
  <1>9. Filled(s, c)
    BY <1>4, <1>5, <1>8 DEF Filled
  <1>6. Full(out, c)
    BY <1>8, <1>9 DEF Full
  <1> QED
    BY <1>1, <1>2, <1>6 DEF EInv, OutputIsReference

LEMMA NextEInv == TInv /\ WInv /\ PInv /\ UInv /\ EInv /\ [Next]_vars => EInv'
  <1> SUFFICES ASSUME TInv, WInv, PInv, UInv, EInv, [Next]_vars PROVE EInv'
    OBVIOUS
  <1>1. CASE Next
    <2>1. /\ UNCHANGED input /\ pc # "returned" /\ dropped \subseteq dropped'
          /\ Finish \/ result' = result \/ result' = "error"
      BY <1>1, StepMeans DEF TInv
    <2>2. pc' \in {"run", "family"} => pair' = 1
      BY <1>1 DEF EInv, Next, Start, BeginFamily, BeginPair, EndFamily, GeneratePoint,
         GenerateFails, GenerateEnd, CopyFailures, CloseWriters, Finish, Goto, Return, position
    <2>3. OutputIsReference'
      <3>1. CASE result' = "ok" /\ dropped' = {}
        <4>1. Finish
          BY <2>1, <3>1 DEF WInv
        <4> QED
          BY <3>1, <4>1, FinishFull
      <3>2. CASE ~(result' = "ok" /\ dropped' = {})
        BY <3>2 DEF OutputIsReference
      <3> QED
        BY <3>1, <3>2
    <2>4. ASSUME pc' # "returned", dropped' = {} PROVE Full(out, Cursor)'
      <3>1. dropped = {} /\ Full(out, Cursor) /\ ~Finish /\ ~GenerateFails
        BY <2>1, <2>4 DEF EInv, Finish, GenerateFails, Return
      <3>2. CASE Start
        <4>1. out' = out /\ Cursor' = Cursor
          BY <2>4, <3>2 DEF Start, Return, Goto, Cursor, position
        <4> QED
          BY <2>1, <3>1, <4>1, FullConstant
      <3>3. CASE GenerateEnd
        <4>1. out' = out /\ Cursor' = Cursor
          BY <3>3 DEF GenerateEnd, Goto, Cursor, position, generation, InPair, OpenMetricsAsked, input
        <4> QED
          BY <2>1, <3>1, <4>1, FullConstant
      <3>4. CASE ~Start /\ ~GenerateEnd
        <4>1. Full(out', Cursor')
          BY <1>1, <2>4, <3>1, <3>4, BeginFamilyFull, BeginPairFull, EndFamilyFull,
             GeneratePointFull, CopyFailuresFull, CloseWritersFull DEF Next
        <4> QED
          BY <2>1, <4>1, FullConstant
      <3> QED
        BY <3>2, <3>3, <3>4
    <2> QED
      BY <2>2, <2>3, <2>4 DEF EInv
  <1>2. CASE UNCHANGED vars
    <2>1. /\ UNCHANGED input /\ UNCHANGED <<pc, result, family, pair, points, out, dropped>>
      BY <1>2 DEF vars, position, generation
    <2>2. Cursor' = Cursor
      BY <2>1 DEF Cursor, InPair, OpenMetricsAsked, input
    <2>3. pc' # "returned" /\ dropped' = {} => Full(out, Cursor)'
      BY <2>1, <2>2, FullConstant DEF EInv
    <2>4. OutputIsReference'
      <3>1. Slots' = Slots /\ \A l, k : Wanted(l, k)' <=> Wanted(l, k)
        BY <2>1, MeaningConstant
      <3>2. ASSUME result = "ok", dropped = {}, NEW k \in Slots
            PROVE  Wanted(out[Cardinality({j \in Slots : Precedes(j, k)}) + 1], k)'
        <4> PICK l : l = out[Cardinality({j \in Slots : Precedes(j, k)}) + 1]
          OBVIOUS
        <4>1. Wanted(l, k)'
          BY <3>1, <3>2 DEF EInv, OutputIsReference
        <4>2. {j \in Slots' : Precedes(j, k)'} = {j \in Slots : Precedes(j, k)}
          BY <3>1 DEF Precedes
        <4> QED
          BY <2>1, <4>1, <4>2 DEF Wanted
      <3> QED
        BY <2>1, <3>1, <3>2 DEF EInv, OutputIsReference, Precedes
    <2> QED
      BY <2>1, <2>3, <2>4 DEF EInv
  <1> QED
    BY <1>1, <1>2

(* The output of a successful run, none of whose errors was dropped, is     *)
(* the one the configuration stands for, place after place, for every file, *)
(* with flags and overrides. In OpenMetrics it is so line by line, also     *)
(* where totals wrap around or series have one name. A series of a unit     *)
(* test may miss a last 0, and where Compressible does not hold (totals     *)
(* that wrap around among them) only its name and place are stated.         *)
THEOREM OutputCorrect == Spec => []OutputIsReference
  <1>1. EInv => OutputIsReference
    BY DEF EInv
  <1>2. TInv => IInv
    BY DEF TInv
  <1> QED
    BY <1>1, <1>2, InitTInv, NextTInv, InitWInv, NextWInv, InitPInv, NextPInv, InitUInv, NextUInv,
       InitEInv, NextEInv, PTL DEF Spec

-----------------------------------------------------------------------------
(* Where lines have samples of a series.                                    *)
Places(s, name) == {x \in DOMAIN s : s[x][1] = "sample" /\ s[x][2] = name}

(* The first n samples of a series, and no other, are in s without          *)
(* interruption, after a lines.                                             *)
Stretch(s, p, i, a, n) ==
    /\ Places(s, Name(p, i)) = (a + 1)..(a + n)
    /\ \A m \in 1..n : s[a + m] = Lines(p, i)[m]

(* Both series of a pair are there, to the same point, which is the last if *)
(* no error of the pair is among those dropped.                             *)
Even(s, p, lost) ==
    \E n \in 0..NumPoints :
      /\ p \notin lost => n = NumPoints
      /\ \A i \in 1..2 : \E a \in 0..Len(s) : Stretch(s, p, i, a, n)

Clean(s) == \A x \in DOMAIN s : s[x] # <<"garbled">>

Scattered == OpenMetricsAsked /\ DistinctSeries

(* Pairs that are done are there evenly. The pair in hand has successes to  *)
(* its last point, and no failures. Those to come have nothing.             *)
Truncated ==
    /\ \A p \in PairsOf : Before(p) => Even(out, p, dropped)
    /\ \A p \in PairsOf : ~Before(p) /\ ~(p = position /\ InPair) =>
         \A i \in 1..2 : Places(out, Name(p, i)) = {}
    /\ InPair =>
         /\ Places(out, Name(position, 2)) = {}
         /\ \E a \in 0..Len(out) :
              /\ Stretch(out, position, 1, a, points)
              /\ pc = "generate" => a + points = Len(out)

(* The inductive invariant, beside TInv and PInv.                           *)
TruncInv ==
    /\ TruncatedEvenly
    /\ pc # "returned" /\ Scattered /\ Clean(out) => Truncated

(* Where a series is in lines to which others were appended.                *)
LEMMA PlacesGrow ==
    ASSUME NEW s, IsSeq(s), NEW u, IsSeq(u), NEW name
    PROVE  /\ Places(u, name) = {} => Places(s \o u, name) = Places(s, name)
           /\ Places(s, name) = {} =>
                \A x : x \in Places(s \o u, name) <=> \E m \in Places(u, name) : x = Len(s) + m
  <1> PICK v : v = s \o u
    OBVIOUS
  <1>1. /\ DOMAIN s = 1..Len(s) /\ DOMAIN u = 1..Len(u)
        /\ Len(s) \in Nat /\ Len(u) \in Nat /\ DOMAIN v = 1..(Len(s) + Len(u))
        /\ \A n \in 1..Len(s) : v[n] = s[n]
        /\ \A n \in 1..Len(u) : v[Len(s) + n] = u[n]
    BY ConcatParts
  <1>2. \A x : x \in DOMAIN v => \/ x \in DOMAIN s /\ v[x] = s[x]
                                 \/ \E m \in DOMAIN u : x = Len(s) + m /\ v[x] = u[m]
    <2> SUFFICES ASSUME NEW x \in DOMAIN v, x \notin DOMAIN s
                 PROVE  \E m \in DOMAIN u : x = Len(s) + m /\ v[x] = u[m]
      BY <1>1
    <2>1. x - Len(s) \in DOMAIN u /\ x = Len(s) + (x - Len(s))
      BY <1>1
    <2> QED
      BY <1>1, <2>1
  <1>3. /\ \A x \in DOMAIN s : x \in DOMAIN v /\ v[x] = s[x]
        /\ \A m \in DOMAIN u : Len(s) + m \in DOMAIN v /\ v[Len(s) + m] = u[m]
    BY <1>1
  <1>4. ASSUME Places(u, name) = {} PROVE Places(v, name) = Places(s, name)
    <2>1. \A m \in DOMAIN u : ~(u[m][1] = "sample" /\ u[m][2] = name)
      BY <1>4 DEF Places
    <2> QED
      BY <1>2, <1>3, <2>1 DEF Places
  <1>5. ASSUME Places(s, name) = {}, NEW x
        PROVE  x \in Places(v, name) <=> \E m \in Places(u, name) : x = Len(s) + m
    <2>1. \A m \in DOMAIN s : ~(s[m][1] = "sample" /\ s[m][2] = name)
      BY <1>5 DEF Places
    <2> QED
      BY <1>2, <1>3, <2>1 DEF Places
  <1> QED
    BY <1>4, <1>5

(* Lines of other series do not interrupt a stretch.                        *)
LEMMA StretchKept ==
    ASSUME NEW s, IsSeq(s), NEW u, IsSeq(u), NEW p, NEW i, NEW a \in 0..Len(s), NEW n \in Nat,
           Stretch(s, p, i, a, n), Places(u, Name(p, i)) = {}
    PROVE  a \in 0..Len(s \o u) /\ Stretch(s \o u, p, i, a, n)
  <1>1. Places(s \o u, Name(p, i)) = (a + 1)..(a + n)
    BY PlacesGrow DEF Stretch
  <1>2. /\ Len(s) \in Nat /\ Len(u) \in Nat /\ Len(s \o u) = Len(s) + Len(u)
        /\ \A x \in 1..Len(s) : (s \o u)[x] = s[x]
        /\ DOMAIN s = 1..Len(s)
    BY ConcatParts
  <1>3. ASSUME NEW m \in 1..n PROVE (s \o u)[a + m] = s[a + m]
    <2>1. a + m \in (a + 1)..(a + n)
      BY <1>2
    <2>2. a + m \in Places(s, Name(p, i))
      BY <2>1 DEF Stretch
    <2>3. a + m \in 1..Len(s)
      BY <1>2, <2>2 DEF Places
    <2> QED
      BY <1>2, <2>3
  <1>4. a \in 0..Len(s \o u)
    BY <1>2
  <1> QED
    BY <1>1, <1>3, <1>4 DEF Stretch

(* The first lines of a series are a stretch.                               *)
LEMMA StretchFresh ==
    ASSUME NEW s, IsSeq(s), NEW u, IsSeq(u), NEW p, NEW i, NumPoints \in Nat, Len(u) <= NumPoints,
           Places(s, Name(p, i)) = {}, \A m \in 1..Len(u) : u[m] = Lines(p, i)[m]
    PROVE  Len(s) \in 0..Len(s \o u) /\ Stretch(s \o u, p, i, Len(s), Len(u))
  <1>1. /\ Len(s) \in Nat /\ Len(u) \in Nat /\ Len(s \o u) = Len(s) + Len(u)
        /\ DOMAIN u = 1..Len(u)
        /\ \A x \in 1..Len(u) : (s \o u)[Len(s) + x] = u[x]
    BY ConcatParts
  <1>2. \A m \in 1..Len(u) : m \in Places(u, Name(p, i))
    <2> SUFFICES ASSUME NEW m \in 1..Len(u) PROVE m \in Places(u, Name(p, i))
      OBVIOUS
    <2>1. m \in 1..NumPoints
      BY <1>1
    <2>3. u[m] = Lines(p, i)[m]
      OBVIOUS
    <2>4. Lines(p, i)[m] = <<"sample", Name(p, i), Totals(p, i)[m], Unix(PointTime(m))>>
      BY <2>1 DEF Lines
    <2>2. u[m][1] = "sample" /\ u[m][2] = Name(p, i)
      BY <2>3, <2>4
    <2> QED
      BY <1>1, <2>2 DEF Places
  <1>3. \A x : x \in Places(s \o u, Name(p, i)) <=> \E m \in Places(u, Name(p, i)) : x = Len(s) + m
    BY PlacesGrow
  <1>4. \A m : m \in Places(u, Name(p, i)) <=> m \in 1..Len(u)
    BY <1>1, <1>2 DEF Places
  <1>5. \A x : x \in Places(s \o u, Name(p, i)) <=> x \in (Len(s) + 1)..(Len(s) + Len(u))
    <2> SUFFICES ASSUME NEW x
                 PROVE  (\E m \in 1..Len(u) : x = Len(s) + m) <=> x \in (Len(s) + 1)..(Len(s) + Len(u))
      BY <1>3, <1>4
    <2>1. ASSUME x \in (Len(s) + 1)..(Len(s) + Len(u)) PROVE \E m \in 1..Len(u) : x = Len(s) + m
      <3>1. x - Len(s) \in 1..Len(u) /\ x = Len(s) + (x - Len(s))
        BY <1>1, <2>1
      <3> QED
        BY <3>1
    <2> QED
      BY <1>1, <2>1
  <1>6. Places(s \o u, Name(p, i)) = (Len(s) + 1)..(Len(s) + Len(u))
    BY <1>5
  <1> QED
    BY <1>1, <1>6 DEF Stretch

(* A stretch that ends the output grows with its next sample.               *)
LEMMA StretchMore ==
    ASSUME NEW s, IsSeq(s), NEW p, NEW i, NEW a \in 0..Len(s), NEW n \in Nat,
           n + 1 \in 1..NumPoints, NumPoints \in Nat,
           Stretch(s, p, i, a, n), a + n = Len(s), NEW l, l = Lines(p, i)[n + 1]
    PROVE  /\ a \in 0..Len(s \o <<l>>) /\ Stretch(s \o <<l>>, p, i, a, n + 1)
           /\ a + (n + 1) = Len(s \o <<l>>)
  <1> PICK u, v : u = <<l>> /\ v = s \o u
    OBVIOUS
  <1>1. IsSeq(u) /\ Len(u) = 1 /\ DOMAIN u = 1..1 /\ u[1] = l
    BY Singleton
  <1>2. /\ Len(s) \in Nat /\ Len(v) = Len(s) + 1 /\ DOMAIN s = 1..Len(s) /\ DOMAIN v = 1..(Len(s) + 1)
        /\ \A x \in 1..Len(s) : v[x] = s[x]
        /\ v[Len(s) + 1] = l
    BY <1>1, ConcatParts
  <1>3. l[1] = "sample" /\ l[2] = Name(p, i)
    BY DEF Lines
  <1>4. \A x : x \in Places(v, Name(p, i)) <=> x \in Places(s, Name(p, i)) \/ x = Len(s) + 1
    <2>1. \A x : x \in DOMAIN v <=> x \in DOMAIN s \/ x = Len(s) + 1
      BY <1>2
    <2> QED
      BY <1>2, <1>3, <2>1 DEF Places
  <1>5. \A x : x \in Places(s, Name(p, i)) <=> x \in (a + 1)..(a + n)
    BY DEF Stretch
  <1>6. \A x : x \in Places(v, Name(p, i)) <=> x \in (a + 1)..(a + (n + 1))
    <2>1. \A x : x \in (a + 1)..(a + (n + 1)) <=> x \in (a + 1)..(a + n) \/ x = Len(s) + 1
      BY <1>2
    <2> QED
      BY <1>4, <1>5, <2>1
  <1>7. Places(v, Name(p, i)) = (a + 1)..(a + (n + 1))
    BY <1>6
  <1>8. ASSUME NEW m \in 1..(n + 1) PROVE v[a + m] = Lines(p, i)[m]
    <2>1. CASE m = n + 1
      <3>1. a + m = Len(s) + 1
        BY <1>2, <2>1
      <3> QED
        BY <1>2, <2>1, <3>1
    <2>2. CASE m # n + 1
      <3>1. m \in 1..n /\ a + m \in 1..Len(s)
        BY <1>2, <2>2
      <3>2. s[a + m] = Lines(p, i)[m]
        BY <3>1 DEF Stretch
      <3> QED
        BY <1>2, <3>1, <3>2
    <2> QED
      BY <2>1, <2>2
  <1>9. a \in 0..Len(v) /\ a + (n + 1) = Len(v)
    BY <1>2
  <1> QED
    BY <1>7, <1>8, <1>9 DEF Stretch

(* A write that leaves no line garbled only appends.                        *)
LEMMA CleanWrite ==
    ASSUME NEW lines, IsSeq(out), IsSeq(lines), Write(lines), Clean(out')
    PROVE  out' = out \o lines /\ Clean(out)
  <1>1. CASE out # <<>> /\ lines # <<>> /\ Last(out) = <<"torn">>
    <2> PICK f, g, r : f = Front(out) /\ g = <<"garbled">> /\ r = Tail(lines)
      OBVIOUS
    <2>1. out' = f \o <<g>> \o r
      BY <1>1 DEF Write
    <2>2. IsSeq(r) /\ Len(out) \in Nat \ {0}
      BY <1>1, TailParts
    <2>3. IsSeq(f)
      BY <1>1, <2>2, SubSeqParts DEF Front
    <2>4. IsSeq(<<g>>) /\ Len(<<g>>) = 1 /\ <<g>>[1] = g
      BY Singleton
    <2>5. PICK h : h = f \o <<g>>
      OBVIOUS
    <2>6. IsSeq(h) /\ Len(h) = Len(f) + 1 /\ Len(f) \in Nat /\ h[Len(f) + 1] = g
      BY <2>3, <2>4, <2>5, ConcatParts
    <2>7. Len(f) + 1 \in DOMAIN (h \o r) /\ (h \o r)[Len(f) + 1] = g
      BY <2>2, <2>6, ConcatParts
    <2>8. out' = h \o r
      BY <2>1, <2>5
    <2> QED
      BY <2>7, <2>8 DEF Clean
  <1>2. CASE ~(out # <<>> /\ lines # <<>> /\ Last(out) = <<"torn">>)
    <2>1. out' = out \o lines
      BY <1>2 DEF Write
    <2>2. \A x \in DOMAIN out : x \in DOMAIN (out \o lines) /\ (out \o lines)[x] = out[x]
      <3>1. /\ DOMAIN out = 1..Len(out) /\ Len(out) \in Nat /\ Len(lines) \in Nat
            /\ DOMAIN (out \o lines) = 1..(Len(out) + Len(lines))
            /\ \A n \in 1..Len(out) : (out \o lines)[n] = out[n]
        BY ConcatParts
      <3> QED
        BY <3>1
    <2> QED
      BY <2>1, <2>2 DEF Clean
  <1> QED
    BY <1>1, <1>2

(* A failed write of one line appends nothing, or a torn line.              *)
LEMMA CleanFailure ==
    ASSUME NEW x, IsSeq(out), WriteFails(<<x>>), Clean(out')
    PROVE  /\ Clean(out)
           /\ \E u : IsSeq(u) /\ out' = out \o u /\ \A n \in DOMAIN u : u[n][1] = "torn"
  <1>1. PICK k \in 0..(Len(<<x>>) - 1), torn \in {<<>>, <<<<"torn">>>>} :
          Write(SubSeq(<<x>>, 1, k) \o torn)
    BY DEF WriteFails
  <1>2. k = 0
    BY <1>1
  <1>3. IsSeq(torn) /\ \A n \in DOMAIN torn : torn[n][1] = "torn"
    <2>1. CASE torn = <<>>
      BY <2>1, Singleton
    <2>2. CASE torn = <<<<"torn">>>>
      <3> PICK y : y = <<"torn">>
        OBVIOUS
      <3>1. torn = <<y>> /\ y[1] = "torn"
        BY <2>2
      <3>2. IsSeq(<<y>>) /\ DOMAIN <<y>> = 1..1 /\ <<y>>[1] = y
        BY Singleton
      <3> QED
        BY <3>1, <3>2
    <2> QED
      BY <2>1, <2>2
  <1> PICK s : s = SubSeq(<<x>>, 1, 0)
    OBVIOUS
  <1>4. SubSeq(<<x>>, 1, 0) = <<>>
    <2>1. IsSeq(<<x>>) /\ Len(<<x>>) = 1
      BY Singleton
    <2>2. IsSeq(s) /\ Len(s) = 0
      BY <2>1, SubSeqParts
    <2>3. PICK S : s \in Seq(S)
      BY <2>2 DEF IsSeq
    <2>4. s = <<>>
      BY <2>2, <2>3
    <2> QED
      BY <2>4
  <1>5. <<>> \o torn = torn
    <2>1. PICK S : torn \in Seq(S)
      BY <1>3 DEF IsSeq
    <2> QED
      BY <2>1
  <1>6. Write(torn)
    BY <1>1, <1>2, <1>4, <1>5
  <1> QED
    BY <1>3, <1>6, CleanWrite

(* What appended lines that are no samples leave alone.                     *)
LEMMA QuietPlaces ==
    ASSUME TInv, NEW u, IsSeq(u), \A n \in DOMAIN u : u[n][1] # "sample", dropped \subseteq dropped',
           Truncated
    PROVE  /\ \A p \in PairsOf : Before(p) => Even(out \o u, p, dropped')
           /\ \A name : Places(out, name) = {} => Places(out \o u, name) = {}
           /\ \A p, i : \A n \in Nat : \A a \in 0..Len(out) :
                Stretch(out, p, i, a, n) =>
                  a \in 0..Len(out \o u) /\ Stretch(out \o u, p, i, a, n)
  <1>1. \A name : Places(u, name) = {}
    BY DEF Places
  <1>2. IsSeq(out) /\ NumPoints \in Nat
    BY InBounds DEF Sized
  <1>3. \A name : Places(out, name) = {} => Places(out \o u, name) = {}
    BY <1>1, <1>2, PlacesGrow
  <1>4. \A p, i : \A n \in Nat : \A a \in 0..Len(out) :
                Stretch(out, p, i, a, n) =>
                  a \in 0..Len(out \o u) /\ Stretch(out \o u, p, i, a, n)
    BY <1>1, <1>2, StretchKept
  <1>5. ASSUME NEW p \in PairsOf, Before(p) PROVE Even(out \o u, p, dropped')
    <2>1. PICK n \in 0..NumPoints :
            /\ p \notin dropped => n = NumPoints
            /\ \A i \in 1..2 : \E a \in 0..Len(out) : Stretch(out, p, i, a, n)
      BY <1>5 DEF Truncated, Even
    <2>2. \A i \in 1..2 : \E a \in 0..Len(out \o u) : Stretch(out \o u, p, i, a, n)
      BY <1>2, <1>4, <2>1
    <2> QED
      BY <2>1, <2>2 DEF Even
  <1> QED
    BY <1>3, <1>4, <1>5

(* What Truncated says of the next state, by what is constant.              *)
LEMMA TruncatedNext ==
    ASSUME UNCHANGED input,
           \A p \in PairsOf : Before(p)' => Even(out', p, dropped'),
           \A p \in PairsOf : ~Before(p)' /\ ~(p = position' /\ InPair') =>
             \A i \in 1..2 : Places(out', Name(p, i)) = {},
           InPair' =>
             /\ Places(out', Name(position', 2)) = {}
             /\ \E a \in 0..Len(out') :
                  /\ Stretch(out', position', 1, a, points')
                  /\ pc' = "generate" => a + points' = Len(out')
    PROVE  Truncated'
  <1>1. /\ PairsOf' = PairsOf /\ \A p, i : Name(p, i)' = Name(p, i)
        /\ \A p, i : Lines(p, i)' = Lines(p, i)
        /\ NumPoints' = NumPoints
    BY InputConstant, MeaningConstant
  <1> PICK s, lost, q, k : s = out' /\ lost = dropped' /\ q = position' /\ k = points'
    OBVIOUS
  <1>2. \A p, i, a, n : Stretch(s, p, i, a, n)' <=> Stretch(s, p, i, a, n)
    BY <1>1 DEF Stretch, Places
  <1>3. \A p : Even(s, p, lost)' <=> Even(s, p, lost)
    BY <1>1, <1>2 DEF Even
  <1>4. ASSUME NEW p \in PairsOf, Before(p)' PROVE Even(out, p, dropped)'
    <2>1. Even(s, p, lost)'
      BY <1>3, <1>4
    <2> QED
      BY <2>1 DEF Even, Stretch, Places
  <1>5. ASSUME NEW p \in PairsOf, ~Before(p)' /\ ~(p = position' /\ InPair'), NEW i \in 1..2
        PROVE  Places(out, Name(p, i))' = {}
    BY <1>1, <1>5 DEF Places
  <1>6. ASSUME InPair'
        PROVE  /\ Places(out, Name(position, 2))' = {}
               /\ \E a \in 0..Len(out') :
                    /\ Stretch(out, position, 1, a, points)'
                    /\ pc' = "generate" => a + points' = Len(out')
    <2>1. Name(q, 2)' = Name(q, 2) /\ Name(q, 2)' = Name(position, 2)'
      BY <1>1 DEF Name
    <2>2. Places(out, Name(position, 2))' = {}
      BY <1>6, <2>1 DEF Places
    <2>3. PICK a \in 0..Len(out') :
            /\ Stretch(s, q, 1, a, k)
            /\ pc' = "generate" => a + points' = Len(out')
      BY <1>6
    <2>4. Stretch(s, q, 1, a, k)'
      BY <1>2, <2>3
    <2>5. Stretch(out, position, 1, a, points)'
      <3>1. Name(position, 1)' = Name(q, 1)'
        BY DEF Name
      <3>2. Total(position, 1)' = Total(q, 1)'
        BY DEF Total
      <3>3. Totals(position, 1)' = Totals(q, 1)'
        BY <3>2 DEF Totals
      <3>4. Lines(position, 1)' = Lines(q, 1)'
        BY <3>1, <3>3 DEF Lines
      <3> QED
        BY <2>4, <3>1, <3>4 DEF Stretch, Places
    <2> QED
      BY <2>2, <2>3, <2>5
  <1> QED
    BY <1>1, <1>4, <1>5, <1>6 DEF Truncated

(* A pair is a family and the number of the pair in it.                     *)
LEMMA PairParts ==
    ASSUME TInv, NEW p \in PairsOf
    PROVE  /\ p = <<p[1], p[2]>> /\ p[1] \in Nat \ {0} /\ p[2] \in Nat \ {0}
           /\ p[1] <= Len(config.families) /\ p[2] <= Size(p[1])
  <1>0. /\ Sized /\ Len(config.families) \in Nat
        /\ \A f \in 1..Len(config.families) : Size(f) \in Nat
    BY InBounds, PairsCounted DEF Sized
  <1>1. PICK f \in 1..Len(config.families) : \E s \in 1..Size(f) : p = <<f, s>>
    BY <1>0, PairsCounted DEF Sized
  <1>2. PICK s \in 1..Size(f) : p = <<f, s>>
    BY <1>1
  <1> QED
    BY <1>0, <1>2

(* The property, in the terms of the invariant.                             *)
LEMMA TruncatedMeans ==
    TruncatedEvenly <=>
      (result = "ok" /\ Scattered /\ Clean(out) => \A p \in PairsOf : Even(out, p, dropped))
  <1>1. Clean(out) <=> <<"garbled">> \notin ToSet(out)
    BY DEF Clean, ToSet
  <1>2. ASSUME NEW p
        PROVE  Even(out, p, dropped) <=>
                 \E n \in 0..NumPoints :
                   /\ p \notin dropped => n = NumPoints
                   /\ \A i \in 1..2 : \E a \in 0..Len(out) :
                        /\ {x \in DOMAIN out : out[x][1] = "sample" /\ out[x][2] = Name(p, i)}
                             = (a + 1)..(a + n)
                        /\ \A m \in 1..n : out[a + m] = Lines(p, i)[m]
    BY DEF Even, Stretch, Places
  <1> QED
    BY <1>1, <1>2 DEF TruncatedEvenly, Scattered

(* The same for the next state, by what is constant.                        *)
LEMMA TruncatedLast ==
    ASSUME UNCHANGED input,
           result' = "ok" /\ Scattered /\ Clean(out') => \A p \in PairsOf : Even(out', p, dropped')
    PROVE  TruncatedEvenly'
  <1>1. /\ PairsOf' = PairsOf /\ \A p, i : Name(p, i)' = Name(p, i)
        /\ \A p, i : Lines(p, i)' = Lines(p, i)
        /\ NumPoints' = NumPoints /\ (OpenMetricsAsked' <=> OpenMetricsAsked)
        /\ (DistinctSeries' <=> DistinctSeries)
    BY InputConstant, MeaningConstant DEF DistinctSeries
  <1> PICK s, lost : s = out' /\ lost = dropped'
    OBVIOUS
  <1>2. Clean(s) <=> <<"garbled">> \notin ToSet(s)
    BY DEF Clean, ToSet
  <1>4. result' = "ok" /\ OpenMetricsAsked' /\ DistinctSeries' /\ <<"garbled">> \notin ToSet(s)
          => \A p \in PairsOf : Even(s, p, lost)
    BY <1>1, <1>2 DEF Scattered
  <1>5. ASSUME result' = "ok", OpenMetricsAsked', DistinctSeries', <<"garbled">> \notin ToSet(out)',
               NEW p \in PairsOf'
        PROVE  \E n \in 0..NumPoints' :
                 /\ p \notin dropped' => n = NumPoints'
                 /\ \A i \in 1..2 : \E a \in 0..Len(out') :
                      /\ {x \in DOMAIN out' : out'[x][1] = "sample" /\ out'[x][2] = Name(p, i)'}
                           = (a + 1)..(a + n)
                      /\ \A m \in 1..n : out'[a + m] = Lines(p, i)'[m]
    <2>1. p \in PairsOf /\ Even(s, p, lost)
      BY <1>1, <1>4, <1>5
    <2>2. PICK n \in 0..NumPoints :
            /\ p \notin lost => n = NumPoints
            /\ \A i \in 1..2 : \E a \in 0..Len(s) : Stretch(s, p, i, a, n)
      BY <2>1 DEF Even
    <2>3. ASSUME NEW i \in 1..2
          PROVE  \E a \in 0..Len(out') :
                   /\ {x \in DOMAIN out' : out'[x][1] = "sample" /\ out'[x][2] = Name(p, i)'}
                        = (a + 1)..(a + n)
                   /\ \A m \in 1..n : out'[a + m] = Lines(p, i)'[m]
      <3>1. PICK a \in 0..Len(s) : Stretch(s, p, i, a, n)
        BY <2>2
      <3>2. Name(p, i)' = Name(p, i) /\ Lines(p, i)' = Lines(p, i)
        BY <1>1
      <3>3. /\ {x \in DOMAIN s : s[x][1] = "sample" /\ s[x][2] = Name(p, i)} = (a + 1)..(a + n)
            /\ \A m \in 1..n : s[a + m] = Lines(p, i)[m]
        BY <3>1, Zenon DEF Stretch, Places
      <3>4. /\ {x \in DOMAIN out' : out'[x][1] = "sample" /\ out'[x][2] = Name(p, i)'} = (a + 1)..(a + n)
            /\ \A m \in 1..n : out'[a + m] = Lines(p, i)'[m]
        BY <3>2, <3>3
      <3> QED
        BY <3>4
    <2>4. n \in 0..NumPoints' /\ (p \notin dropped' => n = NumPoints')
      BY <1>1, <2>2
    <2> QED
      BY <2>3, <2>4
  <1> QED
    BY <1>5, Zenon DEF TruncatedEvenly

(* No pair is in hand before or after.                                      *)
LEMMA QuietTruncated ==
    ASSUME TInv, Truncated, UNCHANGED input, NEW u, IsSeq(u), out' = out \o u,
           \A n \in DOMAIN u : u[n][1] # "sample", dropped \subseteq dropped',
           \A p \in PairsOf : Before(p)' <=> Before(p), ~InPair, ~InPair'
    PROVE  Truncated'
  <1>1. /\ \A p \in PairsOf : Before(p)' => Even(out', p, dropped')
        /\ \A p \in PairsOf : ~Before(p)' => \A i \in 1..2 : Places(out', Name(p, i)) = {}
    BY QuietPlaces DEF Truncated
  <1> QED
    BY <1>1, TruncatedNext

(* The pair in hand stays, and has no more points.                          *)
LEMMA HandTruncated ==
    ASSUME TInv, Truncated, UNCHANGED input, NEW u, IsSeq(u), out' = out \o u,
           \A n \in DOMAIN u : u[n][1] # "sample", dropped \subseteq dropped',
           UNCHANGED <<family, pair, points>>, InPair, InPair',
           pc' = "generate" => pc = "generate" /\ out' = out
    PROVE  Truncated'
  <1>1. position' = position /\ \A p : Before(p)' <=> Before(p)
    BY DEF position, Before
  <1>2. /\ \A p \in PairsOf : Before(p)' => Even(out', p, dropped')
        /\ \A p \in PairsOf : ~Before(p)' /\ ~(p = position' /\ InPair') =>
             \A i \in 1..2 : Places(out', Name(p, i)) = {}
    BY <1>1, QuietPlaces DEF Truncated
  <1>3. Places(out', Name(position', 2)) = {}
    BY <1>1, QuietPlaces DEF Truncated
  <1>4. PICK a \in 0..Len(out) :
          Stretch(out, position, 1, a, points) /\ (pc = "generate" => a + points = Len(out))
    BY DEF Truncated
  <1>5. points \in Nat
    BY InBounds
  <1>6. a \in 0..Len(out') /\ Stretch(out', position', 1, a, points')
    BY <1>1, <1>4, <1>5, QuietPlaces
  <1>7. pc' = "generate" => a + points' = Len(out')
    BY <1>4
  <1> QED
    BY <1>2, <1>3, <1>6, <1>7, TruncatedNext

(* HELP is no sample.                                                       *)
LEMMA BeginFamilyTruncated ==
    ASSUME TInv, TruncInv, BeginFamily, pc' # "returned", Scattered, Clean(out')
    PROVE  Truncated'
  <1>1. /\ pc = "family" /\ pc' = "pair" /\ UNCHANGED input /\ UNCHANGED <<family, pair, dropped>>
        /\ Write(<<<<"help", family>>>>)
    BY DEF BeginFamily, Goto, Return, position, Scattered, OpenMetricsAsked
  <1>2. IsSeq(out)
    BY InBounds
  <1> PICK l, u : l = <<"help", family>> /\ u = <<l>>
    OBVIOUS
  <1>3. IsSeq(u) /\ \A n \in DOMAIN u : u[n][1] # "sample"
    BY OneLine
  <1>4. out' = out \o u /\ Clean(out)
    BY <1>1, <1>2, <1>3, CleanWrite
  <1>5. Truncated
    BY <1>1, <1>4 DEF TruncInv
  <1>6. ~InPair /\ ~InPair' /\ \A p : Before(p)' <=> Before(p)
    BY <1>1 DEF InPair, Before
  <1> QED
    BY <1>1, <1>3, <1>4, <1>5, <1>6, QuietTruncated

(* The pairs of the family are done.                                        *)
LEMMA EndFamilyTruncated ==
    ASSUME TInv, TruncInv, EndFamily, Scattered, Clean(out')
    PROVE  Truncated'
  <1>1. /\ pc = "pair" /\ pc' = "family" /\ UNCHANGED input /\ UNCHANGED <<out, dropped>>
        /\ pair > Len(Pairs) /\ family' = family + 1 /\ pair' = 1
    BY DEF EndFamily, Goto
  <1>2. IsSeq(out) /\ family \in Nat /\ pair \in Nat
    BY <1>1, InBounds, PairsCounted DEF TInv, IInv
  <1>3. pair > Size(family)
    BY <1>1 DEF Size, Pairs
  <1>4. \A p \in PairsOf : Before(p)' <=> Before(p)
    <2> SUFFICES ASSUME NEW p \in PairsOf PROVE Before(p)' <=> Before(p)
      OBVIOUS
    <2>1. p[1] \in Nat \ {0} /\ p[2] \in Nat \ {0} /\ p[2] <= Size(p[1])
      BY PairParts
    <2>2. p[1] = family => p[2] < pair
      <3>1. p[1] = family => p[2] <= Size(family)
        BY <2>1
      <3>2. p[1] = family => Size(family) \in Nat
        <4>1. p[1] = family => family \in 1..Len(config.families)
          BY <1>1, InBounds
        <4> QED
          BY <4>1, InBounds, PairsCounted DEF Sized
      <3> QED
        BY <1>2, <1>3, <2>1, <3>1, <3>2
    <2> QED
      BY <1>1, <1>2, <2>1, <2>2 DEF Before
  <1>5. Truncated /\ ~InPair /\ ~InPair'
    BY <1>1 DEF TruncInv, InPair
  <1>6. IsSeq(<<>>) /\ out' = out \o <<>> /\ DOMAIN <<>> = {}
    BY <1>1, <1>2, NothingWritten
  <1> QED
    BY <1>1, <1>4, <1>5, <1>6, QuietTruncated

(* A pair starts with stretches of no samples.                              *)
LEMMA BeginPairTruncated ==
    ASSUME TInv, TruncInv, BeginPair, Scattered, Clean(out')
    PROVE  Truncated'
  <1>1. /\ pc = "pair" /\ pc' = "generate" /\ UNCHANGED input
        /\ UNCHANGED <<out, dropped, family, pair>> /\ points' = 0
        /\ pair <= Len(Pairs)
    BY DEF BeginPair, Goto, position
  <1>2. /\ IsSeq(out) /\ family \in 1..Len(config.families) /\ pair \in Nat /\ pair > 0
        /\ Sized
    BY <1>1, InBounds
  <1>3. Truncated /\ ~InPair /\ InPair'
    BY <1>1 DEF TruncInv, InPair
  <1>4. position' = position /\ \A p : Before(p)' <=> Before(p)
    BY <1>1 DEF position, Before
  <1>5. position \in PairsOf /\ ~Before(position)
    <2>1. family \in DOMAIN config.families /\ pair \in DOMAIN Pairs
      BY <1>1, <1>2, PairsCounted DEF Sized, Size, Pairs
    <2> QED
      BY <2>1, NamesMeant DEF TInv, IInv
  <1>6. Places(out, Name(position, 1)) = {} /\ Places(out, Name(position, 2)) = {}
    BY <1>3, <1>5 DEF Truncated
  <1>7. Len(out) \in Nat /\ Len(out) \in 0..Len(out) /\ Len(out) + 0 = Len(out)
    BY <1>2, ConcatParts
  <1>8. Stretch(out, position, 1, Len(out), 0)
    <2> PICK a : a = Len(out)
      OBVIOUS
    <2>1. (a + 1)..(a + 0) = {} /\ 1..0 = {}
      BY <1>7
    <2>2. Stretch(out, position, 1, a, 0)
      BY <1>6, <2>1 DEF Stretch
    <2> QED
      BY <2>2
  <1>9. /\ \A p \in PairsOf : Before(p)' => Even(out', p, dropped')
        /\ \A p \in PairsOf : ~Before(p)' => \A i \in 1..2 : Places(out', Name(p, i)) = {}
    BY <1>1, <1>3, <1>4 DEF Truncated
  <1> QED
    BY <1>1, <1>4, <1>6, <1>7, <1>8, <1>9, TruncatedNext

(* Samples of one series of the pair in hand change nothing of the others.  *)
LEMMA OthersKept ==
    ASSUME TInv, Truncated, DistinctSeries, InPair, NEW j \in 1..2, NEW u, IsSeq(u),
           \A n \in DOMAIN u : u[n][2] = Name(position, j)
    PROVE  /\ \A i \in 1..2 : i # j => Places(u, Name(position, i)) = {}
           /\ \A p \in PairsOf : Before(p) => Even(out \o u, p, dropped)
           /\ \A p \in PairsOf : ~Before(p) /\ p # position =>
                \A i \in 1..2 : Places(out \o u, Name(p, i)) = {}
  <1>1. position \in PairsOf /\ ~Before(position)
    BY KindInHand, NamesMeant DEF TInv, IInv
  <1>2. \A p \in PairsOf, i \in 1..2 : p # position \/ i # j => Places(u, Name(p, i)) = {}
    <2> SUFFICES ASSUME NEW p \in PairsOf, NEW i \in 1..2, p # position \/ i # j
                 PROVE  Places(u, Name(p, i)) = {}
      OBVIOUS
    <2>1. Name(p, i) # Name(position, j)
      BY <1>1 DEF DistinctSeries
    <2> QED
      BY <2>1 DEF Places
  <1>3. IsSeq(out) /\ NumPoints \in Nat
    BY InBounds DEF Sized
  <1>4. ASSUME NEW p \in PairsOf, Before(p) PROVE Even(out \o u, p, dropped)
    <2>0. p # position
      BY <1>1, <1>4
    <2>1. PICK n \in 0..NumPoints :
            /\ p \notin dropped => n = NumPoints
            /\ \A i \in 1..2 : \E a \in 0..Len(out) : Stretch(out, p, i, a, n)
      BY <1>4 DEF Truncated, Even
    <2>2. ASSUME NEW i \in 1..2 PROVE \E a \in 0..Len(out \o u) : Stretch(out \o u, p, i, a, n)
      <3>1. PICK a \in 0..Len(out) : Stretch(out, p, i, a, n)
        BY <2>1
      <3>2. n \in Nat /\ Places(u, Name(p, i)) = {}
        BY <1>2, <1>3, <2>0
      <3> QED
        BY <1>3, <3>1, <3>2, StretchKept
    <2> QED
      BY <2>1, <2>2 DEF Even
  <1>5. ASSUME NEW p \in PairsOf, ~Before(p), p # position, NEW i \in 1..2
        PROVE  Places(out \o u, Name(p, i)) = {}
    <2>1. Places(out, Name(p, i)) = {} /\ Places(u, Name(p, i)) = {}
      BY <1>2, <1>5 DEF Truncated
    <2> QED
      BY <1>3, <2>1, PlacesGrow
  <1> QED
    BY <1>1, <1>2, <1>4, <1>5

(* A success continues its series.                                          *)
LEMMA GeneratePointTruncated ==
    ASSUME TInv, PInv, TruncInv, GeneratePoint, Scattered, Clean(out')
    PROVE  Truncated'
  <1> PICK l, u : l = Line(1) /\ u = <<l>>
    OBVIOUS
  <1>1. /\ pc = "generate" /\ pc' = "generate" /\ t < Parse.end /\ points < MaxPoints
        /\ UNCHANGED input /\ UNCHANGED <<family, pair, dropped>> /\ points' = points + 1
        /\ InPair /\ InPair' /\ Write(u)
    BY DEF GeneratePoint, position, InPair, Scattered, OpenMetricsAsked
  <1>2. IsSeq(out) /\ points \in Nat /\ NumPoints \in Nat
    BY InBounds DEF Sized
  <1>3. points + 1 \in 1..NumPoints /\ l = Lines(position, 1)[points + 1]
    BY <1>1, SumMeant DEF PInv
  <1>4. position' = position /\ \A p : Before(p)' <=> Before(p)
    BY <1>1 DEF position, Before
  <1>5. IsSeq(u) /\ \A n \in DOMAIN u : u[n] = l
    BY OneLine
  <1>6. l[2] = Name(position, 1)
    BY <1>3 DEF Lines
  <1>7. out' = out \o u /\ Clean(out)
    BY <1>1, <1>2, <1>5, CleanWrite
  <1>8. Truncated
    BY <1>1, <1>7 DEF TruncInv
  <1>9. /\ \A i \in 1..2 : i # 1 => Places(u, Name(position, i)) = {}
        /\ \A p \in PairsOf : Before(p) => Even(out \o u, p, dropped)
        /\ \A p \in PairsOf : ~Before(p) /\ p # position =>
                \A i \in 1..2 : Places(out \o u, Name(p, i)) = {}
    BY <1>1, <1>5, <1>6, <1>8, OthersKept DEF Scattered
  <1>10. Places(out \o u, Name(position, 2)) = {}
    <2>1. Places(out, Name(position, 2)) = {}
      BY <1>1, <1>8 DEF Truncated
    <2>2. Places(u, Name(position, 2)) = {}
      BY <1>9
    <2> QED
      BY <1>2, <1>5, <2>1, <2>2, PlacesGrow
  <1>11. PICK a \in 0..Len(out) : Stretch(out, position, 1, a, points) /\ a + points = Len(out)
    BY <1>1, <1>8 DEF Truncated
  <1>12. /\ a \in 0..Len(out \o u) /\ Stretch(out \o u, position, 1, a, points + 1)
         /\ a + (points + 1) = Len(out \o u)
    BY <1>2, <1>3, <1>11, StretchMore
  <1> QED
    BY <1>1, <1>4, <1>7, <1>9, <1>10, <1>12, TruncatedNext

(* A write that fails leaves no sample.                                     *)
LEMMA GenerateFailsTruncated ==
    ASSUME TInv, TruncInv, GenerateFails, Scattered, Clean(out')
    PROVE  Truncated'
  <1>1. /\ pc = "generate" /\ pc' = "generated" /\ UNCHANGED input
        /\ UNCHANGED <<family, pair, points>> /\ dropped \subseteq dropped'
        /\ InPair /\ InPair' /\ WriteFails(<<Line(1)>>)
    BY DEF GenerateFails, Goto, position, InPair
  <1>2. IsSeq(out)
    BY InBounds
  <1> PICK l : l = Line(1)
    OBVIOUS
  <1>3. /\ Clean(out)
        /\ \E u : IsSeq(u) /\ out' = out \o u /\ \A n \in DOMAIN u : u[n][1] = "torn"
    BY <1>1, <1>2, CleanFailure
  <1>4. PICK u : IsSeq(u) /\ out' = out \o u /\ \A n \in DOMAIN u : u[n][1] # "sample"
    BY <1>3
  <1>5. Truncated
    BY <1>1, <1>3 DEF TruncInv
  <1> QED
    BY <1>1, <1>4, <1>5, HandTruncated

(* As many failures follow as there are successes.                          *)
LEMMA CopyFailuresTruncated ==
    ASSUME TInv, PInv, TruncInv, CopyFailures, pc' # "returned", Scattered, Clean(out')
    PROVE  Truncated'
  <1>1. /\ pc = "generated" /\ pc' = "pair" /\ UNCHANGED input /\ UNCHANGED <<family, dropped>>
        /\ pair' = pair + 1 /\ InPair /\ ~InPair' /\ Write(buf) /\ OpenMetricsAsked
    BY DEF CopyFailures, Goto, Return, InPair
  <1>2. IsSeq(out) /\ IsSeq(buf) /\ points \in Nat /\ NumPoints \in Nat
    BY InBounds DEF Sized, TInv, IInv
  <1>3. /\ Len(buf) = points /\ \A n \in 1..points : buf[n] = Lines(position, 2)[n]
        /\ position \notin dropped => points = NumPoints
    BY <1>1 DEF PInv, Held, Counted
  <1>4. points <= NumPoints
    BY <1>1, PointsCount DEF PInv, Counted, TInv, TypeOK
  <1>5. \A n \in DOMAIN buf : buf[n][2] = Name(position, 2)
    <2> SUFFICES ASSUME NEW n \in DOMAIN buf PROVE buf[n][2] = Name(position, 2)
      OBVIOUS
    <2>1. n \in 1..points /\ n \in 1..NumPoints
      BY <1>2, <1>3, <1>4, ConcatParts
    <2>2. Lines(position, 2)[n] = <<"sample", Name(position, 2), Totals(position, 2)[n], Unix(PointTime(n))>>
      BY <2>1 DEF Lines
    <2> QED
      BY <1>3, <2>1, <2>2
  <1>6. out' = out \o buf /\ Clean(out)
    BY <1>1, <1>2, CleanWrite
  <1>7. Truncated
    BY <1>1, <1>6 DEF TruncInv
  <1>8. /\ \A i \in 1..2 : i # 2 => Places(buf, Name(position, i)) = {}
        /\ \A p \in PairsOf : Before(p) => Even(out \o buf, p, dropped)
        /\ \A p \in PairsOf : ~Before(p) /\ p # position =>
                \A i \in 1..2 : Places(out \o buf, Name(p, i)) = {}
    BY <1>1, <1>2, <1>5, <1>7, OthersKept DEF Scattered
  <1>9. \E a \in 0..Len(out \o buf) : Stretch(out \o buf, position, 1, a, points)
    <2>1. PICK a \in 0..Len(out) : Stretch(out, position, 1, a, points)
      BY <1>1, <1>7 DEF Truncated
    <2>2. Places(buf, Name(position, 1)) = {}
      BY <1>8
    <2> QED
      BY <1>2, <2>1, <2>2, StretchKept
  <1>10. \E a \in 0..Len(out \o buf) : Stretch(out \o buf, position, 2, a, points)
    <2>1. Places(out, Name(position, 2)) = {}
      BY <1>1, <1>7 DEF Truncated
    <2>2. Len(out) \in 0..Len(out \o buf) /\ Stretch(out \o buf, position, 2, Len(out), Len(buf))
      BY <1>2, <1>3, <1>4, <2>1, StretchFresh
    <2> QED
      BY <1>3, <2>2
  <1>11. Even(out \o buf, position, dropped)
    <2>1. points \in 0..NumPoints
      BY <1>2, <1>4
    <2>2. \A i \in 1..2 : i = 1 \/ i = 2
      OBVIOUS
    <2> QED
      BY <1>3, <1>9, <1>10, <2>1, <2>2 DEF Even
  <1>12. \A p \in PairsOf : (Before(p)' <=> Before(p) \/ p = position)
    <2> SUFFICES ASSUME NEW p \in PairsOf PROVE Before(p)' <=> Before(p) \/ p = position
      OBVIOUS
    <2>1. p = <<p[1], p[2]>> /\ p[1] \in Nat /\ p[2] \in Nat
      BY PairParts
    <2>2. family \in Nat /\ pair \in Nat
      BY DEF TInv, IInv
    <2>3. p = position <=> p[1] = family /\ p[2] = pair
      BY <2>1 DEF position
    <2> QED
      BY <1>1, <2>1, <2>2, <2>3 DEF Before
  <1>13. \A p \in PairsOf : Before(p)' => Even(out', p, dropped')
    BY <1>1, <1>6, <1>8, <1>11, <1>12
  <1>14. \A p \in PairsOf : ~Before(p)' => \A i \in 1..2 : Places(out', Name(p, i)) = {}
    BY <1>6, <1>8, <1>12
  <1> QED
    BY <1>1, <1>13, <1>14, TruncatedNext

(* EOF is no sample, and all pairs are done.                                *)
LEMMA FinishTruncated ==
    ASSUME TInv, TruncInv, Finish
    PROVE  TruncatedEvenly'
  <1>1. /\ pc = "family" /\ family > Len(config.families) /\ UNCHANGED input /\ dropped' = dropped
    BY DEF Finish
  <1>2. ASSUME result' = "ok", Scattered, Clean(out'), NEW p \in PairsOf
        PROVE  Even(out', p, dropped')
    <2>1. Write(<<<<"EOF">>>>)
      BY <1>2 DEF Finish, Return, Scattered, OpenMetricsAsked
    <2> PICK l, u : l = <<"EOF">> /\ u = <<l>>
      OBVIOUS
    <2>2. IsSeq(out) /\ IsSeq(u) /\ \A n \in DOMAIN u : u[n][1] # "sample"
      BY OneLine, InBounds
    <2>3. out' = out \o u /\ Clean(out)
      BY <1>2, <2>1, <2>2, CleanWrite
    <2>4. Truncated
      BY <1>1, <1>2, <2>3 DEF TruncInv
    <2>5. Before(p)
      <3>1. Len(config.families) \in Nat
        BY InBounds, PairsCounted DEF Sized
      <3>2. p[1] \in Nat /\ p[1] <= Len(config.families) /\ family \in Nat
        BY PairParts DEF TInv, IInv
      <3> QED
        BY <1>1, <3>1, <3>2 DEF Before
    <2> QED
      BY <1>1, <2>2, <2>3, <2>4, <2>5, QuietPlaces
  <1> QED
    BY <1>1, <1>2, TruncatedLast

LEMMA InitTruncInv == Init /\ TInv => TruncInv
  <1> SUFFICES ASSUME Init, TInv PROVE TruncInv
    OBVIOUS
  <1>1. pc = "run" /\ result = "none" /\ out = <<>> /\ family = 1 /\ pair = 1
    BY DEF Init
  <1>2. \A p \in PairsOf : ~Before(p)
    <2> SUFFICES ASSUME NEW p \in PairsOf PROVE ~Before(p)
      OBVIOUS
    <2>1. p[1] \in Nat \ {0} /\ p[2] \in Nat \ {0}
      BY PairParts
    <2> QED
      BY <1>1, <2>1 DEF Before
  <1>3. \A name : Places(out, name) = {}
    BY <1>1 DEF Places
  <1> QED
    BY <1>1, <1>2, <1>3 DEF TruncInv, TruncatedEvenly, Truncated, InPair

LEMMA NextTruncInv == TInv /\ WInv /\ PInv /\ TruncInv /\ [Next]_vars => TruncInv'
  <1> SUFFICES ASSUME TInv, WInv, PInv, TruncInv, [Next]_vars PROVE TruncInv'
    OBVIOUS
  <1>1. CASE Next
    <2>1. /\ UNCHANGED input /\ pc # "returned" /\ dropped \subseteq dropped'
          /\ Finish \/ result' = result \/ result' = "error"
      BY <1>1, StepMeans DEF TInv
    <2>2. TruncatedEvenly'
      <3>1. CASE Finish
        BY <3>1, FinishTruncated
      <3>2. CASE ~Finish
        <4>1. result' # "ok"
          BY <2>1, <3>2 DEF WInv
        <4> QED
          BY <4>1 DEF TruncatedEvenly
      <3> QED
        BY <3>1, <3>2
    <2>3. ASSUME pc' # "returned", Scattered, Clean(out') PROVE Truncated'
      <3>1. ~Finish /\ ~CloseWriters
        BY <2>3 DEF Finish, Return, CloseWriters, Scattered, OpenMetricsAsked
      <3>2. CASE Start \/ GenerateEnd
        <4>1. out' = out /\ dropped' = dropped /\ UNCHANGED <<family, pair, points>>
          BY <3>2 DEF Start, GenerateEnd, position, generation
        <4>2. IsSeq(out)
          BY InBounds
        <4>3. IsSeq(<<>>) /\ out' = out \o <<>> /\ DOMAIN <<>> = {}
          BY <4>1, <4>2, NothingWritten
        <4>4. Truncated
          BY <2>1, <2>3, <4>1 DEF TruncInv
        <4>5. \A p : Before(p)' <=> Before(p)
          BY <4>1 DEF Before
        <4>6. CASE Start
          <5>1. ~InPair /\ ~InPair'
            BY <2>3, <4>6 DEF Start, Return, Goto, InPair
          <5> QED
            BY <2>1, <4>1, <4>3, <4>4, <4>5, <5>1, QuietTruncated
        <4>7. CASE GenerateEnd
          <5>1. InPair /\ InPair' /\ pc' # "generate"
            BY <4>7 DEF GenerateEnd, Goto, InPair
          <5> QED
            BY <2>1, <4>1, <4>3, <4>4, <5>1, HandTruncated
        <4> QED
          BY <3>2, <4>6, <4>7
      <3> QED
        BY <1>1, <2>3, <3>1, <3>2, BeginFamilyTruncated, EndFamilyTruncated, BeginPairTruncated,
           GeneratePointTruncated, GenerateFailsTruncated, CopyFailuresTruncated DEF Next
    <2>4. Scattered' => Scattered
      BY <2>1, InputConstant DEF Scattered, OpenMetricsAsked, DistinctSeries
    <2> QED
      BY <2>2, <2>3, <2>4 DEF TruncInv, Clean
  <1>2. CASE UNCHANGED vars
    <2>1. /\ UNCHANGED input /\ UNCHANGED <<pc, result, family, pair, points, out, dropped>>
      BY <1>2 DEF vars, position, generation
    <2>2. TruncatedEvenly'
      BY <2>1, TruncatedMeans, TruncatedLast DEF TruncInv
    <2>3. ASSUME pc # "returned", Scattered, Clean(out) PROVE Truncated'
      <3>1. Truncated
        BY <2>3 DEF TruncInv
      <3>2. IsSeq(out)
        BY InBounds
      <3>3. IsSeq(<<>>) /\ out' = out \o <<>> /\ DOMAIN <<>> = {}
        BY <2>1, <3>2, NothingWritten
      <3>4. (\A p : Before(p)' <=> Before(p)) /\ (InPair' <=> InPair)
        BY <2>1 DEF Before, InPair
      <3> QED
        BY <2>1, <3>1, <3>3, <3>4, QuietTruncated, HandTruncated
    <2>4. Scattered' => Scattered
      BY <2>1, InputConstant DEF Scattered, OpenMetricsAsked, DistinctSeries
    <2> QED
      BY <2>1, <2>2, <2>3, <2>4 DEF TruncInv, Clean
  <1> QED
    BY <1>1, <1>2

(* A run of OpenMetrics that succeeds has every pair to one point in both   *)
(* of its series, with the samples the configuration means up to there and  *)
(* uninterrupted, and to the last point unless the error of a write was     *)
(* dropped in that pair: whatever writes fail, if no line is garbled and    *)
(* no two series have one name.                                             *)
THEOREM TruncationCorrect == Spec => []TruncatedEvenly
  <1>1. TruncInv => TruncatedEvenly
    BY DEF TruncInv
  <1>2. TInv => IInv
    BY DEF TInv
  <1> QED
    BY <1>1, <1>2, InitTInv, NextTInv, InitWInv, NextWInv, InitPInv, NextPInv,
       InitTruncInv, NextTruncInv, PTL DEF Spec
=============================================================================
