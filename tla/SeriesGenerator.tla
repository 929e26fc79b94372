--------------------------- MODULE SeriesGenerator ---------------------------
(***************************************************************************)
(* slom generate prometheus-series: the configuration and the flags become  *)
(* a set of generators (config/series, series.go), each of which yields a   *)
(* pair of counters, successes and failures, point by point                 *)
(* (successfailure.go). As OpenMetrics, the successes go straight to the    *)
(* output and the failures wait in a buffer; as a unit test, both go        *)
(* through a SeriesCompressor. Every write to the output may fail.          *)
(* slom generate prometheus-tsdb generates OpenMetrics too, for promtool,   *)
(* and evaluates its rules in the window of the series.                     *)
(*                                                                          *)
(* Time counts ticks from Go's zero time, Second of them in a second, so    *)
(* that an interval may be shorter than the resolution of a timestamp.      *)
(***************************************************************************)
EXTENDS Integers, Sequences, SequencesExt, FiniteSetsExt

CONSTANTS
    Configs,    \* decoded series files
    Flags,      \* what the flags say of start, end and interval; 0 is unset
    Draw(_, _), \* the n-th draw of a binomial distribution, seeded with 0
    Second,     \* ticks in a second
    MaxInt,     \* the largest int
    MaxPoints   \* bound on the points of a series, for an interval of 0

ASSUME TimeAssumption == Second \in Nat \ {0} /\ MaxPoints \in Nat

Ints == -MaxInt - 1..MaxInt

(* The types decoding leaves. Nothing looks at the values of numbers.       *)
Override == [start: Int, end: Int, rates: Ints \X Ints]

ConstantKind == [rates: Ints \X Ints, overrides: Seq(Override)]

BinomialKind == [throughput: Ints]

Kinds == {<<>>} \cup [constant: ConstantKind] \cup [binomial: BinomialKind]
           \cup [constant: ConstantKind, binomial: BinomialKind]

PairConfig == [labels: Seq(STRING), status: STRING \X STRING, kinds: Kinds]

FamilyConfig == [name: STRING, pairs: Seq(PairConfig)]

ASSUME InputAssumption ==
    /\ Configs \subseteq [families: Seq(FamilyConfig), start: Int, end: Int, interval: Int]
    /\ Flags \subseteq [start: Int, end: Int, interval: Int]

(* A draw is converted to an int.                                           *)
ASSUME IntAssumption ==
    /\ MaxInt \in Nat /\ MaxInt > 3
    /\ \A x \in Ints, n \in 1..MaxPoints : Draw(x, n) \in Ints

VARIABLES
    config, flags, \* the input
    output,        \* the format asked for
    pc, result,
    family, pair,  \* the metric family and its pair of series in hand
    t,             \* the time of the next point
    totals,        \* of successes and of failures, so far
    points,        \* how many points the pair has
    buf,           \* lines of failures, not written yet
    csw,           \* the two compressing writers
    out,           \* lines of OpenMetrics, or series of the unit test
    window,        \* start and end handed to the backfill of rules
    dropped        \* history: pairs for which the error of generate was dropped

input == <<config, flags, output>>
position == <<family, pair>>
generation == <<t, totals, points, buf, csw>>
vars == <<input, pc, result, position, generation, out, window, dropped>>

C == INSTANCE SeriesCompressor WITH
       w <- csw[1], written <- <<>>, closed <- FALSE, Values <- {0}, MaxLen <- MaxPoints
-----------------------------------------------------------------------------
(* Parse: a flag that is set replaces the field of the file.                *)
Parse ==
    [x \in {"start", "end", "interval"} |->
       IF flags[x] # 0 THEN flags[x] ELSE config[x]]

(* NewSeriesSetGenerator: one generator for each pair, of exactly one kind. *)
Accepted ==
    \A f \in DOMAIN config.families : \A s \in DOMAIN config.families[f].pairs :
      Cardinality(DOMAIN config.families[f].pairs[s].kinds) = 1

Pairs == config.families[family].pairs

(* Mutant: it still holds at its end. *)
InForceAtEnd(o, u) == o.start <= u /\ u <= o.end

(* An override holds from its start until before its end.                   *)
InForce(o, u) == o.start <= u /\ u < o.end

(* The rates of a constant generator: of the last override in force.        *)
ConstantRates(c, u) ==
    LET i == SelectLastInSeq(c.overrides, LAMBDA o : InForce(o, u))
    IN IF i = 0 THEN c.rates ELSE c.overrides[i].rates

(* Additions and subtractions of ints wrap.                                 *)
Add(x, y) == C!Sub(x, -y)

BinomialRates(c, n) ==
    LET failures == Draw(c.throughput, n) IN <<C!Sub(c.throughput, failures), failures>>

Rates(k, n, u) ==
    IF "constant" \in DOMAIN k THEN ConstantRates(k.constant, u)
    ELSE BinomialRates(k.binomial, n)

Unix(u) == u \div Second

(* Mutant: the clock of the generator counts whole seconds. *)
AdvanceInSeconds(u) == Unix(u) * Second + Parse.interval

Advance(u) == u + Parse.interval

(* Mutant: without slices.Clone, both appends may share one array. *)
generateLabelsShared(p) ==
    <<Append(p.labels, p.status[IF Len(p.labels) = 3 THEN 2 ELSE 1]),
      Append(p.labels, p.status[2])>>

(* generateLabels: the labels of the pair and its status, for both series.  *)
generateLabels(p) == <<Append(p.labels, p.status[1]), Append(p.labels, p.status[2])>>

(* The name of the successes (1) or failures (2) of the pair in hand.       *)
SeriesName(i) == <<config.families[family].name, generateLabels(Pairs[pair])[i]>>

-----------------------------------------------------------------------------
Init ==
    /\ config \in Configs /\ flags \in Flags
    /\ output \in {"openmetrics", "tsdb", "unittest", "other"}
    /\ pc = "run" /\ result = "none"
    /\ family = 1 /\ pair = 1
    /\ t = 0 /\ totals = <<0, 0>> /\ points = 0
    /\ buf = <<>> /\ csw = <<C!newCompressingSeriesWriter, C!newCompressingSeriesWriter>>
    /\ out = <<>> /\ dropped = {}
    /\ window = <<flags.start, flags.end>>

OpenMetricsAsked == output \in {"openmetrics", "tsdb"}

Return(r) == pc' = "returned" /\ result' = r

Goto(l) == pc' = l /\ UNCHANGED result

(* A write of lines to the output. A line torn by an error before swallows  *)
(* the first of them.                                                       *)
Write(lines) == out' = IF out # <<>> /\ lines # <<>> /\ Last(out) = <<"torn">>
                       THEN Front(out) \o <<<<"garbled">>>> \o Tail(lines)
                       ELSE out \o lines

(* With an error, some of the lines are written, and the next may be torn.  *)
WriteFails(lines) ==
    \E n \in 0..(Len(lines) - 1) : \E torn \in {<<>>, <<<<"torn">>>>} :
      Write(SubSeq(lines, 1, n) \o torn)

(* run: parse, create the generators, choose the format. The file may not   *)
(* open, or not decode.                                                     *)
Start ==
    /\ pc = "run"
    /\ \/ Accepted /\ output # "other" /\ Goto("family")
       \/ Return("error")
    /\ UNCHANGED <<input, position, generation, out, window, dropped>>

(* generateOpenMetricsMetricFamily: HELP and TYPE come first.               *)
BeginFamily ==
    /\ pc = "family" /\ family <= Len(config.families)
    /\ \/ /\ OpenMetricsAsked
          /\ \/ Write(<<<<"help", family>>>>) /\ Goto("pair")
             \/ WriteFails(<<<<"help", family>>>>) /\ Return("error")
       \/ output = "unittest" /\ Goto("pair") /\ UNCHANGED out
    /\ UNCHANGED <<input, position, generation, window, dropped>>

BeginPair ==
    /\ pc = "pair" /\ pair <= Len(Pairs)
    /\ t' = Parse.start /\ totals' = <<0, 0>> /\ points' = 0
    /\ buf' = <<>> /\ csw' = <<C!newCompressingSeriesWriter, C!newCompressingSeriesWriter>>
    /\ Goto("generate")
    /\ UNCHANGED <<input, position, out, window, dropped>>

EndFamily ==
    /\ pc = "pair" /\ pair > Len(Pairs)
    /\ family' = family + 1 /\ pair' = 1
    /\ Goto("family")
    /\ UNCHANGED <<input, generation, out, window, dropped>>

Sum == LET rates == Rates(Pairs[pair].kinds, points + 1, t)
       IN [i \in 1..2 |-> Add(totals[i], rates[i])]

Line(i) == <<"sample", SeriesName(i), Sum[i], Unix(t)>>

(* generate: one turn of the loop, in either format.                        *)
GeneratePoint ==
    /\ pc = "generate" /\ t < Parse.end /\ points < MaxPoints
    /\ \/ /\ OpenMetricsAsked
          /\ Write(<<Line(1)>>)
          /\ buf' = Append(buf, Line(2))
          /\ UNCHANGED csw
       \/ /\ output = "unittest"
          /\ csw' = [i \in 1..2 |-> C!writerFunc(csw[i], Sum[i])]
          /\ UNCHANGED <<buf, out>>
    /\ t' = Advance(t) /\ totals' = Sum /\ points' = points + 1
    /\ UNCHANGED <<input, pc, result, position, window, dropped>>

(* Mutant: the failures are written first. *)
BufferedOnErrorToo == Append(buf, Line(2))

(* The error of writing a success comes before the failure is buffered.     *)
BufferedOnError == buf

(* It ends the loop. The result of generate is not looked at.               *)
GenerateFails ==
    /\ pc = "generate" /\ t < Parse.end /\ OpenMetricsAsked
    /\ WriteFails(<<Line(1)>>)
    /\ buf' = BufferedOnError
    /\ dropped' = dropped \cup {position}
    /\ Goto("generated")
    /\ UNCHANGED <<input, position, t, totals, points, csw, window>>

GenerateEnd ==
    /\ pc = "generate" /\ ~(t < Parse.end)
    /\ Goto("generated")
    /\ UNCHANGED <<input, position, generation, out, window, dropped>>

(* io.Copy of the buffered failures.                                        *)
CopyFailures ==
    /\ pc = "generated" /\ OpenMetricsAsked
    /\ \/ Write(buf) /\ Goto("pair") /\ pair' = pair + 1
       \/ WriteFails(buf) /\ Return("error") /\ UNCHANGED pair
    /\ UNCHANGED <<input, family, generation, window, dropped>>

(* Mutant: the writer is read without being closed. *)
ClosedNot(u) == u

Closed(u) == C!writerFunc(C!writerFunc(u, C!MinInt), 0)

(* generateUnitTestSeries: close the writers, keep what they wrote.         *)
CloseWriters ==
    /\ pc = "generated" /\ output = "unittest"
    /\ out' = out \o [i \in 1..2 |-> <<"series", SeriesName(i), Closed(csw[i]).decoded>>]
    /\ pair' = pair + 1
    /\ Goto("pair")
    /\ UNCHANGED <<input, family, generation, window, dropped>>

(* Mutant: run declares s and e anew, and the ones of the flags are used. *)
RulesWindowShadowed == window

(* writeOpenMetricsSeries returns the window of the generator.              *)
RulesWindow == IF output = "tsdb" THEN <<Parse.start, Parse.end>> ELSE window

(* The end of GenerateOpenMetrics, or of GenerateUnitTest: the file is      *)
(* encoded at once. What a failed encoding has flushed of it is left out,   *)
(* the command returns the error.                                           *)
Finish ==
    /\ pc = "family" /\ family > Len(config.families)
    /\ \/ OpenMetricsAsked /\ Write(<<<<"EOF">>>>) /\ Return("ok")
       \/ OpenMetricsAsked /\ WriteFails(<<<<"EOF">>>>) /\ Return("error")
       \/ output = "unittest" /\ Return("ok") /\ UNCHANGED out
       \/ output = "unittest" /\ Return("error") /\ out' = <<>>
    /\ window' = IF result' = "ok" THEN RulesWindow ELSE window
    /\ UNCHANGED <<input, position, generation, dropped>>

Next ==
    \/ Start \/ BeginFamily \/ BeginPair \/ EndFamily
    \/ GeneratePoint \/ GenerateFails \/ GenerateEnd \/ CopyFailures \/ CloseWriters \/ Finish

(* Every step is the program's own, and it runs on.                         *)
Spec == Init /\ [][Next]_vars /\ WF_vars(Next)
-----------------------------------------------------------------------------
(* Properties                                                               *)

TypeOK ==
    /\ pc \in {"run", "family", "pair", "generate", "generated", "returned"}
    /\ result \in {"none", "ok", "error"}
    /\ family \in 1..(Len(config.families) + 1) /\ pair \in Nat \ {0}
    /\ t \in Int /\ totals \in Ints \X Ints /\ points \in 0..MaxPoints
    /\ \A i \in 1..2 : csw[i] \in C!Writer
    /\ Len(buf) <= points
    /\ dropped \subseteq (DOMAIN config.families) \X (Nat \ {0})

(* What the configuration stands for: point n is at start + (n-1) interval, *)
(* if that is before end, and a later override precedes an earlier one.     *)
PairsOf == UNION {{<<f, s>> : s \in DOMAIN config.families[f].pairs} :
                    f \in DOMAIN config.families}

PointTime(n) == Parse.start + (n - 1) * Parse.interval

NumPoints == Cardinality({n \in 1..MaxPoints : \A m \in 1..n : PointTime(m) < Parse.end})

Meant(k, n) ==
    IF "binomial" \in DOMAIN k
    THEN LET failures == Draw(k.binomial.throughput, n)
         IN <<C!Sub(k.binomial.throughput, failures), failures>>
    ELSE LET all == k.constant.overrides
             applies == {x \in DOMAIN all : PointTime(n) \in all[x].start..(all[x].end - 1)}
         IN IF applies = {} THEN k.constant.rates
            ELSE all[CHOOSE x \in applies : \A y \in applies : y <= x].rates

Name(p, i) == <<config.families[p[1]].name,
                config.families[p[1]].pairs[p[2]].labels
                  \o <<config.families[p[1]].pairs[p[2]].status[i]>>>>

(* Nothing in the code makes sure of this: two entries of a file may have   *)
(* the same labels, and a status the same value for success and failure.    *)
DistinctSeries ==
    \A p, q \in PairsOf, i, j \in 1..2 : Name(p, i) = Name(q, j) => p = q /\ i = j

(* What the successes (1) or failures (2) add up to, point after point.     *)
Total(p, i) ==
    LET total[n \in 0..MaxPoints] ==
          IF n = 0 THEN 0
          ELSE Add(total[n - 1], Meant(config.families[p[1]].pairs[p[2]].kinds, n)[i])
    IN total

Totals(p, i) == [n \in 1..NumPoints |-> Total(p, i)[n]]

Lines(p, i) == [n \in 1..NumPoints |-> <<"sample", Name(p, i), Totals(p, i)[n], Unix(PointTime(n))>>]

(* A place in the output is told by the family, the pair, success or        *)
(* failure, and the point, in this order. A 0 stands for what is not a      *)
(* point, or not of a pair: of OpenMetrics HELP, and EOF after the last     *)
(* family.                                                                  *)
Slots ==
    IF OpenMetricsAsked
    THEN {<<f, 0, 0, 0>> : f \in 1..(Len(config.families) + 1)}
           \cup {<<p[1], p[2], i, n>> : p \in PairsOf, i \in 1..2, n \in 1..NumPoints}
    ELSE {<<p[1], p[2], i, 0>> : p \in PairsOf, i \in 1..2}

Precedes(j, k) == \E m \in 1..4 : j[m] < k[m] /\ \A l \in 1..(m - 1) : j[l] = k[l]

(* Subtractions of the compressor are exact, and its first sample is read.  *)
Compressible(p, i) ==
    \A n \in 1..NumPoints :
      Totals(p, i)[n] \in -(MaxInt \div 4)..(MaxInt \div 4) /\ (n = 1 => Totals(p, i)[n] # -2)

(* What the configuration wants at a place. The series of a unit test may   *)
(* miss a last 0, as SeriesCompressor says.                                 *)
Wanted(l, k) ==
    LET p == <<k[1], k[2]>>
    IN CASE output = "unittest" ->
              /\ l[1] = "series" /\ l[2] = Name(p, k[3])
              /\ Compressible(p, k[3]) => Totals(p, k[3]) \in {l[3], Append(l[3], 0)}
         [] output # "unittest" /\ k[2] > 0 -> l = Lines(p, k[3])[k[4]]
         [] output # "unittest" /\ k[2] = 0 ->
              l = IF k[1] \in DOMAIN config.families THEN <<"help", k[1]>> ELSE <<"EOF">>

(* Unless the error of a write was dropped, the file of a successful run is *)
(* the one the configuration stands for, flags, overrides and all, in the   *)
(* order of the configuration and with nothing else.                        *)
OutputIsReference ==
    result = "ok" /\ dropped = {} =>
      LET slots == Slots
      IN /\ Len(out) = Cardinality(slots)
         /\ \A k \in slots : Wanted(out[Cardinality({j \in slots : Precedes(j, k)}) + 1], k)

(* A run that succeeds although it dropped an error has written fewer       *)
(* points of that pair only, and as many of its failures as of its          *)
(* successes, so that their ratio is one the configuration stands for;      *)
(* unless the error tore a line, which spoils the file, or the file names   *)
(* one series twice. The samples of a series are not interrupted.           *)
TruncatedEvenly ==
    result = "ok" /\ OpenMetricsAsked /\ DistinctSeries /\ <<"garbled">> \notin ToSet(out) =>
      \A p \in PairsOf : \E n \in 0..NumPoints :
        /\ p \notin dropped => n = NumPoints
        /\ \A i \in 1..2 : \E a \in 0..Len(out) :
             /\ {x \in DOMAIN out : out[x][1] = "sample" /\ out[x][2] = Name(p, i)} = (a + 1)..(a + n)
             /\ \A m \in 1..n : out[a + m] = Lines(p, i)[m]

(* If the interval is a second or more and no two series have one name, a   *)
(* series never has two values for one timestamp, and its timestamps        *)
(* increase, as OpenMetrics requires.                                       *)
TimestampsIncrease ==
    Parse.interval >= Second /\ DistinctSeries =>
      \A n, m \in DOMAIN out :
        (n < m /\ out[n][1] = "sample" /\ out[m][1] = "sample" /\ out[n][2] = out[m][2]) =>
          out[n][4] < out[m][4]

(* The window rules are evaluated in is the one the samples of the backfill *)
(* fill: a series starts where it starts, and ends less than an interval    *)
(* before its end.                                                          *)
RulesSeeSeries ==
    result = "ok" /\ output = "tsdb" /\ dropped = {} /\ Parse.start < Parse.end =>
      \A p \in PairsOf, i \in 1..2 :
        LET times == {l[4] : l \in {m \in ToSet(out) : m[1] = "sample" /\ m[2] = Name(p, i)}}
        IN /\ Unix(window[1]) \in times
           /\ times \subseteq Unix(window[1])..Unix(window[2])
           /\ \E u \in times : Unix(window[2] - Parse.interval) <= u

(* The command returns, if the interval is positive or there is nothing to  *)
(* generate; with an interval of 0, or a negative one, only an error of a   *)
(* write ends it.                                                           *)
Returns == (Parse.interval > 0 \/ Parse.start >= Parse.end) ~> result # "none"
=============================================================================
