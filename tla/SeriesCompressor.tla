-------------------------- MODULE SeriesCompressor --------------------------
(***************************************************************************)
(* internal/prometheus/series/compress.go: the compressingSeriesWriter that *)
(* turns a stream of integer samples into promtool's expanding notation,    *)
(* where "5+3x2" stands for 5 8 11. The writer looks two samples back (v0,  *)
(* v1) and counts in one variable both how much of that history is filled   *)
(* (count < 0) and the length of the current run (count > 0); an empty      *)
(* history is marked by math.MaxInt, and Close flushes it by writing        *)
(* math.MinInt and then 0 through the same code. Subtraction wraps as Go's  *)
(* int does, with MaxInt in the place of 2^63 - 1.                          *)
(***************************************************************************)
EXTENDS Integers, Sequences

CONSTANTS
    MaxInt,  \* the largest int
    Values,  \* the samples that may be written
    MaxLen   \* bound on the length of a series

MinInt == -MaxInt - 1

(* Samples stay clear of the ends of int, so differences do not wrap.       *)
ASSUME ValuesAssumption ==
    /\ MaxInt \in Nat /\ MaxInt > 3
    /\ Values \subseteq -(MaxInt \div 4)..(MaxInt \div 4)
    /\ MaxLen \in Nat

VARIABLES
    w,        \* the writer, and what a reader makes of its output
    written,  \* history: the samples written
    closed

vars == <<w, written, closed>>

-----------------------------------------------------------------------------
(* Go's wrapping subtraction of two ints.                                   *)
Sub(x, y) ==
    LET d == x - y
    IN IF d > MaxInt THEN d - 2 * (MaxInt + 1)
       ELSE IF d < MinInt THEN d + 2 * (MaxInt + 1)
       ELSE d

(* "base+stepxrepeat": the sample base, then repeat more, step apart.       *)
(* A plain sample is the token with repeat 0.                               *)
Token(base, step, repeat) == [base |-> base, step |-> step, repeat |-> repeat]

(* How promtool reads a token.                                              *)
Expand(t) == [n \in 1..(t.repeat + 1) |-> t.base + (n - 1) * t.step]

Emit(u, t) == [u EXCEPT !.out = Append(@, t), !.decoded = @ \o Expand(t)]

Int64 == MinInt..MaxInt

Writer == [base: Int64, count: {n \in Int : n >= -3 /\ n # 0},
           v0: Int64, v1: Int64,
           out: Seq([base: Int64, step: Int64, repeat: Nat]),
           decoded: Seq(Int)]

newCompressingSeriesWriter ==
    [base |-> 0, count |-> -3, v0 |-> 0, v1 |-> MaxInt,
     out |-> <<>>, decoded |-> <<>>]

(* The two latest samples and the new one are evenly spaced.                *)
Extend(u) ==
    IF u.count < 1 THEN [u EXCEPT !.base = u.v0, !.count = 1]
    ELSE [u EXCEPT !.count = @ + 1]

(* Mutant: a run is printed with the number of its samples less two. *)
emitExpandingShort(u) == Emit(u, Token(u.base, Sub(u.v1, u.v0), u.count))

emitExpanding(u) == Emit(u, Token(u.base, Sub(u.v1, u.v0), u.count + 1))

(* Mutant: the history is not emptied after a run. *)
BreakKeepsHistory(u) ==
    CASE u.count < -1 -> [u EXCEPT !.count = @ + 1]
      [] u.count \in {-1, 0} -> Emit(u, Token(u.v0, 0, 0))
      [] u.count > 0 -> [emitExpanding(u) EXCEPT !.count = -1]

(* Mutant: the history takes one sample too many to fill. *)
BreakFillsLate(u) ==
    CASE u.count < 0 -> [u EXCEPT !.count = @ + 1]
      [] u.count = 0 -> Emit(u, Token(u.v0, 0, 0))
      [] u.count > 0 -> [emitExpanding(u) EXCEPT !.count = -2, !.v1 = MaxInt]

(* They are not: fill the history, print its oldest sample, or print the    *)
(* run and start over with an empty history.                                *)
Break(u) ==
    CASE u.count < -1 -> [u EXCEPT !.count = @ + 1]
      [] u.count \in {-1, 0} -> Emit(u, Token(u.v0, 0, 0))
      [] u.count > 0 -> [emitExpanding(u) EXCEPT !.count = -2, !.v1 = MaxInt]

(* Mutant: only equal samples make a run. *)
EvenlySpacedFlat(u, v) == u.v1 = u.v0 /\ v = u.v1

EvenlySpaced(u, v) == Sub(u.v1, u.v0) = Sub(v, u.v1)

Shift(u, v) == [u EXCEPT !.v0 = u.v1, !.v1 = v]

writerFunc(u, v) ==
    Shift(IF EvenlySpaced(u, v) THEN Extend(u) ELSE Break(u), v)

-----------------------------------------------------------------------------
Init ==
    /\ w = newCompressingSeriesWriter
    /\ written = <<>>
    /\ closed = FALSE

Write(v) ==
    /\ ~closed
    /\ Len(written) < MaxLen
    /\ w' = writerFunc(w, v)
    /\ written' = Append(written, v)
    /\ UNCHANGED closed

Close ==
    /\ ~closed
    /\ w' = writerFunc(writerFunc(w, MinInt), 0)
    /\ closed' = TRUE
    /\ UNCHANGED written

Next == (\E v \in Values : Write(v)) \/ Close

Spec == Init /\ [][Next]_vars
-----------------------------------------------------------------------------
(* Properties                                                               *)

TypeOK ==
    /\ w \in Writer
    /\ written \in Seq(Values)
    /\ closed \in BOOLEAN

(* The first sample is compared with two values that are not samples: -2,   *)
(* which wraps to the difference of those two, passes for a run.            *)
FirstIsRead == written = <<>> \/ written[1] # -2

(* The samples held back in the writer, not printed yet.                    *)
Pending(u) ==
    CASE u.count = -3 -> <<>>
      [] u.count = -2 -> <<u.v1>>
      [] u.count \in {-1, 0} -> <<u.v0, u.v1>>
      [] u.count > 0 -> Expand(Token(u.base, Sub(u.v1, u.v0), u.count + 1))

(* No sample is lost, invented or reordered: what a reader decodes, with    *)
(* what the writer holds back, is what was written; and Close prints all of *)
(* it, but for a last 0 that no run includes.                               *)
Lossless ==
    FirstIsRead =>
      IF closed
      THEN written = w.decoded \/ written = Append(w.decoded, 0)
      ELSE written = w.decoded \o Pending(w)

(* The compression is greedy: a run has at least three samples, no three    *)
(* samples printed one by one in a row are evenly spaced, and what follows  *)
(* a run does not continue it.                                              *)
Greedy ==
    FirstIsRead =>
      \A n \in DOMAIN w.out :
        LET Single(m) == m \in DOMAIN w.out /\ w.out[m].repeat = 0
            t == w.out[n]
        IN /\ t.repeat # 1
           /\ Single(n) /\ Single(n + 1) /\ Single(n + 2) =>
                w.out[n + 1].base - t.base # w.out[n + 2].base - w.out[n + 1].base
           /\ t.repeat > 0 /\ n + 1 \in DOMAIN w.out =>
                w.out[n + 1].base # t.base + (t.repeat + 1) * t.step

(* The writer keeps the promise of SampleStream.                            *)
Stream == INSTANCE SampleStream WITH flushed <- w.decoded

ImplementsStream == Stream!StreamSpec

(* As the unit tests expect of their series, every sample is in the output  *)
(* once the writer is closed.                                               *)
ClosedSeriesComplete == closed /\ FirstIsRead => w.decoded = written
=============================================================================
