------------------------- MODULE RunPromtoolProofs -------------------------
(***************************************************************************)
(* Proofs about RunPromtool, for pipes of every size and outputs of every   *)
(* length and order.                                                        *)
(***************************************************************************)
EXTENDS RunPromtool, FiniteSetTheorems, SequenceTheorems, TLAPS

Exited == promtool \in {"succeeded", "failed"}

(* No unit appears from nowhere: this bounds what is read.                  *)
Conserved ==
    Len(plan) + pipe["stdout"] + pipe["stderr"] + read["stdout"] + read["stderr"] <= MaxOutput

(* The caller goes on from a stream when promtool can add nothing to it.    *)
StreamsDrained ==
    /\ Exited => plan = <<>>
    /\ pc \in {"stderr", "wait", "ok"} => Exited /\ pipe["stdout"] = 0
    /\ pc \in {"wait", "ok"} => pipe["stderr"] = 0
    /\ pc = "ok" => promtool = "succeeded"
    /\ pc = "start" => promtool = "none"
    /\ pc = "stdout" => promtool # "none"

IInv == TypeOK /\ Conserved /\ StreamsDrained

LEMMA InitIInv == Init => IInv
  <1> SUFFICES ASSUME Init PROVE IInv
    OBVIOUS
  <1>1. plan \in Seq(Stream) /\ Len(plan) <= MaxOutput
    <2> PICK m \in 0..MaxOutput : plan \in [1..m -> Stream]
      BY DEF Init, BoundedSeq, SeqOf
    <2> QED
      BY PipeAssumption
  <1> QED
    BY <1>1, PipeAssumption
    DEF Init, IInv, TypeOK, Conserved, StreamsDrained, Exited, Stream

LEMMA CopyIInv ==
    ASSUME IInv, NEW s, NEW next, Copy(s, next),
           \/ s = "stdout" /\ next = "stderr"
           \/ s = "stderr" /\ next = "wait"
    PROVE  IInv'
  <1>0. /\ UNCHANGED <<plan, promtool>> /\ pc = s /\ Len(plan) \in Nat
        /\ pipe \in [Stream -> 0..PipeSize] /\ read \in [Stream -> 0..MaxOutput]
    BY DEF IInv, TypeOK, Copy
  <1>1. CASE pipe[s] > 0 /\ pipe' = [pipe EXCEPT ![s] = @ - 1] /\ read' = [read EXCEPT ![s] = @ + 1]
             /\ UNCHANGED pc
    <2>1. pipe[s] - 1 \in 0..PipeSize /\ read[s] + 1 \in 0..MaxOutput
      BY <1>0, <1>1, PipeAssumption DEF IInv, Conserved, Stream
    <2>2. pipe' \in [Stream -> 0..PipeSize] /\ read' \in [Stream -> 0..MaxOutput]
      BY <1>0, <1>1, <2>1
    <2>3. TypeOK'
      BY <1>0, <1>1, <2>2 DEF IInv, TypeOK
    <2>4. Conserved'
      BY <1>0, <1>1, PipeAssumption DEF IInv, Conserved, Stream
    <2>5. StreamsDrained'
      BY <1>0, <1>1 DEF IInv, StreamsDrained, Exited, Stream
    <2> QED
      BY <2>3, <2>4, <2>5 DEF IInv
  <1>2. CASE EndOfStream(s) /\ pc' = next /\ UNCHANGED <<pipe, read>>
    BY <1>0, <1>2 DEF EndOfStream, IInv, TypeOK, Conserved, StreamsDrained, Exited
  <1>3. CASE pc' = "error" /\ UNCHANGED <<pipe, read>>
    BY <1>0, <1>3 DEF IInv, TypeOK, Conserved, StreamsDrained, Exited
  <1> QED
    BY <1>1, <1>2, <1>3 DEF Copy

LEMMA NextIInv == IInv /\ [Next]_vars => IInv'
  <1> SUFFICES ASSUME IInv, [Next]_vars PROVE IInv'
    OBVIOUS
  <1> USE PipeAssumption DEF Exited, Stream
  <1>1. CASE Start
    BY <1>1 DEF Start, IInv, TypeOK, Conserved, StreamsDrained
  <1>2. CASE CopyStdout \/ CopyStderr
    <2>1. \/ Copy("stdout", "stderr")
          \/ Copy("stderr", "wait")
      BY <1>2 DEF CopyStdout, CopyStderr
    <2> QED
      BY <2>1, CopyIInv
  <1>3. CASE Wait
    BY <1>3 DEF Wait, IInv, TypeOK, Conserved, StreamsDrained
  <1>4. CASE PromtoolWrite
    <2> USE DEF IInv, TypeOK, StreamsDrained, Conserved
    <2> DEFINE h == Head(plan)
    <2>1. /\ promtool = "running" /\ h \in Stream /\ plan' \in Seq(Stream)
          /\ Len(plan') = Len(plan) - 1 /\ Len(plan) \in Nat
          /\ pipe[h] < PipeSize /\ pipe' = [pipe EXCEPT ![h] = @ + 1]
          /\ UNCHANGED <<promtool, pc, read>>
      BY <1>4 DEF PromtoolWrite
    <2> HIDE DEF h
    <2>2. TypeOK'
      BY <2>1
    <2>3. Conserved'
      BY <2>1
    <2>4. StreamsDrained'
      BY <2>1
    <2> QED
      BY <2>2, <2>3, <2>4
  <1>5. CASE PromtoolExit
    BY <1>5 DEF PromtoolExit, IInv, TypeOK, Conserved, StreamsDrained
  <1>6. CASE UNCHANGED vars
    BY <1>6 DEF vars, IInv, TypeOK, Conserved, StreamsDrained
  <1> QED
    BY <1>1, <1>2, <1>3, <1>4, <1>5, <1>6 DEF Next

LEMMA Invariance == Spec => []IInv
  BY InitIInv, NextIInv, PTL DEF Spec

(* Types, the bound on what is read included.                               *)
THEOREM TypeCorrect == Spec => []TypeOK
  <1>1. IInv => TypeOK
    BY DEF IInv
  <1> QED
    BY <1>1, Invariance, PTL

(* When runPromtool reports success, nothing promtool wrote is still in a   *)
(* pipe, whatever it wrote and in whatever order.                           *)
THEOREM SuccessCorrect == Spec => []SuccessIsComplete
  <1>1. IInv => SuccessIsComplete
    BY DEF IInv, StreamsDrained, Exited, SuccessIsComplete, Stream
  <1> QED
    BY <1>1, Invariance, PTL

-----------------------------------------------------------------------------
(* Blocking. ENABLED itself is left to the runs, which find that it is      *)
(* CanStep.                                                                 *)

(* The one way in which the two processes block each other, whatever the    *)
(* capacity and the output: runPromtool copies stdout to its end before it  *)
(* reads stderr.                                                            *)
THEOREM StuckCorrect == Spec => [](~Returned /\ ~CanStep => StderrFull)
  <1>1. ASSUME IInv, ~Returned, ~CanStep
        PROVE  StderrFull
    <2>1. /\ pc \in {"stdout", "stderr", "wait"}
          /\ pipe["stdout"] \in 0..PipeSize /\ pipe["stderr"] \in 0..PipeSize
          /\ plan \in Seq(Stream)
      BY <1>1 DEF IInv, TypeOK, Returned, CanStep, Stream
    <2>2. CASE Exited
      BY <1>1, <2>1, <2>2, PipeAssumption
         DEF CanStep, EndOfStream, Exited, IInv, StreamsDrained, Stream
    <2>3. CASE ~Exited
      <3>1. pc = "stdout"
        BY <1>1, <2>1, <2>3 DEF IInv, StreamsDrained
      <3>2. promtool = "running"
        BY <1>1, <2>3, <3>1 DEF IInv, TypeOK, StreamsDrained, Exited
      <3>3. plan # <<>> /\ Head(plan) \in Stream /\ ~(pipe[Head(plan)] < PipeSize)
        BY <1>1, <2>1, <3>2 DEF CanStep
      <3>4. pipe["stdout"] = 0
        BY <1>1, <2>1, <3>1 DEF CanStep, Stream
      <3> QED
        BY <2>1, <3>1, <3>3, <3>4, PipeAssumption DEF StderrFull, Stream
    <2> QED
      BY <2>2, <2>3
  <1> QED
    BY <1>1, Invariance, PTL

(* What promtool has still to write to stderr, as positions of its plan.    *)
ToStderr(p) == {x \in DOMAIN p : p[x] = "stderr"}

StderrFits ==
    Cardinality(ToStderr(plan)) + pipe["stderr"] <= PipeSize

LEMMA ToStderrFinite ==
    ASSUME NEW p \in Seq(Stream)
    PROVE  IsFiniteSet(ToStderr(p)) /\ Cardinality(ToStderr(p)) \in Nat
  <1>1. IsFiniteSet(1..Len(p))
    BY FS_Interval
  <1>2. ToStderr(p) \subseteq 1..Len(p)
    BY DEF ToStderr
  <1> QED
    BY <1>1, <1>2, FS_Subset, FS_CardinalityType

LEMMA ToStderrTail ==
    ASSUME NEW p \in Seq(Stream), p # <<>>
    PROVE  Cardinality(ToStderr(Tail(p)))
             = Cardinality(ToStderr(p)) - IF Head(p) = "stderr" THEN 1 ELSE 0
  <1> DEFINE S == ToStderr(p) \ {1}
             T == ToStderr(Tail(p))
             f == [x \in S |-> x - 1]
  <1>1. /\ Len(p) \in Nat \ {0} /\ DOMAIN p = 1..Len(p)
        /\ Tail(p) \in Seq(Stream) /\ DOMAIN Tail(p) = 1..(Len(p) - 1)
        /\ \A x \in 1..(Len(p) - 1) : Tail(p)[x] = p[x + 1]
        /\ Head(p) = p[1]
    BY EmptySeq
  <1>2. /\ S = {x \in 2..Len(p) : p[x] = "stderr"}
        /\ T = {x \in 1..(Len(p) - 1) : p[x + 1] = "stderr"}
    BY <1>1 DEF ToStderr
  <1> HIDE DEF S, T
  <1>3. f \in Bijection(S, T)
    <2>1. f \in [S -> T]
      BY <1>1, <1>2
    <2>2. \A x, y \in S : f[x] = f[y] => x = y
      BY <1>1, <1>2
    <2>3. \A y \in T : \E x \in S : f[x] = y
      <3>1. ASSUME NEW y \in T
            PROVE  y + 1 \in S /\ f[y + 1] = y
        BY <1>1, <1>2
      <3> QED
        BY <3>1
    <2> QED
      BY <2>1, <2>2, <2>3 DEF Bijection, Injection, Surjection, IsInjective
  <1>4. IsFiniteSet(ToStderr(p)) /\ Cardinality(ToStderr(p)) \in Nat
    BY ToStderrFinite
  <1>5. /\ IsFiniteSet(S)
        /\ Cardinality(S) = IF 1 \in ToStderr(p) THEN Cardinality(ToStderr(p)) - 1
                            ELSE Cardinality(ToStderr(p))
    BY <1>4, FS_RemoveElement DEF S
  <1>6. Cardinality(T) = Cardinality(S)
    BY <1>3, <1>5, FS_Bijection DEF ExistsBijection
  <1>7. 1 \in ToStderr(p) <=> Head(p) = "stderr"
    BY <1>1 DEF ToStderr
  <1> QED
    BY <1>4, <1>5, <1>6, <1>7 DEF T

LEMMA NextFits ==
    ASSUME IInv, StderrFits, [Next]_vars
    PROVE  StderrFits'
  <1>1. /\ plan \in Seq(Stream) /\ pipe \in [Stream -> 0..PipeSize] /\ pipe["stderr"] \in Nat
        /\ Cardinality(ToStderr(plan)) \in Nat
    BY ToStderrFinite DEF IInv, TypeOK, Stream
  <1>2. CASE UNCHANGED <<plan, pipe>>
    BY <1>2 DEF StderrFits, ToStderr
  <1>3. CASE CopyStdout \/ CopyStderr
    <2>1. UNCHANGED plan /\ pipe'["stderr"] <= pipe["stderr"] /\ pipe'["stderr"] \in Int
      BY <1>1, <1>3, PipeAssumption DEF CopyStdout, CopyStderr, Copy, Stream
    <2> QED
      BY <1>1, <2>1, PipeAssumption DEF StderrFits, ToStderr
  <1>4. CASE PromtoolWrite
    <2>1. /\ plan # <<>> /\ plan' = Tail(plan) /\ Head(plan) \in Stream
          /\ pipe' = [pipe EXCEPT ![Head(plan)] = @ + 1]
      BY <1>1, <1>4 DEF PromtoolWrite
    <2>2. pipe'["stderr"] = pipe["stderr"] + IF Head(plan) = "stderr" THEN 1 ELSE 0
      BY <1>1, <2>1 DEF Stream
    <2>3. Cardinality(ToStderr(plan'))
            = Cardinality(ToStderr(plan)) - IF Head(plan) = "stderr" THEN 1 ELSE 0
      BY <1>1, <2>1, ToStderrTail
    <2>4. ToStderr(plan)' = ToStderr(plan')
      BY DEF ToStderr
    <2> QED
      BY <1>1, <2>2, <2>3, <2>4, PipeAssumption DEF StderrFits
  <1> QED
    BY <1>2, <1>3, <1>4 DEF Next, Start, Wait, PromtoolExit, vars

(* When what promtool writes to stderr fits in a pipe, runPromtool and      *)
(* promtool never block each other, however much goes to stdout and in      *)
(* whatever order: the safety half of its return.                           *)
THEOREM NeverStuckIfStderrFits ==
    Cardinality(ToStderr(plan)) <= PipeSize /\ Spec => [](Returned \/ CanStep)
  <1>1. Cardinality(ToStderr(plan)) <= PipeSize /\ Init => StderrFits
    <2> SUFFICES ASSUME Cardinality(ToStderr(plan)) <= PipeSize, Init
                 PROVE  StderrFits
      OBVIOUS
    <2>1. pipe["stderr"] = 0
      BY DEF Init, Stream
    <2>2. Cardinality(ToStderr(plan)) \in Nat
      BY InitIInv, ToStderrFinite DEF IInv, TypeOK
    <2> QED
      BY <2>1, <2>2 DEF StderrFits
  <1>2. IInv /\ StderrFits /\ [Next]_vars => StderrFits'
    BY NextFits
  <1>3. ASSUME IInv, StderrFits
        PROVE  ~StderrFull
    <2> SUFFICES ASSUME StderrFull PROVE FALSE
      OBVIOUS
    <2>1. plan \in Seq(Stream) /\ plan # <<>> /\ plan[1] = "stderr"
      BY <1>3 DEF IInv, TypeOK, StderrFull
    <2>2. 1 \in ToStderr(plan)
      BY <2>1, EmptySeq DEF ToStderr
    <2>3. Cardinality(ToStderr(plan)) \in Nat \ {0}
      BY <2>1, <2>2, ToStderrFinite, FS_EmptySet
    <2> QED
      BY <1>3, <2>3, PipeAssumption DEF StderrFits, StderrFull
  <1> QED
    BY <1>1, <1>2, <1>3, Invariance, StuckCorrect, PTL DEF Spec
-----------------------------------------------------------------------------
(* Termination. *)

CallerLeft(at) ==
    CASE at = "start" -> 4 [] at = "stdout" -> 3 [] at = "stderr" -> 2 [] at = "wait" -> 1
      [] OTHER -> 0

PromtoolLeft(state) ==
    CASE state = "none" -> 2 [] state = "running" -> 1 [] OTHER -> 0

(* A unit not yet written is still to be written and to be read.            *)
UnitsLeft(p, q) == 2 * Len(p) + (q["stdout"] + q["stderr"])

(* A bound on the steps the two processes can still take.                   *)
Left == UnitsLeft(plan, pipe) + CallerLeft(pc) + PromtoolLeft(promtool)

LEMMA LeftType == IInv => /\ UnitsLeft(plan, pipe) \in Nat
                          /\ CallerLeft(pc) \in Nat
                          /\ PromtoolLeft(promtool) \in Nat
                          /\ Left \in Nat
  <1> SUFFICES ASSUME IInv
               PROVE  /\ UnitsLeft(plan, pipe) \in Nat
                      /\ CallerLeft(pc) \in Nat
                      /\ PromtoolLeft(promtool) \in Nat
                      /\ Left \in Nat
    OBVIOUS
  <1>1. Len(plan) \in Nat /\ pipe["stdout"] \in Nat /\ pipe["stderr"] \in Nat
    BY PipeAssumption DEF IInv, TypeOK, Stream
  <1>2. UnitsLeft(plan, pipe) \in Nat
    BY <1>1 DEF UnitsLeft
  <1>3. CallerLeft(pc) \in Nat /\ PromtoolLeft(promtool) \in Nat
    BY DEF CallerLeft, PromtoolLeft
  <1> QED
    BY <1>2, <1>3 DEF Left

LEMMA CopyLowers ==
    ASSUME IInv, NEW s \in Stream, NEW next, Copy(s, next),
           CallerLeft(next) < CallerLeft(s), CallerLeft(next) \in Nat, CallerLeft(s) \in Nat,
           0 < CallerLeft(s)
    PROVE  Left' < Left
  <1>1. /\ UnitsLeft(plan, pipe) \in Nat /\ PromtoolLeft(promtool) \in Nat
        /\ UNCHANGED <<plan, promtool>> /\ pc = s
    BY LeftType DEF Copy
  <1>2. CASE pipe[s] > 0 /\ pipe' = [pipe EXCEPT ![s] = @ - 1] /\ UNCHANGED pc
    <2>1. /\ Len(plan) \in Nat /\ pipe["stdout"] \in Nat /\ pipe["stderr"] \in Nat
          /\ pipe'["stdout"] + pipe'["stderr"] = pipe["stdout"] + pipe["stderr"] - 1
          /\ pipe'["stdout"] \in Int /\ pipe'["stderr"] \in Int
      BY <1>2, PipeAssumption DEF IInv, TypeOK, Stream
    <2>2. UnitsLeft(plan, pipe)' = UnitsLeft(plan, pipe')
      BY <1>1 DEF UnitsLeft
    <2> DEFINE written == 2 * Len(plan)
    <2>3. written \in Nat
      BY <2>1
    <2>4. /\ UnitsLeft(plan, pipe) = written + (pipe["stdout"] + pipe["stderr"])
          /\ UnitsLeft(plan, pipe') = written + (pipe'["stdout"] + pipe'["stderr"])
      BY DEF UnitsLeft
    <2> HIDE DEF written
    <2>5. UnitsLeft(plan, pipe') = UnitsLeft(plan, pipe) - 1
      BY <2>1, <2>3, <2>4
    <2> QED
      BY <1>1, <1>2, <2>2, <2>5 DEF Left
  <1>3. CASE pc' = next /\ UNCHANGED pipe
    BY <1>1, <1>3 DEF Left
  <1>4. CASE pc' = "error" /\ UNCHANGED pipe
    <2>1. CallerLeft("error") = 0
      BY DEF CallerLeft
    <2> QED
      BY <1>1, <1>4, <2>1 DEF Left
  <1> QED
    BY <1>2, <1>3, <1>4 DEF Copy

LEMMA NextLowers ==
    ASSUME IInv, Next
    PROVE  Left' < Left
  <1>1. /\ UnitsLeft(plan, pipe) \in Nat /\ CallerLeft(pc) \in Nat
        /\ PromtoolLeft(promtool) \in Nat
    BY LeftType
  <1>2. CASE Start
    <2>1. UNCHANGED <<plan, pipe>> /\ CallerLeft(pc') < CallerLeft(pc) /\ CallerLeft(pc') \in Nat
      BY <1>2 DEF Start, CallerLeft
    <2>2. PromtoolLeft(promtool') <= PromtoolLeft(promtool) /\ PromtoolLeft(promtool') \in Nat
      BY <1>2 DEF Start, IInv, StreamsDrained, PromtoolLeft
    <2> QED
      BY <1>1, <2>1, <2>2 DEF Left
  <1>3. CASE CopyStdout
    BY <1>3, CopyLowers DEF CopyStdout, CallerLeft, Stream
  <1>4. CASE CopyStderr
    BY <1>4, CopyLowers DEF CopyStderr, CallerLeft, Stream
  <1>5. CASE Wait
    <2>1. /\ UNCHANGED <<plan, pipe, promtool>>
          /\ CallerLeft(pc') < CallerLeft(pc) /\ CallerLeft(pc') \in Nat
      BY <1>5 DEF Wait, CallerLeft
    <2> QED
      BY <1>1, <2>1 DEF Left
  <1>6. CASE PromtoolWrite
    <2> DEFINE h == Head(plan)
    <2>1. /\ h \in Stream /\ Len(plan) \in Nat /\ Len(plan') = Len(plan) - 1
          /\ pipe \in [Stream -> 0..PipeSize] /\ pipe' = [pipe EXCEPT ![h] = @ + 1]
          /\ UNCHANGED <<promtool, pc>>
      BY <1>6 DEF PromtoolWrite, IInv, TypeOK
    <2> HIDE DEF h
    <2>2. /\ pipe["stdout"] \in Nat /\ pipe["stderr"] \in Nat
          /\ pipe'["stdout"] + pipe'["stderr"] = pipe["stdout"] + pipe["stderr"] + 1
          /\ pipe'["stdout"] \in Int /\ pipe'["stderr"] \in Int
      BY <2>1, PipeAssumption DEF Stream
    <2>3. 2 * Len(plan') = 2 * Len(plan) - 2
      BY <2>1
    <2>4. UnitsLeft(plan, pipe)' = UnitsLeft(plan, pipe) - 1
      BY <2>1, <2>2, <2>3 DEF UnitsLeft
    <2> QED
      BY <1>1, <2>1, <2>4 DEF Left
  <1>7. CASE PromtoolExit
    <2>1. /\ UNCHANGED <<plan, pipe, pc>>
          /\ PromtoolLeft(promtool') < PromtoolLeft(promtool) /\ PromtoolLeft(promtool') \in Nat
      BY <1>7 DEF PromtoolExit, PromtoolLeft
    <2> QED
      BY <1>1, <2>1 DEF Left
  <1> QED
    BY <1>2, <1>3, <1>4, <1>5, <1>6, <1>7 DEF Next

(* Neither process goes on for ever: every step of either lowers a natural  *)
(* number. With NeverStuckIfStderrFits, all of runPromtool's return but the *)
(* fairness of its two processes.                                           *)
THEOREM StepsRunOut == Spec => [](Left \in Nat) /\ [][Left' < Left]_vars
  <1>1. IInv => Left \in Nat
    BY LeftType
  <1>2. IInv /\ [Next]_vars => [Left' < Left]_vars
    BY NextLowers
  <1> QED
    BY <1>1, <1>2, Invariance, PTL DEF Spec
=============================================================================
