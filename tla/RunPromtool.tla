---------------------------- MODULE RunPromtool ----------------------------
(***************************************************************************)
(* runPromtool of the default backfiller: promtool is started with a pipe   *)
(* for stdout and one for stderr; the caller reads stdout to its end, then  *)
(* stderr to its end, then waits for the process. A pipe holds PipeSize     *)
(* units, and a writer blocks while its pipe is full.                       *)
(***************************************************************************)
EXTENDS Naturals, Sequences, SequencesExt

CONSTANTS
    PipeSize,  \* capacity of a pipe
    MaxOutput  \* bound: units promtool writes

ASSUME PipeAssumption == PipeSize \in Nat \ {0} /\ MaxOutput \in Nat

Stream == {"stdout", "stderr"}

VARIABLES
    plan,      \* what promtool is still going to write: a sequence of streams
    pipe,      \* units in each pipe
    promtool,  \* "none", "running", "succeeded" or "failed"
    pc,        \* "start", "stdout", "stderr", "wait", "ok" or "error"
    read       \* units copied from each pipe

vars == <<plan, pipe, promtool, pc, read>>

Init ==
    /\ plan \in BoundedSeq(Stream, MaxOutput)
    /\ pipe = [s \in Stream |-> 0]
    /\ promtool = "none"
    /\ pc = "start"
    /\ read = [s \in Stream |-> 0]

(* StdoutPipe, StderrPipe and cmd.Start, any of which may fail.             *)
Start ==
    /\ pc = "start"
    /\ \/ pc' = "stdout" /\ promtool' = "running"
       \/ pc' = "error" /\ UNCHANGED promtool
    /\ UNCHANGED <<plan, pipe, read>>

(* Mutant: the end of a stream taken to be the pipe running empty. *)
EndOfStreamEmpty(s) == pipe[s] = 0

(* Mutant: a promtool that fails does not end its streams. *)
EndOfStreamSucceeded(s) == promtool = "succeeded" /\ pipe[s] = 0

(* The end of a stream: promtool has exited, and its pipe is drained.       *)
EndOfStream(s) == promtool \in {"succeeded", "failed"} /\ pipe[s] = 0

(* Mutant: the caller drains stderr where it should drain stdout. *)
CopyOther(s, next) ==
    LET t == IF s = "stdout" THEN "stderr" ELSE "stdout"
    IN /\ pc = s
       /\ \/ /\ pipe[t] > 0
             /\ pipe' = [pipe EXCEPT ![t] = @ - 1]
             /\ read' = [read EXCEPT ![t] = @ + 1]
             /\ UNCHANGED pc
          \/ EndOfStream(t) /\ pc' = next /\ UNCHANGED <<pipe, read>>
       /\ UNCHANGED <<plan, promtool>>

(* Mutant: units read stay in the pipe. *)
CopyPeeking(s, next) ==
    /\ pc = s
    /\ \/ /\ pipe[s] > 0 /\ read[s] <= MaxOutput
          /\ read' = [read EXCEPT ![s] = @ + 1]
          /\ UNCHANGED <<pipe, pc>>
       \/ EndOfStream(s) /\ pc' = next /\ UNCHANGED <<pipe, read>>
    /\ UNCHANGED <<plan, promtool>>

(* io.Copy from one pipe, unit by unit. A read that fails makes runPromtool *)
(* return at once: the process is then neither read from nor waited for.    *)
Copy(s, next) ==
    /\ pc = s
    /\ \/ /\ pipe[s] > 0
          /\ pipe' = [pipe EXCEPT ![s] = @ - 1]
          /\ read' = [read EXCEPT ![s] = @ + 1]
          /\ UNCHANGED pc
       \/ EndOfStream(s) /\ pc' = next /\ UNCHANGED <<pipe, read>>
       \/ /\ pipe[s] > 0
          /\ pc' = "error" /\ UNCHANGED <<pipe, read>>
    /\ UNCHANGED <<plan, promtool>>

CopyStdout == Copy("stdout", "stderr")

CopyStderr == Copy("stderr", "wait")

(* Mutant: the exit status is not looked at. *)
WaitAnyStatus ==
    /\ pc = "wait" /\ promtool \in {"succeeded", "failed"}
    /\ pc' = "ok"
    /\ UNCHANGED <<plan, pipe, promtool, read>>

(* cmd.Wait: an exit status other than 0 is an error.                       *)
Wait ==
    /\ pc = "wait"
    /\ \/ promtool = "succeeded" /\ pc' = "ok"
       \/ promtool = "failed" /\ pc' = "error"
    /\ UNCHANGED <<plan, pipe, promtool, read>>

(* promtool writes where it next has to, or blocks.                         *)
PromtoolWrite ==
    /\ promtool = "running" /\ plan # <<>>
    /\ pipe[Head(plan)] < PipeSize
    /\ pipe' = [pipe EXCEPT ![Head(plan)] = @ + 1]
    /\ plan' = Tail(plan)
    /\ UNCHANGED <<promtool, pc, read>>

PromtoolExit ==
    /\ promtool = "running" /\ plan = <<>>
    /\ promtool' \in {"succeeded", "failed"}
    /\ UNCHANGED <<plan, pipe, pc, read>>

Next == Start \/ CopyStdout \/ CopyStderr \/ Wait \/ PromtoolWrite \/ PromtoolExit

(* Both processes run whenever they are not blocked.                        *)
Spec ==
    /\ Init /\ [][Next]_vars
    /\ WF_vars(Start \/ CopyStdout \/ CopyStderr \/ Wait)
    /\ WF_vars(PromtoolWrite \/ PromtoolExit)
-----------------------------------------------------------------------------
(* Properties                                                               *)

TypeOK ==
    /\ plan \in Seq(Stream)
    /\ pipe \in [Stream -> 0..PipeSize]
    /\ promtool \in {"none", "running", "succeeded", "failed"}
    /\ pc \in {"start", "stdout", "stderr", "wait", "ok", "error"}
    /\ read \in [Stream -> 0..MaxOutput]

Returned == pc \in {"ok", "error"}

(* Success means that promtool exited with status 0 and that all it wrote,  *)
(* on both streams, has been copied: nothing is left in a pipe that Wait    *)
(* closes.                                                                  *)
SuccessIsComplete ==
    pc = "ok" => promtool = "succeeded" /\ plan = <<>> /\ \A s \in Stream : pipe[s] = 0

(* Some step is possible: the caller or promtool is not blocked.            *)
CanStep ==
    \/ pc = "start"
    \/ \E s \in Stream : pc = s /\ (pipe[s] > 0 \/ EndOfStream(s))
    \/ pc = "wait" /\ promtool \in {"succeeded", "failed"}
    \/ promtool = "running" /\ (plan # <<>> => pipe[Head(plan)] < PipeSize)

(* promtool has filled stderr while the caller still reads stdout.          *)
StderrFull ==
    pc = "stdout" /\ pipe["stderr"] = PipeSize /\ plan # <<>> /\ Head(plan) = "stderr"

(* The two processes block each other in that way only.                     *)
StuckOnlyOnStderr ==
    /\ ENABLED Next <=> CanStep
    /\ ~Returned /\ ~CanStep => StderrFull

StderrOf(s) == SelectSeq(s, LAMBDA x : x = "stderr")

(* runPromtool returns whenever promtool's stderr fits in a pipe, however   *)
(* much goes to stdout and in whatever order. (Beyond that it may not.)     *)
ReturnsIfStderrFits ==
    Len(StderrOf(plan)) <= PipeSize => <>Returned
=============================================================================
