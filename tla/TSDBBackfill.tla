---------------------------- MODULE TSDBBackfill ----------------------------
(***************************************************************************)
(* slom generate prometheus-tsdb (cmd/generate/prometheus/tsdb) with its     *)
(* default backfiller (internal/prometheus/tsdb): each job is one run of    *)
(* the command, and several may run on one machine at the same time.        *)
(*                                                                          *)
(* A job creates temporary files, has promtool write the blocks of the      *)
(* series into the user's TSDB directory, picks a port, starts a Prometheus *)
(* on that directory, waits until it is ready, has promtool compute blocks  *)
(* of rule results from it into a temporary directory, stops it and moves   *)
(* the blocks into the TSDB directory. Deferred calls are modelled as what  *)
(* they are, a stack that every return unwinds. Prometheus and promtool are *)
(* processes of their own: a server binds its port some time after it is    *)
(* started, may hang or exit at any time, and both outlive a killed job.    *)
(***************************************************************************)
EXTENDS Naturals, Sequences, FiniteSets

CONSTANTS
    Jobs,         \* runs of the command
    Commands,     \* what a run may be asked for: sets of "series" and "rules"
    Ports,        \* the ports findAvailablePort probes
    NumChecks,    \* numChecks of checkPrometheusReadyWithRetry
    SeriesBlocks, \* blocks the samples of the series fill
    MaxBlocks     \* bound: blocks of rule results promtool writes in one job

ASSUME JobsAssumption == Commands \subseteq SUBSET {"series", "rules"}

ASSUME PortsAssumption ==
    Ports \subseteq Nat \ {0} /\ {NumChecks, SeriesBlocks, MaxBlocks} \subseteq Nat

VARIABLES
    wants,     \* what each job was asked for
    pc,        \* where it is
    result,    \* "none" until the job (or its backfillRule) returns
    defers,    \* its deferred calls, innermost first
    temps,     \* the temporary files that exist because of it
    port,      \* the port it picked, 0 before
    contended, \* jobs whose port was claimed by another job meanwhile
    checks,    \* readiness checks that failed
    server,    \* the state of its Prometheus process
    promtool,  \* what its promtool process works on, if one runs
    abandoned, \* history: jobs that returned while their promtool ran
    created,   \* rule blocks promtool wrote for it
    dir,       \* blocks in its temporary directory
    tsdb       \* blocks it added to the TSDB directory

callVars == <<pc, result, defers, temps>>
portVars == <<port, contended, checks>>
processVars == <<server, promtool, abandoned>>
blockVars == <<created, dir, tsdb>>
vars == <<wants, callVars, portVars, processVars, blockVars>>

-----------------------------------------------------------------------------
Temp == {"series", "rules", "dir", "config"}

Deferred == Temp \cup {"close"}

(* What the inner backfillRule defers; the rest belongs to its callers.     *)
Inner == {"close", "config"}

(* A block: what it holds, its number, and the job from whose server the    *)
(* data came.                                                               *)
Block == ({"series"} \X (1..SeriesBlocks) \X Jobs) \cup ({"rules"} \X (1..MaxBlocks) \X Jobs)

Of(kind, blocks) == {b \in blocks : b[1] = kind}

(* A hung process accepts on its port, and never answers.                   *)
Bound(j) == server[j] \in {"up", "ready", "hung"}

Alive(j) == Bound(j) \/ server[j] = "booting"

(* The servers in a state that hold the port of j.                          *)
Serving(j, state) == {o \in Jobs : server[o] = state /\ port[o] = port[j]}

(* j is about to use the port it picked, or something of it still does.     *)
Claims(j, p) ==
    /\ port[j] = p
    /\ pc[j] \in {"start", "check"} \/ promtool[j] = "rules" \/ server[j] = "booting"

Init ==
    /\ wants \in [Jobs -> Commands]
    /\ pc = [j \in Jobs |-> "begin"]
    /\ result = [j \in Jobs |-> "none"]
    /\ defers = [j \in Jobs |-> <<>>]
    /\ temps = [j \in Jobs |-> {}]
    /\ port = [j \in Jobs |-> 0]
    /\ contended = {}
    /\ checks = [j \in Jobs |-> 0]
    /\ server = [j \in Jobs |-> "none"]
    /\ promtool = [j \in Jobs |-> "none"]
    /\ abandoned = {}
    /\ created = [j \in Jobs |-> 0]
    /\ dir = [j \in Jobs |-> {}]
    /\ tsdb = [j \in Jobs |-> {}]

Goto(j, l) == pc' = [pc EXCEPT ![j] = l]

Return(j, r) == Goto(j, "return") /\ result' = [result EXCEPT ![j] = r]

(* Mutant: the deferred call is forgotten. *)
DeferNothing(j, x) == UNCHANGED defers

Defer(j, x) == defers' = [defers EXCEPT ![j] = <<x>> \o @]

(* os.CreateTemp or os.MkdirTemp, and the defer that follows; it may fail.  *)
CreateTemp(j, x, next) ==
    \/ /\ temps' = [temps EXCEPT ![j] = @ \cup {x}]
       /\ Defer(j, x)
       /\ Goto(j, next)
       /\ UNCHANGED result
    \/ Return(j, "error") /\ UNCHANGED <<defers, temps>>

Run(j, kind) == promtool' = [promtool EXCEPT ![j] = kind]

-----------------------------------------------------------------------------
(* run: the two parts of the command, each when its flag is given.          *)
Begin(j) ==
    /\ pc[j] = "begin"
    /\ \/ "series" \in wants[j] /\ CreateTemp(j, "series", "series")
       \/ /\ "series" \notin wants[j]
          /\ Goto(j, "rules")
          /\ UNCHANGED <<result, defers, temps>>
    /\ UNCHANGED <<wants, portVars, processVars, blockVars>>

(* writeOpenMetricsSeries, then BackfillOpenMetricsSeries runs promtool.    *)
BackfillOpenMetricsSeries(j) ==
    /\ pc[j] = "series"
    /\ \/ Run(j, "series") /\ Goto(j, "promtool") /\ UNCHANGED result
       \/ Return(j, "error") /\ UNCHANGED promtool
    /\ UNCHANGED <<wants, defers, temps, portVars, server, abandoned, blockVars>>

CreateRuleFile(j) ==
    /\ pc[j] = "rules"
    /\ \/ "rules" \in wants[j] /\ CreateTemp(j, "rules", "mkdir")
       \/ /\ "rules" \notin wants[j]
          /\ Return(j, "ok")
          /\ UNCHANGED <<defers, temps>>
    /\ UNCHANGED <<wants, portVars, processVars, blockVars>>

(* writePrometheusRule, which may fail too, and BackfillRule's MkdirTemp.   *)
MkdirTemp(j) ==
    /\ pc[j] = "mkdir"
    /\ CreateTemp(j, "dir", "config")
    /\ UNCHANGED <<wants, portVars, processVars, blockVars>>

CreateConfig(j) ==
    /\ pc[j] = "config"
    /\ CreateTemp(j, "config", "port")
    /\ UNCHANGED <<wants, portVars, processVars, blockVars>>

(* Mutant: the port is taken without trying to listen on it. *)
AvailableUntested(p) == p \in Ports

(* net.Listen on the port succeeds: no process has bound it.                *)
Available(p) == p \in Ports /\ ~\E o \in Jobs : Bound(o) /\ port[o] = p

(* The first available port from a random start. Listening ends with the    *)
(* call, so the port is not reserved.                                       *)
findAvailablePort(j) ==
    /\ pc[j] = "port"
    /\ \E start \in Ports :
         LET found == {p \in Ports : p >= start /\ Available(p)}
         IN \/ found = {} /\ Return(j, "error") /\ UNCHANGED <<port, contended>>
            \/ \E p \in found :
                 LET others == {o \in Jobs \ {j} : Claims(o, p)}
                 IN /\ \A q \in found : p <= q
                    /\ port' = [port EXCEPT ![j] = p]
                    /\ contended' = contended \cup others \cup {j : o \in others}
                    /\ Goto(j, "start")
                    /\ UNCHANGED result
    /\ UNCHANGED <<wants, defers, temps, checks, processVars, blockVars>>

(* prometheusProcess.Start: the process is created, or the error returned.  *)
StartProcess(j) ==
    /\ pc[j] = "start"
    /\ \/ /\ server' = [server EXCEPT ![j] = "booting"]
          /\ Goto(j, "check")
          /\ UNCHANGED result
       \/ Return(j, "error") /\ UNCHANGED server
    /\ UNCHANGED <<wants, defers, temps, portVars, promtool, abandoned, blockVars>>

(* Mutant: one check too many. *)
AttemptsLeftOneMore(j) == checks[j] <= NumChecks

AttemptsLeft(j) == checks[j] < NumChecks

(* Mutant: failed checks are not counted. *)
CountAttemptNever(j) == UNCHANGED checks

CountAttempt(j) == checks' = [checks EXCEPT ![j] = @ + 1]

(* checkPrometheusReady: whoever answers on the port, with status 200, is   *)
(* taken for the process just started; its Close is deferred only now. The  *)
(* request has no timeout: a hung process on the port blocks it.            *)
CheckReady(j) ==
    /\ pc[j] = "check" /\ AttemptsLeft(j)
    /\ \/ /\ Serving(j, "ready") # {}
          /\ Defer(j, "close")
          /\ Run(j, "rules")
          /\ Goto(j, "promtool")
          /\ UNCHANGED checks
       \/ /\ Serving(j, "ready") \cup Serving(j, "hung") = {}
          /\ CountAttempt(j)
          /\ UNCHANGED <<pc, defers, promtool>>
    /\ UNCHANGED <<wants, result, temps, port, contended, server, abandoned, blockVars>>

(* The maximum of attempts: Start fails, and the process is left running.   *)
GiveUp(j) ==
    /\ pc[j] = "check" /\ checks[j] = NumChecks
    /\ Return(j, "error")
    /\ UNCHANGED <<wants, defers, temps, portVars, processVars, blockVars>>

-----------------------------------------------------------------------------
(* promtool tsdb create-blocks-from, block by block: openmetrics writes     *)
(* into the TSDB directory itself, rules into the temporary directory what  *)
(* it reads from the server on the port, recreating that directory if it is *)
(* gone.                                                                    *)
PromtoolBlock(j) ==
    /\ \/ LET n == Cardinality(Of("series", tsdb[j])) + 1
          IN /\ promtool[j] = "series" /\ n <= SeriesBlocks
             /\ tsdb' = [tsdb EXCEPT ![j] = @ \cup {<<"series", n, j>>}]
             /\ UNCHANGED <<temps, created, dir>>
       \/ /\ promtool[j] = "rules" /\ created[j] < MaxBlocks
          /\ created' = [created EXCEPT ![j] = @ + 1]
          /\ temps' = [temps EXCEPT ![j] = @ \cup {"dir"}]
          /\ \E o \in Serving(j, "ready") :
               dir' = [dir EXCEPT ![j] = @ \cup {<<"rules", created[j] + 1, o>>}]
          /\ UNCHANGED tsdb
    /\ UNCHANGED <<wants, pc, result, defers, portVars, processVars>>

(* Mutant: its exit status is not looked at. *)
DoneAnyway(j) == TRUE

(* It exits with status 0 only when it is done.                             *)
Done(j) == promtool[j] = "series" => Cardinality(Of("series", tsdb[j])) = SeriesBlocks

(* It fails to start or exits, and runPromtool returns, if it still waits.  *)
PromtoolExit(j) ==
    /\ promtool[j] # "none" /\ Run(j, "none")
    /\ \/ pc[j] # "promtool" /\ UNCHANGED <<pc, result>>
       \/ pc[j] = "promtool" /\ Return(j, "error")
       \/ /\ pc[j] = "promtool" /\ promtool[j] = "series" /\ Done(j)
          /\ Goto(j, "rules")
          /\ UNCHANGED result
       \/ pc[j] = "promtool" /\ promtool[j] = "rules" /\ Return(j, "rulesOK")
    /\ UNCHANGED <<wants, defers, temps, portVars, server, abandoned, blockVars>>

(* A read of its output fails: runPromtool returns, and promtool runs on.   *)
ReadFails(j) ==
    /\ pc[j] = "promtool"
    /\ Return(j, "error")
    /\ abandoned' = abandoned \cup {j}
    /\ UNCHANGED <<wants, defers, temps, portVars, server, promtool, blockVars>>

-----------------------------------------------------------------------------
(* Returning runs the deferred calls of the function that returns: all of   *)
(* them, except that a successful backfillRule returns to BackfillRule.     *)
Unwinding(j) ==
    /\ pc[j] = "return" /\ defers[j] # <<>>
    /\ result[j] = "rulesOK" => Head(defers[j]) \in Inner

Undefer(j) == defers' = [defers EXCEPT ![j] = Tail(@)]

RemoveTemp(j) ==
    /\ Unwinding(j) /\ Head(defers[j]) \in Temp
    /\ temps' = [temps EXCEPT ![j] = @ \ {Head(defers[j])}]
    /\ dir' = [dir EXCEPT ![j] = IF Head(defers[j]) = "dir" THEN {} ELSE @]
    /\ Undefer(j)
    /\ UNCHANGED <<wants, pc, result, portVars, processVars, created, tsdb>>

(* Close: SIGTERM.                                                          *)
Close(j) ==
    /\ Unwinding(j) /\ Head(defers[j]) = "close"
    /\ Goto(j, "wait")
    /\ UNCHANGED <<wants, result, defers, temps, portVars, processVars, blockVars>>

(* Mutant: the process is not waited for. *)
ExitedOrNot(j) == TRUE

Exited(j) == server[j] = "dead"

(* Close: Wait. Its error, like that of the signal, is only logged.         *)
Wait(j) ==
    /\ pc[j] = "wait" /\ Exited(j)
    /\ Goto(j, "return")
    /\ Undefer(j)
    /\ UNCHANGED <<wants, result, temps, portVars, processVars, blockVars>>

(* BackfillRule goes on: it opens and lists the temporary directory.        *)
ListBlocks(j) ==
    /\ pc[j] = "return" /\ result[j] = "rulesOK" /\ ~Unwinding(j)
    /\ \/ Goto(j, "move") /\ result' = [result EXCEPT ![j] = "none"]
       \/ Return(j, "error")
    /\ UNCHANGED <<wants, defers, temps, portVars, processVars, blockVars>>

(* Mutant: a rename that fails goes unnoticed, and the block is gone. *)
RenameUnchecked(j, b) == dir' = [dir EXCEPT ![j] = @ \ {b}] /\ UNCHANGED tsdb

Rename(j, b) ==
    /\ dir' = [dir EXCEPT ![j] = @ \ {b}]
    /\ tsdb' = [tsdb EXCEPT ![j] = @ \cup {b}]

(* os.Rename of one block after the other, until one fails.                 *)
MoveBlock(j) ==
    /\ pc[j] = "move"
    /\ \E b \in dir[j] :
         \/ Rename(j, b) /\ UNCHANGED <<pc, result>>
         \/ Return(j, "error") /\ UNCHANGED <<dir, tsdb>>
    /\ UNCHANGED <<wants, defers, temps, portVars, processVars, created>>

MovedAll(j) ==
    /\ pc[j] = "move" /\ dir[j] = {}
    /\ Return(j, "ok")
    /\ UNCHANGED <<wants, defers, temps, portVars, processVars, blockVars>>

End(j) ==
    /\ pc[j] = "return" /\ defers[j] = <<>> /\ result[j] # "rulesOK"
    /\ Goto(j, "ended")
    /\ UNCHANGED <<wants, result, defers, temps, portVars, processVars, blockVars>>

(* The process of the job is killed: nothing deferred runs, and promtool    *)
(* and Prometheus run on.                                                   *)
Crash(j) ==
    /\ pc[j] \notin {"ended", "crashed"}
    /\ Goto(j, "crashed")
    /\ UNCHANGED <<wants, result, defers, temps, portVars, processVars, blockVars>>

-----------------------------------------------------------------------------
(* Prometheus.                                                              *)

(* It binds the port it was given, or finds it taken and exits.             *)
ServerBind(j) ==
    /\ server[j] = "booting"
    /\ server' = [server EXCEPT ![j] =
         IF \E o \in Jobs : Bound(o) /\ port[o] = port[j] THEN "dead" ELSE "up"]
    /\ UNCHANGED <<wants, callVars, portVars, promtool, abandoned, blockVars>>

(* Bound, it answers 503 until it is ready, and then 200, unless it hangs.  *)
ServerProgress(j) ==
    /\ \E s \in {<<"up", "ready">>, <<"up", "hung">>, <<"ready", "hung">>} :
         server[j] = s[1] /\ server' = [server EXCEPT ![j] = s[2]]
    /\ UNCHANGED <<wants, callVars, portVars, promtool, abandoned, blockVars>>

(* On SIGTERM, or by itself: a locked TSDB directory, an invalid block.     *)
ServerExit(j) ==
    /\ Alive(j)
    /\ server' = [server EXCEPT ![j] = "dead"]
    /\ UNCHANGED <<wants, callVars, portVars, promtool, abandoned, blockVars>>

JobStep(j) ==
    \/ Begin(j) \/ BackfillOpenMetricsSeries(j) \/ CreateRuleFile(j)
    \/ MkdirTemp(j) \/ CreateConfig(j) \/ findAvailablePort(j)
    \/ StartProcess(j) \/ CheckReady(j) \/ GiveUp(j)
    \/ RemoveTemp(j) \/ Close(j) \/ Wait(j)
    \/ ListBlocks(j) \/ MoveBlock(j) \/ MovedAll(j) \/ End(j)

PromtoolStep(j) == PromtoolBlock(j) \/ PromtoolExit(j)

Next ==
    \E j \in Jobs :
      \/ JobStep(j) \/ PromtoolStep(j) \/ ReadFails(j) \/ Crash(j)
      \/ ServerBind(j) \/ ServerProgress(j) \/ ServerExit(j)

Spec == Init /\ [][Next]_vars

(* promtool waits for the answer of a process that hangs.                   *)
PromtoolStalled(j) == promtool[j] = "rules" /\ Serving(j, "hung") # {}

(* The job does, or waits for such a promtool or for the end of a Prometheus *)
(* that hangs.                                                              *)
Stalled(j) ==
    \/ pc[j] = "check" /\ Serving(j, "hung") # {}
    \/ pc[j] = "promtool" /\ PromtoolStalled(j)
    \/ pc[j] = "wait" /\ server[j] = "hung"

(* A job and its promtool run on unless they are stalled, and a Prometheus  *)
(* sent SIGTERM exits unless it hangs.                                      *)
Fairness ==
    \A j \in Jobs :
      /\ WF_vars(~Stalled(j) /\ JobStep(j))
      /\ WF_vars(~PromtoolStalled(j) /\ PromtoolStep(j))
      /\ WF_vars(pc[j] = "wait" /\ ~Stalled(j) /\ ServerExit(j))

FairSpec == Spec /\ Fairness
-----------------------------------------------------------------------------
(* Properties                                                               *)

TypeOK ==
    /\ wants \in [Jobs -> Commands]
    /\ pc \in [Jobs -> {"begin", "series", "rules", "mkdir", "config", "port",
                        "start", "check", "promtool", "return", "wait", "move",
                        "ended", "crashed"}]
    /\ result \in [Jobs -> {"none", "rulesOK", "ok", "error"}]
    /\ defers \in [Jobs -> Seq(Deferred)]
    /\ temps \in [Jobs -> SUBSET Temp]
    /\ port \in [Jobs -> Ports \cup {0}]
    /\ contended \subseteq Jobs
    /\ checks \in [Jobs -> 0..NumChecks]
    /\ server \in [Jobs -> {"none", "booting", "up", "ready", "hung", "dead"}]
    /\ promtool \in [Jobs -> {"none", "series", "rules"}]
    /\ abandoned \subseteq Jobs
    /\ created \in [Jobs -> 0..MaxBlocks]
    /\ dir \in [Jobs -> SUBSET Block]
    /\ tsdb \in [Jobs -> SUBSET Block]

(* A job that ends by itself, on whatever error, has removed each temporary *)
(* file it created, though a promtool it left may recreate the directory it *)
(* writes to.                                                               *)
TempsRemoved ==
    \A j \in Jobs :
      pc[j] = "ended" => temps[j] \subseteq IF j \in abandoned THEN {"dir"} ELSE {}

(* A job that ends by itself has stopped its Prometheus, unless it failed   *)
(* because that process was not ready in time: then Close is not deferred   *)
(* yet, and the process is left running.                                    *)
ServerStopped ==
    \A j \in Jobs :
      pc[j] = "ended" /\ Alive(j) => result[j] = "error" /\ checks[j] = NumChecks

(* Blocks are moved into the TSDB directory only when no Prometheus of this *)
(* job runs on it, even if a crash follows.                                 *)
MovedAfterStop ==
    \A j \in Jobs : Of("rules", tsdb[j]) # {} => ~Alive(j)

(* A block promtool wrote is in the temporary directory or in the TSDB      *)
(* directory, and never in both, wherever the job fails or is killed; only  *)
(* the removal of the temporary directory gives blocks up, to which a       *)
(* promtool that was left may still add.                                    *)
BlocksConserved ==
    \A j \in Jobs :
      /\ Of("rules", tsdb[j]) \cap dir[j] = {}
      /\ "dir" \in temps[j] /\ j \notin abandoned =>
           {b[2] : b \in Of("rules", tsdb[j]) \cup dir[j]} = 1..created[j]

(* Rule results computed from the TSDB of another job appear only when two  *)
(* jobs had picked the same port at the same time. (A job does not check    *)
(* that the server answering is the one it started.)                        *)
ForeignOnlyIfContended ==
    \A j \in Jobs : \A b \in dir[j] \cup tsdb[j] :
      b[3] # j => j \in contended

(* Every job that is not killed ends, or waits for ever for a process that  *)
(* hangs: the retries of the readiness check are bounded, its requests, the *)
(* promtool it runs and the process it stops are not.                       *)
EndsUnlessStalled ==
    \A j \in Jobs : <>(pc[j] \in {"ended", "crashed"}) \/ <>[]Stalled(j)

(* Seen from the TSDB directory, jobs do what Backfill allows them: nothing *)
(* of the rules before all of the series, success only when complete, and   *)
(* nothing taken back by a failure.                                         *)
Abstract ==
    INSTANCE Backfill WITH
      outcome <- [j \in Jobs |-> CASE pc[j] = "ended" -> result[j]
                                   [] pc[j] = "crashed" -> "killed"
                                   [] OTHER -> "running"],
      made <- created,
      added <- [j \in Jobs |-> {<<b[1], b[2]>> : b \in tsdb[j]}]

ImplementsBackfill == Abstract!Spec
=============================================================================
