------------------------- MODULE TSDBBackfillProofs -------------------------
(***************************************************************************)
(* What holds of any number of jobs, ports, checks and blocks: no step of   *)
(* any job or process of TSDBBackfill leads outside of its invariants, and  *)
(* each is one that Backfill allows.                                        *)
(***************************************************************************)
EXTENDS TSDBBackfill, FiniteSetTheorems, SequenceTheorems, TLAPS

(* The inductive invariant. But for Picked it speaks of one job at a time.  *)

Elements(s) == {s[n] : n \in DOMAIN s}

(* What a promtool that the job left may create behind its back.            *)
Recreated(j) == IF j \in abandoned THEN {"dir"} ELSE {}

(* A temporary file that exists is one a deferred call removes.             *)
FilesDeferred(j) ==
    pc[j] # "crashed" => temps[j] \subseteq Elements(defers[j]) \cup Recreated(j)

Unwound(j) ==
    /\ pc[j] = "ended" => defers[j] = <<>>
    /\ pc[j] \in {"return", "wait", "ended"} => result[j] # "none"

(* Close is deferred last, and only then is the Prometheus waited for.      *)
CloseLast(j) ==
    /\ "close" \in Elements(defers[j]) =>
         /\ Head(defers[j]) = "close" /\ "close" \notin Elements(Tail(defers[j]))
         /\ pc[j] \in {"promtool", "return", "wait", "crashed"}
         /\ pc[j] = "promtool" => promtool[j] = "rules"
    /\ pc[j] = "wait" => defers[j] # <<>> /\ Head(defers[j]) = "close"

(* A Prometheus that runs is waited for to be ready, or its Close is        *)
(* deferred, or it was given up or left by a kill.                          *)
ServerKept(j) ==
    Alive(j) =>
      \/ pc[j] \in {"check", "crashed"}
      \/ /\ pc[j] \in {"promtool", "return", "wait"}
         /\ defers[j] # <<>> /\ Head(defers[j]) = "close"
      \/ pc[j] \in {"return", "ended"} /\ result[j] = "error" /\ checks[j] = NumChecks

(* A promtool that runs is waited for, or was left by a kill or by a read   *)
(* that failed; the command whose read failed fails.                        *)
PromtoolKept(j) ==
    /\ promtool[j] # "none" => pc[j] \in {"promtool", "crashed"} \/ j \in abandoned
    /\ j \in abandoned => result[j] = "error" /\ pc[j] \in {"return", "wait", "ended", "crashed"}
    /\ pc[j] = "series" \/ promtool[j] = "series" => "series" \in wants[j]
    /\ pc[j] \in {"mkdir", "config", "port", "start", "check"} \/ promtool[j] = "rules" =>
         "rules" \in wants[j]

(* Rule blocks reach the TSDB directory when everything else has been done. *)
RulesLast(j) ==
    Of("rules", tsdb[j]) # {} =>
      /\ pc[j] \in {"move", "return", "wait", "ended", "crashed"}
      /\ ~Alive(j) /\ promtool[j] = "none"

(* The temporary directory exists while rule blocks are made and moved, and *)
(* there is none of them before it.                                         *)
DirectoryKept(j) ==
    /\ \/ pc[j] \in {"config", "port", "start", "check", "move"}
       \/ promtool[j] = "rules" /\ j \notin abandoned
       \/ pc[j] \in {"return", "wait"} /\ result[j] = "rulesOK"
       => "dir" \in temps[j]
    /\ pc[j] \in {"begin", "series", "rules", "mkdir"} \/ promtool[j] = "series" =>
         created[j] = 0 /\ dir[j] = {}
    /\ \A b \in dir[j] : b[1] = "rules"

(* Series blocks are written one after the other, and all before any rule.  *)
SeriesFirst(j) ==
    /\ \E n \in 0..SeriesBlocks :
         Of("series", tsdb[j]) = {<<"series", m, j>> : m \in 1..n}
    /\ \/ pc[j] \in {"rules", "mkdir", "config", "port", "start", "check", "move"}
       \/ promtool[j] = "rules"
       \/ result[j] \in {"rulesOK", "ok"}
       => ("series" \in wants[j] => \A n \in 1..SeriesBlocks : <<"series", n, j>> \in tsdb[j])

(* A job about to succeed has moved every rule block.                       *)
SuccessComplete(j) ==
    result[j] = "ok" =>
      /\ pc[j] \in {"return", "wait", "ended", "crashed"} /\ promtool[j] = "none"
      /\ \A n \in 1..created[j] : \E b \in tsdb[j] : b[1] = "rules" /\ b[2] = n

Conserved(j) ==
    /\ Of("rules", tsdb[j]) \cap dir[j] = {}
    /\ "dir" \in temps[j] /\ j \notin abandoned =>
         /\ \A b \in Of("rules", tsdb[j]) \cup dir[j] : b[2] \in 1..created[j]
         /\ \A n \in 1..created[j] : \E b \in Of("rules", tsdb[j]) \cup dir[j] : b[2] = n

JobInv(j) ==
    /\ FilesDeferred(j) /\ CloseLast(j) /\ ServerKept(j) /\ PromtoolKept(j)
    /\ RulesLast(j) /\ DirectoryKept(j) /\ SeriesFirst(j) /\ SuccessComplete(j)
    /\ Conserved(j) /\ Unwound(j)

(* Whoever may come to answer on a port that j claims picked it while j     *)
(* claimed it already, or claimed it when j picked it.                      *)
Picked ==
    \A j, o \in Jobs :
      /\ j # o /\ port[j] = port[o] /\ Claims(j, port[j])
      /\ pc[o] = "start" \/ Alive(o)
      => j \in contended

IInv ==
    TypeOK /\ (\A j \in Jobs : JobInv(j)) /\ Picked /\ ForeignOnlyIfContended

-----------------------------------------------------------------------------
(* Stacks of deferred calls.                                                *)

LEMMA Pushed ==
    ASSUME NEW S, NEW s \in Seq(S), NEW x \in S
    PROVE  /\ <<x>> \o s \in Seq(S) /\ <<x>> \o s # <<>>
           /\ Head(<<x>> \o s) = x /\ Tail(<<x>> \o s) = s
           /\ Elements(<<x>> \o s) = {x} \cup Elements(s)
  <1> DEFINE t == <<x>> \o s
  <1>1. /\ t \in Seq(S) /\ t # <<>> /\ Head(t) = x /\ Len(t) = Len(s) + 1
        /\ t[1] = x /\ \A n \in 1..Len(s) : t[n + 1] = s[n]
    OBVIOUS
  <1>2. Tail(t) = s
    <2>1. Tail(t) \in Seq(S) /\ Len(Tail(t)) = Len(s)
      BY <1>1
    <2>2. \A n \in 1..Len(s) : Tail(t)[n] = s[n]
      BY <1>1
    <2> QED
      BY <2>1, <2>2, SeqEqual
  <1>3. Elements(t) = {x} \cup Elements(s)
    <2>1. \A n \in DOMAIN t : n = 1 \/ (n - 1 \in DOMAIN s /\ t[n] = s[n - 1])
      BY <1>1
    <2>2. \A n \in DOMAIN s : n + 1 \in DOMAIN t /\ t[n + 1] = s[n]
      BY <1>1
    <2>3. 1 \in DOMAIN t
      BY <1>1
    <2>4. ASSUME NEW e \in Elements(t) PROVE e \in {x} \cup Elements(s)
      <3> PICK n \in DOMAIN t : e = t[n]
        BY DEF Elements
      <3> QED
        BY <1>1, <2>1 DEF Elements
    <2>5. ASSUME NEW e \in Elements(s) PROVE e \in Elements(t)
      <3> PICK n \in DOMAIN s : e = s[n]
        BY DEF Elements
      <3> QED
        BY <2>2 DEF Elements
    <2>6. x \in Elements(t)
      BY <1>1, <2>3 DEF Elements
    <2> QED
      BY <2>4, <2>5, <2>6
  <1> QED
    BY <1>1, <1>2, <1>3

LEMMA Popped ==
    ASSUME NEW S, NEW s \in Seq(S), s # <<>>
    PROVE  /\ Tail(s) \in Seq(S) /\ Head(s) \in S
           /\ Elements(s) = {Head(s)} \cup Elements(Tail(s))
  <1>1. /\ Tail(s) \in Seq(S) /\ Head(s) \in S /\ Head(s) = s[1]
        /\ Len(s) \in Nat \ {0} /\ Len(Tail(s)) = Len(s) - 1
        /\ \A n \in 1..(Len(s) - 1) : Tail(s)[n] = s[n + 1]
    OBVIOUS
  <1>2. \A n \in DOMAIN s : n = 1 \/ (n - 1 \in DOMAIN Tail(s) /\ Tail(s)[n - 1] = s[n])
    BY <1>1
  <1>3. \A n \in DOMAIN Tail(s) : n + 1 \in DOMAIN s /\ Tail(s)[n] = s[n + 1]
    BY <1>1
  <1>4. 1 \in DOMAIN s
    BY <1>1
  <1>5. ASSUME NEW e \in Elements(s) PROVE e \in {Head(s)} \cup Elements(Tail(s))
    <2> PICK n \in DOMAIN s : e = s[n]
      BY DEF Elements
    <2> QED
      BY <1>1, <1>2 DEF Elements
  <1>6. ASSUME NEW e \in Elements(Tail(s)) PROVE e \in Elements(s)
    <2> PICK n \in DOMAIN Tail(s) : e = Tail(s)[n]
      BY DEF Elements
    <2> QED
      BY <1>3 DEF Elements
  <1>7. Head(s) \in Elements(s)
    BY <1>1, <1>4 DEF Elements
  <1> QED
    BY <1>1, <1>5, <1>6, <1>7

(* A step of the job j, or of a process it started.                         *)
Step(j) ==
    \/ JobStep(j) \/ PromtoolStep(j) \/ ReadFails(j) \/ Crash(j)
    \/ ServerBind(j) \/ ServerProgress(j) \/ ServerExit(j)

Local(j) ==
    <<wants[j], pc[j], result[j], defers[j], temps[j], port[j], checks[j],
      server[j], promtool[j], j \in abandoned, created[j], dir[j], tsdb[j]>>

(* The series blocks are numbered, so that their count tells the next one.  *)

LEMMA SeriesCounted ==
    ASSUME NEW j, NEW n \in Nat
    PROVE  Cardinality({<<"series", m, j>> : m \in 1..n}) = n
  <1> DEFINE S == {<<"series", m, j>> : m \in 1..n}
  <1> DEFINE f == [m \in 1..n |-> <<"series", m, j>>]
  <1>1. f \in Bijection(1..n, S)
    BY DEF Bijection, Injection, Surjection, IsInjective
  <1>2. IsFiniteSet(1..n) /\ Cardinality(1..n) = n
    BY FS_Interval
  <1> QED
    BY <1>1, <1>2, FS_Bijection, Zenon DEF ExistsBijection

LEMMA NextSeriesBlock ==
    ASSUME TypeOK, NEW j \in Jobs, JobInv(j)
    PROVE  LET n == Cardinality(Of("series", tsdb[j]))
           IN n \in 0..SeriesBlocks /\ Of("series", tsdb[j]) = {<<"series", m, j>> : m \in 1..n}
  <1> PICK n \in 0..SeriesBlocks : Of("series", tsdb[j]) = {<<"series", m, j>> : m \in 1..n}
    BY DEF JobInv, SeriesFirst
  <1>1. n \in Nat
    BY PortsAssumption
  <1>2. Cardinality({<<"series", m, j>> : m \in 1..n}) = n
    BY <1>1, SeriesCounted
  <1> QED
    BY <1>2

Control ==
    {"begin", "series", "rules", "mkdir", "config", "port", "start", "check",
     "promtool", "return", "wait", "move", "ended", "crashed"}

CallsOK ==
    /\ pc \in [Jobs -> Control]
    /\ result \in [Jobs -> {"none", "rulesOK", "ok", "error"}]
    /\ defers \in [Jobs -> Seq(Deferred)]
    /\ temps \in [Jobs -> SUBSET Temp]

LEMMA CreateTempTyped ==
    ASSUME CallsOK, NEW j \in Jobs, NEW x \in Temp, NEW l \in Control, CreateTemp(j, x, l)
    PROVE  CallsOK'
  <1> USE DEF CallsOK, Goto, Return
  <1>1. CASE Return(j, "error") /\ UNCHANGED <<defers, temps>>
    BY <1>1 DEF Control
  <1>2. CASE /\ temps' = [temps EXCEPT ![j] = @ \cup {x}]
             /\ Defer(j, x) /\ Goto(j, l) /\ UNCHANGED result
    <2>1. defers' = [defers EXCEPT ![j] = <<x>> \o @]
      BY <1>2 DEF Defer
    <2>2. <<x>> \o defers[j] \in Seq(Deferred)
      BY Pushed DEF Deferred
    <2>3. defers' \in [Jobs -> Seq(Deferred)]
      BY <2>1, <2>2
    <2> QED
      BY <1>2, <2>3
  <1> QED
    BY <1>1, <1>2 DEF CreateTemp

LEMMA TypeStep ==
    ASSUME TypeOK, NEW j \in Jobs, JobInv(j), Step(j)
    PROVE  TypeOK'
  <1> USE JobsAssumption, PortsAssumption
      DEF TypeOK, callVars, portVars, processVars, blockVars, Goto, Return, Run
  <1>0. CallsOK
    BY DEF CallsOK, Control
  <1>1. CASE Begin(j)
    <2>1. CASE CreateTemp(j, "series", "series")
      <3>1. CallsOK'
        BY <1>0, <2>1, CreateTempTyped DEF Temp, Control
      <3> QED
        BY <1>1, <3>1 DEF Begin, CallsOK, Control
    <2>2. CASE Goto(j, "rules") /\ UNCHANGED <<result, defers, temps>>
      BY <1>1, <2>2 DEF Begin
    <2> QED
      BY <1>1, <2>1, <2>2 DEF Begin
  <1>2. CASE BackfillOpenMetricsSeries(j)
    BY <1>2 DEF BackfillOpenMetricsSeries
  <1>3. CASE CreateRuleFile(j)
    <2>1. CASE CreateTemp(j, "rules", "mkdir")
      <3>1. CallsOK'
        BY <1>0, <2>1, CreateTempTyped DEF Temp, Control
      <3> QED
        BY <1>3, <3>1 DEF CreateRuleFile, CallsOK, Control
    <2>2. CASE Return(j, "ok") /\ UNCHANGED <<defers, temps>>
      BY <1>3, <2>2 DEF CreateRuleFile
    <2> QED
      BY <1>3, <2>1, <2>2 DEF CreateRuleFile
  <1>4. CASE MkdirTemp(j) \/ CreateConfig(j)
    <2>1. CallsOK'
      BY <1>0, <1>4, CreateTempTyped DEF MkdirTemp, CreateConfig, Temp, Control
    <2> QED
      BY <1>4, <2>1 DEF MkdirTemp, CreateConfig, CallsOK, Control
  <1>5. CASE findAvailablePort(j)
    <2>1. CASE Return(j, "error") /\ UNCHANGED <<port, contended>>
      BY <1>5, <2>1 DEF findAvailablePort
    <2>2. CASE ~(Return(j, "error") /\ UNCHANGED <<port, contended>>)
      <3> PICK p \in Ports :
            /\ port' = [port EXCEPT ![j] = p]
            /\ contended' \subseteq contended \cup {o \in Jobs \ {j} : Claims(o, p)} \cup {j}
            /\ Goto(j, "start") /\ UNCHANGED result
        BY <1>5, <2>2 DEF findAvailablePort
      <3> QED
        BY <1>5 DEF findAvailablePort
    <2> QED
      BY <2>1, <2>2
  <1>6. CASE StartProcess(j)
    BY <1>6 DEF StartProcess
  <1>7. CASE CheckReady(j)
    <2>1. CASE Serving(j, "ready") # {} /\ Defer(j, "close") /\ Run(j, "rules")
               /\ Goto(j, "promtool") /\ UNCHANGED checks
      <3>1. <<"close">> \o defers[j] \in Seq(Deferred)
        BY Pushed DEF Deferred
      <3>2. defers' \in [Jobs -> Seq(Deferred)]
        BY <2>1, <3>1 DEF Defer
      <3> QED
        BY <1>7, <2>1, <3>2 DEF CheckReady
    <2>2. CASE CountAttempt(j) /\ UNCHANGED <<pc, defers, promtool>>
      BY <1>7, <2>2 DEF CheckReady, AttemptsLeft, CountAttempt
    <2> QED
      BY <1>7, <2>1, <2>2 DEF CheckReady
  <1>8. CASE GiveUp(j)
    BY <1>8 DEF GiveUp
  <1>9. CASE PromtoolBlock(j)
    <2>1. CASE promtool[j] = "series"
      <3> DEFINE n == Cardinality(Of("series", tsdb[j])) + 1
      <3>1. n \in 1..SeriesBlocks /\ tsdb' = [tsdb EXCEPT ![j] = @ \cup {<<"series", n, j>>}]
        <4>1. Cardinality(Of("series", tsdb[j])) \in 0..SeriesBlocks
          BY NextSeriesBlock
        <4> QED
          BY <1>9, <2>1, <4>1 DEF PromtoolBlock
      <3> HIDE DEF n
      <3> QED
        BY <1>9, <2>1, <3>1 DEF PromtoolBlock, Block
    <2>2. CASE promtool[j] = "rules"
      <3>0. temps' \in [Jobs -> SUBSET Temp]
        <4>1. temps' = [temps EXCEPT ![j] = @ \cup {"dir"}]
          BY <1>9, <2>2 DEF PromtoolBlock
        <4> QED
          BY <4>1 DEF Temp
      <3>1. PICK o \in Jobs :
              dir' = [dir EXCEPT ![j] = @ \cup {<<"rules", created[j] + 1, o>>}]
        BY <1>9, <2>2 DEF PromtoolBlock, Serving
      <3>2. created[j] + 1 \in 1..MaxBlocks /\ created' = [created EXCEPT ![j] = @ + 1]
        BY <1>9, <2>2 DEF PromtoolBlock
      <3>3. <<"rules", created[j] + 1, o>> \in Block
        BY <3>2 DEF Block
      <3>4. dir' \in [Jobs -> SUBSET Block]
        BY <3>1, <3>3
      <3> QED
        BY <1>9, <2>2, <3>0, <3>2, <3>4 DEF PromtoolBlock
    <2> QED
      BY <1>9, <2>1, <2>2 DEF PromtoolBlock
  <1>10. CASE PromtoolExit(j)
    BY <1>10 DEF PromtoolExit
  <1>11. CASE RemoveTemp(j)
    BY <1>11, Popped DEF RemoveTemp, Unwinding, Undefer
  <1>12. CASE Close(j)
    BY <1>12 DEF Close
  <1>13. CASE Wait(j)
    <2>1. defers[j] # <<>>
      BY <1>13 DEF Wait, JobInv, CloseLast
    <2> QED
      BY <1>13, <2>1, Popped DEF Wait, Undefer
  <1>14. CASE ListBlocks(j) \/ MovedAll(j)
    BY <1>14 DEF ListBlocks, MovedAll
  <1>15. CASE MoveBlock(j)
    <2> PICK b \in dir[j] :
         \/ Rename(j, b) /\ UNCHANGED <<pc, result>>
         \/ Return(j, "error") /\ UNCHANGED <<dir, tsdb>>
      BY <1>15 DEF MoveBlock
    <2>1. CASE Rename(j, b) /\ UNCHANGED <<pc, result>>
      BY <1>15, <2>1 DEF MoveBlock, Rename
    <2>2. CASE Return(j, "error") /\ UNCHANGED <<dir, tsdb>>
      BY <1>15, <2>2 DEF MoveBlock
    <2> QED
      BY <2>1, <2>2
  <1>16. CASE End(j) \/ Crash(j)
    BY <1>16 DEF End, Crash
  <1>17. CASE ServerBind(j)
    BY <1>17 DEF ServerBind
  <1>18. CASE ServerProgress(j)
    BY <1>18 DEF ServerProgress
  <1>19. CASE ServerExit(j)
    BY <1>19 DEF ServerExit
  <1>20. CASE ReadFails(j)
    BY <1>20 DEF ReadFails
  <1> QED
    BY <1>1, <1>2, <1>3, <1>4, <1>5, <1>6, <1>7, <1>8, <1>9, <1>10, <1>11, <1>12, <1>13,
       <1>14, <1>15, <1>16, <1>17, <1>18, <1>19, <1>20 DEF Step, JobStep, PromtoolStep

(* It changes nothing of another job.                                       *)
LEMMA OthersUntouched ==
    ASSUME TypeOK, NEW j \in Jobs, Step(j), NEW o \in Jobs, o # j
    PROVE  Local(o)' = Local(o)
  <1> USE DEF TypeOK, Local, callVars, portVars, processVars, blockVars, Goto, Return, Run
  <1>1. CASE \/ Begin(j) \/ CreateRuleFile(j) \/ MkdirTemp(j) \/ CreateConfig(j)
             \/ BackfillOpenMetricsSeries(j)
    BY <1>1 DEF Begin, CreateRuleFile, MkdirTemp, CreateConfig, CreateTemp, Defer,
         BackfillOpenMetricsSeries
  <1>2. CASE findAvailablePort(j) \/ StartProcess(j) \/ CheckReady(j) \/ GiveUp(j)
    BY <1>2 DEF findAvailablePort, StartProcess, CheckReady, Defer, CountAttempt, GiveUp
  <1>3. CASE PromtoolBlock(j) \/ PromtoolExit(j) \/ ReadFails(j)
    BY <1>3 DEF PromtoolBlock, PromtoolExit, ReadFails
  <1>4. CASE RemoveTemp(j) \/ Close(j) \/ Wait(j) \/ End(j) \/ Crash(j)
    BY <1>4 DEF RemoveTemp, Close, Wait, Undefer, End, Crash
  <1>5. CASE ListBlocks(j) \/ MoveBlock(j) \/ MovedAll(j)
    BY <1>5 DEF ListBlocks, MoveBlock, Rename, MovedAll
  <1>6. CASE ServerBind(j) \/ ServerProgress(j) \/ ServerExit(j)
    BY <1>6 DEF ServerBind, ServerProgress, ServerExit
  <1> QED
    BY <1>1, <1>2, <1>3, <1>4, <1>5, <1>6 DEF Step, JobStep, PromtoolStep

-----------------------------------------------------------------------------
(* The parts of JobInv, one lemma each: a step of the job keeps it.         *)

LEMMA CreateTempDefers ==
    ASSUME TypeOK, NEW j \in Jobs, NEW x \in Temp, NEW l \in Control, CreateTemp(j, x, l)
    PROVE  \/ UNCHANGED <<defers, temps>> /\ pc'[j] = "return" /\ result'[j] = "error"
           \/ /\ temps'[j] = temps[j] \cup {x} /\ pc'[j] = l /\ UNCHANGED result
              /\ Head(defers'[j]) = x /\ Tail(defers'[j]) = defers[j] /\ defers'[j] # <<>>
              /\ Elements(defers'[j]) = {x} \cup Elements(defers[j])
  <1> USE DEF TypeOK, Goto, Return
  <1>1. CASE Return(j, "error") /\ UNCHANGED <<defers, temps>>
    BY <1>1
  <1>2. CASE temps' = [temps EXCEPT ![j] = @ \cup {x}] /\ Defer(j, x) /\ Goto(j, l)
             /\ UNCHANGED result
    <2>1. defers'[j] = <<x>> \o defers[j] /\ temps'[j] = temps[j] \cup {x} /\ pc'[j] = l
      BY <1>2 DEF Defer
    <2>2. defers[j] \in Seq(Deferred) /\ x \in Deferred
      BY DEF Deferred
    <2> QED
      BY <1>2, <2>1, <2>2, Pushed
  <1> QED
    BY <1>1, <1>2 DEF CreateTemp

LEMMA CheckReadyDefers ==
    ASSUME TypeOK, NEW j \in Jobs, CheckReady(j)
    PROVE  \/ UNCHANGED <<pc, defers, promtool>>
           \/ /\ pc'[j] = "promtool" /\ promtool'[j] = "rules"
              /\ Head(defers'[j]) = "close" /\ Tail(defers'[j]) = defers[j] /\ defers'[j] # <<>>
              /\ Elements(defers'[j]) = {"close"} \cup Elements(defers[j])
  <1> USE DEF TypeOK, CheckReady, Goto, Run
  <1>1. CASE Defer(j, "close") /\ Run(j, "rules") /\ Goto(j, "promtool")
    <2>1. defers'[j] = <<"close">> \o defers[j] /\ pc'[j] = "promtool" /\ promtool'[j] = "rules"
      BY <1>1 DEF Defer
    <2>2. defers[j] \in Seq(Deferred) /\ "close" \in Deferred
      BY DEF Deferred
    <2> QED
      BY <2>1, <2>2, Pushed
  <1> QED
    BY <1>1

LEMMA PopDefers ==
    ASSUME TypeOK, NEW j \in Jobs, JobInv(j), RemoveTemp(j) \/ Wait(j)
    PROVE  /\ defers[j] # <<>> /\ defers'[j] = Tail(defers[j]) /\ pc'[j] = "return"
           /\ pc[j] \in {"return", "wait"} /\ (pc[j] = "wait" <=> Wait(j))
           /\ temps'[j] = temps[j] \ {Head(defers[j])}
           /\ Elements(defers[j]) = {Head(defers[j])} \cup Elements(Tail(defers[j]))
  <1> USE DEF TypeOK, Undefer, Goto
  <1>1. defers[j] # <<>>
    BY DEF RemoveTemp, Wait, Unwinding, JobInv, CloseLast
  <1>2. CASE RemoveTemp(j)
    BY <1>1, <1>2, Popped DEF RemoveTemp, Unwinding, Wait
  <1>3. CASE Wait(j)
    <2>1. Head(defers[j]) \notin temps[j]
      BY <1>3 DEF Wait, JobInv, CloseLast, Temp
    <2> QED
      BY <1>1, <1>3, <2>1, Popped DEF Wait, RemoveTemp
  <1> QED
    BY <1>2, <1>3

(* The steps that create files, push or pop deferred calls.                 *)
Creates(j) == Begin(j) \/ CreateRuleFile(j) \/ MkdirTemp(j) \/ CreateConfig(j)

Defers(j) == Creates(j) \/ CheckReady(j) \/ PromtoolBlock(j) \/ RemoveTemp(j) \/ Wait(j)

LEMMA OthersDeferNothing ==
    ASSUME TypeOK, NEW j \in Jobs, Step(j), ~Defers(j)
    PROVE  UNCHANGED <<defers, temps>> /\ (pc[j] = "crashed" => pc'[j] = "crashed")
  <1> USE DEF TypeOK, callVars, Goto, Return
  <1>1. CASE BackfillOpenMetricsSeries(j) \/ StartProcess(j) \/ GiveUp(j)
    BY <1>1 DEF BackfillOpenMetricsSeries, StartProcess, GiveUp
  <1>2. CASE findAvailablePort(j)
    BY <1>2 DEF findAvailablePort
  <1>3. CASE ReadFails(j)
    BY <1>3 DEF ReadFails
  <1>4. CASE PromtoolExit(j) \/ Close(j)
    BY <1>4 DEF PromtoolExit, Close, Unwinding
  <1>5. CASE ListBlocks(j) \/ MoveBlock(j) \/ MovedAll(j) \/ End(j) \/ Crash(j)
    BY <1>5 DEF ListBlocks, MoveBlock, MovedAll, End, Crash
  <1>6. CASE ServerBind(j) \/ ServerProgress(j) \/ ServerExit(j)
    BY <1>6 DEF ServerBind, ServerProgress, ServerExit
  <1> QED
    BY <1>1, <1>2, <1>3, <1>4, <1>5, <1>6 DEF Step, JobStep, PromtoolStep, Defers, Creates

LEMMA CloseLastStep ==
    ASSUME TypeOK, NEW j \in Jobs, JobInv(j), Step(j)
    PROVE  CloseLast(j)'
  <1>0. CloseLast(j)
    BY DEF JobInv
  <1> USE <1>0 DEF CloseLast
  <1>1. CASE Creates(j)
    <2>1. pc[j] \in {"begin", "rules", "mkdir", "config"} /\ pc'[j] # "wait"
      BY <1>1 DEF Creates, Begin, CreateRuleFile, MkdirTemp, CreateConfig, CreateTemp,
           Goto, Return, TypeOK
    <2>2. CASE \E x \in Temp, l \in Control : CreateTemp(j, x, l)
      BY <2>1, <2>2, CreateTempDefers DEF Temp
    <2>3. CASE UNCHANGED <<defers, temps>>
      BY <2>1, <2>3
    <2> QED
      BY <1>1, <2>2, <2>3
      DEF Creates, Begin, CreateRuleFile, MkdirTemp, CreateConfig, Temp, Control
  <1>2. CASE CheckReady(j)
    <2>1. pc[j] = "check"
      BY <1>2 DEF CheckReady
    <2> QED
      BY <1>2, <2>1, CheckReadyDefers
  <1>3. CASE RemoveTemp(j)
    <2>1. Head(defers[j]) # "close"
      BY <1>3 DEF RemoveTemp, Temp
    <2> QED
      BY <1>3, <2>1, PopDefers
  <1>4. CASE Wait(j)
    BY <1>4, PopDefers
  <1>5. CASE PromtoolBlock(j)
    BY <1>5 DEF PromtoolBlock, processVars
  <1>6. CASE ~Defers(j)
    <2>1. UNCHANGED defers
      BY <1>6, OthersDeferNothing
    <2> USE <2>1 DEF TypeOK, callVars, processVars, Goto, Return, Run
    <2>2. CASE BackfillOpenMetricsSeries(j) \/ StartProcess(j) \/ GiveUp(j)
      BY <2>2 DEF BackfillOpenMetricsSeries, StartProcess, GiveUp
    <2>3. CASE findAvailablePort(j)
      BY <2>3 DEF findAvailablePort
    <2>4. CASE ReadFails(j)
      BY <2>4 DEF ReadFails
    <2>5. CASE PromtoolExit(j)
      BY <2>5 DEF PromtoolExit
    <2>6. CASE Close(j)
      <3>1. pc[j] = "return" /\ pc'[j] = "wait" /\ defers[j] # <<>> /\ Head(defers[j]) = "close"
        BY <2>6 DEF Close, Unwinding
      <3> QED
        BY <3>1
    <2>7. CASE ListBlocks(j) \/ End(j)
      <3>1. "close" \notin Elements(defers[j])
        BY <2>7 DEF ListBlocks, End, Unwinding, Inner, Elements
      <3>2. pc'[j] # "wait"
        BY <2>7 DEF ListBlocks, End
      <3> QED
        BY <3>1, <3>2
    <2>8. CASE MoveBlock(j) \/ MovedAll(j)
      BY <2>8 DEF MoveBlock, MovedAll
    <2>9. CASE Crash(j)
      BY <2>9 DEF Crash
    <2>10. CASE ServerBind(j) \/ ServerProgress(j) \/ ServerExit(j)
      BY <2>10 DEF ServerBind, ServerProgress, ServerExit
    <2> QED
      BY <1>6, <2>2, <2>3, <2>4, <2>5, <2>6, <2>7, <2>8, <2>9, <2>10
      DEF Step, JobStep, PromtoolStep, Defers, Creates
  <1> QED
    BY <1>1, <1>2, <1>3, <1>4, <1>5, <1>6 DEF Defers

(* The steps that may bring a Prometheus to life or end one.                *)
Serves(j) == StartProcess(j) \/ ServerBind(j) \/ ServerProgress(j) \/ ServerExit(j)

LEMMA OthersServeNothing ==
    ASSUME TypeOK, NEW j \in Jobs, Step(j), ~Serves(j)
    PROVE  UNCHANGED server
  <1> USE DEF processVars
  <1>1. CASE Creates(j) \/ BackfillOpenMetricsSeries(j) \/ findAvailablePort(j)
    BY <1>1 DEF Creates, Begin, CreateRuleFile, MkdirTemp, CreateConfig,
         BackfillOpenMetricsSeries, findAvailablePort
  <1>2. CASE CheckReady(j) \/ GiveUp(j) \/ PromtoolBlock(j) \/ PromtoolExit(j) \/ ReadFails(j)
    BY <1>2 DEF CheckReady, GiveUp, PromtoolBlock, PromtoolExit, ReadFails
  <1>3. CASE RemoveTemp(j) \/ Close(j) \/ Wait(j) \/ End(j) \/ Crash(j)
    BY <1>3 DEF RemoveTemp, Close, Wait, End, Crash
  <1>4. CASE ListBlocks(j) \/ MoveBlock(j) \/ MovedAll(j)
    BY <1>4 DEF ListBlocks, MoveBlock, MovedAll
  <1> QED
    BY <1>1, <1>2, <1>3, <1>4 DEF Step, JobStep, PromtoolStep, Serves, Creates

LEMMA ServerKeptStep ==
    ASSUME TypeOK, NEW j \in Jobs, JobInv(j), Step(j)
    PROVE  ServerKept(j)'
  <1>0. ServerKept(j) /\ CloseLast(j)
    BY DEF JobInv
  <1> USE <1>0 DEF ServerKept, Alive, Bound
  <1>1. CASE StartProcess(j)
    BY <1>1 DEF StartProcess, TypeOK, Goto, Return
  <1>2. CASE ServerBind(j) \/ ServerProgress(j) \/ ServerExit(j)
    <2>1. UNCHANGED <<pc, result, defers, checks>>
      BY <1>2 DEF ServerBind, ServerProgress, ServerExit, callVars, portVars
    <2>2. Alive(j)' => Alive(j)
      BY <1>2 DEF ServerBind, ServerProgress, ServerExit, TypeOK
    <2> QED
      BY <2>1, <2>2
  <1>3. CASE ~Serves(j)
    <2>0. UNCHANGED server
      BY <1>3, OthersServeNothing
    <2> USE <2>0 DEF TypeOK, callVars, portVars, Goto, Return, Run
    <2>1. CASE Creates(j) \/ BackfillOpenMetricsSeries(j)
      <3>1. ~Alive(j)
        BY <2>1 DEF Creates, Begin, CreateRuleFile, MkdirTemp, CreateConfig,
             BackfillOpenMetricsSeries
      <3> QED
        BY <3>1
    <2>2. CASE findAvailablePort(j)
      <3>1. ~Alive(j)
        BY <2>2 DEF findAvailablePort
      <3> QED
        BY <3>1
    <2>3. CASE CheckReady(j)
      <3>1. pc[j] = "check"
        BY <2>3 DEF CheckReady
      <3> QED
        BY <2>3, <3>1, CheckReadyDefers
    <2>4. CASE GiveUp(j)
      BY <2>4 DEF GiveUp
    <2>5. CASE PromtoolBlock(j)
      BY <2>5 DEF PromtoolBlock
    <2>6. CASE PromtoolExit(j) \/ ReadFails(j)
      <3>1. Elements(defers[j]) = {Head(defers[j])} \cup Elements(Tail(defers[j]))
              \/ defers[j] = <<>>
        BY Popped
      <3> QED
        BY <2>6, <3>1 DEF PromtoolExit, ReadFails, CloseLast
    <2>7. CASE RemoveTemp(j)
      <3>1. /\ pc[j] = "return" /\ Head(defers[j]) # "close"
            /\ pc'[j] = pc[j] /\ result'[j] = result[j] /\ checks'[j] = checks[j]
        BY <2>7 DEF RemoveTemp, Unwinding, Temp
      <3> QED
        BY <3>1
    <2>8. CASE Close(j)
      BY <2>8 DEF Close, Unwinding
    <2>9. CASE Wait(j)
      BY <2>9 DEF Wait, Exited
    <2>10. CASE ListBlocks(j) \/ MoveBlock(j) \/ MovedAll(j)
      <3>1. ~Alive(j)
        BY <2>10 DEF ListBlocks, MoveBlock, MovedAll, Unwinding, Inner
      <3> QED
        BY <3>1
    <2>11. CASE End(j)
      BY <2>11 DEF End
    <2>12. CASE Crash(j)
      BY <2>12 DEF Crash
    <2> QED
      BY <1>3, <2>1, <2>2, <2>3, <2>4, <2>5, <2>6, <2>7, <2>8, <2>9, <2>10, <2>11, <2>12
      DEF Step, JobStep, PromtoolStep, Serves, Creates
  <1> QED
    BY <1>1, <1>2, <1>3 DEF Serves

(* The steps that may write or move blocks, or remove them.                 *)
Blocks(j) == PromtoolBlock(j) \/ RemoveTemp(j) \/ MoveBlock(j)

LEMMA OthersLeaveBlocks ==
    ASSUME TypeOK, NEW j \in Jobs, Step(j), ~Blocks(j)
    PROVE  UNCHANGED blockVars
  <1>1. CASE Creates(j) \/ BackfillOpenMetricsSeries(j) \/ findAvailablePort(j)
    BY <1>1 DEF Creates, Begin, CreateRuleFile, MkdirTemp, CreateConfig,
         BackfillOpenMetricsSeries, findAvailablePort
  <1>2. CASE StartProcess(j) \/ CheckReady(j) \/ GiveUp(j) \/ PromtoolExit(j) \/ ReadFails(j)
    BY <1>2 DEF StartProcess, CheckReady, GiveUp, PromtoolExit, ReadFails
  <1>3. CASE Close(j) \/ Wait(j) \/ End(j) \/ Crash(j) \/ ListBlocks(j) \/ MovedAll(j)
    BY <1>3 DEF Close, Wait, End, Crash, ListBlocks, MovedAll
  <1>4. CASE ServerBind(j) \/ ServerProgress(j) \/ ServerExit(j)
    BY <1>4 DEF ServerBind, ServerProgress, ServerExit
  <1> QED
    BY <1>1, <1>2, <1>3, <1>4 DEF Step, JobStep, PromtoolStep, Blocks, Creates

(* The steps that start or end a promtool.                                  *)
Runs(j) == BackfillOpenMetricsSeries(j) \/ CheckReady(j) \/ PromtoolExit(j)

LEMMA OthersRunNothing ==
    ASSUME TypeOK, NEW j \in Jobs, Step(j), ~Runs(j)
    PROVE  UNCHANGED promtool
  <1> USE DEF processVars
  <1>1. CASE Creates(j) \/ findAvailablePort(j) \/ StartProcess(j) \/ GiveUp(j) \/ ReadFails(j)
    BY <1>1 DEF Creates, Begin, CreateRuleFile, MkdirTemp, CreateConfig,
         findAvailablePort, StartProcess, GiveUp, ReadFails
  <1>2. CASE PromtoolBlock(j) \/ RemoveTemp(j) \/ Close(j) \/ Wait(j) \/ End(j) \/ Crash(j)
    BY <1>2 DEF PromtoolBlock, RemoveTemp, Close, Wait, End, Crash
  <1>3. CASE ListBlocks(j) \/ MoveBlock(j) \/ MovedAll(j)
    BY <1>3 DEF ListBlocks, MoveBlock, MovedAll
  <1>4. CASE ServerBind(j) \/ ServerProgress(j) \/ ServerExit(j)
    BY <1>4 DEF ServerBind, ServerProgress, ServerExit
  <1> QED
    BY <1>1, <1>2, <1>3, <1>4 DEF Step, JobStep, PromtoolStep, Runs, Creates

LEMMA WantsKept ==
    ASSUME NEW j \in Jobs, Step(j)
    PROVE  UNCHANGED wants
  <1>1. CASE Creates(j) \/ Runs(j) \/ Blocks(j)
    BY <1>1 DEF Creates, Runs, Blocks, Begin, CreateRuleFile, MkdirTemp, CreateConfig,
         BackfillOpenMetricsSeries, CheckReady, PromtoolExit, PromtoolBlock, RemoveTemp, MoveBlock
  <1>2. CASE findAvailablePort(j) \/ GiveUp(j) \/ ReadFails(j) \/ Close(j) \/ Wait(j)
    BY <1>2 DEF findAvailablePort, GiveUp, ReadFails, Close, Wait
  <1>3. CASE ListBlocks(j) \/ MovedAll(j) \/ End(j) \/ Crash(j) \/ Serves(j)
    BY <1>3 DEF ListBlocks, MovedAll, End, Crash, Serves, ServerBind, ServerProgress,
         ServerExit, StartProcess
  <1> QED
    BY <1>1, <1>2, <1>3 DEF Step, JobStep, PromtoolStep, Creates, Runs, Blocks, Serves

(* Where a job goes from where it is, as far as the parts below look.       *)
Onward(j) ==
    /\ promtool'[j] \in {promtool[j], "none"} \/ (pc[j] \in {"series", "check"} /\ pc'[j] = "promtool")
    /\ j \in abandoned => j \in abandoned'
    /\ j \in abandoned' =>
         j \in abandoned \/ (pc[j] = "promtool" /\ pc'[j] = "return" /\ result'[j] = "error")
    /\ \/ pc'[j] = pc[j] /\ result'[j] = result[j]
       \/ pc[j] \notin {"ended", "crashed"} /\ pc'[j] = "crashed" /\ result'[j] = result[j]
       \/ pc'[j] = "return" /\ result'[j] = "error" /\ pc[j] \notin {"ended", "crashed"}
            /\ (pc[j] = "promtool" => promtool'[j] = "none" \/ j \in abandoned')
       \/ pc[j] = "begin" /\ pc'[j] = "series" /\ result'[j] = result[j]
            /\ "series" \in wants[j]
       \/ pc[j] = "begin" /\ pc'[j] = "rules" /\ result'[j] = result[j]
            /\ "series" \notin wants[j]
       \/ pc[j] = "series" /\ pc'[j] = "promtool" /\ result'[j] = result[j]
            /\ BackfillOpenMetricsSeries(j) /\ promtool'[j] = "series"
       \/ pc[j] = "rules" /\ pc'[j] = "mkdir" /\ result'[j] = result[j]
            /\ "rules" \in wants[j]
       \/ pc[j] = "rules" /\ pc'[j] = "return" /\ result'[j] = "ok"
            /\ "rules" \notin wants[j]
       \/ pc[j] = "mkdir" /\ pc'[j] = "config" /\ result'[j] = result[j]
            /\ temps'[j] = temps[j] \cup {"dir"}
       \/ pc[j] = "config" /\ pc'[j] = "port" /\ result'[j] = result[j]
       \/ pc[j] = "port" /\ pc'[j] = "start" /\ result'[j] = result[j]
            /\ findAvailablePort(j)
       \/ pc[j] = "start" /\ pc'[j] = "check" /\ result'[j] = result[j]
       \/ pc[j] = "check" /\ pc'[j] = "promtool" /\ result'[j] = result[j]
            /\ CheckReady(j) /\ promtool'[j] = "rules"
       \/ pc[j] = "promtool" /\ pc'[j] = "rules" /\ result'[j] = result[j]
            /\ PromtoolExit(j) /\ promtool'[j] = "none" /\ promtool[j] = "series"
       \/ pc[j] = "promtool" /\ pc'[j] = "return" /\ result'[j] = "rulesOK"
            /\ PromtoolExit(j) /\ promtool'[j] = "none" /\ promtool[j] = "rules"
       \/ pc[j] = "return" /\ pc'[j] = "wait" /\ result'[j] = result[j]
       \/ pc[j] = "wait" /\ pc'[j] = "return" /\ result'[j] = result[j]
       \/ pc[j] = "return" /\ pc'[j] = "move" /\ result[j] = "rulesOK" /\ result'[j] = "none"
       \/ pc[j] = "move" /\ pc'[j] = "return" /\ result'[j] = "ok" /\ dir[j] = {}
       \/ pc[j] = "return" /\ pc'[j] = "ended" /\ result'[j] = result[j] /\ result[j] # "rulesOK"
            /\ defers[j] = <<>>

LEMMA StepOnward ==
    ASSUME TypeOK, NEW j \in Jobs, Step(j)
    PROVE  Onward(j)
  <1> USE DEF TypeOK, callVars, processVars, Goto, Return, Run, Onward
  <1>1. CASE Begin(j) \/ CreateRuleFile(j)
    BY <1>1 DEF Begin, CreateRuleFile, CreateTemp
  <1>2. CASE MkdirTemp(j) \/ CreateConfig(j)
    BY <1>2 DEF MkdirTemp, CreateConfig, CreateTemp
  <1>3. CASE BackfillOpenMetricsSeries(j) \/ StartProcess(j) \/ GiveUp(j)
    BY <1>3 DEF BackfillOpenMetricsSeries, StartProcess, GiveUp
  <1>4. CASE findAvailablePort(j)
    <2>1. /\ pc[j] = "port" /\ UNCHANGED <<promtool, abandoned>>
          /\ \/ pc'[j] = "return" /\ result'[j] = "error"
             \/ pc'[j] = "start" /\ result'[j] = result[j]
      BY <1>4 DEF findAvailablePort
    <2> QED
      BY <1>4, <2>1
  <1>5. CASE CheckReady(j)
    BY <1>5 DEF CheckReady
  <1>6. CASE PromtoolBlock(j)
    BY <1>6 DEF PromtoolBlock
  <1>7. CASE PromtoolExit(j)
    BY <1>7 DEF PromtoolExit
  <1>8. CASE RemoveTemp(j) \/ Close(j) \/ Wait(j)
    BY <1>8 DEF RemoveTemp, Close, Wait, Unwinding
  <1>9. CASE ListBlocks(j) \/ MovedAll(j) \/ End(j)
    BY <1>9 DEF ListBlocks, MovedAll, End
  <1>10. CASE MoveBlock(j)
    BY <1>10 DEF MoveBlock
  <1>11. CASE Crash(j)
    BY <1>11 DEF Crash
  <1>12. CASE ServerBind(j) \/ ServerProgress(j) \/ ServerExit(j)
    BY <1>12 DEF ServerBind, ServerProgress, ServerExit
  <1>13. CASE ReadFails(j)
    BY <1>13 DEF ReadFails
  <1> QED
    BY <1>1, <1>2, <1>3, <1>4, <1>5, <1>6, <1>7, <1>8, <1>9, <1>10, <1>11, <1>12, <1>13
    DEF Step, JobStep, PromtoolStep

LEMMA FilesDeferredStep ==
    ASSUME TypeOK, NEW j \in Jobs, JobInv(j), Step(j)
    PROVE  FilesDeferred(j)'
  <1>0. FilesDeferred(j) /\ Recreated(j) \subseteq Recreated(j)'
    BY StepOnward DEF JobInv, Onward, Recreated
  <1> USE <1>0 DEF FilesDeferred
  <1>1. CASE Creates(j)
    <2>0. pc[j] # "crashed"
      BY <1>1 DEF Creates, Begin, CreateRuleFile, MkdirTemp, CreateConfig
    <2>1. CASE \E x \in Temp, l \in Control : CreateTemp(j, x, l)
      BY <2>0, <2>1, CreateTempDefers
    <2>2. CASE UNCHANGED <<defers, temps>>
      BY <2>0, <2>2
    <2> QED
      BY <1>1, <2>1, <2>2
      DEF Creates, Begin, CreateRuleFile, MkdirTemp, CreateConfig, Temp, Control
  <1>2. CASE CheckReady(j)
    <2>1. UNCHANGED temps /\ pc[j] # "crashed"
      BY <1>2 DEF CheckReady
    <2> QED
      BY <1>2, <2>1, CheckReadyDefers
  <1>3. CASE RemoveTemp(j) \/ Wait(j)
    <2>1. pc[j] # "crashed"
      BY <1>3, PopDefers
    <2> QED
      BY <1>3, <2>1, PopDefers, Zenon
  <1>4. CASE PromtoolBlock(j)
    <2>1. UNCHANGED <<pc, defers>> /\ (temps'[j] = temps[j] \/ promtool[j] = "rules")
          /\ temps'[j] \subseteq temps[j] \cup {"dir"}
      BY <1>4 DEF PromtoolBlock, TypeOK
    <2>2. promtool[j] = "rules" => "dir" \in temps[j] \cup Recreated(j)
      BY DEF JobInv, DirectoryKept, Recreated
    <2> QED
      BY <2>1, <2>2
  <1>5. CASE ~Defers(j)
    BY <1>5, OthersDeferNothing
  <1> QED
    BY <1>1, <1>2, <1>3, <1>4, <1>5 DEF Defers

LEMMA PromtoolKeptStep ==
    ASSUME TypeOK, NEW j \in Jobs, JobInv(j), Step(j)
    PROVE  PromtoolKept(j)'
  BY StepOnward, WantsKept DEF JobInv, PromtoolKept, Onward

(* Rule blocks of the TSDB directory come from a rename.                    *)
LEMMA RulesMoved ==
    ASSUME TypeOK, NEW j \in Jobs, Step(j), ~MoveBlock(j)
    PROVE  Of("rules", tsdb'[j]) = Of("rules", tsdb[j])
  <1>1. CASE PromtoolBlock(j)
    <2>1. CASE promtool[j] = "series"
      <3> DEFINE n == Cardinality(Of("series", tsdb[j])) + 1
      <3>1. tsdb' = [tsdb EXCEPT ![j] = @ \cup {<<"series", n, j>>}]
        BY <1>1, <2>1 DEF PromtoolBlock
      <3> HIDE DEF n
      <3>2. tsdb'[j] = tsdb[j] \cup {<<"series", n, j>>}
        BY <3>1 DEF TypeOK
      <3> QED
        BY <3>2 DEF Of
    <2>2. CASE promtool[j] # "series"
      BY <1>1, <2>2 DEF PromtoolBlock
    <2> QED
      BY <2>1, <2>2
  <1>2. CASE RemoveTemp(j)
    BY <1>2 DEF RemoveTemp
  <1>3. CASE ~Blocks(j)
    BY <1>3, OthersLeaveBlocks DEF blockVars
  <1> QED
    BY <1>1, <1>2, <1>3 DEF Blocks

LEMMA RulesLastStep ==
    ASSUME TypeOK, NEW j \in Jobs, JobInv(j), Step(j)
    PROVE  RulesLast(j)'
  <1>0. RulesLast(j) /\ ServerKept(j) /\ PromtoolKept(j)
    BY DEF JobInv
  <1>1. Alive(j)' => Alive(j) \/ pc[j] = "start"
    <2>1. CASE StartProcess(j)
      BY <2>1 DEF StartProcess
    <2>2. CASE ServerBind(j) \/ ServerProgress(j) \/ ServerExit(j)
      BY <2>2 DEF ServerBind, ServerProgress, ServerExit, TypeOK, Alive, Bound
    <2>3. CASE ~Serves(j)
      BY <2>3, OthersServeNothing DEF Alive, Bound
    <2> QED
      BY <2>1, <2>2, <2>3 DEF Serves
  <1>2. CASE MoveBlock(j)
    <2>1. pc[j] = "move" /\ pc'[j] \in {"move", "return"} /\ UNCHANGED promtool
      BY <1>2 DEF MoveBlock, Return, Goto, TypeOK, processVars
    <2> QED
      BY <1>0, <1>1, <2>1 DEF RulesLast, ServerKept, PromtoolKept
  <1>3. CASE ~MoveBlock(j)
    <2>1. Of("rules", tsdb'[j]) = Of("rules", tsdb[j])
      BY <1>3, RulesMoved
    <2> QED
      BY <1>0, <1>1, <2>1, StepOnward DEF RulesLast, Onward
  <1> QED
    BY <1>2, <1>3

LEMMA DirectoryKeptStep ==
    ASSUME TypeOK, NEW j \in Jobs, JobInv(j), Step(j)
    PROVE  DirectoryKept(j)'
  <1>0. DirectoryKept(j) /\ PromtoolKept(j)
    BY DEF JobInv
  <1>1. "dir" \in temps[j] /\ "dir" \notin temps'[j] =>
          pc[j] = "return" /\ pc'[j] = "return" /\ result'[j] # "rulesOK"
            /\ promtool'[j] = promtool[j] /\ (j \in abandoned => j \in abandoned')
    <2>1. CASE RemoveTemp(j)
      BY <2>1 DEF RemoveTemp, Unwinding, Inner, TypeOK, processVars
    <2>2. CASE CheckReady(j) \/ Wait(j)
      BY <2>2 DEF CheckReady, Wait
    <2>3. CASE Creates(j)
      BY <2>3 DEF Creates, Begin, CreateRuleFile, MkdirTemp, CreateConfig, CreateTemp, TypeOK
    <2>4. CASE PromtoolBlock(j)
      BY <2>4 DEF PromtoolBlock, TypeOK
    <2>5. CASE ~Defers(j)
      BY <2>5, OthersDeferNothing
    <2> QED
      BY <2>1, <2>2, <2>3, <2>4, <2>5 DEF Defers
  <1>2. \/ created'[j] = created[j] /\ dir'[j] \subseteq dir[j]
        \/ /\ promtool[j] = "rules" /\ pc'[j] = pc[j] /\ promtool'[j] = promtool[j]
           /\ \A b \in dir'[j] \ dir[j] : b[1] = "rules"
    <2>1. CASE PromtoolBlock(j)
      <3>1. CASE promtool[j] = "rules"
        <4>1. PICK o : dir' = [dir EXCEPT ![j] = @ \cup {<<"rules", created[j] + 1, o>>}]
          BY <2>1, <3>1 DEF PromtoolBlock
        <4>2. dir'[j] = dir[j] \cup {<<"rules", created[j] + 1, o>>}
          BY <4>1 DEF TypeOK
        <4>3. UNCHANGED <<pc, promtool>>
          BY <2>1 DEF PromtoolBlock, callVars, processVars
        <4> QED
          BY <3>1, <4>2, <4>3
      <3>2. CASE promtool[j] # "rules"
        BY <2>1, <3>2 DEF PromtoolBlock
      <3> QED
        BY <3>1, <3>2
    <2>2. CASE RemoveTemp(j)
      BY <2>2 DEF RemoveTemp, TypeOK
    <2>3. CASE MoveBlock(j)
      BY <2>3 DEF MoveBlock, Rename, TypeOK
    <2>4. CASE ~Blocks(j)
      BY <2>4, OthersLeaveBlocks DEF blockVars
    <2> QED
      BY <2>1, <2>2, <2>3, <2>4 DEF Blocks
  <1>3. \/ pc'[j] \in {"config", "port", "start", "check", "move"}
        \/ promtool'[j] = "rules" /\ j \notin abandoned'
        \/ pc'[j] \in {"return", "wait"} /\ result'[j] = "rulesOK"
        => "dir" \in temps'[j]
    BY <1>0, <1>1, StepOnward DEF DirectoryKept, PromtoolKept, Onward
  <1>4. pc'[j] \in {"begin", "series", "rules", "mkdir"} \/ promtool'[j] = "series" =>
          created'[j] = 0 /\ dir'[j] = {}
    BY <1>0, <1>2, StepOnward DEF DirectoryKept, PromtoolKept, Onward
  <1>5. \A b \in dir'[j] : b[1] = "rules"
    BY <1>0, <1>2 DEF DirectoryKept
  <1> QED
    BY <1>3, <1>4, <1>5 DEF DirectoryKept

(* A promtool that works on the series adds the next block of them.         *)
LEMMA SeriesAdds ==
    ASSUME TypeOK, NEW j \in Jobs, JobInv(j), PromtoolBlock(j), promtool[j] = "series"
    PROVE  \E n \in 1..SeriesBlocks :
             /\ Of("series", tsdb[j]) = {<<"series", m, j>> : m \in 1..(n - 1)}
             /\ tsdb'[j] = tsdb[j] \cup {<<"series", n, j>>}
  <1> DEFINE c == Cardinality(Of("series", tsdb[j]))
  <1>1. c \in 0..SeriesBlocks /\ Of("series", tsdb[j]) = {<<"series", m, j>> : m \in 1..c}
    BY NextSeriesBlock
  <1>2. c + 1 <= SeriesBlocks /\ tsdb' = [tsdb EXCEPT ![j] = @ \cup {<<"series", c + 1, j>>}]
    BY <1>1 DEF PromtoolBlock
  <1> HIDE DEF c
  <1>3. c + 1 \in 1..SeriesBlocks /\ c = (c + 1) - 1
    BY <1>1, <1>2, PortsAssumption
  <1>4. tsdb'[j] = tsdb[j] \cup {<<"series", c + 1, j>>}
    BY <1>2 DEF TypeOK
  <1>5. Of("series", tsdb[j]) = {<<"series", m, j>> : m \in 1..((c + 1) - 1)}
    BY <1>1, <1>3
  <1> QED
    BY <1>3, <1>4, <1>5

LEMMA SeriesFirstStep ==
    ASSUME TypeOK, NEW j \in Jobs, JobInv(j), Step(j)
    PROVE  SeriesFirst(j)'
  <1>0. SeriesFirst(j) /\ PromtoolKept(j) /\ DirectoryKept(j)
    BY DEF JobInv
  <1>1. tsdb[j] \subseteq tsdb'[j]
    <2>1. CASE PromtoolBlock(j)
      <3>1. CASE promtool[j] = "series"
        BY <2>1, <3>1, SeriesAdds
      <3>2. CASE promtool[j] # "series"
        BY <2>1, <3>2 DEF PromtoolBlock
      <3> QED
        BY <3>1, <3>2
    <2>2. CASE RemoveTemp(j)
      BY <2>2 DEF RemoveTemp
    <2>3. CASE MoveBlock(j)
      BY <2>3 DEF MoveBlock, Rename, TypeOK
    <2>4. CASE ~Blocks(j)
      BY <2>4, OthersLeaveBlocks DEF blockVars
    <2> QED
      BY <2>1, <2>2, <2>3, <2>4 DEF Blocks
  <1>2. \E n \in 0..SeriesBlocks : Of("series", tsdb'[j]) = {<<"series", m, j>> : m \in 1..n}
    <2>1. CASE PromtoolBlock(j) /\ promtool[j] = "series"
      <3> PICK n \in 1..SeriesBlocks :
            /\ Of("series", tsdb[j]) = {<<"series", m, j>> : m \in 1..(n - 1)}
            /\ tsdb'[j] = tsdb[j] \cup {<<"series", n, j>>}
        BY <2>1, SeriesAdds
      <3>1. Of("series", tsdb'[j]) = Of("series", tsdb[j]) \cup {<<"series", n, j>>}
        BY DEF Of
      <3>2. {<<"series", m, j>> : m \in 1..n} =
              {<<"series", m, j>> : m \in 1..(n - 1)} \cup {<<"series", n, j>>}
        BY PortsAssumption
      <3>3. n \in 0..SeriesBlocks
        BY PortsAssumption
      <3> QED
        BY <3>1, <3>2, <3>3
    <2>2. CASE ~(PromtoolBlock(j) /\ promtool[j] = "series")
      <3>1. Of("series", tsdb'[j]) = Of("series", tsdb[j])
        <4>1. CASE PromtoolBlock(j) \/ RemoveTemp(j)
          BY <2>2, <4>1 DEF PromtoolBlock, RemoveTemp
        <4>2. CASE MoveBlock(j)
          <5>1. \A b \in tsdb'[j] : b \in tsdb[j] \/ b \in dir[j]
            BY <4>2 DEF MoveBlock, Rename, TypeOK
          <5> QED
            BY <1>0, <1>1, <5>1 DEF DirectoryKept, Of
        <4>3. CASE ~Blocks(j)
          BY <4>3, OthersLeaveBlocks DEF blockVars
        <4> QED
          BY <4>1, <4>2, <4>3 DEF Blocks
      <3> QED
        BY <1>0, <3>1 DEF SeriesFirst
    <2> QED
      BY <2>1, <2>2
  <1>3. pc[j] = "promtool" /\ pc'[j] = "rules" =>
          \A n \in 1..SeriesBlocks : <<"series", n, j>> \in tsdb[j]
    <2> SUFFICES ASSUME pc[j] = "promtool", pc'[j] = "rules"
                 PROVE  \A n \in 1..SeriesBlocks : <<"series", n, j>> \in tsdb[j]
      OBVIOUS
    <2>1. PromtoolExit(j) /\ promtool[j] = "series"
      BY StepOnward DEF Onward
    <2>2. Cardinality(Of("series", tsdb[j])) = SeriesBlocks
      BY <2>1 DEF PromtoolExit, Done, Return, Goto, TypeOK
    <2>3. Of("series", tsdb[j]) = {<<"series", m, j>> : m \in 1..SeriesBlocks}
      BY <2>2, NextSeriesBlock
    <2> QED
      BY <2>3 DEF Of
  <1>4. \/ pc'[j] \in {"rules", "mkdir", "config", "port", "start", "check", "move"}
        \/ promtool'[j] = "rules"
        \/ result'[j] \in {"rulesOK", "ok"}
        => \/ pc[j] \in {"rules", "mkdir", "config", "port", "start", "check", "move"}
           \/ promtool[j] = "rules"
           \/ result[j] \in {"rulesOK", "ok"}
           \/ pc[j] = "begin" /\ "series" \notin wants[j]
           \/ pc[j] = "promtool" /\ pc'[j] = "rules"
    BY <1>0, StepOnward DEF Onward, PromtoolKept
  <1> QED
    BY <1>0, <1>1, <1>2, <1>3, <1>4, WantsKept DEF SeriesFirst

LEMMA ConservedStep ==
    ASSUME TypeOK, NEW j \in Jobs, JobInv(j), Step(j)
    PROVE  Conserved(j)'
  <1>0. Conserved(j) /\ RulesLast(j) /\ DirectoryKept(j) /\ PromtoolKept(j)
    BY DEF JobInv
  <1>1. CASE PromtoolBlock(j) /\ promtool[j] = "rules"
    <2>1. PICK o : dir' = [dir EXCEPT ![j] = @ \cup {<<"rules", created[j] + 1, o>>}]
      BY <1>1 DEF PromtoolBlock
    <2>2. /\ dir'[j] = dir[j] \cup {<<"rules", created[j] + 1, o>>}
          /\ created'[j] = created[j] + 1 /\ created[j] \in Nat
          /\ UNCHANGED <<tsdb, abandoned>> /\ (j \notin abandoned => "dir" \in temps[j])
      BY <1>0, <1>1, <2>1, PortsAssumption DEF PromtoolBlock, TypeOK, processVars, DirectoryKept
    <2>3. Of("rules", tsdb[j]) = {}
      BY <1>0, <1>1 DEF RulesLast
    <2>4. j \notin abandoned =>
            /\ \A b \in dir'[j] : b[2] \in 1..created'[j]
            /\ \A n \in 1..created'[j] : \E b \in dir'[j] : b[2] = n
      <3> SUFFICES ASSUME j \notin abandoned
                   PROVE  /\ \A b \in dir'[j] : b[2] \in 1..created'[j]
                          /\ \A n \in 1..created'[j] : \E b \in dir'[j] : b[2] = n
        OBVIOUS
      <3>1. /\ \A b \in dir[j] : b[2] \in 1..created[j]
            /\ \A n \in 1..created[j] : \E b \in dir[j] : b[2] = n
        BY <1>0, <2>2, <2>3 DEF Conserved
      <3>2. \A b \in dir'[j] : b[2] \in 1..created'[j]
        BY <2>2, <3>1
      <3>3. ASSUME NEW n \in 1..created'[j] PROVE \E b \in dir'[j] : b[2] = n
        <4>1. CASE n = created[j] + 1
          <5> DEFINE b == <<"rules", created[j] + 1, o>>
          <5>1. b \in dir'[j] /\ b[2] = n
            BY <2>2, <4>1
          <5> QED
            BY <5>1
        <4>2. CASE n \in 1..created[j]
          BY <2>2, <3>1, <4>2
        <4> QED
          BY <2>2, <4>1, <4>2
      <3> QED
        BY <3>2, <3>3
    <2> QED
      BY <2>2, <2>3, <2>4 DEF Conserved, Of
  <1>2. CASE PromtoolBlock(j) /\ promtool[j] # "rules"
    <2>1. UNCHANGED <<dir, created, temps, abandoned>>
      BY <1>2 DEF PromtoolBlock, processVars
    <2>2. ~MoveBlock(j)
      BY <1>0, <1>2 DEF PromtoolBlock, MoveBlock, PromtoolKept
    <2>3. Of("rules", tsdb'[j]) = Of("rules", tsdb[j])
      BY <2>2, RulesMoved
    <2> QED
      BY <1>0, <2>1, <2>3 DEF Conserved
  <1>3. CASE RemoveTemp(j)
    <2>1. /\ created'[j] = created[j] /\ tsdb'[j] = tsdb[j] /\ UNCHANGED abandoned
          /\ "dir" \in temps'[j] => "dir" \in temps[j] /\ dir'[j] = dir[j]
          /\ dir'[j] \subseteq dir[j]
      BY <1>3 DEF RemoveTemp, TypeOK, processVars
    <2> QED
      BY <1>0, <2>1 DEF Conserved, Of
  <1>4. CASE MoveBlock(j)
    <2>1. /\ UNCHANGED <<created, temps, abandoned>>
          /\ \/ UNCHANGED <<dir, tsdb>>
             \/ \E b \in dir[j] : dir'[j] = dir[j] \ {b} /\ tsdb'[j] = tsdb[j] \cup {b}
      BY <1>4 DEF MoveBlock, Rename, TypeOK, processVars
    <2>2. CASE UNCHANGED <<dir, tsdb>>
      BY <1>0, <2>1, <2>2 DEF Conserved
    <2>3. ASSUME NEW b \in dir[j], dir'[j] = dir[j] \ {b}, tsdb'[j] = tsdb[j] \cup {b}
          PROVE  Conserved(j)'
      <3>1. Of("rules", tsdb'[j]) = Of("rules", tsdb[j]) \cup {b}
        BY <1>0, <2>3 DEF Of, DirectoryKept
      <3> QED
        BY <1>0, <2>1, <2>3, <3>1 DEF Conserved
    <2> QED
      BY <2>1, <2>2, <2>3
  <1>5. CASE ~Blocks(j)
    <2>1. UNCHANGED <<created, dir, tsdb>>
      BY <1>5, OthersLeaveBlocks DEF blockVars
    <2>2. "dir" \in temps'[j] => "dir" \in temps[j] \/ pc[j] = "mkdir"
      <3>1. CASE Creates(j)
        BY <3>1 DEF Creates, Begin, CreateRuleFile, MkdirTemp, CreateConfig, CreateTemp, TypeOK
      <3>2. CASE CheckReady(j) \/ Wait(j)
        BY <3>2 DEF CheckReady, Wait
      <3>3. CASE ~Defers(j)
        BY <3>3, OthersDeferNothing
      <3> QED
        BY <1>5, <3>1, <3>2, <3>3 DEF Defers, Blocks
    <2>4. j \in abandoned => j \in abandoned'
      BY StepOnward DEF Onward
    <2>3. pc[j] = "mkdir" => created[j] = 0 /\ dir[j] = {} /\ Of("rules", tsdb[j]) = {}
      BY <1>0 DEF DirectoryKept, RulesLast
    <2> QED
      BY <1>0, <2>1, <2>2, <2>3, <2>4 DEF Conserved
  <1> QED
    BY <1>1, <1>2, <1>3, <1>4, <1>5 DEF Blocks

LEMMA SuccessCompleteStep ==
    ASSUME TypeOK, NEW j \in Jobs, JobInv(j), Step(j)
    PROVE  SuccessComplete(j)'
  <1>0. /\ SuccessComplete(j) /\ PromtoolKept(j) /\ Conserved(j)
        /\ DirectoryKept(j) /\ RulesLast(j)
    BY DEF JobInv
  <1>1. CASE result[j] = "ok" /\ result'[j] = "ok"
    <2>1. created'[j] = created[j] /\ tsdb[j] \subseteq tsdb'[j]
      <3>1. ~PromtoolBlock(j) /\ ~MoveBlock(j)
        BY <1>0, <1>1 DEF SuccessComplete, PromtoolBlock, MoveBlock
      <3>2. CASE RemoveTemp(j)
        BY <3>2 DEF RemoveTemp
      <3>3. CASE ~RemoveTemp(j)
        BY <3>1, <3>3, OthersLeaveBlocks DEF blockVars, Blocks
      <3> QED
        BY <3>2, <3>3
    <2>2. pc'[j] \in {"return", "wait", "ended", "crashed"} /\ promtool'[j] = "none"
      BY <1>0, <1>1, StepOnward DEF SuccessComplete, Onward
    <2> QED
      BY <1>0, <1>1, <2>1, <2>2 DEF SuccessComplete
  <1>2. CASE result[j] # "ok" /\ result'[j] = "ok"
    <2>1. /\ pc'[j] = "return" /\ promtool'[j] = "none"
          /\ \/ pc[j] = "rules"
             \/ pc[j] = "move" /\ dir[j] = {}
      BY <1>0, <1>2, StepOnward DEF Onward, PromtoolKept
    <2>2. UNCHANGED <<created, tsdb>>
      <3>1. ~PromtoolBlock(j) /\ ~RemoveTemp(j)
        BY <1>0, <2>1 DEF PromtoolKept, PromtoolBlock, RemoveTemp, Unwinding
      <3>2. ~MoveBlock(j)
        BY <2>1 DEF MoveBlock
      <3> QED
        BY <3>1, <3>2, OthersLeaveBlocks DEF Blocks, blockVars
    <2>3. CASE pc[j] = "rules"
      <3>1. created[j] = 0
        BY <1>0, <2>3 DEF DirectoryKept
      <3> QED
        BY <2>1, <2>2, <3>1 DEF SuccessComplete
    <2>4. CASE pc[j] = "move" /\ dir[j] = {}
      <3>1. "dir" \in temps[j]
        BY <1>0, <2>4 DEF DirectoryKept
      <3>2. \A n \in 1..created[j] : \E b \in Of("rules", tsdb[j]) : b[2] = n
        BY <1>0, <2>4, <3>1 DEF Conserved, PromtoolKept
      <3> QED
        BY <2>1, <2>2, <3>2 DEF SuccessComplete, Of
    <2> QED
      BY <2>1, <2>3, <2>4
  <1>3. CASE result'[j] # "ok"
    BY <1>3 DEF SuccessComplete
  <1> QED
    BY <1>1, <1>2, <1>3

LEMMA UnwoundStep ==
    ASSUME TypeOK, NEW j \in Jobs, JobInv(j), Step(j)
    PROVE  Unwound(j)'
  <1>0. pc'[j] \in {"return", "wait", "ended"} => result'[j] # "none"
    BY StepOnward DEF Onward, JobInv, Unwound
  <1>1. CASE pc[j] = "ended" \/ (pc[j] = "return" /\ defers[j] = <<>>)
    <2>1. ~Creates(j) /\ ~CheckReady(j) /\ ~RemoveTemp(j) /\ ~Wait(j)
      BY <1>1 DEF Creates, Begin, CreateRuleFile, MkdirTemp, CreateConfig, CheckReady,
         RemoveTemp, Unwinding, Wait
    <2>2. UNCHANGED defers
      <3>1. CASE PromtoolBlock(j)
        BY <3>1 DEF PromtoolBlock
      <3>2. CASE ~PromtoolBlock(j)
        BY <2>1, <3>2, OthersDeferNothing DEF Defers
      <3> QED
        BY <3>1, <3>2
    <2> QED
      BY <1>0, <1>1, <2>2 DEF JobInv, Unwound
  <1>2. CASE pc[j] # "ended" /\ pc'[j] = "ended"
    BY <1>1, <1>2, StepOnward DEF Onward
  <1>3. CASE pc'[j] # "ended"
    BY <1>0, <1>3 DEF Unwound
  <1> QED
    BY <1>1, <1>2, <1>3

LEMMA JobInvStep ==
    ASSUME TypeOK, NEW j \in Jobs, Step(j), \A o \in Jobs : JobInv(o)
    PROVE  \A o \in Jobs : JobInv(o)'
  <1> TAKE o \in Jobs
  <1>1. CASE o = j
    <2>1. JobInv(j)
      OBVIOUS
    <2>2. /\ FilesDeferred(j)' /\ CloseLast(j)' /\ ServerKept(j)' /\ PromtoolKept(j)'
          /\ RulesLast(j)' /\ DirectoryKept(j)' /\ SeriesFirst(j)' /\ SuccessComplete(j)'
          /\ Conserved(j)' /\ Unwound(j)'
      BY <2>1, FilesDeferredStep, CloseLastStep, ServerKeptStep, PromtoolKeptStep, RulesLastStep,
         DirectoryKeptStep, SeriesFirstStep, SuccessCompleteStep, ConservedStep, UnwoundStep
    <2> QED
      BY <1>1, <2>2 DEF JobInv
  <1>2. CASE o # j
    <2>1. Local(o)' = Local(o)
      BY <1>2, OthersUntouched
    <2> USE <2>1 DEF Local
    <2>2. FilesDeferred(o)' /\ CloseLast(o)' /\ ServerKept(o)' /\ PromtoolKept(o)'
      BY DEF JobInv, FilesDeferred, Recreated, CloseLast, ServerKept, Alive, Bound, PromtoolKept
    <2>3. RulesLast(o)' /\ SeriesFirst(o)' /\ SuccessComplete(o)'
      BY DEF JobInv, RulesLast, Alive, Bound, SeriesFirst, SuccessComplete
    <2>4. DirectoryKept(o)'
      BY DEF JobInv, DirectoryKept
    <2>5. Conserved(o)' /\ Unwound(o)'
      BY DEF JobInv, Conserved, Unwound
    <2> QED
      BY <2>2, <2>3, <2>4, <2>5 DEF JobInv
  <1> QED
    BY <1>1, <1>2

-----------------------------------------------------------------------------
(* The part about pairs of jobs.                                            *)

Comes(o) == pc[o] = "start" \/ Alive(o)

(* What a step other than picking a port keeps.                             *)
LEMMA ClaimsShrink ==
    ASSUME TypeOK, NEW j \in Jobs, JobInv(j), Step(j), ~findAvailablePort(j)
    PROVE  /\ UNCHANGED <<port, contended>>
           /\ Claims(j, port[j])' => Claims(j, port[j])
           /\ Comes(j)' => Comes(j)
  <1>1. UNCHANGED <<port, contended>>
    <2>1. CASE Creates(j) \/ BackfillOpenMetricsSeries(j) \/ CheckReady(j) \/ PromtoolExit(j)
      BY <2>1 DEF Creates, Begin, CreateRuleFile, MkdirTemp, CreateConfig,
           BackfillOpenMetricsSeries, CheckReady, PromtoolExit, portVars
    <2>2. CASE Blocks(j) \/ GiveUp(j) \/ Close(j) \/ Wait(j) \/ Serves(j)
      BY <2>2 DEF Blocks, PromtoolBlock, RemoveTemp, MoveBlock, GiveUp, Close, Wait,
           Serves, StartProcess, ServerBind, ServerProgress, ServerExit, portVars
    <2>3. CASE ListBlocks(j) \/ MovedAll(j) \/ End(j) \/ ReadFails(j) \/ Crash(j)
      BY <2>3 DEF ListBlocks, MovedAll, End, ReadFails, Crash, portVars
    <2> QED
      BY <2>1, <2>2, <2>3 DEF Step, JobStep, PromtoolStep, Creates, Blocks, Serves
  <1>2. /\ Alive(j)' => Alive(j) \/ pc[j] = "start"
        /\ server'[j] = "booting" => server[j] = "booting" \/ pc[j] = "start"
    <2>1. CASE StartProcess(j)
      BY <2>1 DEF StartProcess
    <2>2. CASE ServerBind(j) \/ ServerProgress(j) \/ ServerExit(j)
      BY <2>2 DEF ServerBind, ServerProgress, ServerExit, TypeOK, Alive, Bound
    <2>3. CASE ~Serves(j)
      BY <2>3, OthersServeNothing DEF Alive, Bound
    <2> QED
      BY <2>1, <2>2, <2>3 DEF Serves
  <1>3. pc'[j] = "start" => pc[j] = "start"
    BY StepOnward DEF Onward
  <1> QED
    BY <1>1, <1>2, <1>3, StepOnward DEF Claims, Comes, Onward

LEMMA PickedStep ==
    ASSUME TypeOK, NEW j \in Jobs, Step(j), JobInv(j), Picked
    PROVE  Picked'
  <1>1. SUFFICES ASSUME NEW a \in Jobs, NEW b \in Jobs, a # b, port'[a] = port'[b],
                        Claims(a, port[a])', Comes(b)'
                 PROVE  a \in contended'
    BY DEF Picked, Comes
  <1>2. CASE ~findAvailablePort(j)
    <2>1. UNCHANGED <<port, contended>>
      BY <1>2, ClaimsShrink
    <2>2. Claims(a, port[a])
      <3>1. CASE a = j
        BY <1>1, <1>2, <3>1, ClaimsShrink
      <3>2. CASE a # j
        BY <1>1, <3>2, OthersUntouched DEF Local, Claims
      <3> QED
        BY <3>1, <3>2
    <2>3. Comes(b)
      <3>1. CASE b = j
        BY <1>1, <1>2, <3>1, ClaimsShrink
      <3>2. CASE b # j
        BY <1>1, <3>2, OthersUntouched DEF Local, Comes, Alive, Bound
      <3> QED
        BY <3>1, <3>2
    <2> QED
      BY <1>1, <2>1, <2>2, <2>3 DEF Picked, Comes
  <1>3. CASE findAvailablePort(j)
    <2>0. pc[j] = "port" /\ UNCHANGED <<promtool, server>>
      BY <1>3 DEF findAvailablePort, processVars
    <2>1. CASE Return(j, "error") /\ UNCHANGED <<port, contended>>
      <3>1. \A o \in Jobs : pc'[o] \in {"start", "check"} => pc[o] \in {"start", "check"}
        BY <2>1 DEF Return, Goto, TypeOK
      <3>2. \A o \in Jobs : pc'[o] = "start" => pc[o] = "start"
        BY <2>1 DEF Return, Goto, TypeOK
      <3> QED
        BY <1>1, <2>0, <2>1, <3>1, <3>2 DEF Picked, Claims, Comes, Alive, Bound
    <2>2. CASE ~(Return(j, "error") /\ UNCHANGED <<port, contended>>)
      <3> PICK p \in Ports :
            /\ Available(p) /\ port' = [port EXCEPT ![j] = p] /\ Goto(j, "start")
            /\ contended \subseteq contended'
            /\ \A o \in Jobs \ {j} : Claims(o, p) => o \in contended' /\ j \in contended'
        BY <1>3, <2>2 DEF findAvailablePort
      <3>1. port'[j] = p /\ pc'[j] = "start"
            /\ \A o \in Jobs \ {j} : port'[o] = port[o] /\ pc'[o] = pc[o]
        BY DEF TypeOK, Goto
      <3>2. CASE a = j
        <4>1. b \in Jobs \ {j} /\ port[b] = p /\ Comes(b)
          BY <1>1, <2>0, <3>1, <3>2 DEF Comes, Alive, Bound
        <4>2. Claims(b, p)
          BY <4>1 DEF Available, Comes, Claims, Alive
        <4> QED
          BY <3>2, <4>1, <4>2
      <3>3. CASE a # j /\ b = j
        BY <1>1, <2>0, <3>1, <3>3 DEF Claims
      <3>4. CASE a # j /\ b # j
        BY <1>1, <2>0, <3>1, <3>4 DEF Picked, Claims, Comes, Alive, Bound
      <3> QED
        BY <3>2, <3>3, <3>4
    <2> QED
      BY <2>1, <2>2
  <1> QED
    BY <1>2, <1>3

LEMMA ForeignStep ==
    ASSUME TypeOK, NEW j \in Jobs, Step(j), JobInv(j), Picked, ForeignOnlyIfContended
    PROVE  ForeignOnlyIfContended'
  <1>1. contended \subseteq contended'
    <2>1. CASE findAvailablePort(j)
      BY <2>1 DEF findAvailablePort
    <2>2. CASE ~findAvailablePort(j)
      BY <2>2, ClaimsShrink
    <2> QED
      BY <2>1, <2>2
  <1>2. ASSUME NEW b \in dir'[j] \cup tsdb'[j], b \notin dir[j] \cup tsdb[j], b[3] # j
        PROVE  j \in contended
    <2>1. PromtoolBlock(j)
      <3>1. CASE RemoveTemp(j)
        BY <1>2, <3>1 DEF RemoveTemp, TypeOK
      <3>2. CASE MoveBlock(j)
        BY <1>2, <3>2 DEF MoveBlock, Rename, TypeOK
      <3> QED
        BY <1>2, <3>1, <3>2, OthersLeaveBlocks DEF Blocks, blockVars
    <2>2. promtool[j] = "rules"
      <3> SUFFICES ASSUME promtool[j] = "series" PROVE FALSE
        BY <2>1 DEF PromtoolBlock
      <3>1. UNCHANGED dir
        BY <2>1 DEF PromtoolBlock
      <3>2. PICK n : tsdb'[j] = tsdb[j] \cup {<<"series", n, j>>}
        BY <2>1, SeriesAdds
      <3> QED
        BY <1>2, <3>1, <3>2
    <2>3. PICK o \in Serving(j, "ready") :
            dir' = [dir EXCEPT ![j] = @ \cup {<<"rules", created[j] + 1, o>>}]
      BY <2>1, <2>2 DEF PromtoolBlock
    <2>4. b = <<"rules", created[j] + 1, o>>
      BY <1>2, <2>1, <2>2, <2>3 DEF PromtoolBlock, TypeOK
    <2>5. o \in Jobs /\ o # j /\ port[j] = port[o] /\ Alive(o) /\ Claims(j, port[j])
      BY <1>2, <2>2, <2>3, <2>4 DEF Serving, Alive, Bound, Claims
    <2> QED
      BY <2>5 DEF Picked
  <1>3. ASSUME NEW o \in Jobs, NEW b \in dir'[o] \cup tsdb'[o], b[3] # o
        PROVE  o \in contended'
    <2>1. CASE b \in dir[o] \cup tsdb[o]
      BY <1>1, <1>3, <2>1 DEF ForeignOnlyIfContended
    <2>2. CASE b \notin dir[o] \cup tsdb[o]
      <3>1. o = j
        BY <1>3, <2>2, OthersUntouched DEF Local
      <3> QED
        BY <1>1, <1>2, <1>3, <2>2, <3>1
    <2> QED
      BY <2>1, <2>2
  <1> QED
    BY <1>3 DEF ForeignOnlyIfContended

-----------------------------------------------------------------------------
(* The theorems.                                                            *)

LEMMA InitIInv == Init => IInv
  <1> SUFFICES ASSUME Init PROVE IInv
    OBVIOUS
  <1> USE JobsAssumption, PortsAssumption DEF Init
  <1>1. TypeOK
    BY DEF TypeOK
  <1>2. ASSUME NEW j \in Jobs PROVE JobInv(j)
    <2>1. FilesDeferred(j) /\ CloseLast(j) /\ ServerKept(j) /\ PromtoolKept(j)
      BY DEF FilesDeferred, Recreated, CloseLast, ServerKept, PromtoolKept, Elements, Alive, Bound
    <2>2. RulesLast(j) /\ DirectoryKept(j) /\ SuccessComplete(j) /\ Conserved(j) /\ Unwound(j)
      BY DEF RulesLast, DirectoryKept, SuccessComplete, Conserved, Unwound, Of
    <2>3. SeriesFirst(j)
      <3>1. 0 \in 0..SeriesBlocks /\ Of("series", tsdb[j]) = {<<"series", m, j>> : m \in 1..0}
        BY DEF Of
      <3> QED
        BY <3>1 DEF SeriesFirst
    <2> QED
      BY <2>1, <2>2, <2>3 DEF JobInv
  <1>3. Picked /\ ForeignOnlyIfContended
    BY DEF Picked, Claims, Alive, Bound, ForeignOnlyIfContended
  <1> QED
    BY <1>1, <1>2, <1>3 DEF IInv

LEMMA NextIInv == IInv /\ [Next]_vars => IInv'
  <1> SUFFICES ASSUME IInv, [Next]_vars PROVE IInv'
    OBVIOUS
  <1>1. CASE Next
    <2> PICK j \in Jobs : Step(j)
      BY <1>1 DEF Next, Step
    <2>1. TypeOK'
      BY TypeStep DEF IInv
    <2>2. \A o \in Jobs : JobInv(o)'
      BY JobInvStep DEF IInv
    <2>3. Picked' /\ ForeignOnlyIfContended'
      BY PickedStep, ForeignStep DEF IInv
    <2> QED
      BY <2>1, <2>2, <2>3 DEF IInv
  <1>2. CASE UNCHANGED vars
    <2> USE <1>2 DEF vars, callVars, portVars, processVars, blockVars
    <2>1. TypeOK'
      BY DEF IInv, TypeOK
    <2>2. ASSUME NEW o \in Jobs PROVE JobInv(o)'
      BY DEF IInv, JobInv, FilesDeferred, Recreated, CloseLast, ServerKept, Alive, Bound, PromtoolKept,
         RulesLast, DirectoryKept, SeriesFirst, SuccessComplete, Conserved, Unwound
    <2>3. Picked' /\ ForeignOnlyIfContended'
      BY DEF IInv, Picked, Claims, Alive, Bound, ForeignOnlyIfContended
    <2> QED
      BY <2>1, <2>2, <2>3 DEF IInv
  <1> QED
    BY <1>1, <1>2

LEMMA Invariance == Spec => []IInv
  BY InitIInv, NextIInv, PTL DEF Spec

(* The variables of any number of jobs keep their types.                    *)
THEOREM TypeCorrect == Spec => []TypeOK
  <1>1. IInv => TypeOK
    BY DEF IInv
  <1> QED
    BY <1>1, Invariance, PTL

(* No job that ends by itself leaves a temporary file behind, whatever      *)
(* step of its three levels of calls failed, but for the directory that a   *)
(* promtool it no longer waits for recreates.                               *)
THEOREM TempsCorrect == Spec => []TempsRemoved
  <1>1. IInv => TempsRemoved
    <2> SUFFICES ASSUME IInv, NEW j \in Jobs, pc[j] = "ended"
                 PROVE  temps[j] \subseteq Recreated(j)
      BY DEF TempsRemoved, Recreated
    <2> QED
      BY DEF IInv, JobInv, FilesDeferred, Unwound, Elements
  <1> QED
    BY <1>1, Invariance, PTL

(* A job that ends by itself has stopped its Prometheus, unless that was    *)
(* not ready after the last readiness check.                                *)
THEOREM ServerCorrect == Spec => []ServerStopped
  <1>1. IInv => ServerStopped
    BY DEF IInv, JobInv, ServerKept, ServerStopped
  <1> QED
    BY <1>1, Invariance, PTL

(* No rule block is moved into the TSDB directory of a job while its        *)
(* Prometheus runs on it, and none is started on it afterwards.             *)
THEOREM MoveCorrect == Spec => []MovedAfterStop
  <1>1. IInv => MovedAfterStop
    BY DEF IInv, JobInv, RulesLast, MovedAfterStop
  <1> QED
    BY <1>1, Invariance, PTL

(* Every block promtool made is in one of the two directories and not in    *)
(* both, until the temporary one is removed or promtool left to itself.     *)
THEOREM BlocksCorrect == Spec => []BlocksConserved
  <1>1. IInv => BlocksConserved
    <2> SUFFICES ASSUME IInv, NEW j \in Jobs
                 PROVE  /\ Of("rules", tsdb[j]) \cap dir[j] = {}
                        /\ "dir" \in temps[j] /\ j \notin abandoned =>
                             {b[2] : b \in Of("rules", tsdb[j]) \cup dir[j]} = 1..created[j]
      BY DEF BlocksConserved
    <2>1. Conserved(j)
      BY DEF IInv, JobInv
    <2> QED
      BY <2>1 DEF Conserved
  <1> QED
    BY <1>1, Invariance, PTL

(* Rule blocks hold results from another job's TSDB only if both had        *)
(* claimed one port at one time, for any number of jobs.                    *)
THEOREM ForeignCorrect == Spec => []ForeignOnlyIfContended
  <1>1. IInv => ForeignOnlyIfContended
    BY DEF IInv
  <1> QED
    BY <1>1, Invariance, PTL

-----------------------------------------------------------------------------
(* Running out of steps. Left counts down: each step of a job, or of a      *)
(* process it started, lowers it.                                           *)

(* How far the job is from its end; a step on lowers it by five, more than  *)
(* the deferred call and the processes it may add.                          *)
Rank(j) ==
    CASE pc[j] = "begin" -> 65
      [] pc[j] = "series" -> 60
      [] pc[j] = "promtool" /\ promtool[j] = "series" -> 55
      [] pc[j] = "rules" -> 50
      [] pc[j] = "mkdir" -> 45
      [] pc[j] = "config" -> 40
      [] pc[j] = "port" -> 35
      [] pc[j] = "start" -> 30
      [] pc[j] = "check" -> 25
      [] pc[j] = "promtool" /\ promtool[j] # "series" -> 20
      [] pc[j] = "return" /\ result[j] = "rulesOK" -> 15
      [] pc[j] = "wait" /\ result[j] = "rulesOK" -> 14
      [] pc[j] = "move" -> 10
      [] pc[j] = "return" /\ result[j] # "rulesOK" -> 5
      [] pc[j] = "wait" /\ result[j] # "rulesOK" -> 4
      [] OTHER -> 0

(* Checks to make, rule blocks to write and then to move, series blocks.    *)
ChecksLeft(j) == NumChecks - checks[j]

RulesLeft(j) == MaxBlocks - created[j]

Files(j) == Cardinality(dir[j])

SeriesLeft(j) == SeriesBlocks - Cardinality(Of("series", tsdb[j]))

Work(j) == ChecksLeft(j) + 2 * RulesLeft(j) + Files(j) + SeriesLeft(j)

Processes(j) ==
    (CASE server[j] = "booting" -> 4
       [] server[j] = "up" -> 3
       [] server[j] = "ready" -> 2
       [] server[j] = "hung" -> 1
       [] OTHER -> 0)
      + (IF promtool[j] = "none" THEN 0 ELSE 1)

Left(j) == Rank(j) + 2 * Len(defers[j]) + Work(j) + Processes(j)

Lowered(j) == Left(j)' < Left(j) /\ \A o \in Jobs \ {j} : Left(o)' = Left(o)

FiniteDirs == \A j \in Jobs : IsFiniteSet(dir[j])

LEMMA RankTyped ==
    ASSUME NEW j \in Jobs
    PROVE  Rank(j) \in 0..65
  BY DEF Rank

LEMMA ProcessesTyped ==
    ASSUME NEW j \in Jobs
    PROVE  Processes(j) \in 0..5
  BY DEF Processes

LEMMA WorkTyped ==
    ASSUME TypeOK, NEW j \in Jobs, JobInv(j), IsFiniteSet(dir[j])
    PROVE  /\ ChecksLeft(j) \in Nat /\ RulesLeft(j) \in Nat /\ Files(j) \in Nat
           /\ SeriesLeft(j) \in Nat /\ Work(j) \in Nat
  <1>1. checks[j] \in 0..NumChecks /\ created[j] \in 0..MaxBlocks
        /\ NumChecks \in Nat /\ MaxBlocks \in Nat /\ SeriesBlocks \in Nat
    BY PortsAssumption DEF TypeOK
  <1>2. ChecksLeft(j) \in Nat /\ RulesLeft(j) \in Nat
    BY <1>1 DEF ChecksLeft, RulesLeft
  <1>3. Files(j) \in Nat
    BY FS_CardinalityType DEF Files
  <1>4. Cardinality(Of("series", tsdb[j])) \in 0..SeriesBlocks
    BY NextSeriesBlock
  <1>5. SeriesLeft(j) \in Nat
    BY <1>1, <1>4 DEF SeriesLeft
  <1> QED
    BY <1>2, <1>3, <1>5 DEF Work

LEMMA LenTyped ==
    ASSUME TypeOK, NEW j \in Jobs
    PROVE  Len(defers[j]) \in Nat
  BY DEF TypeOK

LEMMA TailLen ==
    ASSUME NEW S, NEW s \in Seq(S), NEW t \in Seq(S), s # <<>>, Tail(s) = t
    PROVE  Len(s) \in Nat /\ Len(t) = Len(s) - 1 /\ Len(s) = Len(t) + 1
  <1> DEFINE l == Len(s)
  <1>1. l \in Nat /\ Len(Tail(s)) = l - 1
    OBVIOUS
  <1>2. Len(t) = l - 1
    BY <1>1, Zenon
  <1> HIDE DEF l
  <1>3. l = Len(t) + 1
    BY <1>1, <1>2
  <1> QED
    BY <1>1, <1>2, <1>3 DEF l

(* The directory gets one block at a time.                                  *)
LEMMA FiniteStep ==
    ASSUME TypeOK, NEW j \in Jobs, Step(j), FiniteDirs
    PROVE  FiniteDirs'
  <1> SUFFICES ASSUME NEW o \in Jobs PROVE IsFiniteSet(dir'[o])
    BY DEF FiniteDirs
  <1>0. IsFiniteSet(dir[o])
    BY DEF FiniteDirs
  <1>1. CASE o # j
    BY <1>0, <1>1, OthersUntouched DEF Local
  <1>2. CASE o = j /\ dir'[j] \subseteq dir[j]
    BY <1>0, <1>2, FS_Subset
  <1>3. CASE o = j /\ \E b : dir'[j] = dir[j] \cup {b}
    BY <1>0, <1>3, FS_AddElement
  <1>4. dir'[j] \subseteq dir[j] \/ \E b : dir'[j] = dir[j] \cup {b}
    <2>1. CASE PromtoolBlock(j)
      <3>1. UNCHANGED dir \/ \E b : dir' = [dir EXCEPT ![j] = @ \cup {b}]
        BY <2>1 DEF PromtoolBlock
      <3> QED
        BY <3>1 DEF TypeOK
    <2>2. CASE RemoveTemp(j)
      BY <2>2 DEF RemoveTemp, TypeOK
    <2>3. CASE MoveBlock(j)
      BY <2>3 DEF MoveBlock, Rename, TypeOK
    <2>4. CASE ~Blocks(j)
      BY <2>4, OthersLeaveBlocks DEF blockVars
    <2> QED
      BY <2>1, <2>2, <2>3, <2>4 DEF Blocks
  <1> QED
    BY <1>1, <1>2, <1>3, <1>4

(* What the steps do to the deferred calls,                                 *)
LEMMA LenStep ==
    ASSUME TypeOK, TypeOK', NEW j \in Jobs, JobInv(j), Step(j)
    PROVE  /\ Creates(j) => Len(defers'[j]) <= Len(defers[j]) + 1
           /\ CheckReady(j) => \/ defers' = defers /\ pc' = pc
                               \/ Len(defers'[j]) = Len(defers[j]) + 1 /\ pc'[j] = "promtool"
           /\ RemoveTemp(j) \/ Wait(j) => Len(defers'[j]) = Len(defers[j]) - 1
           /\ ~(Creates(j) \/ CheckReady(j) \/ RemoveTemp(j) \/ Wait(j)) => defers' = defers
  <1>0. defers[j] \in Seq(Deferred) /\ defers'[j] \in Seq(Deferred)
    BY DEF TypeOK
  <1>1. ASSUME defers'[j] # <<>>, Tail(defers'[j]) = defers[j]
        PROVE  Len(defers'[j]) = Len(defers[j]) + 1
    BY <1>0, <1>1, TailLen
  <1>2. CASE Creates(j)
    <2>1. \/ UNCHANGED defers
          \/ defers'[j] # <<>> /\ Tail(defers'[j]) = defers[j]
      <3>1. CASE \E x \in Temp, l \in Control : CreateTemp(j, x, l)
        BY <3>1, CreateTempDefers
      <3>2. CASE UNCHANGED <<defers, temps>>
        BY <3>2
      <3> QED
        BY <1>2, <3>1, <3>2
        DEF Creates, Begin, CreateRuleFile, MkdirTemp, CreateConfig, Temp, Control
    <2>2. Len(defers'[j]) \in {Len(defers[j]), Len(defers[j]) + 1}
      BY <1>1, <2>1
    <2>3. Len(defers'[j]) <= Len(defers[j]) + 1
      BY <2>2, LenTyped
    <2>4. ~CheckReady(j) /\ ~RemoveTemp(j) /\ ~Wait(j)
      BY <1>2 DEF Creates, Begin, CreateRuleFile, MkdirTemp, CreateConfig, CheckReady,
         RemoveTemp, Unwinding, Wait
    <2> QED
      BY <1>2, <2>3, <2>4
  <1>3. CASE CheckReady(j)
    <2>1. ~Creates(j) /\ ~RemoveTemp(j) /\ ~Wait(j)
      BY <1>3 DEF Creates, Begin, CreateRuleFile, MkdirTemp, CreateConfig, CheckReady,
         RemoveTemp, Unwinding, Wait
    <2> QED
      BY <1>1, <1>3, <2>1, CheckReadyDefers
  <1>4. CASE RemoveTemp(j) \/ Wait(j)
    <2>1. ~Creates(j) /\ ~CheckReady(j)
      BY <1>4 DEF Creates, Begin, CreateRuleFile, MkdirTemp, CreateConfig, CheckReady,
         RemoveTemp, Unwinding, Wait
    <2>2. defers[j] # <<>> /\ defers'[j] = Tail(defers[j])
      BY <1>4, PopDefers
    <2>3. Len(defers'[j]) = Len(defers[j]) - 1
      BY <1>0, <2>2, TailLen
    <2> QED
      BY <1>4, <2>1, <2>2, <2>3
  <1>5. CASE PromtoolBlock(j) /\ ~RemoveTemp(j) /\ ~Wait(j)
    <2>1. defers' = defers /\ pc' = pc
      BY <1>5 DEF PromtoolBlock
    <2> QED
      BY <1>5, <2>1, LenTyped
  <1>6. CASE ~Defers(j)
    BY <1>6, OthersDeferNothing DEF Defers
  <1> QED
    BY <1>2, <1>3, <1>4, <1>5, <1>6 DEF Defers

LEMMA OneMore ==
    ASSUME NEW S, IsFiniteSet(S), NEW x
    PROVE  Cardinality(S \cup {x}) <= Cardinality(S) + 1
  <1>1. Cardinality(S) \in Nat
    BY FS_CardinalityType
  <1>2. CASE x \in S
    BY <1>1, <1>2, FS_AddElement
  <1>3. CASE x \notin S
    <2>1. Cardinality(S \cup {x}) = Cardinality(S) + 1
      BY <1>3, FS_AddElement, Zenon
    <2> QED
      BY <1>1, <2>1
  <1> QED
    BY <1>2, <1>3

LEMMA OthersCountNothing ==
    ASSUME NEW j \in Jobs, Step(j), ~CheckReady(j)
    PROVE  UNCHANGED checks
  <1> USE DEF portVars
  <1>1. CASE Creates(j) \/ BackfillOpenMetricsSeries(j) \/ findAvailablePort(j)
    BY <1>1 DEF Creates, Begin, CreateRuleFile, MkdirTemp, CreateConfig,
         BackfillOpenMetricsSeries, findAvailablePort
  <1>2. CASE GiveUp(j) \/ PromtoolExit(j) \/ ReadFails(j) \/ Close(j) \/ Wait(j)
    BY <1>2 DEF GiveUp, PromtoolExit, ReadFails, Close, Wait
  <1>3. CASE ListBlocks(j) \/ MovedAll(j) \/ End(j) \/ Crash(j) \/ Blocks(j)
    BY <1>3 DEF ListBlocks, MovedAll, End, Crash, Blocks, PromtoolBlock, RemoveTemp, MoveBlock
  <1>4. CASE Serves(j)
    BY <1>4 DEF Serves, StartProcess, ServerBind, ServerProgress, ServerExit
  <1> QED
    BY <1>1, <1>2, <1>3, <1>4 DEF Step, JobStep, PromtoolStep, Creates, Blocks, Serves

(* to the work: of a block of rules less to write, a move is left,          *)
LEMMA WorkStep ==
    ASSUME TypeOK, TypeOK', NEW j \in Jobs, JobInv(j), JobInv(j)', Step(j),
           IsFiniteSet(dir[j]), IsFiniteSet(dir'[j])
    PROVE  /\ Work(j)' \in Nat /\ Work(j)' <= Work(j)
           /\ \/ PromtoolBlock(j)
              \/ CheckReady(j) /\ pc' = pc
              \/ MoveBlock(j) /\ pc' = pc
              => Work(j)' < Work(j)
  <1>1. /\ ChecksLeft(j) \in Nat /\ RulesLeft(j) \in Nat /\ Files(j) \in Nat
        /\ SeriesLeft(j) \in Nat
    BY WorkTyped
  <1>2. /\ ChecksLeft(j)' \in Nat /\ RulesLeft(j)' \in Nat /\ Files(j)' \in Nat
        /\ SeriesLeft(j)' \in Nat
    <2>1. checks'[j] \in 0..NumChecks /\ created'[j] \in 0..MaxBlocks
          /\ NumChecks \in Nat /\ MaxBlocks \in Nat /\ SeriesBlocks \in Nat
      BY PortsAssumption DEF TypeOK
    <2>2. PICK n \in 0..SeriesBlocks : Of("series", tsdb'[j]) = {<<"series", m, j>> : m \in 1..n}
      BY DEF JobInv, SeriesFirst
    <2>3. n \in Nat
      BY <2>1
    <2>4. Cardinality(Of("series", tsdb'[j])) = n
      BY <2>2, <2>3, SeriesCounted
    <2>5. Cardinality(dir'[j]) \in Nat
      BY FS_CardinalityType
    <2> QED
      BY <2>1, <2>4, <2>5 DEF ChecksLeft, RulesLeft, Files, SeriesLeft
  <1>3. /\ checks' = checks => ChecksLeft(j)' = ChecksLeft(j)
        /\ created' = created => RulesLeft(j)' = RulesLeft(j)
        /\ dir'[j] = dir[j] => Files(j)' = Files(j)
        /\ Of("series", tsdb'[j]) = Of("series", tsdb[j]) => SeriesLeft(j)' = SeriesLeft(j)
    BY DEF ChecksLeft, RulesLeft, Files, SeriesLeft
  <1>4. ASSUME dir'[j] \subseteq dir[j]
        PROVE  Files(j)' <= Files(j) /\ (dir'[j] # dir[j] => Files(j)' < Files(j))
    BY <1>1, <1>2, <1>4, FS_Subset DEF Files
  <1>5. CASE PromtoolBlock(j) /\ promtool[j] = "series"
    <2> PICK n \in 1..SeriesBlocks :
          /\ Of("series", tsdb[j]) = {<<"series", m, j>> : m \in 1..(n - 1)}
          /\ tsdb'[j] = tsdb[j] \cup {<<"series", n, j>>}
      BY <1>5, SeriesAdds
    <2>1. Of("series", tsdb'[j]) = {<<"series", m, j>> : m \in 1..n}
      <3>1. Of("series", tsdb'[j]) = Of("series", tsdb[j]) \cup {<<"series", n, j>>}
        BY DEF Of
      <3>2. {<<"series", m, j>> : m \in 1..n} =
              {<<"series", m, j>> : m \in 1..(n - 1)} \cup {<<"series", n, j>>}
        BY PortsAssumption
      <3> QED
        BY <3>1, <3>2
    <2>2. n \in Nat /\ n - 1 \in Nat /\ SeriesBlocks \in Nat
      BY PortsAssumption
    <2>3. Cardinality(Of("series", tsdb[j])) = n - 1 /\ Cardinality(Of("series", tsdb'[j])) = n
      BY <2>1, <2>2, SeriesCounted
    <2>4. SeriesLeft(j)' = SeriesLeft(j) - 1
      BY <2>2, <2>3 DEF SeriesLeft
    <2>5. UNCHANGED <<checks, created, dir>>
      BY <1>5 DEF PromtoolBlock, portVars
    <2>6. ChecksLeft(j)' = ChecksLeft(j) /\ RulesLeft(j)' = RulesLeft(j) /\ Files(j)' = Files(j)
      BY <2>5, <1>3
    <2>7. Work(j)' \in Nat /\ Work(j)' < Work(j)
      BY <1>1, <1>2, <2>4, <2>6 DEF Work
    <2> QED
      BY <2>7, WorkTyped
  <1>6. CASE PromtoolBlock(j) /\ promtool[j] # "series"
    <2>1. created' = [created EXCEPT ![j] = @ + 1] /\ UNCHANGED <<checks, tsdb>>
          /\ \E o \in Serving(j, "ready") :
               dir' = [dir EXCEPT ![j] = @ \cup {<<"rules", created[j] + 1, o>>}]
      BY <1>6 DEF PromtoolBlock, portVars
    <2>2. RulesLeft(j)' = RulesLeft(j) - 1
      BY <2>1, PortsAssumption DEF TypeOK, RulesLeft
    <2>3. \E b : dir'[j] = dir[j] \cup {b}
      <3> PICK o : dir' = [dir EXCEPT ![j] = @ \cup {<<"rules", created[j] + 1, o>>}]
        BY <2>1
      <3> DEFINE b == <<"rules", created[j] + 1, o>>
      <3>1. dir'[j] = dir[j] \cup {b}
        BY DEF TypeOK
      <3> QED
        BY <3>1
    <2>4. Files(j)' <= Files(j) + 1
      BY <2>3, OneMore DEF Files
    <2>5. ChecksLeft(j)' = ChecksLeft(j) /\ SeriesLeft(j)' = SeriesLeft(j)
      BY <2>1, <1>3
    <2>6. Work(j)' \in Nat /\ Work(j)' < Work(j)
      BY <1>1, <1>2, <2>2, <2>4, <2>5 DEF Work
    <2> QED
      BY <2>6, WorkTyped
  <1>7. CASE CheckReady(j) /\ ~PromtoolBlock(j)
    <2>1. /\ ChecksLeft(j)' = ChecksLeft(j) \/ ChecksLeft(j)' = ChecksLeft(j) - 1
          /\ pc' = pc => ChecksLeft(j)' = ChecksLeft(j) - 1
      BY <1>7, PortsAssumption DEF CheckReady, CountAttempt, TypeOK, Goto, ChecksLeft
    <2>2. UNCHANGED <<created, dir, tsdb>> /\ ~MoveBlock(j)
      BY <1>7 DEF CheckReady, MoveBlock, blockVars
    <2>3. RulesLeft(j)' = RulesLeft(j) /\ Files(j)' = Files(j) /\ SeriesLeft(j)' = SeriesLeft(j)
      BY <2>2, <1>3
    <2>4. Work(j)' \in Nat /\ Work(j)' <= Work(j)
          /\ (ChecksLeft(j)' = ChecksLeft(j) - 1 => Work(j)' < Work(j))
      BY <1>1, <1>2, <2>1, <2>3 DEF Work
    <2> QED
      BY <1>7, <2>1, <2>2, <2>4
  <1>8. CASE (RemoveTemp(j) \/ MoveBlock(j)) /\ ~PromtoolBlock(j) /\ ~CheckReady(j)
    <2>1. UNCHANGED <<checks, created>> /\ dir'[j] \subseteq dir[j]
      BY <1>8 DEF RemoveTemp, MoveBlock, Rename, portVars, TypeOK
    <2>2. Of("series", tsdb'[j]) = Of("series", tsdb[j])
      <3>1. \A b \in tsdb'[j] : b \in tsdb[j] \/ b \in dir[j]
        BY <1>8 DEF RemoveTemp, MoveBlock, Rename, TypeOK
      <3>2. tsdb[j] \subseteq tsdb'[j]
        BY <1>8 DEF RemoveTemp, MoveBlock, Rename, TypeOK
      <3> QED
        BY <3>1, <3>2 DEF JobInv, DirectoryKept, Of
    <2>3. MoveBlock(j) /\ pc' = pc => dir'[j] # dir[j]
      BY DEF MoveBlock, Rename, Return, Goto, TypeOK
    <2>4. Files(j)' <= Files(j) /\ (dir'[j] # dir[j] => Files(j)' < Files(j))
      BY <2>1, <1>4
    <2>5. /\ ChecksLeft(j)' = ChecksLeft(j) /\ RulesLeft(j)' = RulesLeft(j)
          /\ SeriesLeft(j)' = SeriesLeft(j)
      BY <2>1, <2>2, <1>3
    <2>6. Work(j)' \in Nat /\ Work(j)' <= Work(j)
          /\ (Files(j)' < Files(j) => Work(j)' < Work(j))
      BY <1>1, <1>2, <2>4, <2>5 DEF Work
    <2> QED
      BY <1>8, <2>3, <2>4, <2>6
  <1>9. CASE ~Blocks(j) /\ ~CheckReady(j)
    <2>1. UNCHANGED <<checks, created, dir, tsdb>>
      BY <1>9, OthersLeaveBlocks, OthersCountNothing DEF blockVars
    <2>2. /\ ChecksLeft(j)' = ChecksLeft(j) /\ RulesLeft(j)' = RulesLeft(j)
          /\ Files(j)' = Files(j) /\ SeriesLeft(j)' = SeriesLeft(j)
      BY <2>1, <1>3
    <2>3. Work(j)' = Work(j)
      BY <2>2 DEF Work
    <2> QED
      BY <1>9, <2>3, WorkTyped DEF Blocks
  <1> QED
    BY <1>5, <1>6, <1>7, <1>8, <1>9 DEF Blocks

(* and to the processes: one that starts counts, one that ends or comes     *)
(* closer to its end lowers the count.                                      *)
LEMMA ProcessesStep ==
    ASSUME TypeOK, NEW j \in Jobs, Step(j)
    PROVE  /\ ServerBind(j) \/ ServerProgress(j) \/ ServerExit(j) => Processes(j)' < Processes(j)
           /\ StartProcess(j) => Processes(j)' <= Processes(j) + 4
           /\ BackfillOpenMetricsSeries(j) \/ CheckReady(j) => Processes(j)' <= Processes(j) + 1
           /\ PromtoolExit(j) => Processes(j)' < Processes(j)
           /\ UNCHANGED <<server, promtool>> => Processes(j)' = Processes(j)
  <1> USE DEF Processes
  <1>1. ASSUME ServerBind(j) \/ ServerProgress(j) \/ ServerExit(j)
        PROVE  Processes(j)' < Processes(j)
    <2>1. UNCHANGED promtool
      BY <1>1 DEF ServerBind, ServerProgress, ServerExit
    <2>2. \/ server[j] = "booting" /\ server'[j] \in {"up", "dead"}
          \/ server[j] = "up" /\ server'[j] \in {"ready", "hung", "dead"}
          \/ server[j] = "ready" /\ server'[j] \in {"hung", "dead"}
          \/ server[j] = "hung" /\ server'[j] = "dead"
      BY <1>1 DEF ServerBind, ServerProgress, ServerExit, Alive, Bound, TypeOK
    <2> QED
      BY <2>1, <2>2
  <1>2. ASSUME StartProcess(j) PROVE Processes(j)' <= Processes(j) + 4
    <2>1. UNCHANGED promtool /\ (server' = server \/ server'[j] = "booting")
      BY <1>2 DEF StartProcess, TypeOK
    <2> QED
      BY <2>1
  <1>3. ASSUME BackfillOpenMetricsSeries(j) \/ CheckReady(j)
        PROVE  Processes(j)' <= Processes(j) + 1
    <2>1. UNCHANGED server
      BY <1>3 DEF BackfillOpenMetricsSeries, CheckReady
    <2> QED
      BY <2>1
  <1>4. ASSUME PromtoolExit(j) PROVE Processes(j)' < Processes(j)
    <2>1. UNCHANGED server /\ promtool[j] # "none" /\ promtool'[j] = "none"
      BY <1>4 DEF PromtoolExit, Run, TypeOK
    <2> QED
      BY <2>1
  <1>5. ASSUME UNCHANGED <<server, promtool>> PROVE Processes(j)' = Processes(j)
    BY <1>5
  <1> QED
    BY <1>1, <1>2, <1>3, <1>4, <1>5

(* and to the place of the job.                                             *)
LEMMA RankStep ==
    ASSUME TypeOK, NEW j \in Jobs, JobInv(j), Step(j)
    PROVE  /\ Creates(j) \/ BackfillOpenMetricsSeries(j) \/ StartProcess(j) =>
                Rank(j)' <= Rank(j) - 5
           /\ CheckReady(j) => \/ pc' = pc /\ Rank(j)' = Rank(j)
                               \/ pc'[j] = "promtool" /\ Rank(j)' <= Rank(j) - 5
           /\ (\/ PromtoolBlock(j) \/ RemoveTemp(j) \/ ServerBind(j)
               \/ ServerProgress(j) \/ ServerExit(j))
              => Rank(j)' = Rank(j)
           /\ PromtoolExit(j) => Rank(j)' <= Rank(j)
           /\ Wait(j) => Rank(j)' = Rank(j) + 1
           /\ (\/ findAvailablePort(j) \/ GiveUp(j) \/ ReadFails(j) \/ Close(j)
               \/ ListBlocks(j) \/ MovedAll(j) \/ End(j) \/ Crash(j))
              => Rank(j)' < Rank(j)
           /\ MoveBlock(j) => (pc' = pc /\ Rank(j)' = Rank(j)) \/ Rank(j)' < Rank(j)
  <1> USE DEF TypeOK, Rank, Goto, Return, Run, callVars, processVars
  <1>1. ASSUME Creates(j) PROVE Rank(j)' <= Rank(j) - 5
    <2>1. \/ pc[j] = "begin" /\ pc'[j] \in {"series", "rules", "return"}
          \/ pc[j] = "rules" /\ pc'[j] \in {"mkdir", "return"}
          \/ pc[j] = "mkdir" /\ pc'[j] \in {"config", "return"}
          \/ pc[j] = "config" /\ pc'[j] \in {"port", "return"}
      BY <1>1 DEF Creates, Begin, CreateRuleFile, MkdirTemp, CreateConfig, CreateTemp
    <2>2. pc'[j] = "return" => result'[j] # "rulesOK"
      BY <1>1 DEF Creates, Begin, CreateRuleFile, MkdirTemp, CreateConfig, CreateTemp
    <2> QED
      BY <2>1, <2>2
  <1>2. ASSUME BackfillOpenMetricsSeries(j) \/ StartProcess(j) PROVE Rank(j)' <= Rank(j) - 5
    <2>1. \/ pc[j] = "series" /\ pc'[j] = "promtool" /\ promtool'[j] = "series"
          \/ pc[j] = "start" /\ pc'[j] = "check"
          \/ pc[j] \in {"series", "start"} /\ pc'[j] = "return" /\ result'[j] = "error"
      BY <1>2 DEF BackfillOpenMetricsSeries, StartProcess
    <2> QED
      BY <2>1
  <1>3. ASSUME CheckReady(j)
        PROVE  \/ pc' = pc /\ Rank(j)' = Rank(j)
               \/ pc'[j] = "promtool" /\ Rank(j)' <= Rank(j) - 5
    <2>1. /\ pc[j] = "check" /\ UNCHANGED result
          /\ \/ pc' = pc
             \/ pc'[j] = "promtool" /\ promtool'[j] = "rules"
      BY <1>3 DEF CheckReady
    <2> QED
      BY <2>1
  <1>4. ASSUME \/ PromtoolBlock(j) \/ RemoveTemp(j)
               \/ ServerBind(j) \/ ServerProgress(j) \/ ServerExit(j)
        PROVE  Rank(j)' = Rank(j)
    <2>1. UNCHANGED <<pc, result, promtool>>
      BY <1>4 DEF PromtoolBlock, RemoveTemp, ServerBind, ServerProgress, ServerExit
    <2> QED
      BY <2>1
  <1>5. ASSUME PromtoolExit(j) PROVE Rank(j)' <= Rank(j)
    <2>1. \/ pc[j] # "promtool" /\ UNCHANGED <<pc, result>>
          \/ pc[j] = "promtool" /\ pc'[j] = "return"
          \/ pc[j] = "promtool" /\ promtool[j] = "series" /\ pc'[j] = "rules"
      BY <1>5 DEF PromtoolExit
    <2> QED
      BY <2>1
  <1>6. ASSUME Wait(j) PROVE Rank(j)' = Rank(j) + 1
    <2>1. pc[j] = "wait" /\ pc'[j] = "return" /\ UNCHANGED result
      BY <1>6 DEF Wait
    <2> QED
      BY <2>1
  <1>7. ASSUME findAvailablePort(j) \/ GiveUp(j) \/ ReadFails(j)
        PROVE  Rank(j)' < Rank(j)
    <2>1. \/ pc[j] = "port" /\ pc'[j] = "start"
          \/ pc[j] \in {"port", "check", "promtool"} /\ pc'[j] = "return" /\ result'[j] = "error"
      <3>1. CASE findAvailablePort(j)
        BY <3>1 DEF findAvailablePort
      <3>2. CASE GiveUp(j) \/ ReadFails(j)
        BY <3>2 DEF GiveUp, ReadFails
      <3> QED
        BY <1>7, <3>1, <3>2
    <2> QED
      BY <2>1
  <1>8. ASSUME Close(j) \/ ListBlocks(j) \/ MovedAll(j) PROVE Rank(j)' < Rank(j)
    <2>1. \/ pc[j] = "return" /\ pc'[j] = "wait" /\ UNCHANGED result
          \/ pc[j] = "return" /\ result[j] = "rulesOK" /\ pc'[j] = "move"
          \/ pc[j] = "return" /\ result[j] = "rulesOK" /\ pc'[j] = "return" /\ result'[j] = "error"
          \/ pc[j] = "move" /\ pc'[j] = "return" /\ result'[j] = "ok"
      BY <1>8 DEF Close, Unwinding, ListBlocks, MovedAll
    <2> QED
      BY <2>1
  <1>9. ASSUME End(j) \/ Crash(j) PROVE Rank(j)' < Rank(j)
    <2>1. pc'[j] \in {"ended", "crashed"} /\ pc[j] \notin {"ended", "crashed"}
      BY <1>9 DEF End, Crash
    <2>2. Rank(j) > 0
      BY <2>1
    <2> QED
      BY <2>1, <2>2
  <1>10. ASSUME MoveBlock(j) PROVE (pc' = pc /\ Rank(j)' = Rank(j)) \/ Rank(j)' < Rank(j)
    <2>1. /\ pc[j] = "move"
          /\ \/ UNCHANGED <<pc, result>>
             \/ pc'[j] = "return" /\ result'[j] = "error"
      BY <1>10 DEF MoveBlock
    <2> QED
      BY <2>1
  <1> QED
    BY <1>1, <1>2, <1>3, <1>4, <1>5, <1>6, <1>7, <1>8, <1>9, <1>10

LEMMA LeftTyped ==
    ASSUME TypeOK, NEW j \in Jobs, JobInv(j), IsFiniteSet(dir[j])
    PROVE  /\ Rank(j) \in Nat /\ Work(j) \in Nat /\ Processes(j) \in Nat
           /\ Len(defers[j]) \in Nat /\ Left(j) \in Nat
  <1>1. Rank(j) \in Nat
    BY RankTyped
  <1>2. Work(j) \in Nat
    BY WorkTyped
  <1>3. Processes(j) \in Nat
    BY ProcessesTyped
  <1>4. Len(defers[j]) \in Nat
    BY LenTyped
  <1> QED
    BY <1>1, <1>2, <1>3, <1>4 DEF Left

LEMMA LeftStep ==
    ASSUME TypeOK, TypeOK', NEW j \in Jobs, JobInv(j), JobInv(j)', Step(j),
           IsFiniteSet(dir[j]), IsFiniteSet(dir'[j])
    PROVE  Left(j)' < Left(j)
  <1>1. /\ Rank(j) \in Int /\ Work(j) \in Int /\ Processes(j) \in Int
        /\ Len(defers[j]) \in Int
    BY LeftTyped
  <1>2. /\ Rank(j)' \in Int /\ Work(j)' \in Int /\ Processes(j)' \in Int
        /\ Len(defers'[j]) \in Int
    <2>1. Rank(j)' \in Int /\ Processes(j)' \in Int
      BY DEF Rank, Processes
    <2>2. Work(j)' \in Int
      BY WorkStep
    <2>3. defers'[j] \in Seq(Deferred)
      BY DEF TypeOK
    <2> QED
      BY <2>1, <2>2, <2>3
  <1>3. Work(j)' <= Work(j)
    BY WorkStep
  <1>4. UNCHANGED <<server, promtool>> => Processes(j)' = Processes(j)
    BY ProcessesStep
  <1>5. UNCHANGED defers => Len(defers'[j]) = Len(defers[j])
    OBVIOUS
  <1>6. CASE Creates(j)
    <2>1. UNCHANGED <<server, promtool>>
      BY <1>6 DEF Creates, Begin, CreateRuleFile, MkdirTemp, CreateConfig, processVars
    <2>2. Rank(j)' <= Rank(j) - 5 /\ Len(defers'[j]) <= Len(defers[j]) + 1
      BY <1>6, RankStep, LenStep
    <2> QED
      BY <1>1, <1>2, <1>3, <1>4, <2>1, <2>2 DEF Left
  <1>7. CASE BackfillOpenMetricsSeries(j)
    <2>1. UNCHANGED defers
      BY <1>7 DEF BackfillOpenMetricsSeries
    <2>2. Rank(j)' <= Rank(j) - 5 /\ Processes(j)' <= Processes(j) + 1
      BY <1>7, RankStep, ProcessesStep
    <2> QED
      BY <1>1, <1>2, <1>3, <1>5, <2>1, <2>2 DEF Left
  <1>8. CASE \/ findAvailablePort(j) \/ GiveUp(j) \/ ReadFails(j) \/ Close(j)
             \/ ListBlocks(j) \/ MovedAll(j) \/ End(j) \/ Crash(j)
    <2>1. UNCHANGED <<defers, server, promtool>>
      BY <1>8 DEF findAvailablePort, GiveUp, ReadFails, Close, ListBlocks, MovedAll, End, Crash,
         processVars
    <2>2. Rank(j)' < Rank(j)
      BY <1>8, RankStep
    <2> QED
      BY <1>1, <1>2, <1>3, <1>4, <1>5, <2>1, <2>2 DEF Left
  <1>9. CASE StartProcess(j)
    <2>1. UNCHANGED defers
      BY <1>9 DEF StartProcess
    <2>2. Rank(j)' <= Rank(j) - 5 /\ Processes(j)' <= Processes(j) + 4
      BY <1>9, RankStep, ProcessesStep
    <2> QED
      BY <1>1, <1>2, <1>3, <1>5, <2>1, <2>2 DEF Left
  <1>10. CASE CheckReady(j)
    <2>1. CASE pc' = pc
      <3>1. UNCHANGED <<defers, server, promtool>>
        BY <1>10, <2>1 DEF CheckReady, Goto, TypeOK
      <3>2. Work(j)' < Work(j) /\ Rank(j)' = Rank(j)
        <4>1. pc[j] = "check"
          BY <1>10 DEF CheckReady
        <4> QED
          BY <1>10, <2>1, <4>1, RankStep, WorkStep
      <3> QED
        BY <1>1, <1>2, <1>4, <1>5, <3>1, <3>2 DEF Left
    <2>2. CASE pc' # pc
      <3>1. Rank(j)' <= Rank(j) - 5
        BY <1>10, <2>2, RankStep
      <3>2. Len(defers'[j]) = Len(defers[j]) + 1
        BY <1>10, <2>2, LenStep
      <3>3. Processes(j)' <= Processes(j) + 1
        BY <1>10, ProcessesStep
      <3>4. 2 * Len(defers'[j]) = 2 * Len(defers[j]) + 2
        BY <1>1, <3>2
      <3>5. Rank(j)' + 2 * Len(defers'[j]) <= Rank(j) + 2 * Len(defers[j]) - 3
        BY <1>1, <1>2, <3>1, <3>4
      <3> QED
        BY <1>1, <1>2, <1>3, <3>3, <3>5 DEF Left
    <2> QED
      BY <2>1, <2>2
  <1>11. CASE PromtoolBlock(j)
    <2>1. UNCHANGED <<defers, server, promtool>>
      BY <1>11 DEF PromtoolBlock, processVars
    <2>2. Rank(j)' = Rank(j) /\ Work(j)' < Work(j)
      BY <1>11, RankStep, WorkStep
    <2> QED
      BY <1>1, <1>2, <1>4, <1>5, <2>1, <2>2 DEF Left
  <1>12. CASE PromtoolExit(j)
    <2>1. UNCHANGED defers
      BY <1>12 DEF PromtoolExit
    <2>2. Rank(j)' <= Rank(j) /\ Processes(j)' < Processes(j)
      BY <1>12, RankStep, ProcessesStep
    <2> QED
      BY <1>1, <1>2, <1>3, <1>5, <2>1, <2>2 DEF Left
  <1>13. CASE RemoveTemp(j) \/ Wait(j)
    <2>1. UNCHANGED <<server, promtool>>
      BY <1>13 DEF RemoveTemp, Wait, processVars
    <2>2. Rank(j)' \in {Rank(j), Rank(j) + 1} /\ Len(defers'[j]) = Len(defers[j]) - 1
      BY <1>13, RankStep, LenStep
    <2> QED
      BY <1>1, <1>2, <1>3, <1>4, <2>1, <2>2 DEF Left
  <1>14. CASE MoveBlock(j)
    <2>1. UNCHANGED <<defers, server, promtool>>
      BY <1>14 DEF MoveBlock, processVars
    <2>2. (Rank(j)' = Rank(j) /\ Work(j)' < Work(j)) \/ Rank(j)' < Rank(j)
      BY <1>14, RankStep, WorkStep
    <2> QED
      BY <1>1, <1>2, <1>3, <1>4, <1>5, <2>1, <2>2 DEF Left
  <1>15. CASE ServerBind(j) \/ ServerProgress(j) \/ ServerExit(j)
    <2>1. UNCHANGED defers
      BY <1>15 DEF ServerBind, ServerProgress, ServerExit, callVars
    <2>2. Rank(j)' = Rank(j) /\ Processes(j)' < Processes(j)
      BY <1>15, RankStep, ProcessesStep
    <2> QED
      BY <1>1, <1>2, <1>3, <1>5, <2>1, <2>2 DEF Left
  <1> QED
    BY <1>6, <1>7, <1>8, <1>9, <1>10, <1>11, <1>12, <1>13, <1>14, <1>15
    DEF Step, JobStep, PromtoolStep, Creates

LEMMA LeftUntouched ==
    ASSUME TypeOK, NEW j \in Jobs, Step(j), NEW o \in Jobs, o # j
    PROVE  Left(o)' = Left(o)
  <1>1. Local(o)' = Local(o)
    BY OthersUntouched
  <1> USE <1>1 DEF Local
  <1>2. Rank(o)' = Rank(o) /\ Processes(o)' = Processes(o)
    BY DEF Rank, Processes
  <1>3. Work(o)' = Work(o)
    BY DEF Work, ChecksLeft, RulesLeft, Files, SeriesLeft
  <1> QED
    BY <1>2, <1>3 DEF Left

LEMMA FiniteInvariance == Spec => []FiniteDirs
  <1>1. Init => FiniteDirs
    BY FS_EmptySet DEF Init, FiniteDirs
  <1>2. IInv /\ FiniteDirs /\ [Next]_vars => FiniteDirs'
    <2> SUFFICES ASSUME IInv, FiniteDirs, [Next]_vars PROVE FiniteDirs'
      OBVIOUS
    <2>1. CASE UNCHANGED vars
      BY <2>1 DEF FiniteDirs, vars, blockVars
    <2>2. ASSUME NEW j \in Jobs, Step(j) PROVE FiniteDirs'
      BY <2>2, FiniteStep DEF IInv
    <2> QED
      BY <2>1, <2>2 DEF Next, Step
  <1> QED
    BY <1>1, <1>2, Invariance, PTL DEF Spec

(* The step of a job, or of a process it started, brings it closer to       *)
(* having none left, and leaves the other jobs where they are.              *)
Advance == \E j \in Jobs : Lowered(j)

(* No job goes on for ever: what a job and its processes can still do is a  *)
(* natural number that each of their steps lowers, whatever other jobs do   *)
(* in between, so that a run of the command that never ends is one that     *)
(* waits. (The safety half of EndsUnlessStalled.)                           *)
THEOREM JobsRunOut ==
    Spec => [](\A j \in Jobs : Left(j) \in Nat) /\ [][Advance]_vars
  <1>1. IInv /\ FiniteDirs => \A j \in Jobs : Left(j) \in Nat
    BY LeftTyped DEF IInv, FiniteDirs
  <1>2. IInv /\ IInv' /\ FiniteDirs /\ FiniteDirs' /\ [Next]_vars => [Advance]_vars
    <2> SUFFICES ASSUME IInv, IInv', FiniteDirs, FiniteDirs', NEW j \in Jobs, Step(j)
                 PROVE  Lowered(j)
      BY DEF Next, Step, Advance
    <2>1. Left(j)' < Left(j)
      BY LeftStep DEF IInv, FiniteDirs
    <2>2. \A o \in Jobs \ {j} : Left(o)' = Left(o)
      BY LeftUntouched DEF IInv
    <2> QED
      BY <2>1, <2>2 DEF Lowered
  <1> QED
    BY <1>1, <1>2, Invariance, FiniteInvariance, PTL DEF Spec

-----------------------------------------------------------------------------
(* Having a step to take.                                                   *)

(* A promtool that is waited for runs, and so does, or did, a Prometheus    *)
(* that is checked or is to be closed.                                      *)
Started(j) ==
    /\ pc[j] = "promtool" => promtool[j] # "none"
    /\ pc[j] = "check" \/ "close" \in Elements(defers[j]) => server[j] # "none"

LEMMA StartedStep ==
    ASSUME TypeOK, NEW j \in Jobs, JobInv(j), Step(j), Started(j)
    PROVE  Started(j)'
  <1>1. pc'[j] = "promtool" => promtool'[j] # "none"
    <2>1. CASE PromtoolExit(j)
      <3>1. pc'[j] # "promtool"
        BY <2>1 DEF PromtoolExit, Return, Goto, TypeOK
      <3> QED
        BY <3>1
    <2>2. CASE BackfillOpenMetricsSeries(j) \/ CheckReady(j)
      <3>1. \/ pc'[j] # "promtool"
            \/ promtool'[j] \in {"series", "rules"}
        BY <2>2 DEF BackfillOpenMetricsSeries, CheckReady, Run, Return, Goto, TypeOK
      <3> QED
        BY <3>1
    <2>3. CASE ~Runs(j)
      <3>1. UNCHANGED promtool
        BY <2>3, OthersRunNothing
      <3>2. pc'[j] = "promtool" => pc[j] = "promtool"
        BY <2>3, StepOnward DEF Onward, Runs
      <3> QED
        BY <3>1, <3>2 DEF Started
    <2> QED
      BY <2>1, <2>2, <2>3 DEF Runs
  <1>2. server[j] # "none" => server'[j] # "none"
    <2>1. CASE StartProcess(j)
      BY <2>1 DEF StartProcess, TypeOK
    <2>2. CASE ServerBind(j) \/ ServerProgress(j) \/ ServerExit(j)
      BY <2>2 DEF ServerBind, ServerProgress, ServerExit, TypeOK
    <2>3. CASE ~Serves(j)
      BY <2>3, OthersServeNothing
    <2> QED
      BY <2>1, <2>2, <2>3 DEF Serves
  <1>3. pc'[j] = "check" => pc[j] = "check" \/ server'[j] # "none"
    <2>1. CASE StartProcess(j)
      BY <2>1 DEF StartProcess, Return, Goto, TypeOK
    <2>2. CASE ~StartProcess(j)
      <3>1. pc[j] = "start" => pc'[j] # "check"
        <4> SUFFICES ASSUME pc[j] = "start" PROVE pc'[j] # "check"
          OBVIOUS
        <4>1. CASE Crash(j)
          BY <4>1 DEF Crash, Goto, TypeOK
        <4>2. CASE PromtoolBlock(j) \/ PromtoolExit(j)
          BY <4>2 DEF PromtoolBlock, PromtoolExit
        <4>3. CASE ServerBind(j) \/ ServerProgress(j) \/ ServerExit(j)
          BY <4>3 DEF ServerBind, ServerProgress, ServerExit, callVars
        <4>4. \/ StartProcess(j) \/ Crash(j) \/ PromtoolBlock(j) \/ PromtoolExit(j)
              \/ ServerBind(j) \/ ServerProgress(j) \/ ServerExit(j)
          BY DEF Step, JobStep, PromtoolStep, Begin, BackfillOpenMetricsSeries, CreateRuleFile,
             MkdirTemp, CreateConfig, findAvailablePort, CheckReady, GiveUp, ReadFails,
             RemoveTemp, Close, Unwinding, Wait, ListBlocks, MoveBlock, MovedAll, End
        <4> QED
          BY <2>2, <4>1, <4>2, <4>3, <4>4
      <3> QED
        BY <3>1, StepOnward DEF Onward
    <2> QED
      BY <2>1, <2>2
  <1>4. "close" \in Elements(defers'[j]) => "close" \in Elements(defers[j]) \/ pc[j] = "check"
    <2>1. CASE Creates(j)
      <3>1. CASE \E x \in Temp, l \in Control : CreateTemp(j, x, l)
        BY <3>1, CreateTempDefers DEF Temp
      <3>2. CASE UNCHANGED <<defers, temps>>
        BY <3>2
      <3> QED
        BY <2>1, <3>1, <3>2
        DEF Creates, Begin, CreateRuleFile, MkdirTemp, CreateConfig, Temp, Control
    <2>2. CASE CheckReady(j)
      BY <2>2 DEF CheckReady
    <2>3. CASE PromtoolBlock(j)
      BY <2>3 DEF PromtoolBlock
    <2>4. CASE RemoveTemp(j) \/ Wait(j)
      BY <2>4, PopDefers
    <2>5. CASE ~Defers(j)
      BY <2>5, OthersDeferNothing
    <2> QED
      BY <2>1, <2>2, <2>3, <2>4, <2>5 DEF Defers
  <1> QED
    BY <1>1, <1>2, <1>3, <1>4 DEF Started

LEMMA StartedInvariance == Spec => [](\A j \in Jobs : Started(j))
  <1> DEFINE AllStarted == \A j \in Jobs : Started(j)
  <1>1. Init => AllStarted
    BY DEF Init, Started, Elements
  <1>2. IInv /\ AllStarted /\ [Next]_vars => AllStarted'
    <2> SUFFICES ASSUME IInv, AllStarted, [Next]_vars, NEW o \in Jobs PROVE Started(o)'
      OBVIOUS
    <2>1. CASE UNCHANGED vars
      BY <2>1 DEF Started, vars, callVars, processVars
    <2>2. ASSUME NEW j \in Jobs, Step(j) PROVE Started(o)'
      <3>1. CASE o = j
        BY <2>2, <3>1, StartedStep DEF IInv
      <3>2. CASE o # j
        <4>1. Local(o)' = Local(o)
          BY <2>2, <3>2, OthersUntouched DEF IInv
        <4> QED
          BY <4>1 DEF Local, Started
      <3> QED
        BY <3>1, <3>2
    <2> QED
      BY <2>1, <2>2 DEF Next, Step
  <1> QED
    BY <1>1, <1>2, Invariance, PTL DEF Spec

(* What the steps that Fairness is about ask for, action by action.         *)
CanStep(j) ==
    \/ pc[j] \in {"begin", "series", "rules", "mkdir", "config", "port", "start", "move"}
    \/ pc[j] = "check" /\ AttemptsLeft(j)
         /\ (Serving(j, "ready") # {} \/ Serving(j, "ready") \cup Serving(j, "hung") = {})
    \/ pc[j] = "check" /\ checks[j] = NumChecks
    \/ pc[j] = "promtool" /\ promtool[j] # "none"
    \/ Unwinding(j) /\ Head(defers[j]) \in Temp \cup {"close"}
    \/ pc[j] = "return" /\ result[j] = "rulesOK" /\ ~Unwinding(j)
    \/ pc[j] = "return" /\ result[j] # "rulesOK" /\ defers[j] = <<>>
    \/ pc[j] = "wait" /\ (Exited(j) \/ Alive(j))

NeverBlocked ==
    \A j \in Jobs : pc[j] \notin {"ended", "crashed"} => Stalled(j) \/ CanStep(j)

(* A job that has not ended, and does not wait for a process that hangs,    *)
(* has a step to take, or waits for a process that has: a promtool is       *)
(* waited for only while it runs, the end of a Prometheus only when one     *)
(* was started, and every result is one some return looks at.               *)
THEOREM JobsNeverBlocked == Spec => []NeverBlocked
  <1>1. IInv /\ (\A j \in Jobs : Started(j)) => NeverBlocked
    <2> SUFFICES ASSUME IInv, NEW j \in Jobs, Started(j), pc[j] \notin {"ended", "crashed"},
                        ~Stalled(j)
                 PROVE  CanStep(j)
      BY DEF NeverBlocked
    <2>1. TypeOK /\ JobInv(j)
      BY DEF IInv
    <2>2. CASE pc[j] = "check"
      <3>1. checks[j] \in 0..NumChecks /\ NumChecks \in Nat
        BY <2>1, PortsAssumption DEF TypeOK
      <3>2. Serving(j, "hung") = {}
        BY <2>2 DEF Stalled
      <3>3. CASE AttemptsLeft(j)
        BY <2>2, <3>2, <3>3 DEF CanStep
      <3>4. CASE checks[j] = NumChecks
        BY <2>2, <3>4 DEF CanStep
      <3> QED
        BY <3>1, <3>3, <3>4 DEF AttemptsLeft
    <2>3. CASE pc[j] = "promtool"
      BY <2>3 DEF Started, CanStep
    <2>4. CASE pc[j] = "wait"
      <3>1. defers[j] # <<>> /\ Head(defers[j]) = "close"
        BY <2>1, <2>4 DEF JobInv, CloseLast
      <3>2. "close" \in Elements(defers[j])
        BY <2>1, <3>1, Popped DEF TypeOK
      <3>3. server[j] \in {"booting", "up", "ready", "hung", "dead"}
        BY <2>1, <3>2 DEF Started, TypeOK
      <3> QED
        BY <2>4, <3>3 DEF CanStep, Exited, Alive, Bound
    <2>5. CASE pc[j] = "return"
      <3>1. CASE Unwinding(j)
        <4>1. defers[j] \in Seq(Deferred) /\ defers[j] # <<>>
          BY <2>1, <3>1 DEF Unwinding, TypeOK
        <4>2. Head(defers[j]) \in Temp \cup {"close"}
          BY <4>1, Popped DEF Deferred
        <4> QED
          BY <3>1, <4>2 DEF CanStep
      <3>2. CASE ~Unwinding(j)
        BY <2>5, <3>2 DEF CanStep, Unwinding
      <3> QED
        BY <3>1, <3>2
    <2>6. CASE pc[j] \notin {"check", "promtool", "wait", "return"}
      BY <2>1, <2>6 DEF TypeOK, CanStep
    <2> QED
      BY <2>2, <2>3, <2>4, <2>5, <2>6
  <1> QED
    BY <1>1, Invariance, StartedInvariance, PTL

-----------------------------------------------------------------------------
(* The refinement.                                                          *)

outcomeBar ==
    [j \in Jobs |-> CASE pc[j] = "ended" -> result[j]
                      [] pc[j] = "crashed" -> "killed"
                      [] OTHER -> "running"]

addedBar == [j \in Jobs |-> {<<b[1], b[2]>> : b \in tsdb[j]}]

LEMMA InitImplements == Init => Abstract!Init
  BY DEF Init, Abstract!Init

(* What a step means for Backfill, by the variables of its job.             *)
LEMMA MappedUnchanged ==
    ASSUME TypeOK, TypeOK', NEW j \in Jobs, Step(j),
           created'[j] = created[j], tsdb'[j] = tsdb[j],
           outcomeBar'[j] = outcomeBar[j]
    PROVE  UNCHANGED <<wants, outcomeBar, created, addedBar>>
  <1>1. \A o \in Jobs : created'[o] = created[o] /\ tsdb'[o] = tsdb[o] /\ outcomeBar'[o] = outcomeBar[o]
    BY OthersUntouched DEF Local, outcomeBar
  <1>2. created' = created
    BY <1>1 DEF TypeOK
  <1>3. tsdb' = tsdb
    BY <1>1 DEF TypeOK
  <1>4. outcomeBar' = outcomeBar
    BY <1>1 DEF outcomeBar
  <1> QED
    BY <1>2, <1>3, <1>4, WantsKept DEF addedBar

LEMMA AddedGrows ==
    ASSUME TypeOK, TypeOK', NEW j \in Jobs, Step(j), NEW b, tsdb'[j] = tsdb[j] \cup {b}
    PROVE  addedBar' = [addedBar EXCEPT ![j] = @ \cup {<<b[1], b[2]>>}]
  <1>1. \A o \in Jobs : o # j => tsdb'[o] = tsdb[o]
    BY OthersUntouched DEF Local
  <1>2. addedBar'[j] = addedBar[j] \cup {<<b[1], b[2]>>}
    BY DEF addedBar
  <1>3. \A o \in Jobs : o # j => addedBar'[o] = addedBar[o]
    BY <1>1 DEF addedBar
  <1> QED
    BY <1>2, <1>3 DEF addedBar

LEMMA OutcomeSame ==
    ASSUME TypeOK, TypeOK', NEW j \in Jobs, Step(j), UNCHANGED <<pc, result>>
    PROVE  outcomeBar' = outcomeBar
  BY DEF outcomeBar

LEMMA SeriesInPlace ==
    ASSUME NEW j \in Jobs,
           "series" \in wants[j] => \A n \in 1..SeriesBlocks : <<"series", n, j>> \in tsdb[j]
    PROVE  Abstract!SeriesAdded(j)
  <1>1. ASSUME "series" \in wants[j], NEW n \in 1..SeriesBlocks
        PROVE  <<"series", n>> \in {<<b[1], b[2]>> : b \in tsdb[j]}
    <2> DEFINE s == <<"series", n, j>>
    <2>1. s \in tsdb[j] /\ s[1] = "series" /\ s[2] = n
      BY <1>1
    <2> HIDE DEF s
    <2> QED
      BY <2>1
  <1>2. "series" \in wants[j] => Abstract!Series \subseteq {<<b[1], b[2]>> : b \in tsdb[j]}
    BY <1>1 DEF Abstract!Series
  <1> QED
    BY <1>2 DEF Abstract!SeriesAdded

LEMMA StepImplements ==
    ASSUME TypeOK, TypeOK', NEW j \in Jobs, JobInv(j), Step(j)
    PROVE  Abstract!Next \/ UNCHANGED <<wants, outcomeBar, created, addedBar>>
  <1>0. UNCHANGED wants
    BY WantsKept
  <1>1. CASE PromtoolBlock(j)
    <2>0. /\ UNCHANGED <<pc, result>> /\ promtool[j] # "none"
          /\ outcomeBar[j] \in {"running", "error", "killed"} /\ outcomeBar' = outcomeBar
      <3>1. UNCHANGED <<pc, result>> /\ promtool[j] # "none"
        BY <1>1 DEF PromtoolBlock
      <3> QED
        BY <3>1, OutcomeSame DEF JobInv, PromtoolKept, outcomeBar
    <2>1. CASE promtool[j] = "series"
      <3> PICK n \in 1..SeriesBlocks :
            /\ Of("series", tsdb[j]) = {<<"series", m, j>> : m \in 1..(n - 1)}
            /\ tsdb'[j] = tsdb[j] \cup {<<"series", n, j>>}
        BY <1>1, <2>1, SeriesAdds
      <3>1. addedBar' = [addedBar EXCEPT ![j] = @ \cup {<<"series", n>>}]
        BY AddedGrows
      <3>2. <<"series", n>> \in Abstract!Series \ addedBar[j]
        <4>1. <<"series", n>> \in Abstract!Series
          BY DEF Abstract!Series
        <4>2. ASSUME NEW b \in tsdb[j], b[1] = "series" PROVE b[2] # n
          <5>1. b \in {<<"series", m, j>> : m \in 1..(n - 1)}
            BY <4>2 DEF Of
          <5> QED
            BY <5>1, PortsAssumption
        <4> QED
          BY <4>1, <4>2 DEF addedBar
      <3>3. "series" \in wants[j] /\ created[j] = 0 /\ UNCHANGED created
        BY <1>1, <2>1 DEF JobInv, PromtoolKept, DirectoryKept, PromtoolBlock
      <3>4. Abstract!AddSeries(j)
        BY <1>0, <2>0, <3>1, <3>2, <3>3 DEF Abstract!AddSeries, addedBar, outcomeBar
      <3> QED
        BY <3>4 DEF Abstract!Next
    <2>2. CASE promtool[j] = "rules"
      <3>1. created' = [created EXCEPT ![j] = @ + 1] /\ UNCHANGED tsdb
        BY <1>1, <2>2 DEF PromtoolBlock
      <3>2. "rules" \in wants[j]
        BY <2>2 DEF JobInv, PromtoolKept
      <3>3. Of("rules", tsdb[j]) = {}
        BY <2>2 DEF JobInv, RulesLast
      <3>4. addedBar[j] \subseteq Abstract!Series
        <4>1. ASSUME NEW b \in tsdb[j] PROVE <<b[1], b[2]>> \in Abstract!Series
          <5>1. b \in Block /\ b[1] # "rules"
            BY <3>3 DEF TypeOK, Of
          <5> QED
            BY <5>1 DEF Block, Abstract!Series
        <4> QED
          BY <4>1 DEF addedBar
      <3>5. Abstract!SeriesAdded(j)
        BY <2>2, SeriesInPlace DEF JobInv, SeriesFirst
      <3>6. Abstract!Make(j)
        BY <1>0, <2>0, <3>1, <3>2, <3>4, <3>5 DEF Abstract!Make, addedBar, outcomeBar
      <3> QED
        BY <3>6 DEF Abstract!Next
    <2> QED
      BY <2>0, <2>1, <2>2 DEF TypeOK
  <1>2. CASE MoveBlock(j) /\ ~UNCHANGED tsdb
    <2>1. /\ UNCHANGED <<pc, result, created>> /\ pc[j] = "move"
          /\ \E b \in dir[j] : tsdb' = [tsdb EXCEPT ![j] = @ \cup {b}]
      BY <1>2 DEF MoveBlock, Rename
    <2> PICK b \in dir[j] : tsdb' = [tsdb EXCEPT ![j] = @ \cup {b}]
      BY <2>1
    <2>2. tsdb'[j] = tsdb[j] \cup {b}
      BY DEF TypeOK
    <2>3. addedBar' = [addedBar EXCEPT ![j] = @ \cup {<<b[1], b[2]>>}]
      BY <2>2, AddedGrows
    <2>4. <<b[1], b[2]>> \in Abstract!Rules(j)
      <3>1. b[1] = "rules" /\ "dir" \in temps[j]
        BY <2>1 DEF JobInv, DirectoryKept
      <3>2. b[2] \in 1..created[j]
        BY <2>1, <3>1 DEF JobInv, Conserved, PromtoolKept
      <3> QED
        BY <3>1, <3>2 DEF Abstract!Rules
    <2>5. outcomeBar[j] = "running" /\ outcomeBar' = outcomeBar
      BY <2>1, OutcomeSame DEF outcomeBar
    <2>6. CASE <<b[1], b[2]>> \in addedBar[j]
      <3>1. addedBar' = addedBar
        BY <2>3, <2>6 DEF addedBar
      <3> QED
        BY <1>0, <2>1, <2>5, <3>1
    <2>7. CASE <<b[1], b[2]>> \notin addedBar[j]
      <3>1. Abstract!Add(j)
        BY <1>0, <2>1, <2>3, <2>4, <2>5, <2>7 DEF Abstract!Add, addedBar, outcomeBar
      <3> QED
        BY <3>1 DEF Abstract!Next
    <2> QED
      BY <2>6, <2>7
  <1>3. CASE ~PromtoolBlock(j) /\ (MoveBlock(j) => UNCHANGED tsdb)
    <2>1. UNCHANGED <<created, tsdb>>
      <3>1. CASE MoveBlock(j)
        BY <1>3, <3>1 DEF MoveBlock
      <3>2. CASE RemoveTemp(j)
        BY <3>2 DEF RemoveTemp
      <3> QED
        BY <1>3, <3>1, <3>2, OthersLeaveBlocks DEF Blocks, blockVars
    <2>2. UNCHANGED addedBar
      BY <2>1 DEF addedBar
    <2>3. CASE outcomeBar'[j] = outcomeBar[j]
      BY <2>1, <2>3, MappedUnchanged
    <2>4. CASE outcomeBar'[j] # outcomeBar[j]
      <3>1. \A o \in Jobs : o # j => outcomeBar'[o] = outcomeBar[o]
        BY OthersUntouched DEF Local, outcomeBar
      <3>2. outcomeBar' = [outcomeBar EXCEPT ![j] = outcomeBar'[j]]
        BY <3>1 DEF outcomeBar
      <3>3. pc[j] \notin {"ended", "crashed"} /\ outcomeBar[j] = "running"
        BY <2>4, StepOnward DEF Onward, outcomeBar
      <3>4. CASE pc'[j] = "crashed"
        <4>1. outcomeBar'[j] = "killed"
          BY <3>4 DEF outcomeBar
        <4>2. Abstract!End(j)
          BY <1>0, <2>1, <2>2, <3>2, <3>3, <4>1 DEF Abstract!End, addedBar, outcomeBar
        <4> QED
          BY <4>2 DEF Abstract!Next
      <3>5. CASE pc'[j] = "ended"
        <4>1. outcomeBar'[j] = result[j] /\ result[j] # "rulesOK"
          BY <3>3, <3>5, StepOnward DEF Onward, outcomeBar
        <4>2. CASE result[j] = "error"
          <5>1. Abstract!End(j)
            BY <1>0, <2>1, <2>2, <3>2, <3>3, <4>1, <4>2 DEF Abstract!End, addedBar, outcomeBar
          <5> QED
            BY <5>1 DEF Abstract!Next
        <4>3. CASE result[j] = "ok"
          <5>1. Abstract!SeriesAdded(j)
            BY <4>3, SeriesInPlace DEF JobInv, SeriesFirst
          <5>2. Abstract!Rules(j) \subseteq addedBar[j]
            <6>1. \A n \in 1..created[j] : \E b \in tsdb[j] : b[1] = "rules" /\ b[2] = n
              BY <4>3 DEF JobInv, SuccessComplete
            <6> QED
              BY <6>1 DEF Abstract!Rules, addedBar
          <5>3. Abstract!End(j)
            BY <1>0, <2>1, <2>2, <3>2, <3>3, <4>1, <4>3, <5>1, <5>2
            DEF Abstract!End, addedBar, outcomeBar
          <5> QED
            BY <5>3 DEF Abstract!Next
        <4>4. result[j] # "none"
          BY <3>3, <3>5, StepOnward DEF Onward, JobInv, Unwound
        <4> QED
          BY <4>1, <4>2, <4>3, <4>4 DEF TypeOK
      <3> QED
        BY <2>4, <3>3, <3>4, <3>5 DEF outcomeBar
    <2> QED
      BY <2>3, <2>4
  <1> QED
    BY <1>1, <1>2, <1>3

(* Seen from the TSDB directory, every step of any number of jobs, kills    *)
(* and failures included, is one that Backfill allows, or none.             *)
THEOREM BackfillImplemented == Spec => ImplementsBackfill
  <1>1. IInv /\ IInv' /\ [Next]_vars =>
          [Abstract!Next]_<<wants, outcomeBar, created, addedBar>>
    <2> SUFFICES ASSUME IInv, IInv', [Next]_vars
                 PROVE  Abstract!Next \/ UNCHANGED <<wants, outcomeBar, created, addedBar>>
      OBVIOUS
    <2>1. CASE UNCHANGED vars
      BY <2>1 DEF vars, callVars, blockVars, outcomeBar, addedBar
    <2>2. ASSUME NEW j \in Jobs, Step(j)
          PROVE  Abstract!Next \/ UNCHANGED <<wants, outcomeBar, created, addedBar>>
      BY <2>2, StepImplements DEF IInv
    <2> QED
      BY <2>1, <2>2 DEF Next, Step
  <1> QED
    BY <1>1, InitImplements, Invariance, PTL
    DEF Spec, ImplementsBackfill, Abstract!Spec, outcomeBar, addedBar
=============================================================================
