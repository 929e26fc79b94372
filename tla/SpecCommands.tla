---------------------------- MODULE SpecCommands ----------------------------
(***************************************************************************)
(* The commands that read a spec file: prometheus-rule (cmd/generate/       *)
(* prometheus/rule), the rule part of prometheus-tsdb, and document. Each   *)
(* composes the conversion of SpecConversion with what works on its Spec:   *)
(* the RuleGenerator or ToDocument, and then a printer. The parts are       *)
(* instances whose steps are taken one after the other on one Spec.         *)
(***************************************************************************)
EXTENDS SLOSpec, FiniteSets, Functions

CONSTANTS
    Configs, EmptyName, Absent, Bad, \* as in SpecConversion
    Outputs, \* output formats asked for
    Types    \* types of rules asked for

VARIABLES
    config, i, stage, n, windows, windowsByName, objective, alerts, slos, \* Conv
    alertEnabled, phase, g, k, ruleGroups, ruleGroupsByName,              \* Gen
    errorRateRecordingRules, errorBudgetRecordingRules,
    command, type, output, \* what was asked for
    document,              \* the Document, a sequence of SLOs
    pc, outcome,
    printed,               \* what the output holds
    fault                  \* history: reading or writing a file failed

Conv == INSTANCE SpecConversion

Gen == INSTANCE RuleGenerator WITH spec <- slos, i <- g, Specs <- {}

(* What the conversion assumes of its constants.                            *)
ASSUME ConversionAssumption ==
    /\ 0 \in Intervals
    /\ Absent \notin WindowNames \cup {EmptyName} /\ Absent \notin Intervals
    /\ Bad \notin Durations /\ Bad \notin Intervals /\ Absent # Bad
    /\ Configs \subseteq Seq(Conv!SLOConfig)

asked == <<command, type, output>>
returned == <<pc, outcome, printed, fault>>
contextVars == <<windows, windowsByName, objective, alerts>>
conversionVars == <<config, i, stage, n, contextVars, slos>>
tables == <<ruleGroups, ruleGroupsByName, errorRateRecordingRules, errorBudgetRecordingRules>>
generatorVars == <<phase, g, k, tables>>
vars == <<conversionVars, alertEnabled, generatorVars, asked, document, returned>>

Nothing == [as |-> "nothing", holds |-> <<>>]
-----------------------------------------------------------------------------
Init ==
    /\ Conv!Init
    /\ phase = "record" /\ g = 1 /\ k = 1 /\ alertEnabled = FALSE
    /\ ruleGroups = <<>> /\ ruleGroupsByName = <<>>
    /\ errorRateRecordingRules = <<>> /\ errorBudgetRecordingRules = <<>>
    /\ command \in {"rule", "tsdb", "document"} /\ type \in Types /\ output \in Outputs
    /\ command # "rule" => type = "all"
    /\ command = "tsdb" => output = "prometheus"
    /\ document = <<>>
    /\ pc = "start" /\ outcome = "none" /\ printed = Nothing /\ fault = FALSE

Return(o) == pc' = "returned" /\ outcome' = o

Goto(l) == pc' = l /\ UNCHANGED outcome

(* Mutant: alerts are asked for whatever the type. *)
AlertsAskedAlways == TRUE

(* The backfill only records.                                               *)
AlertsAsked == command = "rule" /\ type = "all"

(* prometheus-rule looks at the type before it opens the file, which may    *)
(* not open or not parse.                                                   *)
Start ==
    /\ pc = "start"
    /\ \/ /\ command = "rule" => type \in {"all", "record"}
          /\ alertEnabled' = AlertsAsked
          /\ Goto("convert")
          /\ UNCHANGED fault
       \/ /\ Return("error")
          /\ fault' = (command = "rule" => type \in {"all", "record"})
          /\ UNCHANGED alertEnabled
    /\ UNCHANGED <<conversionVars, generatorVars, asked, document, printed>>

Convert ==
    /\ pc = "convert"
    /\ Conv!Next
    /\ UNCHANGED <<alertEnabled, generatorVars, asked, document, returned>>

FormatKnown ==
    output \in IF command = "document" THEN {"json", "yaml", "template"} ELSE {"json", "prometheus"}

(* ToSpec has returned; prometheus-rule looks at the format now.            *)
Converted ==
    /\ pc = "convert" /\ stage \in {"ok", "error"}
    /\ \/ stage = "ok" /\ command = "document" /\ Goto("document")
       \/ stage = "ok" /\ command # "document" /\ FormatKnown /\ Goto("generate")
       \/ stage = "error" /\ Return("error")
       \/ stage = "ok" /\ command = "rule" /\ ~FormatKnown /\ Return("error")
    /\ UNCHANGED <<conversionVars, alertEnabled, generatorVars, asked, document, printed, fault>>

Generate ==
    /\ pc = "generate"
    /\ Gen!Next
    /\ UNCHANGED <<config, i, stage, n, contextVars, asked, document, returned>>

Generated ==
    /\ pc = "generate"
    /\ \/ phase = "done" /\ Goto("print")
       \/ phase = "failed" /\ Return("error")
       \/ phase = "panic" /\ Return("panic")
    /\ UNCHANGED <<conversionVars, alertEnabled, generatorVars, asked, document, printed, fault>>

(* document.toSLO, and its toWindow of a window that is not nil.            *)
toSLO(slo) ==
    [name |-> slo.name, window |-> slo.objective.name,
     type |-> IF slo.objective.rolling THEN "rolling" ELSE "calendar",
     duration |-> slo.objective.duration]

WindowsKnown == \A m \in DOMAIN slos : slos[m].objective # NoWindow

(* ToDocument panics on a nil window; only then NewPrinter sees the format. *)
ToDocument ==
    /\ pc = "document"
    /\ \/ ~WindowsKnown /\ Return("panic") /\ UNCHANGED document
       \/ /\ WindowsKnown
          /\ document' = [m \in DOMAIN slos |-> toSLO(slos[m])]
          /\ IF FormatKnown THEN Goto("print") ELSE Return("error")
    /\ UNCHANGED <<conversionVars, alertEnabled, generatorVars, asked, printed, fault>>

(* RuleNode: a rule has one of two names, by its kind.                      *)
PrometheusRule(r) ==
    IF r.record.base = "alert" THEN [alert |-> r.record, expr |-> r.expr, id |-> r.id]
    ELSE [record |-> r.record, expr |-> r.expr, id |-> r.id]

(* Mutant: every group is given the rules of the last one. *)
PrometheusShared(groups) ==
    [m \in DOMAIN groups |->
       [groups[m] EXCEPT !.rules = [x \in DOMAIN groups[Len(groups)].rules |->
                                      PrometheusRule(groups[Len(groups)].rules[x])]]]

(* RuleGroups.Prometheus                                                    *)
Prometheus(groups) ==
    [m \in DOMAIN groups |->
       [groups[m] EXCEPT !.rules = [x \in DOMAIN @ |-> PrometheusRule(@[x])]]]

(* An error of the printer leaves anything or nothing of the text behind.   *)
PrintResult ==
    /\ pc = "print"
    /\ \/ /\ printed' = [as |-> output,
                         holds |-> CASE command = "document" -> document
                                     [] command # "document" /\ output = "json" -> ruleGroups
                                     [] OTHER -> Prometheus(ruleGroups)]
          /\ Return("ok")
          /\ UNCHANGED fault
       \/ /\ printed' \in {Nothing, [as |-> "part", holds |-> <<>>]}
          /\ Return("error")
          /\ fault' = TRUE
    /\ UNCHANGED <<conversionVars, alertEnabled, generatorVars, asked, document>>

Next ==
    \/ Start \/ Convert \/ Converted
    \/ Generate \/ Generated \/ ToDocument \/ PrintResult

(* A command is one sequential program.                                     *)
Spec == Init /\ [][Next]_vars
-----------------------------------------------------------------------------
(* Properties, in terms of what was asked for and the file it was asked of. *)

AllValid == \A m \in DOMAIN config : Conv!Valid(config[m])

Windowless == {m \in DOMAIN config : config[m].windowRef = EmptyName}

DistinctNames ==
    \A m, l \in DOMAIN config : config[m].name = config[l].name => m = l

(* The SLOs whose alerts are asked for and cannot be generated.             *)
Refused == {m \in Windowless : command = "rule" /\ type = "all" /\ config[m].alerts # <<>>}

(* How the first alert of such an SLO ends the command: an error budget     *)
(* alert dereferences a nil window, if it finds the error budget rule of    *)
(* another SLO of the name.                                                 *)
Refusal(m) ==
    IF /\ config[m].alerts[1].types = {"errorBudget"}
       /\ \E c \in Range(config) : c.name = config[m].name /\ c.windowRef # EmptyName
    THEN "panic"
    ELSE "error"

(* What ends each command in which way, provided that no file fails it. A   *)
(* document panics by any SLO without window, before the format is even     *)
(* looked at. The rules of a valid spec fail by an alert on an SLO without  *)
(* window, when alerts are asked for, and by nothing else; the first such   *)
(* SLO decides how.                                                         *)
OutcomeExplained ==
    pc = "returned" /\ ~fault =>
      LET panics == command = "document" /\ AllValid /\ Windowless # {}
          accepts ==
            /\ AllValid /\ FormatKnown
            /\ command = "rule" => type \in {"all", "record"}
      IN /\ panics => outcome = "panic"
         /\ ~panics /\ ~accepts => outcome = "error"
         /\ ~panics /\ accepts /\ Refused = {} => outcome = "ok"
         /\ accepts /\ Refused # {} =>
              \E m \in Refused : (\A l \in Refused : m <= l) /\ outcome = Refusal(m)

(* The SLOs that the file stands for, and their rules.                      *)
Specified == [m \in DOMAIN config |-> Conv!Meaning(config[m])]

RulesMeant ==
    UNION {Gen!Expected(Specified, Specified[m]) : m \in DOMAIN config}

(* End to end, what a command prints is what its file stands for: exactly   *)
(* the rules of each SLO, alerts only if asked for and never for a backfill, *)
(* each under the name of its kind; or the window of each objective. A      *)
(* command that fails otherwise than in printing prints nothing at all.     *)
PrintedIsReference ==
    /\ printed.as \notin {"nothing", "part"} =>
         LET rules == UNION {{<<printed.holds[m].name, r>> : r \in Range(printed.holds[m].rules)} :
                               m \in DOMAIN printed.holds}
         IN CASE command = "document" ->
                   /\ DOMAIN printed.holds = DOMAIN config
                   /\ \A m \in DOMAIN config : \E w \in Range(config[m].windows) :
                        /\ w.name = config[m].windowRef /\ w.types = {printed.holds[m].type}
                        /\ printed.holds[m] = [name |-> config[m].name, window |-> w.name,
                             type |-> printed.holds[m].type, duration |-> w.duration]
              [] command # "document" /\ output = "json" ->
                   rules = RulesMeant
              [] OTHER ->
                   /\ rules = {<<e[1], PrometheusRule(e[2])>> : e \in RulesMeant}
                   /\ (\E e \in rules : "alert" \in DOMAIN e[2]) =>
                        command = "rule" /\ type = "all"
    /\ printed.as = "part" => fault /\ outcome = "error"

Records(r, metric) == "record" \in DOMAIN r /\ r.record = metric

(* Some rule with the id records the series.                                *)
RecordedFor(groups, id, metric) ==
    \E l \in DOMAIN groups : \E y \in DOMAIN groups[l].rules :
      groups[l].rules[y].id = id /\ Records(groups[l].rules[y], metric)

(* An earlier rule of the group records a series that rule x reads.         *)
RecordedBefore(rules, x) ==
    \E y \in 1..(x - 1) : \E metric \in rules[x].expr.reads : Records(rules[y], metric)

Evaluable(groups) ==
    /\ \A m, l \in DOMAIN groups : groups[m].name = groups[l].name => m = l
    /\ \A m \in DOMAIN groups : \A x \in DOMAIN groups[m].rules :
         LET rule == groups[m].rules[x]
         IN /\ \A metric \in rule.expr.reads : RecordedFor(groups, rule.id, metric)
            /\ DistinctNames /\ rule.expr.reads # {} => RecordedBefore(groups[m].rules, x)

(* A file of rules that a command prints is one that Prometheus takes (it    *)
(* refuses two groups of one name) and can evaluate: each series that a rule *)
(* reads is recorded by a rule of the file with the same id, under "record"  *)
(* and not as an alert, and if the SLOs have distinct names an earlier rule  *)
(* of the group records one of those it reads.                               *)
PrintedEvaluable ==
    printed.as \notin {"nothing", "part"} /\ command # "document" => Evaluable(printed.holds)

(* The tutorial's reading of the document command: a document is generated  *)
(* from the spec file, so a file that is accepted does not crash it.        *)
DocumentNeverPanics == command = "document" => outcome # "panic"
=============================================================================
