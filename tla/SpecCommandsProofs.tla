------------------------- MODULE SpecCommandsProofs -------------------------
(***************************************************************************)
(* Proofs about SpecCommands, for every list of configurations: what is     *)
(* proved of the conversion and of the rule generator, each on its own,     *)
(* holds of them composed, and makes what a command prints what its file    *)
(* stands for.                                                              *)
(***************************************************************************)
EXTENDS SpecCommands, SequenceTheorems, WellFoundedInduction, TLAPS

CP == INSTANCE SpecConversionProofs

GP == INSTANCE RuleGeneratorProofs WITH spec <- slos, i <- g, Specs <- {}

-----------------------------------------------------------------------------
(* The two proof modules speak of the same operators as the two parts.      *)

LEMMA SameWindow == CP!Window = Window /\ GP!Window = Window
  BY DEF Window, CP!Window, GP!Window

LEMMA SameAlert == CP!Alert = Alert /\ GP!Alert = Alert
  BY DEF Alert, CP!Alert, GP!Alert, Window, CP!Window, GP!Window

LEMMA SameSLO == CP!SLO = SLO /\ GP!SLO = SLO
  BY SameWindow, SameAlert DEF SLO, CP!SLO, GP!SLO

LEMMA SameWellFormed ==
    ASSUME NEW slo
    PROVE  (CP!WellFormed(slo) <=> WellFormed(slo)) /\ (GP!WellFormed(slo) <=> WellFormed(slo))
  BY SameSLO DEF WellFormed, CP!WellFormed, GP!WellFormed

LEMMA SameConfig == CP!SLOConfig = Conv!SLOConfig
  BY DEF CP!SLOConfig, Conv!SLOConfig, CP!WindowConfig, Conv!WindowConfig,
     CP!AlertConfig, Conv!AlertConfig, CP!Ref, Conv!Ref

LEMMA SameValid ==
    ASSUME NEW c
    PROVE  CP!Valid(c) <=> Conv!Valid(c)
  BY DEF Conv!Valid, CP!Valid, Conv!Range, CP!Range

LEMMA SameMeaning ==
    ASSUME NEW c
    PROVE  CP!Meaning(c) = Conv!Meaning(c)
  BY DEF Conv!Meaning, CP!Meaning, Conv!Named, CP!Named, Conv!toWindow, CP!toWindow,
     Conv!Range, CP!Range

LEMMA SameConversion == (CP!Init <=> Conv!Init) /\ (CP!Next <=> Conv!Next)
  <1>1. CP!Init <=> Conv!Init
    BY DEF Conv!Init, CP!Init
  <1>2. CP!Next <=> Conv!Next
    BY DEF Conv!Next, CP!Next, Conv!ConvertWindow, CP!ConvertWindow, Conv!ConvertObjective,
       CP!ConvertObjective, Conv!ConvertIndicator, CP!ConvertIndicator, Conv!ConvertAlert,
       CP!ConvertAlert, Conv!FinishSLO, CP!FinishSLO, Conv!Finish, CP!Finish, Conv!At, CP!At,
       Conv!Current, CP!Current, Conv!Fail, CP!Fail, Conv!WindowAccepted, CP!WindowAccepted,
       Conv!toWindow, CP!toWindow, Conv!addWindow, CP!addWindow, Conv!AlertAccepted,
       CP!AlertAccepted, Conv!BurnRateAccepted, CP!BurnRateAccepted, Conv!toAlert, CP!toAlert,
       Conv!toBurnRateAlertWindow, CP!toBurnRateAlertWindow, Conv!FreshContext,
       CP!FreshContext, Conv!contextVars, CP!contextVars
  <1> QED
    BY <1>1, <1>2

LEMMA SameExpected ==
    ASSUME NEW all, NEW slo
    PROVE  GP!Expected(all, slo) = Gen!Expected(all, slo)
  BY DEF Gen!Expected, GP!Expected, Gen!SeenWindow, GP!SeenWindow, Gen!SeenObjective,
     GP!SeenObjective, Gen!Last, GP!Last,
     Gen!Range, GP!Range, Gen!ruleGroupName, GP!ruleGroupName,
     Gen!generateErrorRateRecordingRule, GP!generateErrorRateRecordingRule,
     Gen!metricNameErrorRate, GP!metricNameErrorRate, Gen!generateErrorRateQuery,
     GP!generateErrorRateQuery, Gen!EmptyExpr, GP!EmptyExpr,
     Gen!generateErrorBudgetRecordingRule, GP!generateErrorBudgetRecordingRule,
     Gen!metricNameErrorBudget, GP!metricNameErrorBudget, Gen!generateMetaRecordingRule,
     GP!generateMetaRecordingRule, Gen!metricNameSLO, GP!metricNameSLO

LEMMA SameGeneration == GP!Next <=> Gen!Next
  BY DEF Gen!Next, GP!Next, Gen!Range, GP!Range, Gen!RecordErrorRate, GP!RecordErrorRate,
     Gen!RecordErrorBudget, GP!RecordErrorBudget, Gen!RecordMeta, GP!RecordMeta,
     Gen!FinishRecording, GP!FinishRecording, Gen!AlertBurnRate, GP!AlertBurnRate,
     Gen!AlertErrorBudget, GP!AlertErrorBudget, Gen!NextSLO, GP!NextSLO, Gen!FinishAlerting,
     GP!FinishAlerting, Gen!AlertReady, GP!AlertReady, Gen!Current, GP!Current, Gen!Fail,
     GP!Fail, Gen!SourcesFound, GP!SourcesFound, Gen!AddRule, GP!AddRule, Gen!Put, GP!Put,
     Gen!sloId, GP!sloId, Gen!errorRateKey, GP!errorRateKey, Gen!groupVars, GP!groupVars,
     Gen!lookupVars, GP!lookupVars, Gen!generateAlertingRule, GP!generateAlertingRule,
     Gen!ruleGroupName, GP!ruleGroupName, Gen!generateErrorRateRecordingRule,
     GP!generateErrorRateRecordingRule, Gen!metricNameErrorRate, GP!metricNameErrorRate,
     Gen!generateErrorRateQuery, GP!generateErrorRateQuery, Gen!EmptyExpr, GP!EmptyExpr,
     Gen!generateErrorBudgetRecordingRule, GP!generateErrorBudgetRecordingRule,
     Gen!metricNameErrorBudget, GP!metricNameErrorBudget, Gen!generateMetaRecordingRule,
     GP!generateMetaRecordingRule, Gen!metricNameSLO, GP!metricNameSLO

-----------------------------------------------------------------------------
(* The conversion, as part of a command.                                    *)

CInv == CP!IInv /\ CP!RInv

LEMMA ConversionAssumed ==
    /\ Durations \subseteq Nat /\ Intervals \subseteq Nat /\ 0 \in Intervals
    /\ NoWindow \notin CP!Window
    /\ Absent \notin WindowNames \cup {EmptyName} /\ Absent \notin Intervals
    /\ Bad \notin Durations /\ Bad \notin Intervals /\ Absent # Bad
    /\ Configs \subseteq Seq(CP!SLOConfig)
  BY IntervalsAssumption, NoWindowAssumption, ConversionAssumption, SameWindow, SameConfig

LEMMA ConversionStarts == Conv!Init => CInv
  <1>1. CP!Init => CP!IInv
    BY CP!InitIInv, ConversionAssumed
  <1>2. CP!Init /\ CP!IInv => CP!RInv
    BY CP!InitRight, ConversionAssumed
  <1> QED
    BY <1>1, <1>2, SameConversion DEF CInv

LEMMA ConversionSteps == CInv /\ (Conv!Next \/ UNCHANGED conversionVars) => CInv'
  <1>1. CP!IInv /\ [CP!Next]_(CP!vars) => CP!IInv'
    BY CP!NextIInv, ConversionAssumed
  <1>2. CP!IInv /\ CP!RInv /\ [CP!Next]_(CP!vars) => CP!RInv'
    BY CP!NextRight, ConversionAssumed
  <1>3. UNCHANGED conversionVars => UNCHANGED CP!vars
    BY DEF conversionVars, contextVars, CP!vars, CP!contextVars
  <1> QED
    BY <1>1, <1>2, <1>3, SameConversion DEF CInv

(* What it has done when it returns.                                        *)
LEMMA ConversionEnds ==
    ASSUME CInv
    PROVE  /\ stage = "error" => ~AllValid
           /\ stage = "ok" => AllValid /\ slos = [m \in DOMAIN config |-> Conv!Meaning(config[m])]
           /\ config \in Seq(Conv!SLOConfig)
           /\ slos \in Seq(SLO) /\ \A m \in DOMAIN slos : WellFormed(slos[m])
  <1>1. CP!ConversionIsReference
    BY CP!ReferenceHolds, ConversionAssumed DEF CInv
  <1>2. config \in Seq(Conv!SLOConfig) /\ slos \in Seq(SLO)
    BY SameConfig, SameSLO DEF CInv, CP!IInv, CP!TypeOK
  <1>3. \A m \in DOMAIN slos : WellFormed(slos[m])
    BY SameWellFormed DEF CInv, CP!IInv, CP!SLOsWellFormed
  <1>4. stage = "error" => ~AllValid
    BY <1>1, SameValid DEF CP!ConversionIsReference, AllValid
  <1>5. stage = "ok" => AllValid
    BY <1>1, SameValid DEF CP!ConversionIsReference, AllValid
  <1>6. stage = "ok" => slos = [m \in DOMAIN config |-> Conv!Meaning(config[m])]
    BY <1>1, SameMeaning DEF CP!ConversionIsReference
  <1> QED
    BY <1>2, <1>3, <1>4, <1>5, <1>6

-----------------------------------------------------------------------------
(* The generator, as part of a command.                                     *)

GInv == GP!IInv /\ GP!OInv

Fresh ==
    /\ phase = "record" /\ g = 1 /\ k = 1
    /\ ruleGroups = <<>> /\ ruleGroupsByName = <<>>
    /\ errorRateRecordingRules = <<>> /\ errorBudgetRecordingRules = <<>>

LEMMA GenerationAssumed ==
    /\ Durations \subseteq Nat /\ Intervals \subseteq Nat
    /\ NoWindow \notin GP!Window
    /\ \A s \in {} : s \in Seq(GP!SLO) /\ \A m \in DOMAIN s : GP!WellFormed(s[m])
  BY IntervalsAssumption, NoWindowAssumption, SameWindow

LEMMA GenerationStarts == CInv /\ alertEnabled \in BOOLEAN /\ Fresh => GInv
  <1> SUFFICES ASSUME CInv, alertEnabled \in BOOLEAN, Fresh PROVE GInv
    OBVIOUS
  <1>1. slos \in Seq(GP!SLO) /\ \A m \in DOMAIN slos : GP!WellFormed(slos[m])
    BY ConversionEnds, SameSLO, SameWellFormed
  <1>2. GP!Ready
    BY <1>1 DEF GP!Ready, Fresh
  <1>3. GP!IInv
    BY <1>2, GP!ReadyIInv, GenerationAssumed
  <1>4. GP!OInv
    BY <1>2, GP!ReadyOutput, GenerationAssumed
  <1> QED
    BY <1>3, <1>4 DEF GInv

LEMMA GenerationSteps ==
    GInv /\ (Gen!Next \/ UNCHANGED <<slos, alertEnabled, generatorVars>>) => GInv'
  <1>1. GP!IInv /\ [GP!Next]_(GP!vars) => GP!IInv'
    BY GP!NextIInv, GenerationAssumed
  <1>2. GP!IInv /\ GP!OInv /\ [GP!Next]_(GP!vars) => GP!OInv'
    BY GP!NextOutput, GenerationAssumed
  <1>3. UNCHANGED <<slos, alertEnabled, generatorVars>> => UNCHANGED GP!vars
    BY DEF generatorVars, tables, GP!vars, GP!groupVars, GP!lookupVars
  <1> QED
    BY <1>1, <1>2, <1>3, SameGeneration DEF GInv

(* What it has done when it ends.                                           *)
Unusable == {m \in DOMAIN slos : alertEnabled /\ slos[m].objective = NoWindow /\ slos[m].alerts # <<>>}

Output ==
    UNION {{<<ruleGroups[m].name, r>> : r \in Range(ruleGroups[m].rules)} :
             m \in DOMAIN ruleGroups}

LEMMA GenerationEnds ==
    ASSUME GInv
    PROVE  /\ phase = "done" =>
                /\ Unusable = {}
                /\ Output = UNION {Gen!Expected(slos, slos[m]) : m \in DOMAIN slos}
           /\ phase \in {"failed", "panic"} =>
                \E m \in Unusable : (\A l \in Unusable : m <= l) /\ phase = GP!Refusal(m)
  <1>1. GP!FailureExplained
    BY GP!FailureHolds, GenerationAssumed DEF GInv
  <1>2. GP!OutputIsReference
    BY GP!OutputHolds, GenerationAssumed DEF GInv
  <1>3. phase = "done" => Output = UNION {Gen!Expected(slos, slos[m]) : m \in DOMAIN slos}
    <2>1. phase = "done" => Output = UNION {GP!Expected(slos, slo) : slo \in GP!Range(slos)}
      BY <1>2 DEF GP!OutputIsReference, Output, Range, GP!Range
    <2>2. UNION {GP!Expected(slos, slo) : slo \in GP!Range(slos)}
            = UNION {Gen!Expected(slos, slos[m]) : m \in DOMAIN slos}
      BY SameExpected DEF GP!Range
    <2> QED
      BY <2>1, <2>2
  <1> QED
    BY <1>1, <1>3 DEF GP!FailureExplained, Unusable

-----------------------------------------------------------------------------
(* What the configurations of a file say of the SLOs made of them.          *)

LEMMA MeaningFacts ==
    ASSUME NEW c \in Conv!SLOConfig, Conv!Valid(c)
    PROVE  /\ Conv!Meaning(c).name = c.name
           /\ Conv!Meaning(c).objective = NoWindow <=> c.windowRef = EmptyName
           /\ Conv!Meaning(c).alerts = <<>> <=> c.alerts = <<>>
           /\ c.windowRef # EmptyName =>
                \E w \in Range(c.windows) :
                  /\ w.name = c.windowRef /\ w.types \in {{"rolling"}, {"calendar"}}
                  /\ Conv!Meaning(c).objective = Conv!toWindow(w)
  <1>1. c.windows \in Seq(Conv!WindowConfig) /\ c.alerts \in Seq(Conv!AlertConfig)
    BY DEF Conv!SLOConfig
  <1>2. Conv!Meaning(c).name = c.name
    BY DEF Conv!Meaning
  <1>3. /\ DOMAIN Conv!Meaning(c).alerts = DOMAIN c.alerts
        /\ Conv!Meaning(c).alerts \in [DOMAIN c.alerts -> Range(Conv!Meaning(c).alerts)]
    <2> DEFINE f(m) == Conv!Meaning(c).alerts[m]
    <2>1. Conv!Meaning(c).alerts = [m \in DOMAIN c.alerts |-> f(m)]
      BY DEF Conv!Meaning
    <2> HIDE DEF f
    <2> QED
      BY <2>1 DEF Range
  <1>4. Conv!Meaning(c).alerts = <<>> <=> c.alerts = <<>>
    <2> DEFINE s == c.alerts
    <2>1. s = <<>> <=> DOMAIN s = {}
      <3>1. s \in Seq(Conv!AlertConfig)
        BY <1>1
      <3> HIDE DEF s
      <3>2. DOMAIN s = 1..Len(s) /\ Len(s) \in Nat
        BY <3>1
      <3>3. s = <<>> <=> Len(s) = 0
        BY <3>1, EmptySeq
      <3> QED
        BY <3>2, <3>3
    <2>2. ASSUME DOMAIN c.alerts = {}
          PROVE  Conv!Meaning(c).alerts = <<>>
      BY <1>3, <2>2
    <2>3. ASSUME Conv!Meaning(c).alerts = <<>>
          PROVE  DOMAIN c.alerts = {}
      BY <1>3, <2>3
    <2> QED
      BY <2>1, <2>2, <2>3
  <1>5. ASSUME c.windowRef # EmptyName
        PROVE  \E w \in Range(c.windows) :
                 /\ w.name = c.windowRef /\ w.types \in {{"rolling"}, {"calendar"}}
                 /\ Conv!Meaning(c).objective = Conv!toWindow(w)
                 /\ Conv!toWindow(w) # NoWindow
    <2> DEFINE w == CHOOSE v \in Conv!Range(c.windows) : v.name = c.windowRef
    <2>1. \E v \in Conv!Range(c.windows) : v.name = c.windowRef
      BY <1>5 DEF Conv!Valid
    <2>2. w \in Conv!Range(c.windows) /\ w.name = c.windowRef
      BY <2>1
    <2>3. Conv!Meaning(c).objective = Conv!toWindow(w)
      BY <1>5 DEF Conv!Meaning, Conv!Named
    <2> HIDE DEF w
    <2>4. /\ w.prometheus # Bad /\ w.duration # Bad
          /\ w.types \in {{"rolling"}, {"calendar"}}
      BY <2>2 DEF Conv!Valid
    <2>5. w \in Conv!WindowConfig
      BY <1>1, <2>2 DEF Conv!Range
    <2>6. Conv!toWindow(w) \in Window
      BY <2>4, <2>5, ConversionAssumption DEF Conv!toWindow, Window, Conv!WindowConfig
    <2>7. w \in Range(c.windows)
      BY <2>2 DEF Conv!Range, Range
    <2> QED
      BY <2>2, <2>3, <2>4, <2>6, <2>7, NoWindowAssumption
  <1>6. c.windowRef = EmptyName => Conv!Meaning(c).objective = NoWindow
    BY DEF Conv!Meaning
  <1> QED
    BY <1>2, <1>4, <1>5, <1>6

(* An alert keeps its kind in the conversion.                               *)
LEMMA FirstAlertKind ==
    ASSUME NEW c \in Conv!SLOConfig, Conv!Valid(c), c.alerts # <<>>
    PROVE  Conv!Meaning(c).alerts[1].kind = "errorBudget"
             <=> c.alerts[1].types = {"errorBudget"}
  <1>1. 1 \in DOMAIN c.alerts
    BY DEF Conv!SLOConfig
  <1>2. c.alerts[1].types \in {{"errorBudget"}, {"burnRate"}}
    BY <1>1 DEF Conv!Valid, Conv!Range
  <1>3. {"errorBudget"} # {"burnRate"}
    OBVIOUS
  <1> QED
    BY <1>1, <1>2, <1>3 DEF Conv!Meaning

(* The conditions a command meets on its Spec, said of the file.            *)
LEMMA Understood ==
    ASSUME CInv, stage = "ok"
    PROVE  /\ AllValid
           /\ DOMAIN slos = DOMAIN config /\ slos = Specified
           /\ \A m \in DOMAIN config :
                config[m] \in Conv!SLOConfig /\ slos[m] = Conv!Meaning(config[m])
           /\ DistinctNames => \A m, l \in DOMAIN slos : slos[m].name = slos[l].name => m = l
           /\ WindowsKnown <=> Windowless = {}
           /\ (alertEnabled <=> AlertsAsked) => Unusable = Refused
           /\ \A m \in Refused :
                GP!Refusal(m) = IF Refusal(m) = "panic" THEN "panic" ELSE "failed"
  <1>1. AllValid /\ slos = Specified /\ config \in Seq(Conv!SLOConfig)
    BY ConversionEnds DEF Specified
  <1>2. /\ DOMAIN slos = DOMAIN config
        /\ \A m \in DOMAIN config :
             config[m] \in Conv!SLOConfig /\ slos[m] = Conv!Meaning(config[m])
    BY <1>1 DEF Specified
  <1>3. \A m \in DOMAIN config :
          /\ slos[m].name = config[m].name
          /\ slos[m].objective = NoWindow <=> config[m].windowRef = EmptyName
          /\ slos[m].alerts = <<>> <=> config[m].alerts = <<>>
          /\ config[m].alerts # <<>> =>
               (slos[m].alerts[1].kind = "errorBudget" <=> config[m].alerts[1].types = {"errorBudget"})
    BY <1>1, <1>2, MeaningFacts, FirstAlertKind DEF AllValid
  <1>4. ASSUME alertEnabled <=> AlertsAsked
        PROVE  Unusable = Refused
    BY <1>2, <1>3, <1>4 DEF Unusable, Refused, Windowless, AlertsAsked
  <1>5. ASSUME NEW m \in Refused
        PROVE  GP!Refusal(m) = IF Refusal(m) = "panic" THEN "panic" ELSE "failed"
    <2>1. m \in DOMAIN config /\ config[m].alerts # <<>>
      BY DEF Refused, Windowless
    <2>2. (\E slo \in GP!Range(slos) : slo.name = slos[m].name /\ slo.objective # NoWindow)
            <=> \E c \in Range(config) : c.name = config[m].name /\ c.windowRef # EmptyName
      BY <1>2, <1>3, <2>1 DEF Range, GP!Range
    <2> QED
      BY <1>3, <2>1, <2>2 DEF GP!Refusal, Refusal
  <1>6. WindowsKnown <=> Windowless = {}
    BY <1>2, <1>3 DEF WindowsKnown, Windowless
  <1> QED
    BY <1>1, <1>2, <1>3, <1>4, <1>5, <1>6 DEF DistinctNames

(* Alerts are expected only when they are asked for.                        *)
LEMMA AlertsExpected ==
    ASSUME NEW all, NEW slo, NEW e \in Gen!Expected(all, slo), e[2].record.base = "alert"
    PROVE  alertEnabled
  BY DEF Gen!Expected, Gen!Range, Gen!generateErrorRateRecordingRule,
     Gen!generateErrorBudgetRecordingRule, Gen!generateMetaRecordingRule,
     Gen!metricNameErrorRate, Gen!metricNameErrorBudget, Gen!metricNameSLO

(* RuleGroups.Prometheus keeps every rule where it is.                      *)
LEMMA PrometheusOutput ==
    ASSUME ruleGroups \in Seq(GP!RuleGroup)
    PROVE  LET holds == Prometheus(ruleGroups)
           IN UNION {{<<holds[m].name, r>> : r \in Range(holds[m].rules)} : m \in DOMAIN holds}
                = {<<e[1], PrometheusRule(e[2])>> : e \in Output}
  <1> DEFINE holds == Prometheus(ruleGroups)
             group(m) == {<<holds[m].name, r>> : r \in Range(holds[m].rules)}
             mapped == {<<e[1], PrometheusRule(e[2])>> : e \in Output}
  <1>1. \A m \in DOMAIN ruleGroups : ruleGroups[m] \in GP!RuleGroup
    OBVIOUS
  <1>2. DOMAIN holds = DOMAIN ruleGroups
    BY DEF Prometheus
  <1>3. ASSUME NEW m \in DOMAIN ruleGroups
        PROVE  /\ holds[m].name = ruleGroups[m].name
               /\ holds[m].rules = [x \in DOMAIN ruleGroups[m].rules |->
                                      PrometheusRule(ruleGroups[m].rules[x])]
    BY <1>1 DEF Prometheus, GP!RuleGroup
  <1> HIDE DEF holds
  <1>4. ASSUME NEW m \in DOMAIN holds, NEW y \in group(m)
        PROVE  y \in mapped
    <2>1. PICK x \in DOMAIN ruleGroups[m].rules :
            y = <<ruleGroups[m].name, PrometheusRule(ruleGroups[m].rules[x])>>
      BY <1>2, <1>3, <1>4 DEF Range
    <2>2. <<ruleGroups[m].name, ruleGroups[m].rules[x]>> \in Output
      BY <1>2, <2>1 DEF Output, Range
    <2> QED
      BY <2>1, <2>2
  <1>5. ASSUME NEW e \in Output
        PROVE  \E m \in DOMAIN holds : <<e[1], PrometheusRule(e[2])>> \in group(m)
    <2>1. PICK m \in DOMAIN ruleGroups : \E x \in DOMAIN ruleGroups[m].rules :
            e = <<ruleGroups[m].name, ruleGroups[m].rules[x]>>
      BY DEF Output, Range
    <2>2. PICK x \in DOMAIN ruleGroups[m].rules :
            e = <<ruleGroups[m].name, ruleGroups[m].rules[x]>>
      BY <2>1
    <2>3. PrometheusRule(ruleGroups[m].rules[x]) \in Range(holds[m].rules)
      BY <1>3, <2>2 DEF Range
    <2> QED
      BY <1>2, <1>3, <2>2, <2>3
  <1>6. UNION {group(m) : m \in DOMAIN holds} = mapped
    BY <1>4, <1>5
  <1> QED
    BY <1>6 DEF holds

-----------------------------------------------------------------------------
(* The inductive invariant of a command: where it is, and what it knows     *)
(* there of the file, the alerts, the rules or the document.                *)

Asking ==
    /\ command \in {"rule", "tsdb", "document"}
    /\ command = "tsdb" => output = "prometheus"
    /\ alertEnabled \in BOOLEAN /\ (alertEnabled => AlertsAsked)

Progress ==
    /\ pc \in {"start", "convert", "document", "generate", "print", "returned"}
    /\ pc # "returned" => printed = Nothing /\ ~fault
    /\ pc \in {"start", "convert"} => Fresh
    /\ pc \notin {"start", "returned"} =>
         /\ alertEnabled <=> AlertsAsked
         /\ command = "rule" => type \in {"all", "record"}
    /\ pc \in {"document", "generate", "print"} => stage = "ok"
    /\ pc = "document" => command = "document"
    /\ pc = "generate" => command # "document" /\ FormatKnown
    /\ pc \in {"generate", "print"} /\ command # "document" => GInv
    /\ pc = "print" =>
         /\ FormatKnown
         /\ IF command = "document"
            THEN WindowsKnown /\ document = [m \in DOMAIN slos |-> toSLO(slos[m])]
            ELSE phase = "done"

IInv == CInv /\ Asking /\ Progress /\ OutcomeExplained /\ PrintedIsReference

(* What a command has returned with, if it has, stays.                      *)
LEMMA Unreturned ==
    ASSUME Progress, pc # "returned", UNCHANGED printed, pc' # "returned"
    PROVE  OutcomeExplained' /\ PrintedIsReference'
  BY DEF Progress, OutcomeExplained, PrintedIsReference, Nothing

(* Returning before the output is opened.                                   *)
LEMMA ReturnsUnprinted ==
    ASSUME Progress, pc # "returned", UNCHANGED printed, pc' = "returned"
    PROVE  Progress' /\ PrintedIsReference'
  BY DEF Progress, PrintedIsReference, Nothing

LEMMA SameAsked ==
    ASSUME UNCHANGED <<config, asked, outcome, pc, fault>>
    PROVE  OutcomeExplained' <=> OutcomeExplained
  BY DEF OutcomeExplained, AllValid, Windowless, Refused, Refusal, FormatKnown, asked

LEMMA SameSteps ==
    ASSUME UNCHANGED <<slos, alertEnabled, generatorVars>>, GInv
    PROVE  GInv'
  BY GenerationSteps

LEMMA StartStep ==
    ASSUME IInv, Start
    PROVE  IInv'
  <1>1. CInv'
    BY ConversionSteps DEF IInv, Start
  <1>2. /\ pc = "start" /\ UNCHANGED <<asked, generatorVars, printed>>
        /\ UNCHANGED config /\ Progress /\ Asking
    BY DEF IInv, Start, conversionVars
  <1>3. CASE pc' = "convert"
    <2>1. /\ command = "rule" => type \in {"all", "record"}
          /\ alertEnabled' = AlertsAsked /\ UNCHANGED fault
      BY <1>3 DEF Start, Return, Goto
    <2>2. Asking' /\ Progress'
      BY <1>2, <1>3, <2>1 DEF Asking, Progress, AlertsAsked, asked, generatorVars, tables, Fresh
    <2> QED
      BY <1>1, <1>2, <1>3, <2>2, Unreturned DEF IInv
  <1>4. CASE pc' # "convert"
    <2>1. /\ pc' = "returned" /\ outcome' = "error" /\ UNCHANGED alertEnabled
          /\ fault' = (command = "rule" => type \in {"all", "record"})
      BY <1>4 DEF Start, Return, Goto
    <2>2. Asking'
      BY <1>2, <2>1 DEF Asking, AlertsAsked, asked
    <2>3. OutcomeExplained'
      BY <1>2, <2>1 DEF OutcomeExplained, asked
    <2> QED
      BY <1>1, <1>2, <2>1, <2>2, <2>3, ReturnsUnprinted DEF IInv
  <1> QED
    BY <1>3, <1>4

LEMMA ConvertStep ==
    ASSUME IInv, Convert
    PROVE  IInv'
  <1>1. CInv'
    BY ConversionSteps DEF IInv, Convert
  <1>2. /\ pc = "convert" /\ UNCHANGED <<alertEnabled, generatorVars, asked, document, returned>>
        /\ Progress /\ Asking
    BY DEF IInv, Convert
  <1>3. Asking' /\ Progress'
    BY <1>2 DEF Asking, Progress, AlertsAsked, asked, generatorVars, tables, Fresh, returned,
       Nothing
  <1>4. OutcomeExplained' /\ PrintedIsReference'
    BY <1>2, Unreturned DEF returned
  <1> QED
    BY <1>1, <1>3, <1>4 DEF IInv

LEMMA ConvertedStep ==
    ASSUME IInv, Converted
    PROVE  IInv'
  <1>1. /\ pc = "convert" /\ Progress /\ Asking /\ CInv
        /\ UNCHANGED <<conversionVars, alertEnabled, generatorVars, asked, document>>
        /\ UNCHANGED <<printed, fault>>
    BY DEF IInv, Converted
  <1>2. CInv' /\ Asking'
    BY <1>1, ConversionSteps DEF Asking, AlertsAsked, asked
  <1>3. UNCHANGED <<config, i, stage, slos, command, type, output>>
    BY <1>1 DEF conversionVars, asked
  <1>4. CASE pc' # "returned"
    <2>1. /\ stage = "ok"
          /\ \/ command = "document" /\ pc' = "document"
             \/ command # "document" /\ FormatKnown /\ pc' = "generate"
      BY <1>4 DEF Converted, Return, Goto
    <2>2. GInv'
      BY <1>1, GenerationStarts, SameSteps, <1>3 DEF Progress, Asking
    <2>3. Progress'
      BY <1>1, <1>3, <1>4, <2>1, <2>2 DEF Progress, AlertsAsked, FormatKnown, Nothing
    <2> QED
      BY <1>1, <1>2, <1>4, <2>3, Unreturned DEF IInv
  <1>5. CASE pc' = "returned"
    <2>1. /\ outcome' = "error"
          /\ \/ stage = "error"
             \/ stage = "ok" /\ command = "rule" /\ ~FormatKnown
      BY <1>5 DEF Converted, Return, Goto
    <2>2. ~AllValid \/ (command = "rule" /\ ~FormatKnown)
      BY <1>1, <2>1, ConversionEnds
    <2>3. OutcomeExplained'
      BY <1>3, <2>1, <2>2 DEF OutcomeExplained, AllValid, FormatKnown
    <2> QED
      BY <1>1, <1>2, <1>5, <2>3, ReturnsUnprinted DEF IInv
  <1> QED
    BY <1>4, <1>5

LEMMA GenerateStep ==
    ASSUME IInv, Generate
    PROVE  IInv'
  <1>1. /\ pc = "generate" /\ Progress /\ Asking /\ CInv /\ Gen!Next
        /\ UNCHANGED <<config, i, stage, n, contextVars, asked, document, returned>>
    BY DEF IInv, Generate
  <1>2. UNCHANGED <<slos, alertEnabled>>
    BY <1>1 DEF Gen!Next, Gen!RecordErrorRate, Gen!RecordErrorBudget, Gen!RecordMeta,
       Gen!FinishRecording, Gen!AlertBurnRate, Gen!AlertErrorBudget, Gen!NextSLO,
       Gen!FinishAlerting
  <1>3. CInv'
    BY <1>1, <1>2, ConversionSteps DEF conversionVars
  <1>4. GInv'
    BY <1>1, GenerationSteps DEF Progress
  <1>5. Asking'
    BY <1>1, <1>2 DEF Asking, AlertsAsked, asked
  <1>6. Progress'
    BY <1>1, <1>2, <1>4 DEF Progress, AlertsAsked, FormatKnown, asked, returned, Nothing
  <1>7. OutcomeExplained' /\ PrintedIsReference'
    BY <1>1, Unreturned DEF returned
  <1> QED
    BY <1>3, <1>5, <1>6, <1>7 DEF IInv

LEMMA GeneratedStep ==
    ASSUME IInv, Generated
    PROVE  IInv'
  <1>1. /\ pc = "generate" /\ Progress /\ Asking /\ CInv /\ GInv /\ stage = "ok"
        /\ command # "document" /\ FormatKnown
        /\ UNCHANGED <<conversionVars, alertEnabled, generatorVars, asked, document>>
        /\ UNCHANGED <<printed, fault>>
    BY DEF IInv, Generated, Progress
  <1>2. CInv' /\ Asking'
    BY <1>1, ConversionSteps DEF Asking, AlertsAsked, asked
  <1>3. UNCHANGED <<config, i, stage, slos, command, type, output, phase>>
    BY <1>1 DEF conversionVars, asked, generatorVars
  <1>4. CASE pc' # "returned"
    <2>1. phase = "done" /\ pc' = "print"
      BY <1>4 DEF Generated, Return, Goto
    <2>2. GInv'
      BY <1>1, <1>3, SameSteps
    <2>3. Progress'
      BY <1>1, <1>3, <2>1, <2>2 DEF Progress, AlertsAsked, FormatKnown, Nothing
    <2> QED
      BY <1>1, <1>2, <1>4, <2>3, Unreturned DEF IInv
  <1>5. CASE pc' = "returned"
    <2>1. \/ phase = "failed" /\ outcome' = "error"
          \/ phase = "panic"
      BY <1>5 DEF Generated, Return, Goto
    <2>2. /\ Unusable = Refused /\ AllValid
          /\ \A m \in Refused :
               GP!Refusal(m) = IF Refusal(m) = "panic" THEN "panic" ELSE "failed"
      BY <1>1, Understood DEF Progress
    <2>3. PICK m \in Refused : (\A l \in Refused : m <= l) /\ phase = GP!Refusal(m)
      BY <1>1, <2>1, <2>2, GenerationEnds
    <2>9. Refusal(m) \in {"panic", "error"}
      BY DEF Refusal
    <2>10. phase = "panic" => outcome' = "panic"
      BY <1>5 DEF Generated, Return, Goto
    <2>4. outcome' = Refusal(m)
      BY <2>1, <2>2, <2>3, <2>9, <2>10
    <2>5. Refused' = Refused /\ Windowless' = Windowless
      BY <1>3 DEF Refused, Windowless
    <2>6. \A l : Refusal(l)' = Refusal(l)
      BY <1>3 DEF Refusal
    <2>7. command = "rule" => type \in {"all", "record"}
      BY <1>1 DEF Progress
    <2>8. OutcomeExplained'
      <3>1. \E l \in Refused' : (\A x \in Refused' : l <= x) /\ outcome' = Refusal(l)'
        BY <2>3, <2>4, <2>5, <2>6
      <3> QED
        BY <1>1, <1>3, <2>2, <2>3, <2>5, <2>7, <3>1 DEF OutcomeExplained, AllValid, FormatKnown
    <2> QED
      BY <1>1, <1>2, <1>5, <2>8, ReturnsUnprinted DEF IInv
  <1> QED
    BY <1>4, <1>5

LEMMA ToDocumentStep ==
    ASSUME IInv, ToDocument
    PROVE  IInv'
  <1>1. /\ pc = "document" /\ Progress /\ Asking /\ CInv /\ stage = "ok"
        /\ command = "document"
        /\ UNCHANGED <<conversionVars, alertEnabled, generatorVars, asked, printed, fault>>
    BY DEF IInv, ToDocument, Progress
  <1>2. CInv' /\ Asking'
    BY <1>1, ConversionSteps DEF Asking, AlertsAsked, asked
  <1>3. UNCHANGED <<config, i, stage, slos, command, type, output>>
    BY <1>1 DEF conversionVars, asked
  <1>4. CASE pc' # "returned"
    <2>1. /\ WindowsKnown /\ FormatKnown /\ pc' = "print"
          /\ document' = [m \in DOMAIN slos |-> toSLO(slos[m])]
      BY <1>4 DEF ToDocument, Return, Goto
    <2>2. (WindowsKnown /\ document = [m \in DOMAIN slos |-> toSLO(slos[m])])'
      BY <1>3, <2>1 DEF WindowsKnown
    <2>3. Progress'
      BY <1>1, <1>3, <2>1, <2>2 DEF Progress, AlertsAsked, FormatKnown, Nothing
    <2> QED
      BY <1>1, <1>2, <1>4, <2>3, Unreturned DEF IInv
  <1>5. CASE pc' = "returned"
    <2>1. \/ ~WindowsKnown /\ outcome' = "panic"
          \/ WindowsKnown /\ ~FormatKnown /\ outcome' = "error"
      BY <1>5 DEF ToDocument, Return, Goto
    <2>2. AllValid /\ (WindowsKnown <=> Windowless = {})
      BY <1>1, Understood
    <2>3. OutcomeExplained'
      BY <1>1, <1>3, <2>1, <2>2
         DEF OutcomeExplained, AllValid, Windowless, Refused, FormatKnown
    <2> QED
      BY <1>1, <1>2, <1>5, <2>3, ReturnsUnprinted DEF IInv
  <1> QED
    BY <1>4, <1>5

(* What a command that prints without error has printed.                    *)
LEMMA PrintedRules ==
    ASSUME IInv, pc = "print", command # "document"
    PROVE  /\ Output = RulesMeant
           /\ ruleGroups \in Seq(GP!RuleGroup)
           /\ Refused = {}
  <1>1. /\ GInv /\ CInv /\ stage = "ok" /\ phase = "done"
        /\ alertEnabled <=> AlertsAsked
    BY DEF IInv, Progress
  <1>2. DOMAIN slos = DOMAIN config /\ slos = Specified /\ Unusable = Refused
    BY <1>1, Understood
  <1>3. /\ Output = UNION {Gen!Expected(slos, slos[m]) : m \in DOMAIN slos}
        /\ Refused = {}
    BY <1>1, <1>2, GenerationEnds
  <1>4. UNION {Gen!Expected(slos, slos[m]) : m \in DOMAIN slos} = RulesMeant
    <2> DEFINE E(all, slo) == Gen!Expected(all, slo)
    <2> HIDE DEF E
    <2>1. UNION {E(slos, slos[m]) : m \in DOMAIN slos}
            = UNION {E(Specified, Specified[m]) : m \in DOMAIN config}
      BY <1>2
    <2> QED
      BY <2>1 DEF E, RulesMeant
  <1>5. ruleGroups \in Seq(GP!RuleGroup)
    BY <1>1 DEF GInv, GP!IInv, GP!Groups, GP!GroupsOK
  <1> QED
    BY <1>3, <1>4, <1>5

LEMMA RulesMeantKept ==
    ASSUME UNCHANGED <<config, alertEnabled>>
    PROVE  RulesMeant' = RulesMeant
  <1>1. Specified' = Specified
    BY DEF Specified
  <1>2. \A all, slo : Gen!Expected(all, slo)' = Gen!Expected(all, slo)
    BY DEF Gen!Expected
  <1> QED
    BY <1>1, <1>2 DEF RulesMeant

LEMMA PrintedDocument ==
    ASSUME IInv, pc = "print", command = "document"
    PROVE  /\ DOMAIN document = DOMAIN config
           /\ \A m \in DOMAIN config : \E w \in Range(config[m].windows) :
                /\ w.name = config[m].windowRef /\ w.types = {document[m].type}
                /\ document[m] = [name |-> config[m].name, window |-> w.name,
                     type |-> document[m].type, duration |-> w.duration]
  <1>1. /\ CInv /\ stage = "ok" /\ WindowsKnown
        /\ document = [m \in DOMAIN slos |-> toSLO(slos[m])]
    BY DEF IInv, Progress
  <1>2. /\ AllValid /\ Windowless = {} /\ DOMAIN slos = DOMAIN config
        /\ \A m \in DOMAIN config :
             config[m] \in Conv!SLOConfig /\ slos[m] = Conv!Meaning(config[m])
    BY <1>1, Understood
  <1>3. ASSUME NEW m \in DOMAIN config
        PROVE  \E w \in Range(config[m].windows) :
                 /\ w.name = config[m].windowRef /\ w.types = {document[m].type}
                 /\ document[m] = [name |-> config[m].name, window |-> w.name,
                      type |-> document[m].type, duration |-> w.duration]
    <2>1. config[m].windowRef # EmptyName /\ Conv!Valid(config[m])
      BY <1>2 DEF Windowless, AllValid
    <2>2. /\ slos[m].name = config[m].name
          /\ \E w \in Range(config[m].windows) :
               /\ w.name = config[m].windowRef /\ w.types \in {{"rolling"}, {"calendar"}}
               /\ slos[m].objective = Conv!toWindow(w)
      BY <1>2, <2>1, MeaningFacts
    <2>3. PICK w \in Range(config[m].windows) :
               /\ w.name = config[m].windowRef /\ w.types \in {{"rolling"}, {"calendar"}}
               /\ slos[m].objective = Conv!toWindow(w)
      BY <2>2
    <2>4. document[m] = toSLO(slos[m])
      BY <1>1, <1>2
    <2>5. /\ slos[m].objective.name = w.name /\ slos[m].objective.duration = w.duration
          /\ slos[m].objective.rolling = (w.types = {"rolling"})
      BY <2>3 DEF Conv!toWindow
    <2>6. toSLO(slos[m]) = [name |-> config[m].name, window |-> w.name,
            type |-> IF w.types = {"rolling"} THEN "rolling" ELSE "calendar",
            duration |-> w.duration]
      BY <2>2, <2>5, Zenon DEF toSLO
    <2>7. /\ document[m].type = IF w.types = {"rolling"} THEN "rolling" ELSE "calendar"
          /\ document[m] = [name |-> config[m].name, window |-> w.name,
               type |-> document[m].type, duration |-> w.duration]
      BY <2>4, <2>6
    <2>8. w.types = {document[m].type}
      BY <2>3, <2>7
    <2> QED
      BY <2>3, <2>7, <2>8
  <1> QED
    BY <1>1, <1>2, <1>3

LEMMA PrintResultStep ==
    ASSUME IInv, PrintResult
    PROVE  IInv'
  <1>1. /\ pc = "print" /\ Progress /\ Asking /\ CInv /\ stage = "ok" /\ FormatKnown
        /\ alertEnabled <=> AlertsAsked
        /\ command = "rule" => type \in {"all", "record"}
        /\ UNCHANGED <<conversionVars, alertEnabled, generatorVars, asked, document>>
    BY DEF IInv, PrintResult, Progress
  <1>2. CInv' /\ Asking'
    BY <1>1, ConversionSteps DEF Asking, AlertsAsked, asked
  <1>3. UNCHANGED <<config, i, stage, slos, command, type, output, alertEnabled>>
    BY <1>1 DEF conversionVars, asked
  <1>4. pc' = "returned"
    BY DEF PrintResult, Return
  <1>5. Progress'
    BY <1>4 DEF Progress
  <1>6. CASE fault' /\ outcome' = "error" /\ printed'.as \in {"nothing", "part"}
    BY <1>2, <1>5, <1>6 DEF IInv, OutcomeExplained, PrintedIsReference
  <1>7. CASE ~(fault' /\ outcome' = "error" /\ printed'.as \in {"nothing", "part"})
    <2>1. /\ outcome' = "ok" /\ UNCHANGED fault
          /\ printed' = [as |-> output,
                         holds |-> CASE command = "document" -> document
                                     [] command # "document" /\ output = "json" -> ruleGroups
                                     [] OTHER -> Prometheus(ruleGroups)]
      BY <1>7 DEF PrintResult, Return, Nothing
    <2>2. /\ printed'.as = output
          /\ command = "document" => printed'.holds = document
          /\ command # "document" /\ output = "json" => printed'.holds = ruleGroups
          /\ command # "document" /\ output # "json" => printed'.holds = Prometheus(ruleGroups)
      <3> DEFINE held == CASE command = "document" -> document
                           [] command # "document" /\ output = "json" -> ruleGroups
                           [] OTHER -> Prometheus(ruleGroups)
      <3>1. /\ command = "document" => held = document
            /\ command # "document" /\ output = "json" => held = ruleGroups
            /\ command # "document" /\ output # "json" => held = Prometheus(ruleGroups)
        OBVIOUS
      <3>2. printed' = [as |-> output, holds |-> held]
        BY <2>1
      <3> HIDE DEF held
      <3> QED
        BY <3>1, <3>2
    <2>3. output \notin {"nothing", "part"}
      BY <1>1 DEF FormatKnown
    <2>4. AllValid /\ (WindowsKnown <=> Windowless = {})
      BY <1>1, Understood
    <2>5. OutcomeExplained'
      <3>1. command = "document" => WindowsKnown
        BY <1>1 DEF Progress
      <3>2. Refused = {}
        <4>1. command = "document" => Refused = {}
          BY DEF Refused
        <4> QED
          BY <1>1, <4>1, PrintedRules
      <3>3. Refused' = Refused /\ Windowless' = Windowless
        BY <1>3 DEF Refused, Windowless
      <3> QED
        BY <1>1, <1>3, <2>1, <2>4, <3>1, <3>2, <3>3 DEF OutcomeExplained, AllValid, FormatKnown
    <2>6. PrintedIsReference'
      <3>1. CASE command = "document"
        <4> PICK doc : doc = document
          OBVIOUS
        <4>1. /\ DOMAIN doc = DOMAIN config
              /\ \A m \in DOMAIN config : \E w \in Range(config[m].windows) :
                   /\ w.name = config[m].windowRef /\ w.types = {doc[m].type}
                   /\ doc[m] = [name |-> config[m].name, window |-> w.name,
                        type |-> doc[m].type, duration |-> w.duration]
          BY <1>1, <3>1, PrintedDocument
        <4>2. /\ printed'.holds = doc /\ printed'.as \notin {"nothing", "part"}
              /\ command' = "document" /\ config' = config
          BY <1>3, <2>2, <2>3, <3>1
        <4> QED
          BY <4>1, <4>2 DEF PrintedIsReference
      <3>2. CASE command # "document" /\ output = "json"
        <4>1. UNION {{<<ruleGroups[m].name, r>> : r \in Range(ruleGroups[m].rules)} :
                        m \in DOMAIN ruleGroups} = RulesMeant
          BY <1>1, <3>2, PrintedRules DEF Output
        <4>2. RulesMeant' = RulesMeant
          BY <1>3, RulesMeantKept
        <4> QED
          BY <1>1, <1>3, <2>2, <2>3, <3>2, <4>1, <4>2 DEF PrintedIsReference
      <3>3. CASE command # "document" /\ output # "json"
        <4> DEFINE holds == Prometheus(ruleGroups)
                   rules == UNION {{<<holds[m].name, r>> : r \in Range(holds[m].rules)} :
                                     m \in DOMAIN holds}
        <4>1. rules = {<<e[1], PrometheusRule(e[2])>> : e \in RulesMeant}
          BY <1>1, <3>3, PrintedRules, PrometheusOutput
        <4>2. ASSUME NEW e \in rules, "alert" \in DOMAIN e[2]
              PROVE  command = "rule" /\ type = "all"
          <5>1. PICK f \in RulesMeant : e = <<f[1], PrometheusRule(f[2])>>
            BY <4>1, <4>2
          <5>2. f[2].record.base = "alert"
            BY <4>2, <5>1 DEF PrometheusRule
          <5>3. alertEnabled
            BY <5>1, <5>2, AlertsExpected DEF RulesMeant
          <5> QED
            BY <1>1, <5>3 DEF AlertsAsked
        <4>3. RulesMeant' = RulesMeant
          BY <1>3, RulesMeantKept
        <4>4. printed'.holds = holds
          BY <2>2, <3>3
        <4> HIDE DEF holds
        <4> QED
          BY <1>1, <1>3, <2>2, <2>3, <3>3, <4>1, <4>2, <4>3, <4>4 DEF PrintedIsReference
      <3> QED
        BY <3>1, <3>2, <3>3
    <2> QED
      BY <1>2, <1>5, <2>5, <2>6 DEF IInv
  <1> QED
    BY <1>6, <1>7

LEMMA StutterStep ==
    ASSUME IInv, UNCHANGED vars
    PROVE  IInv'
  <1>1. /\ UNCHANGED <<conversionVars, generatorVars, asked, document, returned, alertEnabled>>
        /\ UNCHANGED <<config, i, stage, slos, command, type, output, phase, pc, outcome>>
        /\ UNCHANGED <<printed, fault>>
    BY DEF vars, conversionVars, asked, generatorVars, returned
  <1>2. CInv'
    BY <1>1, ConversionSteps DEF IInv
  <1>3. Asking'
    BY <1>1 DEF IInv, Asking, AlertsAsked
  <1>4. GInv => GInv'
    BY <1>1, SameSteps
  <1>5. Progress'
    BY <1>1, <1>4 DEF IInv, Progress, AlertsAsked, FormatKnown, Fresh, WindowsKnown,
       generatorVars, tables, Nothing
  <1>6. OutcomeExplained'
    BY <1>1, SameAsked DEF IInv
  <1>7. PrintedIsReference'
    <2>1. RulesMeant' = RulesMeant
      BY <1>1, RulesMeantKept
    <2>2. PrintedIsReference
      BY DEF IInv
    <2>3. UNION {{<<printed'.holds[m].name, r>> : r \in Range(printed'.holds[m].rules)} :
                   m \in DOMAIN printed'.holds}
            = UNION {{<<printed.holds[m].name, r>> : r \in Range(printed.holds[m].rules)} :
                   m \in DOMAIN printed.holds}
      BY <1>1
    <2>4. {<<e[1], PrometheusRule(e[2])>> : e \in RulesMeant'}
            = {<<e[1], PrometheusRule(e[2])>> : e \in RulesMeant}
      BY <2>1
    <2> QED
      BY <1>1, <2>1, <2>2, <2>3, <2>4 DEF PrintedIsReference
  <1> QED
    BY <1>2, <1>3, <1>5, <1>6, <1>7 DEF IInv

LEMMA InitIInv == Init => IInv
  <1> SUFFICES ASSUME Init PROVE IInv
    OBVIOUS
  <1>1. CInv
    BY ConversionStarts DEF Init
  <1>2. Asking
    BY DEF Init, Asking
  <1>3. Progress
    BY DEF Init, Progress, Fresh
  <1>4. OutcomeExplained /\ PrintedIsReference
    BY DEF Init, OutcomeExplained, PrintedIsReference, Nothing
  <1> QED
    BY <1>1, <1>2, <1>3, <1>4 DEF IInv

LEMMA NextIInv == IInv /\ [Next]_vars => IInv'
  BY StartStep, ConvertStep, ConvertedStep, GenerateStep, GeneratedStep, ToDocumentStep,
     PrintResultStep, StutterStep DEF Next

LEMMA Invariance == Spec => []IInv
  <1>1. Init => IInv
    BY InitIInv
  <1>2. IInv /\ [Next]_vars => IInv'
    BY NextIInv
  <1> QED
    BY <1>1, <1>2, PTL DEF Spec

-----------------------------------------------------------------------------
(* Each command ends as its file, its type and its format say, whatever is  *)
(* in the file: it is refused for an invalid configuration, an unknown type *)
(* or format or an alert on an SLO without window; the rule command panics  *)
(* on the last if the alert finds the error budget of a namesake, and the   *)
(* document command on any SLO without window (the RunE of the commands).   *)
THEOREM OutcomesCorrect == Spec => []OutcomeExplained
  <1>1. IInv => OutcomeExplained
    BY DEF IInv
  <1> QED
    BY <1>1, Invariance, PTL

(* From the file to the output, names shared or not: the rules a command    *)
(* prints are those its SLOs stand for, alerts only when asked for and      *)
(* never for a backfill, a document has the window of each objective, and   *)
(* nothing is printed in part unless the printing itself failed (the RunE   *)
(* of the three commands).                                                  *)
THEOREM PrintedCorrect == Spec => []PrintedIsReference
  <1>1. IInv => PrintedIsReference
    BY DEF IInv
  <1> QED
    BY <1>1, Invariance, PTL

-----------------------------------------------------------------------------
(* What is printed can be evaluated.                                        *)

LEMMA GroupsEvaluable ==
    ASSUME GInv, DistinctNames => \A m, l \in DOMAIN slos : slos[m].name = slos[l].name => m = l
    PROVE  /\ Evaluable(ruleGroups)
           /\ Evaluable(Prometheus(ruleGroups))
  <1> DEFINE printable == Prometheus(ruleGroups)
             rules(m) == ruleGroups[m].rules
  <1>1. /\ ruleGroups \in Seq(GP!RuleGroup) /\ GP!GroupsIndexed
        /\ GP!ReadsRecorded /\ GP!SeriesRead
    BY DEF GInv, GP!IInv, GP!Groups, GP!GroupsOK, GP!Rules
  <1>2. DistinctNames => GP!Precede
    BY DEF GInv, GP!OInv, GP!DistinctSLONames
  <1>3. ASSUME NEW m \in DOMAIN ruleGroups
        PROVE  /\ rules(m) \in Seq(GP!Rule)
               /\ DOMAIN rules(m) = 1..Len(rules(m)) /\ Len(rules(m)) \in Nat
               /\ \A x \in DOMAIN rules(m) :
                    rules(m)[x] \in GP!Rule /\ rules(m)[x] \in GP!RuleSet
    <2>1. ruleGroups[m] \in GP!RuleGroup
      BY <1>1
    <2>2. rules(m) \in Seq(GP!Rule)
      BY <2>1 DEF GP!RuleGroup
    <2> QED
      BY <2>2 DEF GP!RuleSet, GP!Range
  <1>4. \A m, l \in DOMAIN ruleGroups : ruleGroups[m].name = ruleGroups[l].name => m = l
    BY <1>1 DEF GP!GroupsIndexed
  <1>5. ASSUME NEW m \in DOMAIN ruleGroups, NEW x \in DOMAIN rules(m),
               NEW metric \in rules(m)[x].expr.reads
        PROVE  /\ metric.base # "alert"
               /\ \E l \in DOMAIN ruleGroups : \E y \in DOMAIN rules(l) :
                    rules(l)[y].id = rules(m)[x].id /\ rules(l)[y].record = metric
    <2>1. rules(m)[x] \in GP!RuleSet
      BY <1>3
    <2>2. PICK s \in GP!RuleSet : s.id = rules(m)[x].id /\ s.record = metric
      BY <1>1, <2>1 DEF GP!ReadsRecorded
    <2>3. \E l \in DOMAIN ruleGroups : \E y \in DOMAIN rules(l) : rules(l)[y] = s
      BY DEF GP!RuleSet, GP!Range
    <2>4. metric.base # "alert"
      BY <1>1, <2>1 DEF GP!SeriesRead
    <2> QED
      BY <2>2, <2>3, <2>4
  <1>6. ASSUME DistinctNames, NEW m \in DOMAIN ruleGroups, NEW x \in DOMAIN rules(m),
               rules(m)[x].expr.reads # {}
        PROVE  \E y \in 1..(x - 1) :
                 y \in DOMAIN rules(m) /\ rules(m)[y].record \in rules(m)[x].expr.reads
    <2>1. PICK y \in 1..(x - 1) : rules(m)[y].record \in rules(m)[x].expr.reads
      BY <1>2, <1>6 DEF GP!Precede
    <2>2. y \in DOMAIN rules(m)
      BY <1>3
    <2> QED
      BY <2>1, <2>2
  <1>7. \A r \in GP!Rule : "record" \in DOMAIN r
    BY DEF GP!Rule
  <1>8. Evaluable(ruleGroups)
    <2>1. ASSUME NEW m \in DOMAIN ruleGroups, NEW x \in DOMAIN rules(m),
                 NEW metric \in rules(m)[x].expr.reads
          PROVE  RecordedFor(ruleGroups, rules(m)[x].id, metric)
      BY <1>3, <1>5, <1>7 DEF RecordedFor, Records
    <2>2. ASSUME DistinctNames, NEW m \in DOMAIN ruleGroups, NEW x \in DOMAIN rules(m),
                 rules(m)[x].expr.reads # {}
          PROVE  RecordedBefore(rules(m), x)
      BY <1>3, <1>6, <1>7, <2>2 DEF RecordedBefore, Records
    <2> QED
      BY <1>4, <2>1, <2>2 DEF Evaluable
  <1>9. DOMAIN printable = DOMAIN ruleGroups
    BY DEF Prometheus
  <1>10. ASSUME NEW m \in DOMAIN ruleGroups
         PROVE  /\ printable[m].name = ruleGroups[m].name
                /\ DOMAIN printable[m].rules = DOMAIN rules(m)
                /\ \A x \in DOMAIN rules(m) :
                     printable[m].rules[x] = PrometheusRule(rules(m)[x])
    <2>1. ruleGroups[m] \in GP!RuleGroup
      BY <1>1
    <2> QED
      BY <2>1 DEF Prometheus, GP!RuleGroup
  <1>11. ASSUME NEW r \in GP!Rule
         PROVE  /\ PrometheusRule(r).id = r.id /\ PrometheusRule(r).expr = r.expr
                /\ r.record.base # "alert" => Records(PrometheusRule(r), r.record)
    BY DEF PrometheusRule, Records
  <1> HIDE DEF printable
  <1>12. Evaluable(printable)
    <2>1. ASSUME NEW m \in DOMAIN ruleGroups, NEW x \in DOMAIN rules(m)
          PROVE  /\ printable[m].rules[x].id = rules(m)[x].id
                 /\ printable[m].rules[x].expr = rules(m)[x].expr
                 /\ rules(m)[x].record.base # "alert" =>
                      Records(printable[m].rules[x], rules(m)[x].record)
      BY <1>3, <1>10, <1>11
    <2>2. ASSUME NEW m \in DOMAIN ruleGroups, NEW x \in DOMAIN rules(m),
                 NEW metric \in rules(m)[x].expr.reads
          PROVE  RecordedFor(printable, rules(m)[x].id, metric)
      <3>1. PICK l \in DOMAIN ruleGroups : \E y \in DOMAIN rules(l) :
              rules(l)[y].id = rules(m)[x].id /\ rules(l)[y].record = metric
        BY <1>5
      <3>2. PICK y \in DOMAIN rules(l) :
              rules(l)[y].id = rules(m)[x].id /\ rules(l)[y].record = metric
        BY <3>1
      <3>3. y \in DOMAIN printable[l].rules /\ l \in DOMAIN printable
        BY <1>9, <1>10
      <3>4. printable[l].rules[y].id = rules(m)[x].id /\ Records(printable[l].rules[y], metric)
        BY <1>5, <2>1, <3>2
      <3> QED
        BY <3>3, <3>4 DEF RecordedFor
    <2>3. ASSUME DistinctNames, NEW m \in DOMAIN ruleGroups, NEW x \in DOMAIN rules(m),
                 rules(m)[x].expr.reads # {}
          PROVE  RecordedBefore(printable[m].rules, x)
      <3>1. PICK y \in 1..(x - 1) :
              y \in DOMAIN rules(m) /\ rules(m)[y].record \in rules(m)[x].expr.reads
        BY <1>6, <2>3
      <3>2. Records(printable[m].rules[y], rules(m)[y].record)
        BY <1>5, <2>1, <3>1
      <3>3. rules(m)[y].record \in printable[m].rules[x].expr.reads
        BY <2>1, <3>1
      <3> QED
        BY <3>2, <3>3 DEF RecordedBefore
    <2> QED
      BY <1>4, <1>9, <1>10, <2>1, <2>2, <2>3 DEF Evaluable
  <1> QED
    BY <1>8, <1>12 DEF printable

LEMMA NextEvaluable == IInv /\ PrintedEvaluable /\ [Next]_vars => PrintedEvaluable'
  <1> SUFFICES ASSUME IInv, PrintedEvaluable, [Next]_vars PROVE PrintedEvaluable'
    OBVIOUS
  <1>1. UNCHANGED <<config, command, output>>
    BY DEF Next, vars, Start, Convert, Converted, Generate, Generated, ToDocument, PrintResult,
       conversionVars, asked, Conv!Next, Conv!ConvertWindow, Conv!ConvertObjective,
       Conv!ConvertIndicator, Conv!ConvertAlert, Conv!FinishSLO, Conv!Finish, Conv!Fail
  <1>2. \A groups : Evaluable(groups)' <=> Evaluable(groups)
    BY <1>1 DEF Evaluable, DistinctNames, RecordedFor, RecordedBefore, Records
  <1>3. CASE UNCHANGED printed
    BY <1>1, <1>2, <1>3 DEF PrintedEvaluable
  <1>4. CASE printed' # printed
    <2>1. PrintResult
      BY <1>4 DEF Next, vars, returned, Start, Convert, Converted, Generate, Generated, ToDocument
    <2>2. ASSUME command # "document", printed'.as \notin {"nothing", "part"}
          PROVE  printed'.holds \in {ruleGroups, Prometheus(ruleGroups)}
      BY <2>1, <2>2 DEF PrintResult, Nothing
    <2>3. ASSUME command # "document"
          PROVE  Evaluable(ruleGroups) /\ Evaluable(Prometheus(ruleGroups))
      <3>1. GInv /\ CInv /\ stage = "ok"
        BY <2>1, <2>3 DEF IInv, Progress, PrintResult
      <3> QED
        BY <3>1, Understood, GroupsEvaluable
    <2> QED
      BY <1>1, <1>2, <2>2, <2>3 DEF PrintedEvaluable
  <1> QED
    BY <1>3, <1>4

(* Whatever the file, the rules a command prints can be evaluated as they    *)
(* are printed (RuleGroups.Prometheus of what the RuleGenerator built).      *)
THEOREM EvaluableCorrect == Spec => []PrintedEvaluable
  <1>1. Init => PrintedEvaluable
    BY DEF Init, PrintedEvaluable, Nothing
  <1>2. IInv /\ PrintedEvaluable /\ [Next]_vars => PrintedEvaluable'
    BY NextEvaluable
  <1> QED
    BY <1>1, <1>2, Invariance, PTL DEF Spec

-----------------------------------------------------------------------------
(* Every command takes finitely many steps and is never blocked.            *)

(* What is left of a command, and of the part it is in.                     *)
Stages ==
    CASE pc = "start" -> 4 [] pc = "convert" -> 3 [] pc \in {"generate", "document"} -> 2
      [] pc = "print" -> 1 [] OTHER -> 0

TurnsLeft ==
    CASE pc = "convert" -> CP!ConfigsLeft [] pc = "generate" -> GP!TurnsLeft [] OTHER -> 0

RulesLeft ==
    CASE pc = "convert" -> CP!StepsLeft [] pc = "generate" -> GP!RulesLeft [] OTHER -> 0

Left == <<Stages, <<TurnsLeft, RulesLeft>>>>

(* Triples of counts, the first of which weighs most.                       *)
Less == {p \in Nat \X Nat : p[1] < p[2]}

Counts == Nat \X (Nat \X Nat)

Fewer == LexPairOrdering(Less, LexPairOrdering(Less, Less, Nat, Nat), Nat, Nat \X Nat)

LEMMA FewerWellFounded == IsWellFoundedOn(Fewer, Counts)
  <1>1. Less = OpToRel(<, Nat)
    BY Zenon DEF Less, OpToRel
  <1>2. IsWellFoundedOn(Less, Nat)
    BY <1>1, NatLessThanWellFounded, Zenon
  <1>3. IsWellFoundedOn(LexPairOrdering(Less, Less, Nat, Nat), Nat \X Nat)
    BY <1>2, WFLexPairOrdering
  <1> QED
    BY <1>2, <1>3, WFLexPairOrdering DEF Fewer, Counts

LEMMA FewerIf ==
    ASSUME NEW a \in Nat, NEW b \in Nat, NEW c \in Nat,
           NEW d \in Nat, NEW e \in Nat, NEW f \in Nat,
           \/ a < d
           \/ a = d /\ (b < e \/ (b = e /\ c < f))
    PROVE  <<<<a, <<b, c>>>>, <<d, <<e, f>>>>>> \in Fewer
  <1>1. /\ a < d => <<a, d>> \in Less
        /\ b < e => <<b, e>> \in Less
        /\ c < f => <<c, f>> \in Less
    BY DEF Less
  <1>2. b < e \/ (b = e /\ c < f) => <<<<b, c>>, <<e, f>>>> \in LexPairOrdering(Less, Less, Nat, Nat)
    BY <1>1 DEF LexPairOrdering
  <1> DEFINE Inner == LexPairOrdering(Less, Less, Nat, Nat)
  <1> HIDE DEF Inner
  <1>3. <<<<a, <<b, c>>>>, <<d, <<e, f>>>>>> \in LexPairOrdering(Less, Inner, Nat, Nat \X Nat)
    BY <1>1, <1>2 DEF LexPairOrdering, Inner
  <1> QED
    BY <1>3 DEF Fewer, Inner

LEMMA LeftType == IInv => Stages \in Nat /\ TurnsLeft \in Nat /\ RulesLeft \in Nat
  <1> SUFFICES ASSUME IInv
               PROVE  Stages \in Nat /\ TurnsLeft \in Nat /\ RulesLeft \in Nat
    OBVIOUS
  <1>1. CP!ConfigsLeft \in Nat /\ CP!StepsLeft \in Nat
    BY CP!LeftType, ConversionAssumed DEF IInv, CInv, CP!IInv
  <1>2. pc = "generate" => GP!TurnsLeft \in Nat /\ GP!RulesLeft \in Nat
    BY GP!LeftType, GenerationAssumed DEF IInv, Progress, GInv, GP!IInv
  <1>3. Stages \in Nat
    BY DEF Stages
  <1> QED
    BY <1>1, <1>2, <1>3 DEF TurnsLeft, RulesLeft

LEMMA NextLowers ==
    ASSUME IInv, Next
    PROVE  \/ Stages' < Stages
           \/ /\ Stages' = Stages
              /\ TurnsLeft' < TurnsLeft \/ (TurnsLeft' = TurnsLeft /\ RulesLeft' < RulesLeft)
  <1>1. CASE Convert
    <2>1. pc = "convert" /\ pc' = "convert" /\ CP!Next
      BY <1>1, SameConversion DEF Convert, returned
    <2>2. \/ CP!ConfigsLeft' < CP!ConfigsLeft
          \/ CP!ConfigsLeft' = CP!ConfigsLeft /\ CP!StepsLeft' < CP!StepsLeft
      BY <2>1, CP!NextLowers, ConversionAssumed DEF IInv, CInv
    <2> QED
      BY <2>1, <2>2 DEF Stages, TurnsLeft, RulesLeft
  <1>2. CASE Generate
    <2>1. pc = "generate" /\ pc' = "generate" /\ GP!Next
      BY <1>2, SameGeneration DEF Generate, returned
    <2>2. GP!IInv
      BY <2>1 DEF IInv, Progress, GInv
    <2>3. \/ GP!TurnsLeft' < GP!TurnsLeft
          \/ GP!TurnsLeft' = GP!TurnsLeft /\ GP!RulesLeft' < GP!RulesLeft
      BY <2>1, <2>2, GP!NextLowers, GenerationAssumed
    <2> QED
      BY <2>1, <2>3 DEF Stages, TurnsLeft, RulesLeft
  <1>3. CASE Start \/ Converted \/ Generated \/ ToDocument \/ PrintResult
    BY <1>3 DEF Start, Converted, Generated, ToDocument, PrintResult, Goto, Return, Stages
  <1> QED
    BY <1>1, <1>2, <1>3 DEF Next

(* A step that lowers the counts.                                            *)
Lowered == <<Left', Left>> \in Fewer

(* A command returns after finitely many steps, whatever is in the file:    *)
(* each step of its parts and of its own lowers three counts in an order    *)
(* without infinite descent.                                                *)
THEOREM StepsRunOut ==
    /\ IsWellFoundedOn(Fewer, Counts)
    /\ Spec => [](Left \in Counts) /\ [][Lowered]_vars
  <1>1. IInv => Left \in Counts
    BY LeftType DEF Left, Counts
  <1>2. IInv /\ [Next]_vars => [Lowered]_vars
    <2> SUFFICES ASSUME IInv, Next PROVE Lowered
      OBVIOUS
    <2>1. (IInv => Stages \in Nat /\ TurnsLeft \in Nat /\ RulesLeft \in Nat)'
      BY LeftType, PTL
    <2>2. /\ Stages \in Nat /\ TurnsLeft \in Nat /\ RulesLeft \in Nat
          /\ Stages' \in Nat /\ TurnsLeft' \in Nat /\ RulesLeft' \in Nat
      BY <2>1, LeftType, NextIInv
    <2> QED
      BY <2>2, NextLowers, FewerIf DEF Left, Lowered
  <1>3. Spec => [](Left \in Counts) /\ [][Lowered]_vars
    BY <1>1, <1>2, Invariance, PTL DEF Spec
  <1> QED
    BY <1>3, FewerWellFounded

(* The guards of the steps.                                                 *)
CanStep ==
    \/ pc \in {"start", "document", "print"}
    \/ pc = "convert" /\ CP!CanStep
    \/ pc = "convert" /\ stage = "error"
    \/ /\ pc = "convert" /\ stage = "ok"
       /\ command = "document" \/ FormatKnown \/ command = "rule"
    \/ pc = "generate" /\ (GP!CanStep \/ phase \in {"done", "failed", "panic"})

(* Until it returns, a command has a step: when a part of it ends, however  *)
(* it ends, some branch of the command takes over.                          *)
THEOREM NeverBlocked == Spec => [](pc = "returned" \/ CanStep)
  <1>1. IInv => pc = "returned" \/ CanStep
    <2> SUFFICES ASSUME IInv, pc # "returned" PROVE CanStep
      OBVIOUS
    <2>1. pc \in {"start", "convert", "document", "generate", "print"}
      BY DEF IInv, Progress
    <2>2. CASE pc = "convert"
      <3>1. CP!Returned \/ CP!CanStep
        BY CP!Unblocked, ConversionAssumed DEF IInv, CInv, CP!IInv
      <3>2. command = "document" \/ FormatKnown \/ command = "rule"
        BY DEF IInv, Asking, FormatKnown
      <3> QED
        BY <2>2, <3>1, <3>2 DEF CanStep, CP!Returned
    <2>3. CASE pc = "generate"
      <3>1. GP!Returned \/ GP!CanStep
        BY <2>3, GP!Unblocked, GenerationAssumed DEF IInv, Progress, GInv
      <3> QED
        BY <2>3, <3>1 DEF CanStep, GP!Returned
    <2> QED
      BY <2>1, <2>2, <2>3 DEF CanStep
  <1> QED
    BY <1>1, Invariance, PTL
=============================================================================
