--------------------------- MODULE RuleGenerator ---------------------------
(***************************************************************************)
(* internal/prometheus/rule: the RuleGenerator that turns a Spec into       *)
(* Prometheus rule groups. GenerateRecordingRules walks the SLOs and adds,  *)
(* per SLO, one error rate rule per window, an error budget rule when the   *)
(* objective has a window, and a metadata rule; GenerateAlertingRules walks *)
(* them again and adds the alerts, looking up in two maps the recording     *)
(* rules whose series the alert reads.                                      *)
(*                                                                          *)
(* One action adds one rule (or fails doing so). Rules are records that     *)
(* keep what the properties tell apart: the metric a rule records, the      *)
(* slom_id it carries, and which metrics its expression reads.              *)
(***************************************************************************)
EXTENDS SLOSpec, FiniteSets, Functions

CONSTANT Specs  \* the specs that may be given to the generator

ASSUME SpecsAssumption ==
    \A s \in Specs : s \in Seq(SLO) /\ \A i \in DOMAIN s : WellFormed(s[i])

VARIABLES
    spec,                      \* the Spec being processed: a sequence of SLOs
    alertEnabled,              \* whether the command also asks for alerts
    phase,                     \* "record", "alert", "done", "failed" or "panic"
    i,                         \* index of the current SLO
    k,                         \* next window (record) or alert (alert) of that SLO
    ruleGroups,                \* the groups generated so far, in order
    ruleGroupsByName,          \* group name |-> its position in ruleGroups
    errorRateRecordingRules,   \* <<slo id, window name>> |-> rule
    errorBudgetRecordingRules  \* slo id |-> rule

groupVars == <<ruleGroups, ruleGroupsByName>>
lookupVars == <<errorRateRecordingRules, errorBudgetRecordingRules>>
vars == <<spec, alertEnabled, phase, i, k, groupVars, lookupVars>>

-----------------------------------------------------------------------------
(* Names. All SLOs of a run share the spec's name, so sloId is as           *)
(* discriminating as the SLO's name.                                        *)

(* Mutant: the id is made of the spec's name alone. *)
sloIdOfSpec(slo) == CHOOSE name \in SLONames : TRUE

sloId(slo) == slo.name

metricNameErrorRate(w) == [base |-> "errorRate", duration |-> w.duration]

(* Mutant: error budget series named like error rate series. *)
metricNameErrorBudgetClash(w) == metricNameErrorRate(w)

metricNameErrorBudget(w) == [base |-> "errorBudget", duration |-> w.duration]

metricNameSLO == [base |-> "slo", duration |-> 0]

Metric == [base: {"errorRate", "errorBudget", "slo", "alert"},
           duration: Durations \cup {0}]

(* "slom:<id>:meta", "slom:<id>:default" (interval 0) or "slom:<id>:<interval>". *)
GroupName == [id: SLONames, meta: BOOLEAN, interval: Intervals \cup {0}]

(* Mutant: alerts never leave the default group. *)
ruleGroupNameAlertDefault(id, kind, interval) ==
    [id |-> id, meta |-> kind = "meta",
     interval |-> IF kind \in {"meta", "alert"} THEN 0 ELSE interval]

ruleGroupName(id, kind, interval) ==
    [id |-> id, meta |-> kind = "meta",
     interval |-> IF kind = "meta" THEN 0 ELSE interval]

-----------------------------------------------------------------------------
(* Rules. "of" says where the expression comes from: the SLI query of the   *)
(* spec, a constant, recorded series (listed in reads), or nothing at all.  *)

Expr == [of: {"sli", "constant", "series", "empty"}, reads: SUBSET Metric]

Rule == [id: SLONames, record: Metric, expr: Expr]

RuleGroup == [name: GroupName, interval: Intervals \cup {0}, rules: Seq(Rule)]

EmptyExpr == [of |-> "empty", reads |-> {}]

generateErrorRateQuery(w) ==
    IF w.rolling THEN [of |-> "sli", reads |-> {}] ELSE EmptyExpr

generateErrorRateRecordingRule(id, w) ==
    [id |-> id, record |-> metricNameErrorRate(w),
     expr |-> generateErrorRateQuery(w)]

generateErrorBudgetRecordingRule(id, w, errorRateRule) ==
    [id |-> id, record |-> metricNameErrorBudget(w),
     expr |-> IF w.rolling
              THEN [of |-> "series", reads |-> {errorRateRule.record}]
              ELSE EmptyExpr]

generateMetaRecordingRule(id) ==
    [id |-> id, record |-> metricNameSLO,
     expr |-> [of |-> "constant", reads |-> {}]]

(* The id of an alerting rule is the slom_id its expression selects.        *)
generateAlertingRule(id, sources) ==
    [id |-> id, record |-> [base |-> "alert", duration |-> 0],
     expr |-> [of |-> "series", reads |-> {r.record : r \in sources}]]

-----------------------------------------------------------------------------
(* The generator's tables.                                                  *)

(* Mutant: a map allocated anew at each write. *)
PutAnew(f, x, v) == [y \in {x} |-> v]

Put(f, x, v) == [y \in DOMAIN f \cup {x} |-> IF y = x THEN v ELSE f[y]]

(* Mutant: the position of a new group taken one too low. *)
AddRuleOffByOne(name, interval, r) ==
    /\ name \notin DOMAIN ruleGroupsByName
    /\ ruleGroups' = Append(ruleGroups,
         [name |-> name, interval |-> interval, rules |-> <<r>>])
    /\ ruleGroupsByName' = Put(ruleGroupsByName, name, Len(ruleGroups))

(* Mutant: a new group is not entered in the index. *)
AddRuleUnindexed(name, interval, r) ==
    /\ ruleGroups' = Append(ruleGroups,
         [name |-> name, interval |-> interval, rules |-> <<r>>])
    /\ UNCHANGED ruleGroupsByName

(* Mutant: the rule is appended to a copy of an existing group. *)
AddRuleToCopy(name, interval, r) ==
    \/ name \in DOMAIN ruleGroupsByName /\ UNCHANGED groupVars
    \/ /\ name \notin DOMAIN ruleGroupsByName
       /\ ruleGroups' = Append(ruleGroups,
            [name |-> name, interval |-> interval, rules |-> <<r>>])
       /\ ruleGroupsByName' = Put(ruleGroupsByName, name, Len(ruleGroups) + 1)

(* getOrCreateRuleGroup, and the append of r that follows each call of it.  *)
AddRule(name, interval, r) ==
    \/ /\ name \in DOMAIN ruleGroupsByName
       /\ ruleGroups' =
            [ruleGroups EXCEPT ![ruleGroupsByName[name]].rules = Append(@, r)]
       /\ UNCHANGED ruleGroupsByName
    \/ /\ name \notin DOMAIN ruleGroupsByName
       /\ ruleGroups' = Append(ruleGroups,
            [name |-> name, interval |-> interval, rules |-> <<r>>])
       /\ ruleGroupsByName' = Put(ruleGroupsByName, name, Len(ruleGroups) + 1)

(* Mutant: the table of error rate rules not split by SLO. *)
errorRateKeyByWindow(id, w) == <<"", w.name>>

errorRateKey(id, w) == <<id, w.name>>

-----------------------------------------------------------------------------
Init ==
    /\ spec \in Specs
    /\ alertEnabled \in BOOLEAN
    /\ phase = "record"
    /\ i = 1
    /\ k = 1
    /\ ruleGroups = <<>>
    /\ ruleGroupsByName = <<>>
    /\ errorRateRecordingRules = <<>>
    /\ errorBudgetRecordingRules = <<>>

Current == spec[i]

Fail(how) ==
    /\ phase' = how
    /\ UNCHANGED <<i, k, groupVars, lookupVars>>

(* generateRecordingRules: one window of the loop.                          *)
RecordErrorRate ==
    /\ phase = "record" /\ i <= Len(spec) /\ k <= Len(Current.windows)
    /\ LET id == sloId(Current)
           w == Current.windows[k]
           r == generateErrorRateRecordingRule(id, w)
       IN /\ AddRule(ruleGroupName(id, "record", w.interval), w.interval, r)
          /\ errorRateRecordingRules' =
               Put(errorRateRecordingRules, errorRateKey(id, w), r)
    /\ k' = k + 1
    /\ UNCHANGED <<spec, alertEnabled, phase, i, errorBudgetRecordingRules>>

(* The error budget rule, which reads the series of the objective window's  *)
(* error rate rule; looking that rule up may fail.                          *)
RecordErrorBudget ==
    /\ phase = "record" /\ i <= Len(spec) /\ k = Len(Current.windows) + 1
    /\ UNCHANGED <<spec, alertEnabled>>
    /\ LET id == sloId(Current)
           w == Current.objective
           key == errorRateKey(id, w)
           r == generateErrorBudgetRecordingRule(
                  id, w, errorRateRecordingRules[key])
       IN \/ /\ w = NoWindow
             /\ k' = k + 1
             /\ UNCHANGED <<phase, i, groupVars, lookupVars>>
          \/ /\ w # NoWindow
             /\ IF key \notin DOMAIN errorRateRecordingRules
                THEN Fail("failed")
                ELSE /\ AddRule(ruleGroupName(id, "record", w.interval),
                                w.interval, r)
                     /\ errorBudgetRecordingRules' =
                          Put(errorBudgetRecordingRules, id, r)
                     /\ k' = k + 1
                     /\ UNCHANGED <<phase, i, errorRateRecordingRules>>

(* The metadata rule; the loop of GenerateRecordingRules moves on.          *)
RecordMeta ==
    /\ phase = "record" /\ i <= Len(spec) /\ k = Len(Current.windows) + 2
    /\ LET id == sloId(Current)
       IN AddRule(ruleGroupName(id, "meta", 0), 0, generateMetaRecordingRule(id))
    /\ i' = i + 1
    /\ k' = 1
    /\ UNCHANGED <<spec, alertEnabled, phase, lookupVars>>

(* GenerateRecordingRules returns; the command stops here or asks for alerts. *)
FinishRecording ==
    /\ phase = "record" /\ i > Len(spec)
    /\ phase' = IF alertEnabled THEN "alert" ELSE "done"
    /\ i' = 1
    /\ k' = 1
    /\ UNCHANGED <<spec, alertEnabled, groupVars, lookupVars>>

AlertReady(kind) ==
    /\ phase = "alert" /\ i <= Len(spec) /\ k <= Len(Current.alerts)
    /\ Current.alerts[k].kind = kind

(* Mutant: the objective's window is not asked for. *)
SourcesFoundAnyObjective(slo, keys) ==
    keys \subseteq DOMAIN errorRateRecordingRules

(* The two conditions under which a burn rate alert can be generated.       *)
SourcesFound(slo, keys) ==
    /\ slo.objective # NoWindow
    /\ keys \subseteq DOMAIN errorRateRecordingRules

(* A burn rate alert: generateBurnRateAlertingRule, then addAlertingRule    *)
(* into the group of the alert's (long) window.                             *)
AlertBurnRate ==
    /\ AlertReady("burnRate")
    /\ UNCHANGED <<spec, alertEnabled>>
    /\ LET id == sloId(Current)
           windows == Range(Current.alerts[k].windows)
           keys == {errorRateKey(id, w) : w \in windows}
           interval == Current.alerts[k].windows[1].interval
           found == SourcesFound(Current, keys)
       IN \/ ~found /\ Fail("failed")
          \/ /\ found
             /\ AddRule(ruleGroupName(id, "alert", interval), interval,
                  generateAlertingRule(id,
                    {errorRateRecordingRules[key] : key \in keys}))
             /\ k' = k + 1
             /\ UNCHANGED <<phase, i, lookupVars>>

(* An error budget alert. The window that names its group is the            *)
(* objective's, read only after the rule was generated without error: a nil *)
(* one is dereferenced.                                                     *)
AlertErrorBudget ==
    /\ AlertReady("errorBudget")
    /\ UNCHANGED <<spec, alertEnabled>>
    /\ LET id == sloId(Current)
           w == Current.objective
           found == id \in DOMAIN errorBudgetRecordingRules
       IN \/ ~found /\ Fail("failed")
          \/ found /\ w = NoWindow /\ Fail("panic")
          \/ /\ found /\ w # NoWindow
             /\ AddRule(ruleGroupName(id, "alert", w.interval), w.interval,
                  generateAlertingRule(id, {errorBudgetRecordingRules[id]}))
             /\ k' = k + 1
             /\ UNCHANGED <<phase, i, lookupVars>>

NextSLO ==
    /\ phase = "alert" /\ i <= Len(spec) /\ k > Len(Current.alerts)
    /\ i' = i + 1
    /\ k' = 1
    /\ UNCHANGED <<spec, alertEnabled, phase, groupVars, lookupVars>>

FinishAlerting ==
    /\ phase = "alert" /\ i > Len(spec)
    /\ phase' = "done"
    /\ UNCHANGED <<spec, alertEnabled, i, k, groupVars, lookupVars>>

Next ==
    \/ RecordErrorRate
    \/ RecordErrorBudget
    \/ RecordMeta
    \/ FinishRecording
    \/ AlertBurnRate
    \/ AlertErrorBudget
    \/ NextSLO
    \/ FinishAlerting

(* The generator is a sequential function of finite loops.                  *)
Spec == Init /\ [][Next]_vars
-----------------------------------------------------------------------------
(* Properties                                                               *)

TypeOK ==
    /\ spec \in Seq(SLO) /\ \A n \in DOMAIN spec : WellFormed(spec[n])
    /\ alertEnabled \in BOOLEAN
    /\ phase \in {"record", "alert", "done", "failed", "panic"}
    /\ i \in Nat \ {0} /\ k \in Nat \ {0}
    /\ ruleGroups \in Seq(RuleGroup)
    /\ DOMAIN ruleGroupsByName \subseteq GroupName
    /\ \A name \in DOMAIN ruleGroupsByName :
         ruleGroupsByName[name] \in DOMAIN ruleGroups
    /\ DOMAIN errorRateRecordingRules \subseteq SLONames \X WindowNames
    /\ \A key \in DOMAIN errorRateRecordingRules :
         errorRateRecordingRules[key] \in Rule
    /\ DOMAIN errorBudgetRecordingRules \subseteq SLONames
    /\ \A id \in DOMAIN errorBudgetRecordingRules :
         errorBudgetRecordingRules[id] \in Rule

RuleSet == UNION {Range(ruleGroups[g].rules) : g \in DOMAIN ruleGroups}

DistinctSLONames ==
    \A m, n \in DOMAIN spec : spec[m].name = spec[n].name => m = n

(* Two SLOs of one name; two windows of one duration in an SLO of a name.    *)
Namesakes(id) ==
    \E m, n \in DOMAIN spec : m # n /\ spec[m].name = id /\ spec[n].name = id

SameDurations(id, duration) ==
    \E s \in DOMAIN spec : \E m, n \in DOMAIN spec[s].windows :
      /\ spec[s].name = id /\ m # n
      /\ spec[s].windows[m].duration = duration /\ spec[s].windows[n].duration = duration

(* A group name never occurs twice (Prometheus refuses such a file), because *)
(* the name index of getOrCreateRuleGroup knows every group at its position. *)
(* All rules of a group agree with the group on its SLO, and the group's     *)
(* interval is the one its name spells.                                      *)
GroupsIndexed ==
    \A g \in DOMAIN ruleGroups :
      LET group == ruleGroups[g]
      IN /\ group.name \in DOMAIN ruleGroupsByName
         /\ ruleGroupsByName[group.name] = g
         /\ group.interval = group.name.interval
         /\ \A r \in Range(group.rules) : r.id = group.name.id

(* The lookup tables only hold rules that are part of the output, under the  *)
(* id they were generated for.                                               *)
LookupsBacked ==
    /\ \A key \in DOMAIN errorRateRecordingRules :
         LET r == errorRateRecordingRules[key]
         IN r \in RuleSet /\ r.id = key[1] /\ r.record.base = "errorRate"
    /\ \A id \in DOMAIN errorBudgetRecordingRules :
         LET r == errorBudgetRecordingRules[id]
         IN r \in RuleSet /\ r.id = id /\ r.record.base = "errorBudget"

(* Whatever the spec, duplicate SLO names included, no generated expression  *)
(* reads a series that no generated rule with the same slom_id records: the  *)
(* string lookups through the two maps never leave a dangling reference.     *)
ReadsRecorded ==
    \A r \in RuleSet : \A m \in r.expr.reads :
      \E s \in RuleSet : s.id = r.id /\ s.record = m

(* Prometheus evaluates the rules of a group in order: an error budget rule  *)
(* or an alert finds a series it reads recorded earlier in its own group, so *)
(* in the same evaluation. (With two SLOs of one name an alert can be placed *)
(* in another group than the rule its lookup found.)                         *)
SourcePrecedes ==
    DistinctSLONames =>
      \A g \in DOMAIN ruleGroups : \A n \in DOMAIN ruleGroups[g].rules :
        LET rules == ruleGroups[g].rules
        IN rules[n].expr.reads # {} =>
             \E m \in 1..(n - 1) : rules[m].record \in rules[n].expr.reads

(* Neither ToSpec nor the generator refuses two SLOs of one name, or two     *)
(* windows of one duration. Where two recording rules of the output produce  *)
(* the same series, one of these is why: two SLOs have the name the rules    *)
(* carry, or the one SLO of that name has two windows of the duration the    *)
(* rules measure. Names, series and groups mix up nothing else.              *)
SeriesRecordedOnce ==
    \A g, h \in DOMAIN ruleGroups :
      \A m \in DOMAIN ruleGroups[g].rules, n \in DOMAIN ruleGroups[h].rules :
        LET r == ruleGroups[g].rules[m]
            s == ruleGroups[h].rules[n]
        IN r.record.base # "alert" /\ r.id = s.id /\ r.record = s.record =>
             \/ g = h /\ m = n
             \/ Namesakes(r.id)
             \/ r.record.base = "errorRate" /\ SameDurations(r.id, r.record.duration)

Last(S) == CHOOSE n \in S : \A m \in S : m <= n

(* Recording is over before the first alert is generated, and alerts find    *)
(* recorded series by names: of the SLOs of one name in all, the last that   *)
(* has a window of a given name, or an objective's, is the one they see.     *)
SeenWindow(all, slo, w) ==
    LET having == {n \in DOMAIN all : /\ all[n].name = slo.name
                                      /\ \E v \in Range(all[n].windows) : v.name = w.name}
    IN CHOOSE v \in Range(all[Last(having)].windows) : v.name = w.name

SeenObjective(all, slo) ==
    LET having == {n \in DOMAIN all : /\ all[n].name = slo.name
                                      /\ all[n].objective # NoWindow}
    IN all[Last(having)].objective

(* The rules one SLO of a spec stands for, with the groups they belong in,   *)
(* said without tables or order.                                             *)
Expected(all, slo) ==
    LET budgets == {w \in Range(slo.windows) : w = slo.objective}
        In(kind, w, r) == <<ruleGroupName(slo.name, kind, w.interval), r>>
        Alerting(metrics) ==
          [id |-> slo.name, record |-> [base |-> "alert", duration |-> 0],
           expr |-> [of |-> "series", reads |-> metrics]]
    IN {In("record", w, generateErrorRateRecordingRule(slo.name, w)) :
          w \in Range(slo.windows)}
       \cup {In("record", w, generateErrorBudgetRecordingRule(slo.name, w,
                generateErrorRateRecordingRule(slo.name, w))) : w \in budgets}
       \cup {<<ruleGroupName(slo.name, "meta", 0),
               generateMetaRecordingRule(slo.name)>>}
       \cup {In("alert", a.windows[1],
                Alerting({metricNameErrorRate(SeenWindow(all, slo, w)) : w \in Range(a.windows)})) :
               a \in {b \in Range(slo.alerts) : alertEnabled /\ b.kind = "burnRate"}}
       \cup {In("alert", w, Alerting({metricNameErrorBudget(SeenObjective(all, slo))})) :
               w \in {v \in budgets : \E a \in Range(slo.alerts) :
                         alertEnabled /\ a.kind = "errorBudget"}}

(* A run that succeeds generates exactly the rules each SLO stands for, each *)
(* in the group it belongs in, whatever the interleaving of SLOs, windows    *)
(* and alerts in the shared tables. Where SLOs share a name, the entries of  *)
(* one overwrite those of another, and the last one counts, for all of them. *)
OutputIsReference ==
    phase = "done" =>
      UNION {{<<ruleGroups[g].name, r>> : r \in Range(ruleGroups[g].rules)} :
               g \in DOMAIN ruleGroups}
        = UNION {Expected(spec, slo) : slo \in Range(spec)}

(* What becomes of the first alert of an SLO whose objective has no window.  *)
(* An error budget alert finds the rule of another SLO of the name, if there *)
(* is one, and only then is the nil window dereferenced.                     *)
Refusal(n) ==
    IF /\ spec[n].alerts[1].kind = "errorBudget"
       /\ \E slo \in Range(spec) : slo.name = spec[n].name /\ slo.objective # NoWindow
    THEN "panic"
    ELSE "failed"

(* The generator refuses the specs that ask for alerts on an SLO whose       *)
(* objective has no window, and no other spec that ToSpec accepts. The first *)
(* such SLO decides how: an error, or a nil dereference if it has a namesake *)
(* whose error budget is found in its place.                                 *)
FailureExplained ==
    LET refused == {n \in DOMAIN spec : /\ alertEnabled
                                        /\ spec[n].objective = NoWindow
                                        /\ spec[n].alerts # <<>>}
    IN /\ phase = "done" => refused = {}
       /\ phase \in {"failed", "panic"} =>
            \E n \in refused : /\ \A m \in refused : n <= m
                               /\ phase = Refusal(n)

(* generateRecordingRules has an error return, for an error budget rule      *)
(* whose error rate rule is not in the table; it is never taken.             *)
RecordingNeverFails ==
    [][phase = "record" => phase' \in {"record", "alert", "done"}]_vars

(* The doc's reading of the windows field: each window listed in a spec      *)
(* records the SLI, so each recording rule has an expression to evaluate.    *)
RulesHaveExpressions ==
    \A r \in RuleSet : r.expr.of # "empty"

=============================================================================
