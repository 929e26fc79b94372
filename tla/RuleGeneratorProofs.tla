------------------------ MODULE RuleGeneratorProofs ------------------------
(***************************************************************************)
(* Proofs about RuleGenerator, for every set of well-formed specs: any      *)
(* number of SLOs, windows and alerts, duplicate SLO names included.        *)
(***************************************************************************)
EXTENDS RuleGenerator, SequenceTheorems, WellFoundedInduction, TLAPS

(* The index of groups points at groups of that name.                       *)
IndexSound ==
    \A name \in DOMAIN ruleGroupsByName :
      ruleGroups[ruleGroupsByName[name]].name = name

(* While rules of an SLO are recorded, the windows passed are in the table. *)
WindowsRecorded ==
    phase = "record" /\ i <= Len(spec) =>
      /\ k <= Len(Current.windows) + 2
      /\ \A n \in 1..(k - 1) : n <= Len(Current.windows) =>
           errorRateKey(sloId(Current), Current.windows[n])
             \in DOMAIN errorRateRecordingRules

(* The typing of the generator's groups and of its tables.                  *)
GroupsOK ==
    /\ ruleGroups \in Seq(RuleGroup)
    /\ DOMAIN ruleGroupsByName \subseteq GroupName
    /\ \A name \in DOMAIN ruleGroupsByName :
         ruleGroupsByName[name] \in DOMAIN ruleGroups

LookupsOK ==
    /\ DOMAIN errorRateRecordingRules \subseteq SLONames \X WindowNames
    /\ \A key \in DOMAIN errorRateRecordingRules :
         errorRateRecordingRules[key] \in Rule
    /\ DOMAIN errorBudgetRecordingRules \subseteq SLONames
    /\ \A id \in DOMAIN errorBudgetRecordingRules :
         errorBudgetRecordingRules[id] \in Rule

Groups == GroupsOK /\ IndexSound /\ GroupsIndexed

(* What an expression reads is a recorded series, never an alert.           *)
SeriesRead ==
    \A r \in RuleSet : \A m \in r.expr.reads : m.base \in {"errorRate", "errorBudget"}

Rules == LookupsOK /\ LookupsBacked /\ ReadsRecorded /\ SeriesRead

ControlOK ==
    /\ spec \in Seq(SLO) /\ \A n \in DOMAIN spec : WellFormed(spec[n])
    /\ alertEnabled \in BOOLEAN
    /\ phase \in {"record", "alert", "done", "failed", "panic"}
    /\ i \in Nat \ {0} /\ k \in Nat \ {0}

(* Where generation starts, given any well-formed spec.                     *)
Ready ==
    /\ spec \in Seq(SLO) /\ \A n \in DOMAIN spec : WellFormed(spec[n])
    /\ alertEnabled \in BOOLEAN
    /\ phase = "record" /\ i = 1 /\ k = 1
    /\ ruleGroups = <<>> /\ ruleGroupsByName = <<>>
    /\ errorRateRecordingRules = <<>> /\ errorBudgetRecordingRules = <<>>

(* The inductive invariant.                                                 *)
IInv == ControlOK /\ WindowsRecorded /\ Groups /\ Rules

LEMMA TypeParts == TypeOK <=> ControlOK /\ GroupsOK /\ LookupsOK
  BY DEF TypeOK, ControlOK, GroupsOK, LookupsOK

-----------------------------------------------------------------------------
(* Data.                                                                    *)

(* The windows of an SLO, of its objective and of its alerts.               *)
LEMMA WindowTypes ==
    ASSUME NEW slo, WellFormed(slo)
    PROVE  /\ slo.name \in SLONames /\ slo.windows \in Seq(Window)
           /\ \A n \in 1..Len(slo.windows) : slo.windows[n] \in Window
           /\ slo.objective # NoWindow =>
                /\ slo.objective \in Window
                /\ \E n \in 1..Len(slo.windows) : slo.windows[n] = slo.objective
  BY DEF WellFormed, SLO

LEMMA AlertTypes ==
    ASSUME NEW slo, WellFormed(slo), NEW n \in 1..Len(slo.alerts)
    PROVE  /\ slo.alerts[n] \in Alert
           /\ slo.alerts[n].kind = "burnRate" =>
                /\ slo.alerts[n].windows[1] \in Window
                /\ Range(slo.alerts[n].windows) \subseteq Window
  <1>1. slo.alerts[n] \in Alert
    BY DEF WellFormed, SLO
  <1>2. ASSUME slo.alerts[n].kind = "burnRate"
        PROVE  slo.alerts[n].windows \in [1..1 -> Window] \cup [1..2 -> Window]
    BY <1>1, <1>2 DEF Alert
  <1> QED BY <1>1, <1>2 DEF Range

LEMMA MetricTypes ==
    ASSUME NEW w \in Window
    PROVE  /\ metricNameErrorRate(w) \in Metric
           /\ metricNameErrorBudget(w) \in Metric
           /\ w.interval \in Intervals /\ w.name \in WindowNames
  BY DEF Window, Metric, metricNameErrorRate, metricNameErrorBudget

(* Group names as the actions build them.                                   *)
LEMMA GroupNameType ==
    ASSUME NEW id \in SLONames, NEW t \in Intervals \cup {0},
           NEW kind \in {"record", "alert", "meta"}, kind = "meta" => t = 0
    PROVE  /\ ruleGroupName(id, kind, t) \in GroupName
           /\ ruleGroupName(id, kind, t).id = id
           /\ ruleGroupName(id, kind, t).interval = t
  BY DEF ruleGroupName, GroupName

-----------------------------------------------------------------------------
(* AddRule: the rule joins the output, in one group, and nothing leaves it. *)

LEMMA AddRuleStep ==
    ASSUME Groups, NEW name \in GroupName, NEW r \in Rule, r.id = name.id,
           AddRule(name, name.interval, r)
    PROVE  Groups' /\ RuleSet' = RuleSet \cup {r}
  <1>0. /\ ruleGroups \in Seq(RuleGroup) /\ Len(ruleGroups) \in Nat
        /\ DOMAIN ruleGroups = 1..Len(ruleGroups)
        /\ \A g \in 1..Len(ruleGroups) :
             ruleGroups[g] \in RuleGroup
    BY DEF Groups, GroupsOK
  <1>1. CASE name \in DOMAIN ruleGroupsByName
    <2> DEFINE p == ruleGroupsByName[name]
               old == ruleGroups[p]
               new == [old EXCEPT !.rules = Append(@, r)]
    <2>1. /\ ruleGroups' = [ruleGroups EXCEPT ![p] = new]
          /\ ruleGroupsByName' = ruleGroupsByName
      BY <1>1 DEF AddRule
    <2>2. p \in 1..Len(ruleGroups) /\ old.name = name /\ old \in RuleGroup
      BY <1>0, <1>1 DEF Groups, GroupsOK, IndexSound
    <2>3. /\ new \in RuleGroup /\ new.name = name
          /\ new.interval = old.interval /\ new.rules = Append(old.rules, r)
      BY <2>2, AppendProperties DEF RuleGroup
    <2> HIDE DEF new, old, p
    <2>4. /\ ruleGroups' \in Seq(RuleGroup) /\ DOMAIN ruleGroups' = DOMAIN ruleGroups
          /\ ruleGroups'[p] = new
          /\ \A g \in DOMAIN ruleGroups : g # p => ruleGroups'[g] = ruleGroups[g]
      BY <1>0, <2>1, <2>2, <2>3, ExceptSeq
    <2>5. old = ruleGroups[p]
      BY DEF old
    <2>6. Range(new.rules) = Range(old.rules) \cup {r}
      <3>1. old.rules \in Seq(Rule)
        BY <2>2 DEF RuleGroup
      <3> QED BY <2>3, <3>1 DEF Range
    <2>7. GroupsOK'
      BY <2>1, <2>4 DEF Groups, GroupsOK
    <2>8. IndexSound'
      BY <1>0, <2>1, <2>2, <2>3, <2>4, <2>5 DEF Groups, GroupsOK, IndexSound
    <2>9. GroupsIndexed'
      <3> SUFFICES ASSUME NEW g \in DOMAIN ruleGroups'
                   PROVE  /\ ruleGroups'[g].name \in DOMAIN ruleGroupsByName
                          /\ ruleGroupsByName[ruleGroups'[g].name] = g
                          /\ ruleGroups'[g].interval = ruleGroups'[g].name.interval
                          /\ \A s \in Range(ruleGroups'[g].rules) :
                               s.id = ruleGroups'[g].name.id
        BY <2>1 DEF GroupsIndexed
      <3>1. CASE g = p
        <4>1. /\ old.name = name /\ old.interval = name.interval
              /\ \A s \in Range(old.rules) : s.id = name.id
          BY <1>0, <2>2, <2>5 DEF Groups, GroupsIndexed
        <4>2. ruleGroupsByName[name] = p
          BY DEF p
        <4> QED BY <1>1, <2>3, <2>4, <2>6, <3>1, <4>1, <4>2
      <3>2. CASE g # p
        BY <2>4, <3>2 DEF Groups, GroupsIndexed
      <3> QED BY <3>1, <3>2
    <2>10. RuleSet' = RuleSet \cup {r}
      <3>1. RuleSet' = UNION {Range(ruleGroups'[g].rules) : g \in DOMAIN ruleGroups}
        BY <2>4 DEF RuleSet
      <3>2. p \in DOMAIN ruleGroups
        BY <1>0, <2>2
      <3>3. \A s : s \in RuleSet' <=> s \in RuleSet \/ s = r
        <4>1. \A s : s \in RuleSet' <=>
                \E g \in DOMAIN ruleGroups : s \in Range(ruleGroups'[g].rules)
          BY <3>1
        <4>2. \A s : s \in RuleSet <=>
                \E g \in DOMAIN ruleGroups : s \in Range(ruleGroups[g].rules)
          BY DEF RuleSet
        <4>3. \A s : \A g \in DOMAIN ruleGroups :
                s \in Range(ruleGroups'[g].rules)
                  <=> s \in Range(ruleGroups[g].rules) \/ (g = p /\ s = r)
          BY <2>4, <2>5, <2>6
        <4> QED BY <3>2, <4>1, <4>2, <4>3, Zenon
      <3> QED BY <3>3
    <2> QED BY <2>7, <2>8, <2>9, <2>10 DEF Groups
  <1>2. CASE name \notin DOMAIN ruleGroupsByName
    <2> DEFINE new == [name |-> name, interval |-> name.interval, rules |-> <<r>>]
               p == Len(ruleGroups) + 1
    <2>1. /\ ruleGroups' = Append(ruleGroups, new)
          /\ ruleGroupsByName' = Put(ruleGroupsByName, name, p)
      BY <1>2 DEF AddRule
    <2>2. /\ new \in RuleGroup /\ new.name = name
          /\ new.interval = name.interval /\ new.rules = <<r>>
      BY DEF RuleGroup, GroupName
    <2> HIDE DEF new
    <2>3. /\ ruleGroups' \in Seq(RuleGroup)
          /\ DOMAIN ruleGroups' = DOMAIN ruleGroups \cup {p}
          /\ p \notin DOMAIN ruleGroups /\ ruleGroups'[p] = new
          /\ \A g \in DOMAIN ruleGroups : ruleGroups'[g] = ruleGroups[g]
      BY <1>0, <2>1, <2>2
    <2>4. /\ DOMAIN ruleGroupsByName' = DOMAIN ruleGroupsByName \cup {name}
          /\ ruleGroupsByName'[name] = p
          /\ \A n \in DOMAIN ruleGroupsByName :
               ruleGroupsByName'[n] = ruleGroupsByName[n]
      <3> HIDE DEF p
      <3>1. DOMAIN Put(ruleGroupsByName, name, p) = DOMAIN ruleGroupsByName \cup {name}
        BY DEF Put
      <3>2. Put(ruleGroupsByName, name, p)[name] = p
        BY DEF Put
      <3>3. \A n \in DOMAIN ruleGroupsByName :
              n # name => Put(ruleGroupsByName, name, p)[n] = ruleGroupsByName[n]
        BY DEF Put
      <3> QED BY <1>2, <2>1, <3>1, <3>2, <3>3
    <2>5. Range(new.rules) = {r}
      BY <2>2 DEF Range
    <2> HIDE DEF p
    <2>6. GroupsOK'
      BY <2>3, <2>4 DEF Groups, GroupsOK
    <2>7. IndexSound'
      BY <1>0, <2>2, <2>3, <2>4 DEF Groups, GroupsOK, IndexSound
    <2>8. GroupsIndexed'
      <3> SUFFICES ASSUME NEW g \in DOMAIN ruleGroups'
                   PROVE  /\ ruleGroups'[g].name \in DOMAIN ruleGroupsByName'
                          /\ ruleGroupsByName'[ruleGroups'[g].name] = g
                          /\ ruleGroups'[g].interval = ruleGroups'[g].name.interval
                          /\ \A s \in Range(ruleGroups'[g].rules) :
                               s.id = ruleGroups'[g].name.id
        BY DEF GroupsIndexed
      <3>1. CASE g = p
        BY <2>2, <2>3, <2>4, <2>5, <3>1
      <3>2. CASE g # p
        <4>1. g \in DOMAIN ruleGroups /\ ruleGroups'[g] = ruleGroups[g]
          BY <2>3, <3>2
        <4>2. ruleGroups[g].name \in DOMAIN ruleGroupsByName
          BY <4>1 DEF Groups, GroupsIndexed
        <4> QED BY <2>4, <4>1, <4>2 DEF Groups, GroupsIndexed
      <3> QED BY <3>1, <3>2
    <2>9. RuleSet' = RuleSet \cup {r}
      <3>1. RuleSet' = UNION {Range(ruleGroups'[g].rules) :
                                g \in DOMAIN ruleGroups \cup {p}}
        BY <2>3 DEF RuleSet
      <3> QED BY <1>0, <2>3, <2>5, <3>1 DEF RuleSet
    <2> QED BY <2>6, <2>7, <2>8, <2>9 DEF Groups
  <1> QED BY <1>1, <1>2

-----------------------------------------------------------------------------
(* The rules and the tables of rules, when one rule is added. A new rule    *)
(* reads only series recorded under its id.                                 *)

ReadsWithin(r) ==
    \A m \in r.expr.reads :
      /\ m.base \in {"errorRate", "errorBudget"}
      /\ \E s \in RuleSet : s.id = r.id /\ s.record = m

LEMMA ReadsStep ==
    ASSUME ReadsRecorded, SeriesRead, NEW r, ReadsWithin(r), RuleSet' = RuleSet \cup {r}
    PROVE  ReadsRecorded' /\ SeriesRead'
  BY DEF ReadsRecorded, SeriesRead, ReadsWithin

LEMMA LookupsStep ==
    ASSUME Rules, NEW r, ReadsWithin(r), RuleSet' = RuleSet \cup {r},
           UNCHANGED lookupVars
    PROVE  Rules'
  BY ReadsStep DEF Rules, lookupVars, LookupsOK, LookupsBacked

LEMMA ErrorRateLookupStep ==
    ASSUME Rules, NEW r \in Rule, ReadsWithin(r), RuleSet' = RuleSet \cup {r},
           NEW key \in SLONames \X WindowNames, key[1] = r.id,
           r.record.base = "errorRate",
           errorRateRecordingRules' = Put(errorRateRecordingRules, key, r),
           UNCHANGED errorBudgetRecordingRules
    PROVE  /\ Rules'
           /\ DOMAIN errorRateRecordingRules'
                = DOMAIN errorRateRecordingRules \cup {key}
  <1>1. /\ DOMAIN errorRateRecordingRules'
             = DOMAIN errorRateRecordingRules \cup {key}
        /\ errorRateRecordingRules'[key] = r
        /\ \A x \in DOMAIN errorRateRecordingRules : x # key =>
             errorRateRecordingRules'[x] = errorRateRecordingRules[x]
    BY DEF Put
  <1>2. LookupsOK'
    BY <1>1 DEF Rules, LookupsOK
  <1>3. LookupsBacked'
    BY <1>1 DEF Rules, LookupsBacked
  <1> QED BY <1>1, <1>2, <1>3, ReadsStep DEF Rules

LEMMA ErrorBudgetLookupStep ==
    ASSUME Rules, NEW r \in Rule, ReadsWithin(r), RuleSet' = RuleSet \cup {r},
           r.record.base = "errorBudget",
           errorBudgetRecordingRules' = Put(errorBudgetRecordingRules, r.id, r),
           UNCHANGED errorRateRecordingRules
    PROVE  Rules'
  <1>1. /\ DOMAIN errorBudgetRecordingRules'
             = DOMAIN errorBudgetRecordingRules \cup {r.id}
        /\ errorBudgetRecordingRules'[r.id] = r
        /\ \A x \in DOMAIN errorBudgetRecordingRules : x # r.id =>
             errorBudgetRecordingRules'[x] = errorBudgetRecordingRules[x]
    BY DEF Put
  <1>2. r.id \in SLONames
    BY DEF Rule
  <1>3. LookupsOK'
    BY <1>1, <1>2 DEF Rules, LookupsOK
  <1>4. LookupsBacked'
    BY <1>1 DEF Rules, LookupsBacked
  <1> QED BY <1>3, <1>4, ReadsStep DEF Rules

-----------------------------------------------------------------------------
(* One lemma per action.                                                    *)

LEMMA CurrentOK ==
    ASSUME ControlOK, i <= Len(spec)
    PROVE  WellFormed(Current) /\ sloId(Current) \in SLONames
  <1>1. i \in DOMAIN spec
    BY DEF ControlOK
  <1>2. WellFormed(Current)
    BY <1>1 DEF ControlOK, Current
  <1> QED BY <1>2, WindowTypes DEF sloId

LEMMA RecordErrorRateStep ==
    ASSUME IInv, RecordErrorRate
    PROVE  IInv'
  <1> DEFINE id == sloId(Current)
             w == Current.windows[k]
             r == generateErrorRateRecordingRule(id, w)
             name == ruleGroupName(id, "record", w.interval)
             key == errorRateKey(id, w)
  <1>1. /\ ControlOK /\ WindowsRecorded /\ Groups /\ Rules
        /\ phase = "record" /\ i <= Len(spec) /\ k <= Len(Current.windows)
    BY DEF IInv, RecordErrorRate
  <1>2. WellFormed(Current) /\ id \in SLONames
    BY <1>1, CurrentOK
  <1>3. w \in Window /\ Current.windows \in Seq(Window)
    BY <1>1, <1>2, WindowTypes DEF ControlOK
  <1>4. /\ r \in Rule /\ r.id = id /\ r.record.base = "errorRate" /\ r.expr.reads = {}
    BY <1>2, <1>3, MetricTypes
      DEF generateErrorRateRecordingRule, generateErrorRateQuery, EmptyExpr,
          Rule, Expr, metricNameErrorRate
  <1>5. name \in GroupName /\ name.id = id /\ name.interval = w.interval
    BY <1>2, <1>3, MetricTypes, GroupNameType
  <1>6. key \in SLONames \X WindowNames /\ key[1] = id
    BY <1>2, <1>3, MetricTypes DEF errorRateKey
  <1>7. /\ AddRule(name, w.interval, r)
        /\ errorRateRecordingRules' = Put(errorRateRecordingRules, key, r)
        /\ k' = k + 1 /\ UNCHANGED errorBudgetRecordingRules
        /\ UNCHANGED <<spec, alertEnabled, phase, i>>
    BY DEF RecordErrorRate
  <1> HIDE DEF r, name, key, w, id
  <1>8. Groups' /\ RuleSet' = RuleSet \cup {r}
    BY <1>1, <1>4, <1>5, <1>7, AddRuleStep
  <1>9. /\ Rules'
        /\ DOMAIN errorRateRecordingRules'
             = DOMAIN errorRateRecordingRules \cup {key}
    BY <1>1, <1>4, <1>6, <1>7, <1>8, ErrorRateLookupStep DEF ReadsWithin
  <1>10. ControlOK'
    BY <1>1, <1>7 DEF ControlOK
  <1>11. WindowsRecorded'
    <2>1. /\ Current' = Current /\ Len(Current.windows) \in Nat /\ k \in Nat
      BY <1>1, <1>3, <1>7 DEF Current, ControlOK
    <2>2. key = errorRateKey(sloId(Current), Current.windows[k])
      BY DEF key, id, w
    <2>3. \A n \in 1..(k + 1 - 1) : n = k \/ n \in 1..(k - 1)
      BY <2>1
    <2>4. \A n \in 1..(k + 1 - 1) : n <= Len(Current.windows) =>
            errorRateKey(sloId(Current), Current.windows[n])
              \in DOMAIN errorRateRecordingRules \cup {key}
      BY <1>1, <2>1, <2>2, <2>3 DEF WindowsRecorded
    <2>5. k + 1 <= Len(Current.windows) + 2
      BY <1>1, <2>1
    <2>6. sloId(Current)' = sloId(Current)
      BY <2>1 DEF sloId
    <2> QED BY <1>7, <1>9, <2>1, <2>4, <2>5, <2>6 DEF WindowsRecorded, errorRateKey
  <1> QED BY <1>8, <1>9, <1>10, <1>11 DEF IInv

(* The failure return of the error budget rule is never taken.              *)
LEMMA RecordErrorBudgetStep ==
    ASSUME IInv, RecordErrorBudget
    PROVE  IInv' /\ phase' = "record"
  <1> DEFINE id == sloId(Current)
             w == Current.objective
             key == errorRateKey(id, w)
             r == generateErrorBudgetRecordingRule(
                    id, w, errorRateRecordingRules[key])
             name == ruleGroupName(id, "record", w.interval)
  <1>1. /\ ControlOK /\ WindowsRecorded /\ Groups /\ Rules
        /\ phase = "record" /\ i <= Len(spec) /\ k = Len(Current.windows) + 1
        /\ UNCHANGED <<spec, alertEnabled>>
    BY DEF IInv, RecordErrorBudget
  <1>2. WellFormed(Current) /\ id \in SLONames
    BY <1>1, CurrentOK
  <1>3. Current.windows \in Seq(Window) /\ Len(Current.windows) \in Nat
    BY <1>2, WindowTypes
  <1>4. ASSUME k' = k + 1, UNCHANGED <<phase, i, errorRateRecordingRules>>
        PROVE  ControlOK' /\ WindowsRecorded'
    <2>1. ControlOK'
      BY <1>1, <1>4 DEF ControlOK
    <2>2. Current' = Current
      BY <1>1, <1>4 DEF Current
    <2>3. \A n \in 1..(k + 1 - 1) :
            n <= Len(Current.windows) => n \in 1..(k - 1)
      BY <1>1, <1>3
    <2>4. k + 1 <= Len(Current.windows) + 2
      BY <1>1, <1>3
    <2> QED BY <1>1, <1>4, <2>1, <2>2, <2>3, <2>4
          DEF WindowsRecorded, sloId, errorRateKey
  <1>5. CASE w = NoWindow
    <2>1. k' = k + 1 /\ UNCHANGED <<phase, i, groupVars, lookupVars>>
      BY <1>5 DEF RecordErrorBudget
    <2>2. Groups'
      BY <1>1, <2>1 DEF Groups, GroupsOK, IndexSound, GroupsIndexed, groupVars
    <2>3. Rules'
      <3>1. RuleSet' = RuleSet
        BY <2>1 DEF RuleSet, groupVars
      <3> QED BY <1>1, <2>1, <3>1
            DEF Rules, LookupsOK, LookupsBacked, ReadsRecorded, SeriesRead, lookupVars
    <2>4. ControlOK' /\ WindowsRecorded'
      BY <1>4, <2>1 DEF lookupVars
    <2> QED BY <1>1, <2>1, <2>2, <2>3, <2>4 DEF IInv
  <1>6. CASE w # NoWindow
    <2>1. w \in Window
      BY <1>2, <1>6, WindowTypes
    <2>2. key \in DOMAIN errorRateRecordingRules
      <3>1. PICK n \in 1..Len(Current.windows) : Current.windows[n] = w
        BY <1>2, <1>6, WindowTypes
      <3>2. n \in 1..(k - 1)
        BY <1>1, <1>3
      <3> QED BY <1>1, <3>1, <3>2 DEF WindowsRecorded
    <2>3. /\ AddRule(name, w.interval, r)
          /\ errorBudgetRecordingRules' = Put(errorBudgetRecordingRules, id, r)
          /\ k' = k + 1 /\ UNCHANGED <<phase, i, errorRateRecordingRules>>
      BY <1>6, <2>2 DEF RecordErrorBudget
    <2> DEFINE e == errorRateRecordingRules[key]
    <2>4. /\ e \in Rule /\ e \in RuleSet /\ e.id = id /\ e.record \in Metric
          /\ e.record.base = "errorRate"
      BY <1>1, <2>2 DEF Rules, LookupsOK, LookupsBacked, errorRateKey, Rule
    <2> HIDE DEF e
    <2>5. /\ r \in Rule /\ r.id = id /\ r.record.base = "errorBudget"
          /\ r.expr.reads \subseteq {e.record}
      BY <1>2, <2>1, <2>4, MetricTypes
        DEF generateErrorBudgetRecordingRule, EmptyExpr, Rule, Expr,
            metricNameErrorBudget, e
    <2>6. name \in GroupName /\ name.id = id /\ name.interval = w.interval
      BY <1>2, <2>1, MetricTypes, GroupNameType
    <2>7. ReadsWithin(r)
      BY <2>4, <2>5 DEF ReadsWithin
    <2> HIDE DEF r, name, key
    <2>8. Groups' /\ RuleSet' = RuleSet \cup {r}
      BY <1>1, <2>3, <2>5, <2>6, AddRuleStep
    <2>9. Rules'
      BY <1>1, <2>3, <2>5, <2>7, <2>8, ErrorBudgetLookupStep
    <2>10. ControlOK' /\ WindowsRecorded'
      BY <1>4, <2>3
    <2> QED BY <1>1, <2>3, <2>8, <2>9, <2>10 DEF IInv
  <1> QED BY <1>5, <1>6

LEMMA RecordMetaStep ==
    ASSUME IInv, RecordMeta
    PROVE  IInv' /\ phase' = "record"
  <1> DEFINE id == sloId(Current)
             r == generateMetaRecordingRule(id)
             name == ruleGroupName(id, "meta", 0)
  <1>1. /\ ControlOK /\ Groups /\ Rules /\ phase = "record" /\ i <= Len(spec)
        /\ AddRule(name, 0, r) /\ i' = i + 1 /\ k' = 1
        /\ UNCHANGED <<spec, alertEnabled, phase, lookupVars>>
    BY DEF IInv, RecordMeta
  <1>2. id \in SLONames
    BY <1>1, CurrentOK
  <1>3. name \in GroupName /\ name.id = id /\ name.interval = 0
    BY <1>2, GroupNameType
  <1>4. r \in Rule /\ r.id = id /\ r.expr.reads = {}
    BY <1>2 DEF generateMetaRecordingRule, metricNameSLO, Rule, Expr, Metric
  <1> HIDE DEF r, name, id
  <1>5. Groups' /\ RuleSet' = RuleSet \cup {r}
    BY <1>1, <1>3, <1>4, AddRuleStep
  <1>6. Rules'
    BY <1>1, <1>4, <1>5, LookupsStep DEF ReadsWithin
  <1>7. ControlOK'
    BY <1>1 DEF ControlOK
  <1>8. WindowsRecorded'
    <2>1. ASSUME i' <= Len(spec')
          PROVE  k' <= Len(Current'.windows) + 2
      <3>1. WellFormed(Current')
        <4>1. i' \in DOMAIN spec'
          BY <1>7, <2>1 DEF ControlOK
        <4> QED BY <1>7, <4>1 DEF ControlOK, Current
      <3>2. Len(Current'.windows) \in Nat
        BY <3>1 DEF WellFormed, SLO
      <3> QED BY <1>1, <3>2
    <2>2. 1..(k' - 1) = {}
      BY <1>1
    <2> QED BY <2>1, <2>2 DEF WindowsRecorded
  <1> QED BY <1>1, <1>5, <1>6, <1>7, <1>8 DEF IInv

(* Steps that leave the output and the tables alone.                        *)
LEMMA QuietStep ==
    ASSUME IInv, ControlOK', UNCHANGED <<groupVars, lookupVars>>,
           phase' # "record"
    PROVE  IInv'
  <1>1. WindowsRecorded'
    BY DEF WindowsRecorded
  <1>2. Groups' /\ Rules'
    BY DEF IInv, Groups, Rules, GroupsOK, IndexSound, GroupsIndexed,
           LookupsOK, LookupsBacked, ReadsRecorded, SeriesRead, RuleSet, groupVars, lookupVars
  <1> QED BY <1>1, <1>2 DEF IInv

LEMMA FailStep ==
    ASSUME IInv, NEW how \in {"failed", "panic"}, Fail(how),
           UNCHANGED <<spec, alertEnabled>>
    PROVE  IInv'
  <1>1. ControlOK'
    BY DEF IInv, ControlOK, Fail
  <1> QED BY <1>1, QuietStep DEF Fail

(* An alert joins the output: its sources are in the output already, under  *)
(* the alert's id.                                                          *)
LEMMA AlertStep ==
    ASSUME IInv, phase = "alert", NEW name \in GroupName,
           NEW sources \in SUBSET RuleSet,
           \A s \in sources :
             s \in Rule /\ s.id = name.id /\ s.record.base \in {"errorRate", "errorBudget"},
           AddRule(name, name.interval, generateAlertingRule(name.id, sources)),
           k' = k + 1, UNCHANGED <<spec, alertEnabled, phase, i, lookupVars>>
    PROVE  IInv'
  <1> DEFINE r == generateAlertingRule(name.id, sources)
  <1>1. /\ r \in Rule /\ r.id = name.id
        /\ r.expr.reads = {s.record : s \in sources}
    <2>1. name.id \in SLONames
      BY DEF GroupName
    <2>2. {s.record : s \in sources} \subseteq Metric
      BY DEF Rule
    <2>3. [base |-> "alert", duration |-> 0] \in Metric
      BY DEF Metric
    <2> QED BY <2>1, <2>2, <2>3 DEF generateAlertingRule, Rule, Expr
  <1>2. ReadsWithin(r)
    BY <1>1 DEF ReadsWithin
  <1>3. ControlOK'
    BY DEF IInv, ControlOK
  <1>4. WindowsRecorded'
    BY DEF WindowsRecorded
  <1> HIDE DEF r
  <1>5. Groups' /\ RuleSet' = RuleSet \cup {r}
    BY <1>1, AddRuleStep DEF IInv, r
  <1>6. Rules'
    BY <1>2, <1>5, LookupsStep DEF IInv
  <1> QED BY <1>3, <1>4, <1>5, <1>6 DEF IInv

LEMMA AlertBurnRateStep ==
    ASSUME IInv, AlertBurnRate
    PROVE  IInv'
  <1> DEFINE id == sloId(Current)
             windows == Range(Current.alerts[k].windows)
             keys == {errorRateKey(id, w) : w \in windows}
             interval == Current.alerts[k].windows[1].interval
             name == ruleGroupName(id, "alert", interval)
             sources == {errorRateRecordingRules[key] : key \in keys}
             found == SourcesFound(Current, keys)
  <1>1. /\ ControlOK /\ Rules /\ phase = "alert" /\ i <= Len(spec)
        /\ k <= Len(Current.alerts) /\ Current.alerts[k].kind = "burnRate"
        /\ UNCHANGED <<spec, alertEnabled>>
    BY DEF IInv, AlertBurnRate, AlertReady
  <1>2. CASE ~found
    <2>1. Fail("failed")
      BY <1>2 DEF AlertBurnRate
    <2> QED BY <1>1, <2>1, FailStep
  <1>3. CASE found
    <2>1. /\ AddRule(name, interval, generateAlertingRule(id, sources))
          /\ k' = k + 1 /\ UNCHANGED <<phase, i, lookupVars>>
      BY <1>3 DEF AlertBurnRate
    <2>2. WellFormed(Current) /\ id \in SLONames
      BY <1>1, CurrentOK
    <2>3. k \in 1..Len(Current.alerts)
      <3>1. Len(Current.alerts) \in Nat
        BY <2>2 DEF WellFormed, SLO
      <3> QED BY <1>1, <3>1 DEF ControlOK
    <2>4. interval \in Intervals
      BY <1>1, <2>2, <2>3, AlertTypes, MetricTypes
    <2>5. name \in GroupName /\ name.id = id /\ name.interval = interval
      BY <2>2, <2>4, GroupNameType
    <2>6. \A s \in sources :
            s \in RuleSet /\ s \in Rule /\ s.id = id /\ s.record.base = "errorRate"
      <3> SUFFICES ASSUME NEW key \in keys
                   PROVE  LET s == errorRateRecordingRules[key]
                          IN /\ s \in RuleSet /\ s \in Rule
                             /\ s.id = id /\ s.record.base = "errorRate"
        OBVIOUS
      <3>1. key \in DOMAIN errorRateRecordingRules
        BY <1>3 DEF SourcesFound
      <3>2. key[1] = id
        BY DEF errorRateKey
      <3> QED BY <1>1, <3>1, <3>2 DEF Rules, LookupsOK, LookupsBacked
    <2> HIDE DEF name, sources, interval
    <2> QED BY <1>1, <2>1, <2>5, <2>6, AlertStep
  <1> QED BY <1>2, <1>3

LEMMA AlertErrorBudgetStep ==
    ASSUME IInv, AlertErrorBudget
    PROVE  IInv'
  <1> DEFINE id == sloId(Current)
             w == Current.objective
             name == ruleGroupName(id, "alert", w.interval)
             found == id \in DOMAIN errorBudgetRecordingRules
             sources == {errorBudgetRecordingRules[id]}
  <1>1. /\ ControlOK /\ Rules /\ phase = "alert" /\ i <= Len(spec)
        /\ UNCHANGED <<spec, alertEnabled>>
    BY DEF IInv, AlertErrorBudget, AlertReady
  <1>2. CASE ~found \/ w = NoWindow
    <2>1. Fail("failed") \/ Fail("panic")
      BY <1>2 DEF AlertErrorBudget
    <2> QED BY <1>1, <2>1, FailStep
  <1>3. CASE found /\ w # NoWindow
    <2>1. /\ AddRule(name, w.interval, generateAlertingRule(id, sources))
          /\ k' = k + 1 /\ UNCHANGED <<phase, i, lookupVars>>
      BY <1>3 DEF AlertErrorBudget
    <2>2. w \in Window /\ id \in SLONames
      BY <1>1, <1>3, CurrentOK, WindowTypes
    <2>3. name \in GroupName /\ name.id = id /\ name.interval = w.interval
      BY <2>2, MetricTypes, GroupNameType
    <2>4. \A s \in sources :
            s \in RuleSet /\ s \in Rule /\ s.id = id /\ s.record.base = "errorBudget"
      BY <1>1, <1>3 DEF Rules, LookupsOK, LookupsBacked
    <2> HIDE DEF name, sources
    <2> QED BY <1>1, <2>1, <2>3, <2>4, AlertStep
  <1> QED BY <1>2, <1>3

-----------------------------------------------------------------------------
(* The invariant holds of every behaviour.                                  *)

LEMMA InitReady == Init => Ready
  BY SpecsAssumption DEF Init, Ready

LEMMA ReadyIInv == Ready => IInv
  <1> SUFFICES ASSUME Ready PROVE IInv
    OBVIOUS
  <1>1. ControlOK
    BY DEF Ready, ControlOK
  <1>2. WindowsRecorded
    <2>1. ASSUME i <= Len(spec)
          PROVE  k <= Len(Current.windows) + 2
      <3>1. WellFormed(Current)
        BY <1>1, <2>1, CurrentOK
      <3>2. Len(Current.windows) \in Nat
        BY <3>1 DEF WellFormed, SLO
      <3> QED BY <3>2 DEF Ready
    <2>2. 1..(k - 1) = {}
      BY DEF Ready
    <2> QED BY <2>1, <2>2 DEF WindowsRecorded
  <1>3. /\ ruleGroups = <<>> /\ DOMAIN ruleGroups = {}
        /\ DOMAIN ruleGroupsByName = {} /\ DOMAIN errorRateRecordingRules = {}
        /\ DOMAIN errorBudgetRecordingRules = {}
    BY DEF Ready
  <1>4. Groups
    BY <1>3 DEF Groups, GroupsOK, IndexSound, GroupsIndexed
  <1>5. Rules
    BY <1>3 DEF Rules, LookupsOK, LookupsBacked, ReadsRecorded, SeriesRead, RuleSet
  <1> QED BY <1>1, <1>2, <1>4, <1>5 DEF IInv

LEMMA InitIInv == Init => IInv
  BY InitReady, ReadyIInv

LEMMA NextIInv == IInv /\ [Next]_vars => IInv'
  <1> SUFFICES ASSUME IInv, [Next]_vars PROVE IInv'
    OBVIOUS
  <1>1. CASE FinishRecording
    <2>1. ControlOK'
      BY <1>1 DEF IInv, ControlOK, FinishRecording
    <2> QED BY <1>1, <2>1, QuietStep DEF IInv, ControlOK, FinishRecording
  <1>2. CASE NextSLO
    <2>1. ControlOK'
      BY <1>2 DEF IInv, ControlOK, NextSLO
    <2> QED BY <1>2, <2>1, QuietStep DEF NextSLO
  <1>3. CASE FinishAlerting
    <2>1. ControlOK'
      BY <1>3 DEF IInv, ControlOK, FinishAlerting
    <2> QED BY <1>3, <2>1, QuietStep DEF FinishAlerting
  <1>4. CASE UNCHANGED vars
    <2>1. ControlOK'
      BY <1>4 DEF vars, IInv, ControlOK
    <2>2. WindowsRecorded'
      <3>1. Current' = Current /\ sloId(Current)' = sloId(Current)
        BY <1>4 DEF vars, Current, sloId
      <3> QED BY <1>4, <3>1
            DEF vars, lookupVars, IInv, WindowsRecorded, errorRateKey
    <2>3. Groups' /\ Rules'
      BY <1>4 DEF vars, IInv, Groups, Rules, GroupsOK, IndexSound, GroupsIndexed,
           LookupsOK, LookupsBacked, ReadsRecorded, SeriesRead, RuleSet, groupVars, lookupVars
    <2> QED BY <2>1, <2>2, <2>3 DEF IInv
  <1> QED BY <1>1, <1>2, <1>3, <1>4, RecordErrorRateStep, RecordErrorBudgetStep,
             RecordMetaStep, AlertBurnRateStep, AlertErrorBudgetStep DEF Next

LEMMA Invariance == Spec => []IInv
  <1>1. Init => IInv
    BY InitIInv
  <1>2. IInv /\ [Next]_vars => IInv'
    BY NextIInv
  <1> QED BY <1>1, <1>2, PTL DEF Spec

(* Every variable of the generator keeps its type: in particular the index  *)
(* of groups never points outside the list of groups.                       *)
THEOREM TypeCorrect == Spec => []TypeOK
  <1>1. IInv => TypeOK
    BY TypeParts DEF IInv, Groups, Rules
  <1> QED BY <1>1, Invariance, PTL

(* No group name occurs twice in the output, and every rule is in a group   *)
(* of its SLO and of its interval, whatever the spec.                       *)
THEOREM GroupsCorrect == Spec => []GroupsIndexed
  <1>1. IInv => GroupsIndexed
    BY DEF IInv, Groups
  <1> QED BY <1>1, Invariance, PTL

(* The lookup maps never hold a rule that is not in the output.             *)
THEOREM LookupsCorrect == Spec => []LookupsBacked
  <1>1. IInv => LookupsBacked
    BY DEF IInv, Rules
  <1> QED BY <1>1, Invariance, PTL

(* No generated expression reads a series that no rule records.             *)
THEOREM ReadsCorrect == Spec => []ReadsRecorded
  <1>1. IInv => ReadsRecorded
    BY DEF IInv, Rules
  <1> QED BY <1>1, Invariance, PTL

(* GenerateRecordingRules returns no error, whatever the spec.              *)
THEOREM RecordingSucceeds == Spec => RecordingNeverFails
  <1>1. IInv /\ [Next]_vars =>
          [phase = "record" => phase' \in {"record", "alert", "done"}]_vars
    <2> SUFFICES ASSUME IInv, Next, phase = "record"
                 PROVE  phase' \in {"record", "alert", "done"}
      OBVIOUS
    <2>1. CASE RecordErrorBudget
      BY <2>1, RecordErrorBudgetStep
    <2>2. CASE ~RecordErrorBudget
      BY <2>2 DEF Next, RecordErrorRate, RecordMeta, FinishRecording,
           AlertBurnRate, AlertErrorBudget, AlertReady, NextSLO, FinishAlerting
    <2> QED BY <2>1, <2>2
  <1>2. Spec => []IInv /\ [][Next]_vars
    BY Invariance, PTL DEF Spec
  <1> QED BY <1>1, <1>2, PTL DEF RecordingNeverFails

-----------------------------------------------------------------------------
(* What the whole output is, for every list of SLOs, names shared or not:   *)
(* the rules each SLO stands for and no others. No series is recorded twice *)
(* but for one of the two reasons that SeriesRecordedOnce names; and when   *)
(* names are distinct each rule comes after one of the rules it reads.      *)

(* What is generated for each window, objective and alert of an SLO: the    *)
(* rule with the name of the group it belongs in.                           *)
RateRule(slo, w) == generateErrorRateRecordingRule(slo.name, w)

RatePair(slo, w) == <<ruleGroupName(slo.name, "record", w.interval), RateRule(slo, w)>>

BudgetRule(slo, w) ==
    generateErrorBudgetRecordingRule(slo.name, w, RateRule(slo, w))

BudgetPair(slo, w) ==
    <<ruleGroupName(slo.name, "record", w.interval), BudgetRule(slo, w)>>

MetaPair(slo) ==
    <<ruleGroupName(slo.name, "meta", 0), generateMetaRecordingRule(slo.name)>>

BurnRatePair(all, slo, a) ==
    <<ruleGroupName(slo.name, "alert", a.windows[1].interval),
      generateAlertingRule(slo.name,
        {RateRule(slo, SeenWindow(all, slo, w)) : w \in Range(a.windows)})>>

BudgetAlertPair(all, slo, w) ==
    <<ruleGroupName(slo.name, "alert", w.interval),
      generateAlertingRule(slo.name, {BudgetRule(slo, SeenObjective(all, slo))})>>

(* The rules of the output, each with the name of its group.                *)
Output ==
    UNION {{<<ruleGroups[g].name, r>> : r \in Range(ruleGroups[g].rules)} :
             g \in DOMAIN ruleGroups}

(* How far the loops are: the windows of an SLO are recorded first, then    *)
(* the error budget, then the metadata; the alerts come in a second pass.   *)
BudgetAt(slo) == Len(slo.windows) + 1
MetaAt(slo) == Len(slo.windows) + 2

Reached(n, m) == n < i \/ (n = i /\ m < k)

Recorded(n, m) == phase # "record" \/ Reached(n, m)

Alerted(n, m) == alertEnabled /\ (phase = "done" \/ (phase = "alert" /\ Reached(n, m)))

(* What was recorded is in the output, and the tables have an entry for it. *)
RatesFound(n) ==
    LET slo == spec[n]
    IN \A m \in DOMAIN slo.windows : Recorded(n, m) =>
         /\ errorRateKey(slo.name, slo.windows[m]) \in DOMAIN errorRateRecordingRules
         /\ RatePair(slo, slo.windows[m]) \in Output

BudgetFound(n) ==
    LET slo == spec[n]
    IN slo.objective # NoWindow /\ Recorded(n, BudgetAt(slo)) =>
         /\ slo.name \in DOMAIN errorBudgetRecordingRules
         /\ BudgetPair(slo, slo.objective) \in Output

MetaFound(n) ==
    Recorded(n, MetaAt(spec[n])) => MetaPair(spec[n]) \in Output

(* An alert that was passed could be generated, and is in the output.       *)
AlertsFound(n) ==
    LET slo == spec[n]
    IN \A m \in DOMAIN slo.alerts : Alerted(n, m) =>
         /\ slo.objective # NoWindow
         /\ IF slo.alerts[m].kind = "burnRate"
            THEN BurnRatePair(spec, slo, slo.alerts[m]) \in Output
            ELSE BudgetAlertPair(spec, slo, slo.objective) \in Output

Complete ==
    \A n \in DOMAIN spec : RatesFound(n) /\ BudgetFound(n) /\ MetaFound(n) /\ AlertsFound(n)

Sound == Output \subseteq UNION {Expected(spec, slo) : slo \in Range(spec)}

(* An entry of a table is the rule of the last SLO recorded under its key.  *)
LastRate(n, m) ==
    \A b \in DOMAIN spec : \A x \in DOMAIN spec[b].windows :
      /\ Recorded(b, x)
      /\ errorRateKey(spec[b].name, spec[b].windows[x])
           = errorRateKey(spec[n].name, spec[n].windows[m])
      => b <= n

RateHeld(key) ==
    \E n \in DOMAIN spec : \E m \in DOMAIN spec[n].windows :
      /\ Recorded(n, m) /\ LastRate(n, m)
      /\ key = errorRateKey(spec[n].name, spec[n].windows[m])
      /\ errorRateRecordingRules[key] = RateRule(spec[n], spec[n].windows[m])

LastBudget(n) ==
    \A b \in DOMAIN spec :
      /\ spec[b].objective # NoWindow /\ Recorded(b, BudgetAt(spec[b]))
      /\ spec[b].name = spec[n].name
      => b <= n

BudgetHeld(id) ==
    \E n \in DOMAIN spec :
      /\ spec[n].objective # NoWindow /\ Recorded(n, BudgetAt(spec[n])) /\ LastBudget(n)
      /\ id = spec[n].name
      /\ errorBudgetRecordingRules[id] = BudgetRule(spec[n], spec[n].objective)

Held ==
    /\ \A key \in DOMAIN errorRateRecordingRules : RateHeld(key)
    /\ \A id \in DOMAIN errorBudgetRecordingRules : BudgetHeld(id)

(* A recording rule of the output was put there by a step already taken.    *)
RecordedBy(r, n) ==
    LET slo == spec[n]
    IN /\ r.id = slo.name
       /\ \/ \E m \in DOMAIN slo.windows :
               Recorded(n, m) /\ r.record = metricNameErrorRate(slo.windows[m])
          \/ /\ slo.objective # NoWindow /\ Recorded(n, BudgetAt(slo))
             /\ r.record = metricNameErrorBudget(slo.objective)
          \/ Recorded(n, MetaAt(slo)) /\ r.record = metricNameSLO

RecordsTaken ==
    \A r \in RuleSet : r.record.base # "alert" => \E n \in DOMAIN spec : RecordedBy(r, n)

Unusable(n) == spec[n].objective = NoWindow /\ spec[n].alerts # <<>>

Ended ==
    /\ phase = "alert" => alertEnabled
    /\ phase \in {"failed", "panic"} =>
         /\ alertEnabled
         /\ \E n \in DOMAIN spec :
              /\ Unusable(n) /\ phase = Refusal(n)
              /\ \A m \in DOMAIN spec : Unusable(m) => n <= m

(* A rule that reads a series goes behind one of its group that records it. *)
Precede ==
    \A g \in DOMAIN ruleGroups : \A n \in DOMAIN ruleGroups[g].rules :
      ruleGroups[g].rules[n].expr.reads # {} =>
        \E m \in 1..(n - 1) :
          ruleGroups[g].rules[m].record \in ruleGroups[g].rules[n].expr.reads

(* A rule that may record the series of another.                            *)
Doubled(r) ==
    \/ Namesakes(r.id)
    \/ r.record.base = "errorRate" /\ SameDurations(r.id, r.record.duration)

(* A series recorded by a new rule must not be recorded yet.                *)
Once ==
    \A g, h \in DOMAIN ruleGroups :
      \A m \in DOMAIN ruleGroups[g].rules, n \in DOMAIN ruleGroups[h].rules :
        LET r == ruleGroups[g].rules[m]
            s == ruleGroups[h].rules[n]
        IN r.record.base # "alert" /\ r.id = s.id /\ r.record = s.record
             => (g = h /\ m = n) \/ Doubled(r)

(* What is shown to stay true, next to IInv.                                *)
OInv ==
    /\ RecordsTaken /\ Once /\ Held /\ Complete /\ Sound /\ Ended
    /\ DistinctSLONames => Precede

-----------------------------------------------------------------------------
(* Adding a rule: it comes last in the one group of its name.               *)

RulesAt(g) == IF g \in DOMAIN ruleGroups THEN ruleGroups[g].rules ELSE <<>>

AddsAt(p, name, r) ==
    /\ DOMAIN ruleGroups' = DOMAIN ruleGroups \cup {p}
    /\ ruleGroups'[p].name = name
    /\ RulesAt(p) \in Seq(Rule) /\ ruleGroups'[p].rules = Append(RulesAt(p), r)
    /\ \A g \in DOMAIN ruleGroups : g # p => ruleGroups'[g] = ruleGroups[g]
    /\ \A g \in DOMAIN ruleGroups : ruleGroups[g].name = name <=> g = p

LEMMA AddRuleAt ==
    ASSUME Groups, NEW name \in GroupName, NEW r \in Rule,
           AddRule(name, name.interval, r)
    PROVE  \E p : AddsAt(p, name, r)
  <1>0. /\ ruleGroups \in Seq(RuleGroup) /\ Len(ruleGroups) \in Nat
        /\ DOMAIN ruleGroups = 1..Len(ruleGroups)
        /\ \A g \in DOMAIN ruleGroups :
             ruleGroups[g] \in RuleGroup /\ ruleGroups[g].rules \in Seq(Rule)
    <2>1. /\ ruleGroups \in Seq(RuleGroup) /\ Len(ruleGroups) \in Nat
          /\ DOMAIN ruleGroups = 1..Len(ruleGroups)
          /\ \A g \in DOMAIN ruleGroups : ruleGroups[g] \in RuleGroup
      BY DEF Groups, GroupsOK
    <2>2. \A g : g \in RuleGroup => g.rules \in Seq(Rule)
      BY DEF RuleGroup
    <2> QED
      BY <2>1, <2>2
  <1>1. CASE name \in DOMAIN ruleGroupsByName
    <2> DEFINE p == ruleGroupsByName[name]
               new == [ruleGroups[p] EXCEPT !.rules = Append(@, r)]
    <2>1. ruleGroups' = [ruleGroups EXCEPT ![p] = new]
      BY <1>1 DEF AddRule
    <2>2. p \in DOMAIN ruleGroups /\ ruleGroups[p].name = name
      BY <1>1 DEF Groups, GroupsOK, IndexSound
    <2>3. new.name = name /\ new.rules = Append(RulesAt(p), r)
      BY <1>0, <2>2 DEF RuleGroup, RulesAt
    <2>4. \A g \in DOMAIN ruleGroups : ruleGroups[g].name = name <=> g = p
      BY <2>2 DEF Groups, GroupsIndexed
    <2> HIDE DEF new, p
    <2>5. /\ DOMAIN ruleGroups' = DOMAIN ruleGroups /\ ruleGroups'[p] = new
          /\ \A g \in DOMAIN ruleGroups : g # p => ruleGroups'[g] = ruleGroups[g]
      BY <1>0, <2>1, <2>2
    <2> QED
      BY <1>0, <2>2, <2>3, <2>4, <2>5 DEF RulesAt, AddsAt
  <1>2. CASE name \notin DOMAIN ruleGroupsByName
    <2> DEFINE p == Len(ruleGroups) + 1
               new == [name |-> name, interval |-> name.interval, rules |-> <<r>>]
    <2>1. ruleGroups' = Append(ruleGroups, new)
      BY <1>2 DEF AddRule
    <2>2. new.name = name /\ new.rules = <<r>>
      OBVIOUS
    <2> HIDE DEF new
    <2>3. /\ DOMAIN ruleGroups' = DOMAIN ruleGroups \cup {p}
          /\ p \notin DOMAIN ruleGroups /\ ruleGroups'[p] = new
          /\ \A g \in DOMAIN ruleGroups : ruleGroups'[g] = ruleGroups[g]
      <3>1. /\ Len(Append(ruleGroups, new)) = Len(ruleGroups) + 1
            /\ DOMAIN Append(ruleGroups, new) = 1..(Len(ruleGroups) + 1)
            /\ Append(ruleGroups, new)[Len(ruleGroups) + 1] = new
            /\ \A g \in 1..Len(ruleGroups) :
                 Append(ruleGroups, new)[g] = ruleGroups[g]
        BY <1>0
      <3> QED
        BY <1>0, <2>1, <3>1
    <2>4. \A g \in DOMAIN ruleGroups : ruleGroups[g].name # name
      BY <1>2 DEF Groups, GroupsIndexed
    <2> HIDE DEF p
    <2>5. RulesAt(p) = <<>> /\ <<r>> = Append(<<>>, r)
      BY <2>3 DEF RulesAt
    <2>6. \A g \in DOMAIN ruleGroups : ruleGroups[g].name = name <=> g = p
      BY <2>3, <2>4
    <2> QED
      BY <2>2, <2>3, <2>5, <2>6, EmptySeq DEF AddsAt
  <1> QED
    BY <1>1, <1>2

(* What is at a position of a group, before and after.                      *)
LEMMA AddedRules ==
    ASSUME NEW p, NEW name, NEW r \in Rule, AddsAt(p, name, r)
    PROVE  /\ Len(RulesAt(p)) \in Nat
           /\ DOMAIN RulesAt(p) = 1..Len(RulesAt(p))
           /\ DOMAIN ruleGroups'[p].rules = 1..(Len(RulesAt(p)) + 1)
           /\ ruleGroups'[p].rules[Len(RulesAt(p)) + 1] = r
           /\ \A n \in 1..Len(RulesAt(p)) : ruleGroups'[p].rules[n] = RulesAt(p)[n]
           /\ Range(ruleGroups'[p].rules) = Range(RulesAt(p)) \cup {r}
  <1>1. /\ DOMAIN ruleGroups'[p].rules = 1..(Len(RulesAt(p)) + 1)
        /\ Len(RulesAt(p)) \in Nat /\ DOMAIN RulesAt(p) = 1..Len(RulesAt(p))
        /\ ruleGroups'[p].rules[Len(RulesAt(p)) + 1] = r
        /\ \A n \in 1..Len(RulesAt(p)) : ruleGroups'[p].rules[n] = RulesAt(p)[n]
    <2>1. RulesAt(p) \in Seq(Rule) /\ ruleGroups'[p].rules = Append(RulesAt(p), r)
      BY DEF AddsAt
    <2> QED
      BY <2>1
  <1>2. Range(ruleGroups'[p].rules) = Range(RulesAt(p)) \cup {r}
    <2> DEFINE new == ruleGroups'[p].rules
               old == RulesAt(p)
               l == Len(RulesAt(p))
    <2>1. /\ DOMAIN new = 1..(l + 1) /\ DOMAIN old = 1..l /\ l \in Nat
          /\ new[l + 1] = r /\ \A n \in 1..l : new[n] = old[n]
      BY <1>1
    <2> HIDE DEF new, old, l
    <2>2. Range(new) = Range(old) \cup {r}
      BY <2>1 DEF Range
    <2> QED
      BY <2>2 DEF new, old
  <1> QED
    BY <1>1, <1>2

LEMMA OutputStep ==
    ASSUME Groups, NEW name \in GroupName, NEW r \in Rule,
           AddRule(name, name.interval, r)
    PROVE  Output' = Output \cup {<<name, r>>}
  <1> PICK p : AddsAt(p, name, r)
    BY AddRuleAt
  <1>1. \A e : e \in Output <=>
          \E g \in DOMAIN ruleGroups : \E s \in Range(RulesAt(g)) :
            e = <<ruleGroups[g].name, s>>
    BY DEF Output, RulesAt
  <1>2. \A e : e \in Output' <=>
          \E g \in DOMAIN ruleGroups' : \E s \in Range(ruleGroups'[g].rules) :
            e = <<ruleGroups'[g].name, s>>
    BY DEF Output
  <1>3. Range(ruleGroups'[p].rules) = Range(RulesAt(p)) \cup {r}
    BY AddedRules
  <1>4. \A g \in DOMAIN ruleGroups : ruleGroups'[g].name = ruleGroups[g].name
    BY DEF AddsAt
  <1>5. \A g \in DOMAIN ruleGroups : g # p =>
          Range(ruleGroups'[g].rules) = Range(RulesAt(g))
    BY DEF AddsAt, RulesAt
  <1>6. p \notin DOMAIN ruleGroups => Range(RulesAt(p)) = {}
    BY DEF RulesAt, Range
  <1>7. DOMAIN ruleGroups' = DOMAIN ruleGroups \cup {p} /\ ruleGroups'[p].name = name
    BY DEF AddsAt
  <1>8. ASSUME NEW e \in Output' PROVE e \in Output \cup {<<name, r>>}
    <2> PICK g \in DOMAIN ruleGroups' : \E s \in Range(ruleGroups'[g].rules) :
           e = <<ruleGroups'[g].name, s>>
      BY <1>2
    <2>1. CASE g = p
      BY <1>1, <1>3, <1>4, <1>6, <1>7, <2>1
    <2>2. CASE g # p
      BY <1>1, <1>4, <1>5, <1>7, <2>2
    <2> QED
      BY <2>1, <2>2
  <1>9. ASSUME NEW e \in Output PROVE e \in Output'
    <2> PICK g \in DOMAIN ruleGroups : \E s \in Range(RulesAt(g)) :
           e = <<ruleGroups[g].name, s>>
      BY <1>1
    <2> PICK s \in Range(RulesAt(g)) : e = <<ruleGroups[g].name, s>>
      OBVIOUS
    <2>1. s \in Range(ruleGroups'[g].rules)
      BY <1>3, <1>5
    <2> QED
      BY <1>2, <1>4, <1>7, <2>1
  <1>10. <<name, r>> \in Output'
    BY <1>2, <1>3, <1>7
  <1> QED
    BY <1>8, <1>9, <1>10

LEMMA OutputRules ==
    \A s : s \in RuleSet <=> \E name : <<name, s>> \in Output
  <1>1. \A s, name : <<name, s>> \in Output <=>
          \E g \in DOMAIN ruleGroups :
            name = ruleGroups[g].name /\ s \in Range(ruleGroups[g].rules)
    BY DEF Output
  <1>2. \A s : s \in RuleSet <=>
          \E g \in DOMAIN ruleGroups : s \in Range(ruleGroups[g].rules)
    BY DEF RuleSet
  <1> QED
    BY <1>1, <1>2

LEMMA PrecedeStep ==
    ASSUME Groups, Precede, NEW name \in GroupName, NEW r \in Rule,
           AddRule(name, name.interval, r),
           r.expr.reads = {}
             \/ \E s : <<name, s>> \in Output /\ s.record \in r.expr.reads
    PROVE  Precede'
  <1> PICK p : AddsAt(p, name, r)
    BY AddRuleAt
  <1> DEFINE old == RulesAt(p)
             new == ruleGroups'[p].rules
             l == Len(RulesAt(p))
  <1>1. /\ DOMAIN new = 1..(l + 1) /\ DOMAIN old = 1..l /\ l \in Nat
        /\ new[l + 1] = r /\ \A n \in 1..l : new[n] = old[n]
    BY AddedRules
  <1>2. \A n \in 1..l : old[n].expr.reads # {} =>
          \E m \in 1..(n - 1) : old[m].record \in old[n].expr.reads
    <2>1. CASE p \in DOMAIN ruleGroups
      BY <1>1, <2>1 DEF Precede, RulesAt
    <2>2. CASE p \notin DOMAIN ruleGroups
      <3>1. DOMAIN RulesAt(p) = {}
        BY <2>2 DEF RulesAt
      <3> QED
        BY <1>1, <3>1
    <2> QED
      BY <2>1, <2>2
  <1>3. r.expr.reads = {} \/ \E m \in 1..l : old[m].record \in r.expr.reads
    <2> SUFFICES ASSUME NEW s, <<name, s>> \in Output, s.record \in r.expr.reads
                 PROVE  \E m \in 1..l : old[m].record \in r.expr.reads
      OBVIOUS
    <2> PICK g \in DOMAIN ruleGroups :
           name = ruleGroups[g].name /\ s \in Range(ruleGroups[g].rules)
      BY DEF Output
    <2>1. g = p /\ RulesAt(p) = ruleGroups[g].rules
      BY DEF AddsAt, RulesAt
    <2> QED
      BY <1>1, <2>1 DEF Range
  <1>4. \A n \in DOMAIN new : new[n].expr.reads # {} =>
          \E m \in 1..(n - 1) : new[m].record \in new[n].expr.reads
    <2> HIDE DEF new, old, l
    <2> TAKE n \in DOMAIN new
    <2> HAVE new[n].expr.reads # {}
    <2>1. CASE n = l + 1
      BY <1>1, <1>3, <2>1
    <2>2. CASE n \in 1..l
      <3> PICK m \in 1..(n - 1) : old[m].record \in old[n].expr.reads
        BY <1>1, <1>2, <2>2
      <3>1. m \in 1..l
        BY <1>1, <2>2
      <3> QED
        BY <1>1, <2>2, <3>1
    <2> QED
      BY <1>1, <2>1, <2>2
  <1>5. \A g \in DOMAIN ruleGroups' : g = p \/
          (g \in DOMAIN ruleGroups /\ ruleGroups'[g] = ruleGroups[g])
    BY DEF AddsAt
  <1> QED
    BY <1>4, <1>5 DEF Precede

LEMMA OnceStep ==
    ASSUME Groups, Once, NEW name \in GroupName, NEW r \in Rule,
           AddRule(name, name.interval, r),
           r.record.base = "alert" \/ Doubled(r)
             \/ \A s \in RuleSet : ~(s.id = r.id /\ s.record = r.record),
           spec' = spec
    PROVE  Once'
  <1> PICK p : AddsAt(p, name, r)
    BY AddRuleAt
  <1> DEFINE old == RulesAt(p)
             new == ruleGroups'[p].rules
             l == Len(RulesAt(p))
             New(g, m) == g = p /\ m = l + 1 /\ ruleGroups'[g].rules[m] = r
             Old(g, m) == /\ g \in DOMAIN ruleGroups /\ m \in DOMAIN ruleGroups[g].rules
                          /\ ruleGroups'[g].rules[m] = ruleGroups[g].rules[m]
                          /\ ruleGroups[g].rules[m] \in RuleSet
  <1>1. /\ DOMAIN new = 1..(l + 1) /\ DOMAIN old = 1..l /\ l \in Nat
        /\ new[l + 1] = r /\ \A n \in 1..l : new[n] = old[n]
    BY AddedRules
  <1>2. \A g \in DOMAIN ruleGroups : \A m \in DOMAIN ruleGroups[g].rules :
          ruleGroups[g].rules[m] \in RuleSet
    BY DEF RuleSet, Range
  <1>3. ASSUME NEW g \in DOMAIN ruleGroups', NEW m \in DOMAIN ruleGroups'[g].rules
        PROVE  New(g, m) \/ Old(g, m)
    <2>1. CASE g # p
      <3>1. g \in DOMAIN ruleGroups /\ ruleGroups'[g] = ruleGroups[g]
        BY <2>1 DEF AddsAt
      <3> QED
        BY <1>2, <3>1
    <2>2. CASE g = p /\ m # l + 1
      <3>1. m \in 1..l
        BY <1>1, <2>2
      <3>2. p \in DOMAIN ruleGroups /\ old = ruleGroups[p].rules
        <4>1. p \notin DOMAIN ruleGroups => DOMAIN old = {}
          BY DEF RulesAt
        <4> QED
          BY <1>1, <3>1, <4>1 DEF RulesAt
      <3> QED
        BY <1>1, <1>2, <2>2, <3>1, <3>2
    <2>3. CASE g = p /\ m = l + 1
      BY <1>1, <2>3
    <2> QED
      BY <2>1, <2>2, <2>3
  <1>4. ASSUME NEW g \in DOMAIN ruleGroups', NEW h \in DOMAIN ruleGroups',
               NEW m \in DOMAIN ruleGroups'[g].rules,
               NEW n \in DOMAIN ruleGroups'[h].rules,
               LET s == ruleGroups'[g].rules[m]
                   t == ruleGroups'[h].rules[n]
               IN s.record.base # "alert" /\ s.id = t.id /\ s.record = t.record
        PROVE  (g = h /\ m = n) \/ Doubled(ruleGroups'[g].rules[m])
    <2>1. New(g, m) \/ Old(g, m)
      BY <1>3
    <2>2. New(h, n) \/ Old(h, n)
      BY <1>3
    <2>3. CASE Old(g, m) /\ Old(h, n)
      BY <1>4, <2>3 DEF Once
    <2>4. CASE New(g, m) /\ New(h, n)
      BY <2>4
    <2>5. CASE New(g, m) /\ Old(h, n)
      BY <1>4, <2>5
    <2>6. CASE Old(g, m) /\ New(h, n)
      BY <1>4, <2>6 DEF Doubled
    <2> QED
      BY <2>1, <2>2, <2>3, <2>4, <2>5, <2>6
  <1>5. \A s : Doubled(s)' <=> Doubled(s')
    BY DEF Doubled, Namesakes, SameDurations
  <1> QED
    BY <1>4, <1>5 DEF Once

-----------------------------------------------------------------------------
(* The rules an SLO stands for.                                             *)

Stands(slo, e) ==
    \/ \E w \in Range(slo.windows) : e = RatePair(slo, w)
    \/ slo.objective # NoWindow /\ e = BudgetPair(slo, slo.objective)
    \/ e = MetaPair(slo)
    \/ \E a \in Range(slo.alerts) :
         alertEnabled /\ a.kind = "burnRate" /\ e = BurnRatePair(spec, slo, a)
    \/ \E a \in Range(slo.alerts) :
         /\ alertEnabled /\ a.kind = "errorBudget" /\ slo.objective # NoWindow
         /\ e = BudgetAlertPair(spec, slo, slo.objective)

(* The same rules, by what they are generated from.                         *)
LEMMA ExpectedStands ==
    ASSUME NEW slo, WellFormed(slo)
    PROVE  \A e : e \in Expected(spec, slo) <=> Stands(slo, e)
  <1> DEFINE Alerting(metrics) ==
               [id |-> slo.name, record |-> [base |-> "alert", duration |-> 0],
                expr |-> [of |-> "series", reads |-> metrics]]
             budgets == {w \in Range(slo.windows) : w = slo.objective}
             rates == {RatePair(slo, w) : w \in Range(slo.windows)}
             budget == {BudgetPair(slo, w) : w \in budgets}
             burns == {<<ruleGroupName(slo.name, "alert", a.windows[1].interval),
                         Alerting({metricNameErrorRate(SeenWindow(spec, slo, w)) :
                                     w \in Range(a.windows)})>> :
                       a \in {b \in Range(slo.alerts) : alertEnabled /\ b.kind = "burnRate"}}
             spends == {<<ruleGroupName(slo.name, "alert", w.interval),
                          Alerting({metricNameErrorBudget(SeenObjective(spec, slo))})>> :
                        w \in {v \in budgets : \E a \in Range(slo.alerts) :
                                 alertEnabled /\ a.kind = "errorBudget"}}
  <1>1. Expected(spec, slo) = rates \cup budget \cup {MetaPair(slo)} \cup burns \cup spends
    BY DEF Expected, RatePair, RateRule, BudgetPair, BudgetRule, MetaPair
  <1>2. budgets = IF slo.objective = NoWindow THEN {} ELSE {slo.objective}
    <2>1. \A w \in Range(slo.windows) : w # NoWindow
      BY WindowTypes, NoWindowAssumption DEF Range
    <2>2. slo.objective # NoWindow => slo.objective \in Range(slo.windows)
      BY WindowTypes DEF Range
    <2> QED
      BY <2>1, <2>2
  <1>3. \A a : <<ruleGroupName(slo.name, "alert", a.windows[1].interval),
                 Alerting({metricNameErrorRate(SeenWindow(spec, slo, w)) :
                             w \in Range(a.windows)})>>
                 = BurnRatePair(spec, slo, a)
    <2> TAKE a
    <2>1. {r.record : r \in {RateRule(slo, SeenWindow(spec, slo, w)) : w \in Range(a.windows)}}
            = {metricNameErrorRate(SeenWindow(spec, slo, w)) : w \in Range(a.windows)}
      <3>1. \A w : RateRule(slo, w).record = metricNameErrorRate(w)
        BY DEF RateRule, generateErrorRateRecordingRule
      <3> QED
        BY <3>1
    <2> QED
      BY <2>1 DEF BurnRatePair, generateAlertingRule
  <1>4. \A w : <<ruleGroupName(slo.name, "alert", w.interval),
                 Alerting({metricNameErrorBudget(SeenObjective(spec, slo))})>>
                 = BudgetAlertPair(spec, slo, w)
    <2> TAKE w
    <2>1. {r.record : r \in {BudgetRule(slo, SeenObjective(spec, slo))}}
            = {metricNameErrorBudget(SeenObjective(spec, slo))}
      BY DEF BudgetRule, generateErrorBudgetRecordingRule
    <2> QED
      BY <2>1 DEF BudgetAlertPair, generateAlertingRule
  <1>5. \A e : e \in rates <=> \E w \in Range(slo.windows) : e = RatePair(slo, w)
    OBVIOUS
  <1>6. \A e : e \in budget <=>
          slo.objective # NoWindow /\ e = BudgetPair(slo, slo.objective)
    BY <1>2
  <1>7. \A e : e \in burns <=>
          \E a \in Range(slo.alerts) :
            alertEnabled /\ a.kind = "burnRate" /\ e = BurnRatePair(spec, slo, a)
    <2> HIDE DEF Alerting
    <2> QED
      BY <1>3
  <1>8. \A e : e \in spends <=>
          \E a \in Range(slo.alerts) :
            /\ alertEnabled /\ a.kind = "errorBudget" /\ slo.objective # NoWindow
            /\ e = BudgetAlertPair(spec, slo, slo.objective)
    <2> HIDE DEF Alerting, budgets
    <2> QED
      BY <1>2, <1>4
  <1> HIDE DEF rates, budget, burns, spends, budgets
  <1> QED
    BY <1>1, <1>5, <1>6, <1>7, <1>8 DEF Stands

-----------------------------------------------------------------------------
(* Progress of the loops.                                                   *)

(* Positions in an SLO: its windows, then the error budget, then the        *)
(* metadata.                                                                *)
LEMMA Positions ==
    ASSUME NEW slo, WellFormed(slo)
    PROVE  /\ DOMAIN slo.windows = 1..Len(slo.windows) /\ Len(slo.windows) \in Nat
           /\ DOMAIN slo.alerts = 1..Len(slo.alerts) /\ Len(slo.alerts) \in Nat
           /\ \A m \in DOMAIN slo.windows : m \in 1..MetaAt(slo) /\ m < BudgetAt(slo)
           /\ BudgetAt(slo) \in 1..MetaAt(slo) /\ MetaAt(slo) \in 1..MetaAt(slo)
           /\ BudgetAt(slo) # MetaAt(slo)
           /\ \A m \in DOMAIN slo.windows : m # BudgetAt(slo) /\ m # MetaAt(slo)
  <1>1. slo.windows \in Seq(Window) /\ slo.alerts \in Seq(Alert)
    BY DEF WellFormed, SLO
  <1>2. /\ DOMAIN slo.windows = 1..Len(slo.windows) /\ Len(slo.windows) \in Nat
        /\ DOMAIN slo.alerts = 1..Len(slo.alerts) /\ Len(slo.alerts) \in Nat
    BY <1>1
  <1> QED
    BY <1>2 DEF BudgetAt, MetaAt

(* The current SLO is one of the spec.                                      *)
LEMMA Indices ==
    ASSUME ControlOK
    PROVE  /\ DOMAIN spec = 1..Len(spec) /\ Len(spec) \in Nat
           /\ i \in Nat /\ k \in Nat /\ i >= 1 /\ k >= 1
           /\ \A n \in DOMAIN spec : WellFormed(spec[n])
           /\ i <= Len(spec) => i \in DOMAIN spec
  BY DEF ControlOK

(* A step of the recording loop passes the current position and no other.   *)
LEMMA RecordProgress ==
    ASSUME ControlOK, phase = "record", i <= Len(spec),
           UNCHANGED <<spec, alertEnabled, phase>>,
           \/ i' = i /\ k' = k + 1
           \/ i' = i + 1 /\ k' = 1 /\ k = MetaAt(spec[i])
    PROVE  \A n \in DOMAIN spec :
             /\ \A m \in 1..MetaAt(spec[n]) :
                  Recorded(n, m)' <=> Recorded(n, m) \/ (n = i /\ m = k)
             /\ \A m : ~Alerted(n, m)'
  <1> TAKE n \in DOMAIN spec
  <1>1. n \in Nat /\ MetaAt(spec[n]) \in Nat
    BY Indices, Positions DEF MetaAt
  <1>2. ASSUME NEW m \in 1..MetaAt(spec[n])
        PROVE  Recorded(n, m)' <=> Recorded(n, m) \/ (n = i /\ m = k)
    <2>1. m \in Nat /\ m >= 1 /\ m <= MetaAt(spec[n])
      BY <1>1
    <2>2. Recorded(n, m)' <=> n < i' \/ (n = i' /\ m < k')
      BY DEF Recorded, Reached
    <2>3. Recorded(n, m) <=> n < i \/ (n = i /\ m < k)
      BY DEF Recorded, Reached
    <2>4. n < i + 1 <=> n < i \/ n = i
      BY <1>1, Indices
    <2>5. n = i + 1 => ~(m < 1)
      BY <2>1
    <2>6. m < k + 1 <=> m < k \/ m = k
      BY <2>1, Indices
    <2>7. n = i /\ k = MetaAt(spec[i]) => m < k \/ m = k
      BY <2>1, Indices
    <2> QED
      BY <2>1, <2>2, <2>3, <2>4, <2>5, <2>6, <2>7
  <1>3. \A m : ~Alerted(n, m)'
    BY DEF Alerted
  <1> QED
    BY <1>2, <1>3

(* Once recording is over everything is recorded, and stays so.             *)
LEMMA AllRecorded ==
    ASSUME phase # "record" PROVE \A n, m : Recorded(n, m)
  BY DEF Recorded

-----------------------------------------------------------------------------
(* The parts of the invariant that a step does not disturb.                 *)

LEMMA RatesKept ==
    ASSUME NEW n \in DOMAIN spec, RatesFound(n), spec' = spec, Output \subseteq Output',
           UNCHANGED errorRateRecordingRules,
           \A m \in DOMAIN spec[n].windows : Recorded(n, m)' => Recorded(n, m)
    PROVE  RatesFound(n)'
  BY DEF RatesFound

LEMMA BudgetKept ==
    ASSUME NEW n \in DOMAIN spec, BudgetFound(n), spec' = spec, Output \subseteq Output',
           UNCHANGED errorBudgetRecordingRules,
           spec[n].objective # NoWindow =>
             (Recorded(n, BudgetAt(spec[n]))' => Recorded(n, BudgetAt(spec[n])))
    PROVE  BudgetFound(n)'
  BY DEF BudgetFound, BudgetAt, Recorded, Reached

LEMMA MetaKept ==
    ASSUME NEW n \in DOMAIN spec, MetaFound(n), spec' = spec, Output \subseteq Output',
           Recorded(n, MetaAt(spec[n]))' => Recorded(n, MetaAt(spec[n]))
    PROVE  MetaFound(n)'
  BY DEF MetaFound, MetaAt, Recorded, Reached

LEMMA AlertsKept ==
    ASSUME NEW n \in DOMAIN spec, AlertsFound(n), spec' = spec, Output \subseteq Output',
           \A m \in DOMAIN spec[n].alerts : Alerted(n, m)' => Alerted(n, m)
    PROVE  AlertsFound(n)'
  BY DEF AlertsFound

(* A new rule is one that some SLO stands for.                              *)
LEMMA SoundStep ==
    ASSUME Sound, UNCHANGED <<spec, alertEnabled>>, NEW n \in DOMAIN spec,
           WellFormed(spec[n]), NEW e, Stands(spec[n], e), Output' = Output \cup {e}
    PROVE  Sound'
  <1>1. e \in Expected(spec, spec[n])
    BY ExpectedStands
  <1>2. spec[n] \in Range(spec)
    BY DEF Range
  <1>3. \A slo : Expected(spec, slo)' = Expected(spec, slo)
    BY DEF Expected
  <1> QED
    BY <1>1, <1>2, <1>3 DEF Sound

(* What was recorded by a step taken stays so.                              *)
LEMMA RecordedByKept ==
    ASSUME ControlOK, spec' = spec, NEW s, NEW n \in DOMAIN spec, RecordedBy(s, n),
           \A m \in 1..MetaAt(spec[n]) : Recorded(n, m) => Recorded(n, m)'
    PROVE  RecordedBy(s, n)'
  <1>1. /\ \A m \in DOMAIN spec[n].windows : m \in 1..MetaAt(spec[n])
        /\ BudgetAt(spec[n]) \in 1..MetaAt(spec[n])
        /\ MetaAt(spec[n]) \in 1..MetaAt(spec[n])
    BY Indices, Positions
  <1>2. BudgetAt(spec[n])' = BudgetAt(spec[n]) /\ MetaAt(spec[n])' = MetaAt(spec[n])
    BY DEF BudgetAt, MetaAt
  <1>3. /\ \A m \in DOMAIN spec[n].windows : Recorded(n, m) => Recorded(n, m)'
        /\ Recorded(n, BudgetAt(spec[n])) => Recorded(n, BudgetAt(spec[n]))'
        /\ Recorded(n, MetaAt(spec[n])) => Recorded(n, MetaAt(spec[n]))'
    BY <1>1, <1>2
  <1> QED
    BY <1>3 DEF RecordedBy

LEMMA RecordsKept ==
    ASSUME ControlOK, RecordsTaken, spec' = spec, NEW r, RuleSet' = RuleSet \cup {r},
           \A n \in DOMAIN spec : \A m \in 1..MetaAt(spec[n]) :
             Recorded(n, m) => Recorded(n, m)',
           r.record.base # "alert" => \E n \in DOMAIN spec : RecordedBy(r, n)'
    PROVE  RecordsTaken'
  BY RecordedByKept DEF RecordsTaken

(* An entry of a table is still the last one when nothing else was recorded *)
(* under its key.                                                           *)
LEMMA RateHeldKept ==
    ASSUME spec' = spec, NEW key, RateHeld(key),
           errorRateRecordingRules'[key] = errorRateRecordingRules[key],
           \A n \in DOMAIN spec : \A m \in DOMAIN spec[n].windows :
             /\ Recorded(n, m) => Recorded(n, m)'
             /\ Recorded(n, m)' =>
                  Recorded(n, m) \/ errorRateKey(spec[n].name, spec[n].windows[m]) # key
    PROVE  RateHeld(key)'
  <1> PICK n \in DOMAIN spec : \E m \in DOMAIN spec[n].windows :
         /\ Recorded(n, m) /\ LastRate(n, m)
         /\ key = errorRateKey(spec[n].name, spec[n].windows[m])
         /\ errorRateRecordingRules[key] = RateRule(spec[n], spec[n].windows[m])
    BY DEF RateHeld
  <1> PICK m \in DOMAIN spec[n].windows :
         /\ Recorded(n, m) /\ LastRate(n, m)
         /\ key = errorRateKey(spec[n].name, spec[n].windows[m])
         /\ errorRateRecordingRules[key] = RateRule(spec[n], spec[n].windows[m])
    OBVIOUS
  <1>1. LastRate(n, m)'
    BY DEF LastRate
  <1> QED
    BY <1>1 DEF RateHeld

LEMMA BudgetHeldKept ==
    ASSUME spec' = spec, NEW id, BudgetHeld(id),
           errorBudgetRecordingRules'[id] = errorBudgetRecordingRules[id],
           \A n \in DOMAIN spec :
             LET at == BudgetAt(spec[n])
             IN /\ Recorded(n, at) => Recorded(n, at)'
                /\ Recorded(n, at)' =>
                     Recorded(n, at) \/ spec[n].objective = NoWindow \/ spec[n].name # id
    PROVE  BudgetHeld(id)'
  <1> PICK n \in DOMAIN spec :
         /\ spec[n].objective # NoWindow /\ Recorded(n, BudgetAt(spec[n])) /\ LastBudget(n)
         /\ id = spec[n].name
         /\ errorBudgetRecordingRules[id] = BudgetRule(spec[n], spec[n].objective)
    BY DEF BudgetHeld
  <1>1. LastBudget(n)'
    BY DEF LastBudget, BudgetAt, Recorded, Reached
  <1>2. Recorded(n, BudgetAt(spec[n]))'
    BY DEF BudgetAt, Recorded, Reached
  <1> QED
    BY <1>1, <1>2 DEF BudgetHeld

(* A step that leaves the tables alone, and records nothing that has a key. *)
LEMMA HeldKept ==
    ASSUME ControlOK, Held, spec' = spec, UNCHANGED lookupVars,
           \A n \in DOMAIN spec : \A m \in 1..MetaAt(spec[n]) :
             /\ Recorded(n, m) => Recorded(n, m)'
             /\ Recorded(n, m)' =>
                  \/ Recorded(n, m) \/ m = MetaAt(spec[n])
                  \/ m = BudgetAt(spec[n]) /\ spec[n].objective = NoWindow
    PROVE  Held'
  <1>1. \A n \in DOMAIN spec :
          /\ \A m \in DOMAIN spec[n].windows :
               /\ m \in 1..MetaAt(spec[n])
               /\ m # BudgetAt(spec[n]) /\ m # MetaAt(spec[n])
          /\ BudgetAt(spec[n]) \in 1..MetaAt(spec[n]) /\ BudgetAt(spec[n]) # MetaAt(spec[n])
    BY Indices, Positions
  <1>2. ASSUME NEW key \in DOMAIN errorRateRecordingRules
        PROVE  RateHeld(key)'
    BY <1>1, RateHeldKept DEF Held, lookupVars
  <1>3. ASSUME NEW id \in DOMAIN errorBudgetRecordingRules
        PROVE  BudgetHeld(id)'
    BY <1>1, BudgetHeldKept DEF Held, lookupVars
  <1> QED
    BY <1>2, <1>3 DEF Held, lookupVars

(* While an SLO is recorded its own entries are the last ones.              *)
LEMMA CurrentHeld ==
    ASSUME ControlOK, Held, Complete, phase = "record", i \in DOMAIN spec,
           NEW m \in DOMAIN spec[i].windows, m < k
    PROVE  LET w == spec[i].windows[m]
           IN /\ errorRateRecordingRules[errorRateKey(spec[i].name, w)] = RateRule(spec[i], w)
              /\ RatePair(spec[i], w) \in Output
  <1> DEFINE w == spec[i].windows[m]
             key == errorRateKey(spec[i].name, w)
  <1>1. Recorded(i, m)
    BY DEF Recorded, Reached
  <1>2. key \in DOMAIN errorRateRecordingRules /\ RatePair(spec[i], w) \in Output
    BY <1>1 DEF Complete, RatesFound
  <1> PICK n \in DOMAIN spec : \E x \in DOMAIN spec[n].windows :
          /\ Recorded(n, x) /\ LastRate(n, x)
          /\ key = errorRateKey(spec[n].name, spec[n].windows[x])
          /\ errorRateRecordingRules[key] = RateRule(spec[n], spec[n].windows[x])
    BY <1>2 DEF Held, RateHeld
  <1>3. PICK x \in DOMAIN spec[n].windows :
          /\ Recorded(n, x) /\ LastRate(n, x)
          /\ key = errorRateKey(spec[n].name, spec[n].windows[x])
          /\ errorRateRecordingRules[key] = RateRule(spec[n], spec[n].windows[x])
    OBVIOUS
  <1>4. i <= n
    BY <1>1, <1>3 DEF LastRate
  <1>5. n = i
    BY <1>3, <1>4, Indices DEF Recorded, Reached
  <1>6. spec[i].windows[x].name = w.name
    BY <1>3, <1>5 DEF errorRateKey
  <1>7. x = m
    BY <1>5, <1>6, Indices DEF WellFormed
  <1> QED
    BY <1>2, <1>3, <1>5, <1>7

-----------------------------------------------------------------------------
(* One lemma per action that adds a rule.                                   *)

(* A rule about to be recorded is of a series that is not recorded yet.     *)
LEMMA Fresh ==
    ASSUME ControlOK, RecordsTaken, phase = "record", i \in DOMAIN spec,
           NEW s \in RuleSet, s.id = spec[i].name, s.record.base # "alert", ~Namesakes(s.id)
    PROVE  LET slo == spec[i]
           IN \/ \E m \in DOMAIN slo.windows :
                   m < k /\ s.record = metricNameErrorRate(slo.windows[m])
              \/ BudgetAt(slo) < k /\ s.record = metricNameErrorBudget(slo.objective)
              \/ MetaAt(slo) < k /\ s.record = metricNameSLO
  <1> PICK n \in DOMAIN spec : RecordedBy(s, n)
    BY DEF RecordsTaken
  <1>1. n = i
    BY DEF RecordedBy, Namesakes
  <1>2. \A m : Recorded(i, m) => m < k
    BY Indices DEF Recorded, Reached
  <1> QED
    BY <1>1, <1>2 DEF RecordedBy

LEMMA Bases ==
    /\ \A w : metricNameErrorRate(w).base = "errorRate"
    /\ \A w : metricNameErrorBudget(w).base = "errorBudget"
    /\ metricNameSLO.base = "slo"
  BY DEF metricNameErrorRate, metricNameErrorBudget, metricNameSLO

LEMMA RecordErrorRateOutput ==
    ASSUME IInv, OInv, RecordErrorRate
    PROVE  OInv'
  <1> DEFINE slo == spec[i]
             w == slo.windows[k]
             r == RateRule(slo, w)
             name == ruleGroupName(slo.name, "record", w.interval)
             key == errorRateKey(slo.name, w)
  <1>1. /\ ControlOK /\ Groups /\ i \in DOMAIN spec /\ i <= Len(spec)
        /\ phase = "record" /\ k \in DOMAIN slo.windows /\ WellFormed(slo)
    <2>1. /\ ControlOK /\ Groups /\ phase = "record" /\ i <= Len(spec)
          /\ k <= Len(slo.windows)
      BY DEF IInv, RecordErrorRate, Current
    <2>2. i \in DOMAIN spec /\ WellFormed(slo)
      BY <2>1, Indices
    <2> QED
      BY <2>1, <2>2, Indices, Positions
  <1>2. /\ AddRule(name, w.interval, r)
        /\ errorRateRecordingRules' = Put(errorRateRecordingRules, key, r)
        /\ i' = i /\ k' = k + 1 /\ UNCHANGED <<spec, alertEnabled, phase>>
        /\ UNCHANGED errorBudgetRecordingRules
    BY DEF RecordErrorRate, Current, sloId, RateRule
  <1>3. /\ DOMAIN errorRateRecordingRules' = DOMAIN errorRateRecordingRules \cup {key}
         /\ errorRateRecordingRules'[key] = r
         /\ \A x \in DOMAIN errorRateRecordingRules : x # key =>
              errorRateRecordingRules'[x] = errorRateRecordingRules[x]
    <2> HIDE DEF key, r
    <2> QED
      BY <1>2 DEF Put
  <1>4. w \in Window /\ slo.name \in SLONames
    BY <1>1, WindowTypes, Positions
  <1>5. /\ r \in Rule /\ r.id = slo.name /\ r.record = metricNameErrorRate(w)
        /\ r.record.base = "errorRate" /\ r.expr.reads = {}
    BY <1>4, MetricTypes
      DEF RateRule, generateErrorRateRecordingRule, generateErrorRateQuery, EmptyExpr,
          Rule, Expr, metricNameErrorRate
  <1>6. name \in GroupName /\ name.id = slo.name /\ name.interval = w.interval
    BY <1>4, MetricTypes, GroupNameType
  <1>7. Output' = Output \cup {<<name, r>>} /\ RuleSet' = RuleSet \cup {r}
    BY <1>1, <1>2, <1>5, <1>6, OutputStep, AddRuleStep
  <1>8. \A n \in DOMAIN spec :
          /\ \A m \in 1..MetaAt(spec[n]) :
               Recorded(n, m)' <=> Recorded(n, m) \/ (n = i /\ m = k)
          /\ \A m : ~Alerted(n, m)'
    BY <1>1, <1>2, RecordProgress
  <1>9. RecordsTaken'
    <2> PICK q, n, m : q = r /\ n = i /\ m = k
      OBVIOUS
    <2>1. RecordedBy(q, n)'
      <3>1. Recorded(n, m)'
        BY <1>1, <1>8, Positions
      <3>2. /\ m \in DOMAIN spec'[n].windows /\ q.id = spec'[n].name
            /\ q.record = metricNameErrorRate(spec'[n].windows[m])
        BY <1>1, <1>2, <1>5
      <3> QED
        BY <3>1, <3>2 DEF RecordedBy
    <2> QED
      BY <1>1, <1>2, <1>7, <1>8, <2>1, RecordsKept DEF OInv
  <1>10. DistinctSLONames' = DistinctSLONames
    BY <1>2 DEF DistinctSLONames
  <1>0. Held /\ Complete /\ Sound /\ Ended /\ (DistinctSLONames => Precede)
    BY DEF OInv
  <1>11. Once'
    <2>1. ASSUME NEW s \in RuleSet, s.id = r.id, s.record = r.record, ~Namesakes(r.id)
          PROVE  SameDurations(r.id, r.record.duration)
      <3>1. PICK m \in DOMAIN slo.windows :
              m < k /\ s.record = metricNameErrorRate(slo.windows[m])
        <4> HIDE DEF w, r
        <4>1. s.record.base = "errorRate" /\ s.id = slo.name
          BY <1>5, <2>1
        <4>2. \/ \E m \in DOMAIN slo.windows :
                   m < k /\ s.record = metricNameErrorRate(slo.windows[m])
              \/ s.record = metricNameErrorBudget(slo.objective)
              \/ s.record = metricNameSLO
          BY <1>1, <2>1, <4>1, Fresh DEF OInv
        <4> QED
          BY <4>1, <4>2, Bases
      <3>2. slo.windows[m].duration = w.duration /\ r.record.duration = w.duration
        BY <1>5, <2>1, <3>1 DEF metricNameErrorRate
      <3>3. m # k
        BY <1>1, <3>1, Indices
      <3> HIDE DEF r, w
      <3> QED
        BY <1>1, <1>5, <3>2, <3>3 DEF SameDurations, w
    <2>2. Doubled(r) \/ \A s \in RuleSet : ~(s.id = r.id /\ s.record = r.record)
      BY <1>5, <2>1 DEF Doubled
    <2> QED
      BY <1>1, <1>2, <1>5, <1>6, <2>2, OnceStep DEF OInv
  <1>12. Held'
    <2>1. \A n \in DOMAIN spec : \A m \in DOMAIN spec[n].windows :
            Recorded(n, m)' <=> Recorded(n, m) \/ (n = i /\ m = k)
      BY <1>1, <1>8, Indices, Positions
    <2>2. ASSUME NEW x \in DOMAIN errorRateRecordingRules'
          PROVE  RateHeld(x)'
      <3>1. CASE x = key
        <4> PICK n, m : n = i /\ m = k
          OBVIOUS
        <4>1. Recorded(n, m)' /\ LastRate(n, m)'
          <5>2. \A b \in DOMAIN spec : \A y \in DOMAIN spec[b].windows :
                  Recorded(b, y)' => b <= n
            BY <1>1, <2>1, Indices DEF Recorded, Reached
          <5>3. LastRate(n, m)'
            BY <1>2, <5>2 DEF LastRate
          <5>4. Recorded(n, m)'
            BY <1>1, <2>1
          <5> QED
            BY <5>3, <5>4
        <4> QED
          BY <1>1, <1>2, <1>3, <3>1, <4>1 DEF RateHeld
      <3>2. CASE x # key
        <4>1. x \in DOMAIN errorRateRecordingRules /\ RateHeld(x)
          BY <1>0, <1>3, <3>2 DEF Held
        <4> HIDE DEF r, key
        <4>2. errorRateRecordingRules'[x] = errorRateRecordingRules[x]
          BY <1>3, <3>2, <4>1
        <4>3. \A n \in DOMAIN spec : \A m \in DOMAIN spec[n].windows :
                n = i /\ m = k => errorRateKey(spec[n].name, spec[n].windows[m]) # x
          BY <3>2 DEF key
        <4> QED
          BY <1>2, <2>1, <4>1, <4>2, <4>3, RateHeldKept
      <3> QED
        BY <3>1, <3>2
    <2>3. ASSUME NEW id \in DOMAIN errorBudgetRecordingRules'
          PROVE  BudgetHeld(id)'
      <3>1. \A n \in DOMAIN spec :
              Recorded(n, BudgetAt(spec[n]))' <=> Recorded(n, BudgetAt(spec[n]))
        <4> TAKE n \in DOMAIN spec
        <4>1. BudgetAt(spec[n]) \in 1..MetaAt(spec[n]) /\ ~(n = i /\ k = BudgetAt(spec[n]))
          BY <1>1, Indices, Positions
        <4>2. BudgetAt(spec[n])' = BudgetAt(spec[n])
          BY <1>2 DEF BudgetAt
        <4>3. \A m : m = BudgetAt(spec[n]) => (Recorded(n, m)' <=> Recorded(n, m))
          BY <1>8, <4>1
        <4> QED
          BY <4>2, <4>3 DEF Recorded, Reached
      <3> QED
        BY <1>0, <1>2, <3>1, BudgetHeldKept DEF Held, BudgetAt, Recorded, Reached
    <2> QED
      BY <2>2, <2>3 DEF Held
  <1>13. /\ DistinctSLONames => Precede'
         /\ Complete' /\ Sound' /\ Ended'
    <2>1. DistinctSLONames => Precede'
      BY <1>0, <1>1, <1>2, <1>5, <1>6, PrecedeStep
    <2>2. Sound'
      <3>1. Stands(slo, <<name, r>>)
        BY <1>1 DEF Stands, RatePair, Range
      <3> QED
        BY <1>1, <1>2, <1>7, <1>0, <3>1, SoundStep
    <2>3. Ended'
      BY <1>1, <1>2 DEF Ended
    <2>4. Complete'
      <3> SUFFICES ASSUME NEW n \in DOMAIN spec
                   PROVE  RatesFound(n)' /\ BudgetFound(n)' /\ MetaFound(n)' /\ AlertsFound(n)'
        BY <1>2 DEF Complete
      <3>0. /\ RatesFound(n) /\ BudgetFound(n) /\ MetaFound(n) /\ AlertsFound(n)
            /\ WellFormed(spec[n]) /\ Output \subseteq Output'
        BY <1>1, <1>7, <1>0, Indices DEF Complete
      <3>1. RatesFound(n)'
        <4> SUFFICES ASSUME NEW m \in DOMAIN spec[n].windows, Recorded(n, m)'
                     PROVE  /\ errorRateKey(spec[n].name, spec[n].windows[m])
                                 \in DOMAIN errorRateRecordingRules'
                            /\ RatePair(spec[n], spec[n].windows[m]) \in Output'
          BY <1>2 DEF RatesFound
        <4>1. CASE n = i /\ m = k
          BY <1>7, <1>3, <4>1 DEF RatePair
        <4>2. CASE ~(n = i /\ m = k)
          <5>1. Recorded(n, m)
            BY <1>8, <3>0, <4>2, Positions
          <5> QED
            BY <1>3, <3>0, <5>1 DEF RatesFound
        <4> QED
          BY <4>1, <4>2
      <3>2. BudgetFound(n)'
        <4>1. ~(n = i /\ k = BudgetAt(spec[n]))
          BY <1>1, Positions
        <4> QED
          BY <1>2, <1>8, <3>0, <4>1, BudgetKept, Positions DEF BudgetAt
      <3>3. MetaFound(n)'
        <4>1. ~(n = i /\ k = MetaAt(spec[n]))
          BY <1>1, Positions
        <4> QED
          BY <1>2, <1>8, <3>0, <4>1, MetaKept, Positions DEF MetaAt
      <3>4. AlertsFound(n)'
        BY <1>2, <1>8, <3>0, AlertsKept
      <3> QED
        BY <3>1, <3>2, <3>3, <3>4
    <2> QED
      BY <2>1, <2>2, <2>3, <2>4
  <1> QED
    BY <1>9, <1>10, <1>11, <1>12, <1>13 DEF OInv

(* Steps that leave the output and the tables alone.                        *)
LEMMA QuietOutput ==
    ASSUME ControlOK, OInv, UNCHANGED <<spec, alertEnabled, ruleGroups, lookupVars>>,
           \A n \in DOMAIN spec :
             /\ \A m \in 1..MetaAt(spec[n]) :
                  /\ Recorded(n, m) => Recorded(n, m)'
                  /\ Recorded(n, m)' =>
                       \/ Recorded(n, m)
                       \/ m = BudgetAt(spec[n]) /\ spec[n].objective = NoWindow
             /\ \A m \in DOMAIN spec[n].alerts : Alerted(n, m)' => Alerted(n, m),
           Ended'
    PROVE  OInv'
  <1>1. /\ Output' = Output /\ RuleSet' = RuleSet /\ Precede' = Precede /\ Once' = Once
        /\ DistinctSLONames' = DistinctSLONames
    BY DEF Output, RuleSet, Precede, Once, Doubled, Namesakes, SameDurations, DistinctSLONames
  <1>2. RecordsTaken'
    BY <1>1, RecordedByKept DEF OInv, RecordsTaken
  <1>4. Held'
    BY HeldKept DEF OInv
  <1>3. Complete' /\ Sound'
    <2>0. Complete /\ Sound
      BY DEF OInv
    <2>1. Sound'
      <3>1. \A slo : Expected(spec, slo)' = Expected(spec, slo)
        BY DEF Expected
      <3> QED
        BY <1>1, <2>0, <3>1 DEF Sound
    <2>2. Complete'
      <3> SUFFICES ASSUME NEW n \in DOMAIN spec
                   PROVE  RatesFound(n)' /\ BudgetFound(n)' /\ MetaFound(n)' /\ AlertsFound(n)'
        BY DEF Complete
      <3>0. /\ RatesFound(n) /\ BudgetFound(n) /\ MetaFound(n) /\ AlertsFound(n)
            /\ WellFormed(spec[n]) /\ Output \subseteq Output'
        BY <1>1, <2>0, Indices DEF Complete
      <3>5. /\ \A m \in DOMAIN spec[n].windows :
                 m \in 1..MetaAt(spec[n])
                 /\ m # BudgetAt(spec[n])
            /\ BudgetAt(spec[n]) \in 1..MetaAt(spec[n])
            /\ MetaAt(spec[n]) \in 1..MetaAt(spec[n]) /\ MetaAt(spec[n]) # BudgetAt(spec[n])
        BY <3>0, Positions
      <3>6. BudgetAt(spec[n])' = BudgetAt(spec[n]) /\ MetaAt(spec[n])' = MetaAt(spec[n])
        BY DEF BudgetAt, MetaAt
      <3>1. RatesFound(n)'
        BY <3>0, <3>5, RatesKept DEF lookupVars
      <3>2. BudgetFound(n)'
        BY <3>0, <3>5, <3>6, BudgetKept DEF lookupVars
      <3>3. MetaFound(n)'
        BY <3>0, <3>5, <3>6, MetaKept
      <3>4. AlertsFound(n)'
        BY <3>0, AlertsKept
      <3> QED
        BY <3>1, <3>2, <3>3, <3>4
    <2> QED
      BY <2>1, <2>2
  <1> QED
    BY <1>1, <1>2, <1>3, <1>4 DEF OInv

LEMMA RecordErrorBudgetOutput ==
    ASSUME IInv, OInv, RecordErrorBudget
    PROVE  OInv'
  <1> DEFINE slo == spec[i]
             w == slo.objective
             key == errorRateKey(slo.name, w)
             e == errorRateRecordingRules[key]
             r == generateErrorBudgetRecordingRule(slo.name, w, e)
             name == ruleGroupName(slo.name, "record", w.interval)
  <1>1. /\ ControlOK /\ Groups /\ Rules /\ i \in DOMAIN spec /\ i <= Len(spec)
        /\ phase = "record" /\ k = BudgetAt(slo) /\ WellFormed(slo)
    <2>1. /\ ControlOK /\ Groups /\ Rules /\ phase = "record" /\ i <= Len(spec)
          /\ k = Len(slo.windows) + 1
      BY DEF IInv, RecordErrorBudget, Current
    <2> QED
      BY <2>1, Indices DEF BudgetAt
  <1>2. phase' = "record" /\ UNCHANGED <<spec, alertEnabled>>
    BY RecordErrorBudgetStep DEF RecordErrorBudget
  <1>3. /\ i' = i /\ k' = k + 1 /\ phase' = phase
        /\ \/ w = NoWindow /\ UNCHANGED <<groupVars, lookupVars>>
           \/ /\ w # NoWindow /\ key \in DOMAIN errorRateRecordingRules
              /\ AddRule(name, w.interval, r)
              /\ errorBudgetRecordingRules' = Put(errorBudgetRecordingRules, slo.name, r)
              /\ UNCHANGED errorRateRecordingRules
    BY <1>2 DEF RecordErrorBudget, Fail, Current, sloId
  <1>4. \A n \in DOMAIN spec :
          /\ \A m \in 1..MetaAt(spec[n]) :
               Recorded(n, m)' <=> Recorded(n, m) \/ (n = i /\ m = k)
          /\ \A m : ~Alerted(n, m)'
    BY <1>1, <1>2, <1>3, RecordProgress
  <1>5. Ended'
    BY <1>1, <1>2 DEF OInv, Ended
  <1>6. CASE w = NoWindow
    BY <1>1, <1>2, <1>3, <1>4, <1>5, <1>6, QuietOutput DEF groupVars
  <1>7. CASE w # NoWindow
    <2>1. /\ AddRule(name, w.interval, r)
          /\ errorBudgetRecordingRules' = Put(errorBudgetRecordingRules, slo.name, r)
          /\ UNCHANGED errorRateRecordingRules
      BY <1>3, <1>7
    <2>2. w \in Window /\ slo.name \in SLONames
      BY <1>1, <1>7, WindowTypes
    <2>3. e \in Rule
      BY <1>1, <1>3, <1>7 DEF Rules, LookupsOK
    <2>4. /\ r \in Rule /\ r.id = slo.name /\ r.record = metricNameErrorBudget(w)
          /\ r.record.base = "errorBudget" /\ r.expr.reads \subseteq {e.record}
      <3>1. e.record \in Metric
        BY <2>3 DEF Rule
      <3> HIDE DEF e
      <3> QED
        BY <2>2, <3>1, MetricTypes
          DEF generateErrorBudgetRecordingRule, EmptyExpr, Rule, Expr, metricNameErrorBudget
    <2>5. name \in GroupName /\ name.id = slo.name /\ name.interval = w.interval
      BY <2>2, MetricTypes, GroupNameType
    <2>6. Output' = Output \cup {<<name, r>>} /\ RuleSet' = RuleSet \cup {r}
      BY <1>1, <2>1, <2>4, <2>5, OutputStep, AddRuleStep
    <2>7. /\ DOMAIN errorBudgetRecordingRules'
               = DOMAIN errorBudgetRecordingRules \cup {slo.name}
          /\ errorBudgetRecordingRules'[slo.name] = r
          /\ \A x \in DOMAIN errorBudgetRecordingRules : x # slo.name =>
               errorBudgetRecordingRules'[x] = errorBudgetRecordingRules[x]
      <3> HIDE DEF slo, r
      <3> QED
        BY <2>1 DEF Put
    <2>8. RecordsTaken'
      <3> PICK q, n : q = r /\ n = i
        OBVIOUS
      <3>1. RecordedBy(q, n)'
        <4>1. Recorded(n, BudgetAt(spec[n]))'
          <5> PICK m : m = k
            OBVIOUS
          <5>1. Recorded(n, m)' /\ m = BudgetAt(spec[n])'
            BY <1>1, <1>2, <1>4, Positions DEF BudgetAt
          <5> QED
            BY <5>1
        <4>2. /\ q.id = spec'[n].name /\ spec'[n].objective # NoWindow
              /\ q.record = metricNameErrorBudget(spec'[n].objective)
          BY <1>2, <1>7, <2>4
        <4> QED
          BY <4>1, <4>2 DEF RecordedBy
      <3> QED
        BY <1>1, <1>2, <1>4, <2>6, <3>1, RecordsKept DEF OInv
    <2>9. DistinctSLONames' = DistinctSLONames
      BY <1>2 DEF DistinctSLONames
    <2>0. Held /\ Complete /\ Sound /\ (DistinctSLONames => Precede)
      BY DEF OInv
    <2>10. Once'
      <3>1. ASSUME NEW s \in RuleSet, s.id = r.id, s.record = r.record, ~Namesakes(r.id)
            PROVE  FALSE
        <4>1. s.record.base = "errorBudget" /\ s.id = slo.name
          BY <2>4, <3>1
        <4>2. \/ \E m \in DOMAIN slo.windows :
                   s.record = metricNameErrorRate(slo.windows[m])
              \/ BudgetAt(slo) < k
              \/ s.record = metricNameSLO
          BY <1>1, <3>1, <4>1, Fresh DEF OInv
        <4>3. ~(BudgetAt(slo) < k)
          BY <1>1, Indices
        <4> QED
          BY <4>1, <4>2, <4>3, Bases
      <3>2. Doubled(r) \/ \A s \in RuleSet : ~(s.id = r.id /\ s.record = r.record)
        BY <3>1 DEF Doubled
      <3> QED
        BY <1>1, <1>2, <2>1, <2>4, <2>5, <3>2, OnceStep DEF OInv
    <2>11. /\ e = RateRule(slo, w) /\ r = BudgetRule(slo, w)
           /\ RatePair(slo, w) \in Output
      <3> PICK m \in DOMAIN slo.windows : slo.windows[m] = w
        BY <1>1, <1>7, WindowTypes, Positions
      <3>1. m < k
        BY <1>1, Positions
      <3> QED
        BY <1>1, <2>0, <3>1, CurrentHeld DEF BudgetRule
    <2>12. DistinctSLONames => Precede'
      <3>1. r.expr.reads = {} \/ (<<name, e>> \in Output /\ e.record \in r.expr.reads)
        BY <2>4, <2>11 DEF RatePair
      <3> QED
        BY <1>1, <2>0, <2>1, <2>4, <2>5, <3>1, PrecedeStep
    <2>13. Sound'
      <3>1. Stands(slo, <<name, r>>)
        BY <1>7, <2>11 DEF Stands, BudgetPair
      <3> QED
        BY <1>1, <1>2, <2>0, <2>6, <3>1, SoundStep
    <2>14. Complete'
      <3> SUFFICES ASSUME NEW n \in DOMAIN spec
                   PROVE  RatesFound(n)' /\ BudgetFound(n)' /\ MetaFound(n)' /\ AlertsFound(n)'
        BY <1>2 DEF Complete
      <3>0. /\ RatesFound(n) /\ BudgetFound(n) /\ MetaFound(n) /\ AlertsFound(n)
            /\ WellFormed(spec[n]) /\ Output \subseteq Output'
        BY <1>1, <2>0, <2>6, Indices DEF Complete
      <3>1. RatesFound(n)'
        <4>1. \A m \in DOMAIN spec[n].windows : Recorded(n, m)' => Recorded(n, m)
          BY <1>1, <1>4, <3>0, Positions
        <4> QED
          BY <1>2, <2>1, <3>0, <4>1, RatesKept
      <3>2. BudgetFound(n)'
        <4>1. CASE n = i
          BY <1>2, <1>7, <2>6, <2>7, <2>11, <4>1 DEF BudgetFound, BudgetPair
        <4>2. CASE n # i
          <5>1. Recorded(n, BudgetAt(spec[n]))' => Recorded(n, BudgetAt(spec[n]))
            <6> PICK m : m = BudgetAt(spec[n])
              OBVIOUS
            <6>1. m = BudgetAt(spec[n])'
              BY <1>2 DEF BudgetAt
            <6> QED
              BY <1>4, <3>0, <4>2, <6>1, Positions
          <5> QED
            BY <1>2, <2>7, <3>0, <5>1 DEF BudgetFound
        <4> QED
          BY <4>1, <4>2
      <3>3. MetaFound(n)'
        <4>1. ~(n = i /\ k = MetaAt(spec[n]))
          BY <1>1, Positions
        <4> QED
          BY <1>2, <1>4, <3>0, <4>1, MetaKept, Positions DEF MetaAt
      <3>4. AlertsFound(n)'
        BY <1>2, <1>4, <3>0, AlertsKept
      <3> QED
        BY <3>1, <3>2, <3>3, <3>4
    <2>15. Held'
      <3>1. ASSUME NEW x \in DOMAIN errorRateRecordingRules'
            PROVE  RateHeld(x)'
        <4>1. \A n \in DOMAIN spec : \A m \in DOMAIN spec[n].windows :
                Recorded(n, m)' <=> Recorded(n, m)
          BY <1>1, <1>4, Indices, Positions
        <4> QED
          BY <1>2, <2>0, <2>1, <4>1, RateHeldKept DEF Held
      <3>2. \A n \in DOMAIN spec :
              LET at == BudgetAt(spec[n])
              IN Recorded(n, at)' <=> Recorded(n, at) \/ n = i
        <4> TAKE n \in DOMAIN spec
        <4> PICK m : m = BudgetAt(spec[n])
          OBVIOUS
        <4>1. m = BudgetAt(spec[n])' /\ m \in 1..MetaAt(spec[n])
          BY <1>1, <1>2, Indices, Positions DEF BudgetAt
        <4> QED
          BY <1>1, <1>4, <4>1
      <3>3. ASSUME NEW id \in DOMAIN errorBudgetRecordingRules'
            PROVE  BudgetHeld(id)'
        <4>1. CASE id = slo.name
          <5> PICK n : n = i
            OBVIOUS
          <5>1. \A b \in DOMAIN spec : Recorded(b, BudgetAt(spec[b]))' => b <= n
            BY <1>1, <3>2, Indices DEF Recorded, Reached
          <5>2. LastBudget(n)'
            BY <1>2, <5>1 DEF LastBudget
          <5>3. Recorded(n, BudgetAt(spec[n]))'
            BY <1>1, <3>2
          <5>4. /\ n \in DOMAIN spec' /\ spec'[n].objective # NoWindow /\ id = spec'[n].name
                /\ errorBudgetRecordingRules'[id] = BudgetRule(spec'[n], spec'[n].objective)
            BY <1>1, <1>2, <1>7, <2>7, <2>11, <4>1
          <5> QED
            BY <5>2, <5>3, <5>4 DEF BudgetHeld
        <4>2. CASE id # slo.name
          <5>1. /\ id \in DOMAIN errorBudgetRecordingRules
                /\ errorBudgetRecordingRules'[id] = errorBudgetRecordingRules[id]
            <6> HIDE DEF slo, r
            <6> QED
              BY <2>7, <4>2
          <5> QED
            BY <1>2, <2>0, <3>2, <4>2, <5>1, BudgetHeldKept DEF Held
        <4> QED
          BY <4>1, <4>2
      <3> QED
        BY <3>1, <3>3 DEF Held
    <2> QED
      BY <1>5, <2>8, <2>9, <2>10, <2>12, <2>13, <2>14, <2>15 DEF OInv
  <1> QED
    BY <1>6, <1>7

LEMMA RecordMetaOutput ==
    ASSUME IInv, OInv, RecordMeta
    PROVE  OInv'
  <1> DEFINE slo == spec[i]
             r == generateMetaRecordingRule(slo.name)
             name == ruleGroupName(slo.name, "meta", 0)
  <1>1. /\ ControlOK /\ Groups /\ i \in DOMAIN spec /\ i <= Len(spec)
        /\ phase = "record" /\ k = MetaAt(slo) /\ WellFormed(slo)
    <2>1. /\ ControlOK /\ Groups /\ phase = "record" /\ i <= Len(spec)
          /\ k = Len(slo.windows) + 2
      BY DEF IInv, RecordMeta, Current
    <2> QED
      BY <2>1, Indices DEF MetaAt
  <1>2. /\ AddRule(name, 0, r) /\ i' = i + 1 /\ k' = 1
        /\ UNCHANGED <<spec, alertEnabled, phase, lookupVars>>
    BY DEF RecordMeta, Current, sloId
  <1>3. slo.name \in SLONames
    BY <1>1, WindowTypes
  <1>4. /\ r \in Rule /\ r.id = slo.name /\ r.record = metricNameSLO
        /\ r.record.base = "slo" /\ r.expr.reads = {}
    BY <1>3 DEF generateMetaRecordingRule, metricNameSLO, Rule, Expr, Metric
  <1>5. name \in GroupName /\ name.id = slo.name /\ name.interval = 0
    BY <1>3, GroupNameType
  <1>6. Output' = Output \cup {<<name, r>>} /\ RuleSet' = RuleSet \cup {r}
    BY <1>1, <1>2, <1>4, <1>5, OutputStep, AddRuleStep
  <1>7. \A n \in DOMAIN spec :
          /\ \A m \in 1..MetaAt(spec[n]) :
               Recorded(n, m)' <=> Recorded(n, m) \/ (n = i /\ m = k)
          /\ \A m : ~Alerted(n, m)'
    BY <1>1, <1>2, RecordProgress
  <1>8. RecordsTaken'
    <2> PICK q, n : q = r /\ n = i
      OBVIOUS
    <2>1. RecordedBy(q, n)'
      <3>1. Recorded(n, MetaAt(spec[n]))'
        <4> PICK m : m = k
          OBVIOUS
        <4>1. Recorded(n, m)' /\ m = MetaAt(spec[n])'
          BY <1>1, <1>2, <1>7, Positions DEF MetaAt
        <4> QED
          BY <4>1
      <3>2. q.id = spec'[n].name /\ q.record = metricNameSLO
        BY <1>2, <1>4
      <3> QED
        BY <3>1, <3>2 DEF RecordedBy, metricNameSLO
    <2> QED
      BY <1>1, <1>2, <1>6, <1>7, <2>1, RecordsKept DEF OInv
  <1>9. DistinctSLONames' = DistinctSLONames
    BY <1>2 DEF DistinctSLONames
  <1>0. Held /\ Complete /\ Sound /\ Ended /\ (DistinctSLONames => Precede)
    BY DEF OInv
  <1>10. Once'
    <2>1. ASSUME NEW s \in RuleSet, s.id = r.id, s.record = r.record, ~Namesakes(r.id)
          PROVE  FALSE
      <3>1. s.record.base = "slo" /\ s.id = slo.name
        BY <1>4, <2>1
      <3>2. \/ \E m \in DOMAIN slo.windows :
                 s.record = metricNameErrorRate(slo.windows[m])
            \/ s.record = metricNameErrorBudget(slo.objective)
            \/ MetaAt(slo) < k
        BY <1>1, <2>1, <3>1, Fresh DEF OInv
      <3>3. ~(MetaAt(slo) < k)
        BY <1>1, Indices
      <3> QED
        BY <3>1, <3>2, <3>3, Bases
    <2>2. Doubled(r) \/ \A s \in RuleSet : ~(s.id = r.id /\ s.record = r.record)
      BY <2>1 DEF Doubled
    <2> QED
      BY <1>1, <1>2, <1>4, <1>5, <2>2, OnceStep DEF OInv
  <1>12. Held'
    <2>1. \A n \in DOMAIN spec : \A m \in 1..MetaAt(spec[n]) :
            /\ Recorded(n, m) => Recorded(n, m)'
            /\ Recorded(n, m)' => Recorded(n, m) \/ m = MetaAt(spec[n])
      BY <1>1, <1>7
    <2> QED
      BY <1>0, <1>1, <1>2, <2>1, HeldKept
  <1>11. /\ DistinctSLONames => Precede'
         /\ Complete' /\ Sound' /\ Ended'
    <2>1. DistinctSLONames => Precede'
      BY <1>1, <1>2, <1>4, <1>5, <1>0, PrecedeStep
    <2>2. Sound'
      <3>1. Stands(slo, <<name, r>>)
        BY DEF Stands, MetaPair
      <3> QED
        BY <1>1, <1>2, <1>6, <1>0, <3>1, SoundStep
    <2>3. Ended'
      BY <1>1, <1>2 DEF Ended
    <2>4. Complete'
      <3> SUFFICES ASSUME NEW n \in DOMAIN spec
                   PROVE  RatesFound(n)' /\ BudgetFound(n)' /\ MetaFound(n)' /\ AlertsFound(n)'
        BY <1>2 DEF Complete
      <3>0. /\ RatesFound(n) /\ BudgetFound(n) /\ MetaFound(n) /\ AlertsFound(n)
            /\ WellFormed(spec[n]) /\ Output \subseteq Output'
        BY <1>1, <1>6, <1>0, Indices DEF Complete
      <3>1. RatesFound(n)'
        <4>1. \A m \in DOMAIN spec[n].windows : Recorded(n, m)' => Recorded(n, m)
          BY <1>1, <1>7, <3>0, Positions
        <4> QED
          BY <1>2, <3>0, <4>1, RatesKept DEF lookupVars
      <3>2. BudgetFound(n)'
        <4>1. ~(n = i /\ k = BudgetAt(spec[n]))
          BY <1>1, Positions
        <4> QED
          BY <1>2, <1>7, <3>0, <4>1, BudgetKept, Positions DEF BudgetAt, lookupVars
      <3>3. MetaFound(n)'
        <4>1. CASE n = i
          BY <1>2, <1>6, <4>1 DEF MetaFound, MetaPair
        <4>2. CASE n # i
          BY <1>2, <1>7, <3>0, <4>2, MetaKept, Positions DEF MetaAt
        <4> QED
          BY <4>1, <4>2
      <3>4. AlertsFound(n)'
        BY <1>2, <1>7, <3>0, AlertsKept
      <3> QED
        BY <3>1, <3>2, <3>3, <3>4
    <2> QED
      BY <2>1, <2>2, <2>3, <2>4
  <1> QED
    BY <1>8, <1>9, <1>10, <1>11, <1>12 DEF OInv

-----------------------------------------------------------------------------
(* Alerts.                                                                  *)

LEMMA AlertProgress ==
    ASSUME ControlOK, phase = "alert", alertEnabled,
           UNCHANGED <<spec, alertEnabled, phase, i>>, k' = k + 1
    PROVE  \A n \in DOMAIN spec : \A m \in DOMAIN spec[n].alerts :
             Alerted(n, m)' <=> Alerted(n, m) \/ (n = i /\ m = k)
  <1> TAKE n \in DOMAIN spec
  <1> TAKE m \in DOMAIN spec[n].alerts
  <1>1. n \in Nat /\ m \in Nat /\ i \in Nat /\ k \in Nat
    BY Indices, Positions
  <1>2. m < k + 1 <=> m < k \/ m = k
    BY <1>1
  <1> QED
    BY <1>2 DEF Alerted, Reached

(* When recording is over, what an alert finds under a name is the rule of  *)
(* the last SLO of the name that has one.                                   *)
LEMMA LastIs ==
    ASSUME NEW S, S \subseteq Nat, NEW n \in S, \A m \in S : m <= n
    PROVE  Last(S) = n
  <1>1. \A x \in S : (\A m \in S : m <= x) => x = n
    OBVIOUS
  <1>2. Last(S) \in S /\ \A m \in S : m <= Last(S)
    BY DEF Last
  <1> QED
    BY <1>1, <1>2

LEMMA SeenRate ==
    ASSUME ControlOK, Held, Complete, phase # "record",
           NEW n \in DOMAIN spec, NEW m \in DOMAIN spec[n].windows
    PROVE  LET slo == spec[n]
               w == slo.windows[m]
               key == errorRateKey(slo.name, w)
           IN /\ key \in DOMAIN errorRateRecordingRules
              /\ errorRateRecordingRules[key] = RateRule(slo, SeenWindow(spec, slo, w))
              /\ DistinctSLONames => errorRateRecordingRules[key] = RateRule(slo, w)
              /\ RatePair(slo, w) \in Output
  <1> DEFINE slo == spec[n]
             w == slo.windows[m]
             key == errorRateKey(slo.name, w)
             having == {y \in DOMAIN spec : /\ spec[y].name = slo.name
                                            /\ \E v \in Range(spec[y].windows) : v.name = w.name}
  <1>1. key \in DOMAIN errorRateRecordingRules /\ RatePair(slo, w) \in Output
    BY AllRecorded DEF Complete, RatesFound
  <1> PICK b \in DOMAIN spec : \E x \in DOMAIN spec[b].windows :
         /\ LastRate(b, x) /\ key = errorRateKey(spec[b].name, spec[b].windows[x])
         /\ errorRateRecordingRules[key] = RateRule(spec[b], spec[b].windows[x])
    BY <1>1 DEF Held, RateHeld
  <1> PICK x \in DOMAIN spec[b].windows :
         /\ LastRate(b, x) /\ key = errorRateKey(spec[b].name, spec[b].windows[x])
         /\ errorRateRecordingRules[key] = RateRule(spec[b], spec[b].windows[x])
    OBVIOUS
  <1> DEFINE v == spec[b].windows[x]
  <1>2. spec[b].name = slo.name /\ v.name = w.name
    BY DEF errorRateKey
  <1>3. v \in Range(spec[b].windows) /\ b \in having
    BY <1>2 DEF Range
  <1>4. ASSUME NEW y \in having PROVE y <= b
    <2> PICK z \in DOMAIN spec[y].windows : spec[y].windows[z].name = w.name
      BY DEF Range
    <2>1. errorRateKey(spec[y].name, spec[y].windows[z]) = errorRateKey(spec[b].name, v)
      BY <1>2 DEF errorRateKey
    <2> QED
      BY <2>1, AllRecorded DEF LastRate
  <1>5. Last(having) = b
    <2>1. having \subseteq Nat
      BY Indices
    <2> HIDE DEF having
    <2> QED
      BY <1>3, <1>4, <2>1, LastIs
  <1>6. \A y \in Range(spec[b].windows) : y.name = w.name => y = v
    BY <1>2, Indices DEF Range, WellFormed
  <1>7. SeenWindow(spec, slo, w) = v
    <2>1. SeenWindow(spec, slo, w)
            = CHOOSE y \in Range(spec[Last(having)].windows) : y.name = w.name
      BY DEF SeenWindow
    <2> HIDE DEF having, v
    <2> QED
      BY <1>2, <1>3, <1>5, <1>6, <2>1
  <1>8. errorRateRecordingRules[key] = RateRule(slo, v)
    BY <1>2 DEF RateRule
  <1>9. ASSUME DistinctSLONames PROVE v = w
    <2>1. b = n
      BY <1>2, <1>9 DEF DistinctSLONames
    <2>2. w \in Range(spec[b].windows)
      BY <2>1 DEF Range
    <2> QED
      BY <1>6, <2>2
  <1> QED
    BY <1>1, <1>7, <1>8, <1>9

LEMMA SeenBudget ==
    ASSUME ControlOK, Held, Complete, phase # "record", NEW n \in DOMAIN spec
    PROVE  LET slo == spec[n]
               budget == errorBudgetRecordingRules[slo.name]
           IN /\ slo.name \in DOMAIN errorBudgetRecordingRules <=>
                   \E t \in Range(spec) : t.name = slo.name /\ t.objective # NoWindow
              /\ slo.objective # NoWindow =>
                   /\ budget = BudgetRule(slo, SeenObjective(spec, slo))
                   /\ DistinctSLONames => budget = BudgetRule(slo, slo.objective)
                   /\ BudgetPair(slo, slo.objective) \in Output
  <1> DEFINE slo == spec[n]
             having == {y \in DOMAIN spec : /\ spec[y].name = slo.name
                                            /\ spec[y].objective # NoWindow}
  <1>1. \A y \in DOMAIN spec : spec[y].objective # NoWindow =>
          /\ spec[y].name \in DOMAIN errorBudgetRecordingRules
          /\ BudgetPair(spec[y], spec[y].objective) \in Output
    BY AllRecorded DEF Complete, BudgetFound
  <1>2. ASSUME slo.name \in DOMAIN errorBudgetRecordingRules
        PROVE  \E b \in having :
                 /\ LastBudget(b)
                 /\ errorBudgetRecordingRules[slo.name] = BudgetRule(spec[b], spec[b].objective)
    BY <1>2 DEF Held, BudgetHeld
  <1>3. slo.name \in DOMAIN errorBudgetRecordingRules <=>
          \E t \in Range(spec) : t.name = slo.name /\ t.objective # NoWindow
    BY <1>1, <1>2 DEF Range
  <1>4. ASSUME slo.objective # NoWindow
        PROVE  /\ errorBudgetRecordingRules[slo.name] = BudgetRule(slo, SeenObjective(spec, slo))
               /\ DistinctSLONames =>
                    errorBudgetRecordingRules[slo.name] = BudgetRule(slo, slo.objective)
               /\ BudgetPair(slo, slo.objective) \in Output
    <2> PICK b \in having :
           /\ LastBudget(b)
           /\ errorBudgetRecordingRules[slo.name] = BudgetRule(spec[b], spec[b].objective)
      BY <1>1, <1>2, <1>4
    <2>1. \A y \in having : y <= b
      BY AllRecorded DEF LastBudget
    <2>2. Last(having) = b
      <3>1. having \subseteq Nat
        BY Indices
      <3> HIDE DEF having
      <3> QED
        BY <2>1, <3>1, LastIs
    <2>3. SeenObjective(spec, slo) = spec[b].objective
      BY <2>2 DEF SeenObjective
    <2>4. BudgetRule(spec[b], spec[b].objective) = BudgetRule(slo, spec[b].objective)
      BY DEF BudgetRule, RateRule
    <2>5. DistinctSLONames => b = n
      BY DEF DistinctSLONames
    <2> QED
      BY <1>1, <1>4, <2>3, <2>4, <2>5
  <1> QED
    BY <1>3, <1>4

(* An alert joins the output behind a rule it reads.                        *)
LEMMA AlertOutput ==
    ASSUME IInv, OInv, phase = "alert", i \in DOMAIN spec, k \in DOMAIN spec[i].alerts,
           NEW name \in GroupName, NEW sources, \A s \in sources : s \in Rule,
           NEW r, r = generateAlertingRule(name.id, sources),
           AddRule(name, name.interval, r),
           k' = k + 1, UNCHANGED <<spec, alertEnabled, phase, i, lookupVars>>,
           DistinctSLONames => \E s \in sources : <<name, s>> \in Output,
           LET slo == spec[i]
               a == slo.alerts[k]
           IN /\ slo.objective # NoWindow
              /\ \/ a.kind = "burnRate" /\ <<name, r>> = BurnRatePair(spec, slo, a)
                 \/ /\ a.kind = "errorBudget"
                    /\ <<name, r>> = BudgetAlertPair(spec, slo, slo.objective)
    PROVE  OInv'
  <1>1. ControlOK /\ Groups /\ WellFormed(spec[i])
    BY Indices DEF IInv
  <1>2. /\ r \in Rule /\ r.record.base = "alert" /\ r.id = name.id
        /\ r.expr.reads = {s.record : s \in sources}
    <2>1. name.id \in SLONames
      BY DEF GroupName
    <2>2. {s.record : s \in sources} \subseteq Metric
      BY DEF Rule
    <2>3. [base |-> "alert", duration |-> 0] \in Metric
      BY DEF Metric
    <2> QED
      BY <2>1, <2>2, <2>3 DEF generateAlertingRule, Rule, Expr
  <1>3. Output' = Output \cup {<<name, r>>} /\ RuleSet' = RuleSet \cup {r}
    BY <1>1, <1>2, OutputStep, AddRuleStep
  <1>4. \A n, m : Recorded(n, m) /\ Recorded(n, m)'
    BY DEF Recorded
  <1>5. RecordsTaken'
    BY <1>1, <1>2, <1>3, <1>4, RecordsKept DEF OInv
  <1>6. DistinctSLONames' = DistinctSLONames
    BY DEF DistinctSLONames
  <1>7. Once'
    BY <1>1, <1>2, OnceStep DEF OInv
  <1>9. Held'
    BY <1>1, <1>4, HeldKept DEF OInv
  <1>8. /\ DistinctSLONames => Precede'
        /\ Complete' /\ Sound' /\ Ended'
    <2> DEFINE slo == spec[i]
               a == slo.alerts[k]
    <2>0. Complete /\ Sound /\ Ended /\ alertEnabled
      BY DEF OInv, Ended
    <2>1. /\ slo.objective # NoWindow
          /\ \/ a.kind = "burnRate" /\ <<name, r>> = BurnRatePair(spec, slo, a)
             \/ /\ a.kind = "errorBudget"
                /\ <<name, r>> = BudgetAlertPair(spec, slo, slo.objective)
      OBVIOUS
    <2>2. ASSUME DistinctSLONames PROVE Precede'
      <3> PICK s \in sources : <<name, s>> \in Output
        BY <2>2
      <3>1. s.record \in r.expr.reads
        BY <1>2
      <3> QED
        BY <1>1, <1>2, <2>2, <3>1, PrecedeStep DEF OInv
    <2>3. Sound'
      <3>1. Stands(slo, <<name, r>>)
        <4>1. a \in Range(slo.alerts)
          BY DEF Range
        <4> QED
          BY <2>0, <2>1, <4>1 DEF Stands
      <3> QED
        BY <1>1, <1>3, <2>0, <3>1, SoundStep
    <2>4. Ended'
      BY <2>0 DEF Ended
    <2>5. Complete'
      <3> SUFFICES ASSUME NEW n \in DOMAIN spec
                   PROVE  RatesFound(n)' /\ BudgetFound(n)' /\ MetaFound(n)' /\ AlertsFound(n)'
        BY DEF Complete
      <3>0. /\ RatesFound(n) /\ BudgetFound(n) /\ MetaFound(n) /\ AlertsFound(n)
            /\ Output \subseteq Output'
        BY <1>3, <2>0 DEF Complete
      <3>1. RatesFound(n)'
        BY <1>4, <3>0, RatesKept DEF lookupVars
      <3>2. BudgetFound(n)'
        BY <1>4, <3>0, BudgetKept DEF lookupVars
      <3>3. MetaFound(n)'
        BY <1>4, <3>0, MetaKept
      <3>4. AlertsFound(n)'
        <4> SUFFICES ASSUME NEW m \in DOMAIN spec[n].alerts, Alerted(n, m)'
                     PROVE  /\ spec[n].objective # NoWindow
                            /\ IF spec[n].alerts[m].kind = "burnRate"
                               THEN BurnRatePair(spec, spec[n], spec[n].alerts[m]) \in Output'
                               ELSE BudgetAlertPair(spec, spec[n], spec[n].objective) \in Output'
          BY DEF AlertsFound
        <4>1. CASE n = i /\ m = k
          BY <1>3, <2>1, <4>1
        <4>2. CASE ~(n = i /\ m = k)
          <5>1. Alerted(n, m)
            BY <1>1, <2>0, <4>2, AlertProgress
          <5> QED
            BY <3>0, <5>1 DEF AlertsFound
        <4> QED
          BY <4>1, <4>2
      <3> QED
        BY <3>1, <3>2, <3>3, <3>4
    <2> QED
      BY <2>2, <2>3, <2>4, <2>5
  <1> QED
    BY <1>5, <1>6, <1>7, <1>8, <1>9 DEF OInv

(* A failure is that of an alert on an objective without window.            *)
LEMMA FailOutput ==
    ASSUME IInv, OInv, phase = "alert", i \in DOMAIN spec, k \in DOMAIN spec[i].alerts,
           UNCHANGED <<spec, alertEnabled>>, NEW how \in {"failed", "panic"}, Fail(how),
           spec[i].objective = NoWindow, k = 1 => how = Refusal(i)
    PROVE  OInv'
  <1>1. ControlOK /\ WellFormed(spec[i])
    BY Indices DEF IInv
  <1>2. \A n, m : Recorded(n, m) /\ Recorded(n, m)' /\ ~Alerted(n, m)'
    BY DEF Recorded, Alerted, Fail
  <1>3. Ended'
    <2>1. ASSUME NEW n \in DOMAIN spec, Unusable(n)
          PROVE  ~Alerted(n, 1)
      <3>1. 1 \in DOMAIN spec[n].alerts
        <4>1. spec[n].alerts \in Seq(Alert)
          BY <1>1, Indices DEF WellFormed, SLO
        <4> QED
          BY <2>1, <4>1 DEF Unusable
      <3> QED
        BY <2>1, <3>1 DEF OInv, Complete, AlertsFound, Unusable
    <2>2. alertEnabled /\ \A n : ~Alerted(n, 1) => ~Reached(n, 1)
      BY DEF OInv, Ended, Alerted
    <2>3. Unusable(i) /\ k = 1
      <3>1. spec[i].alerts # <<>>
        OBVIOUS
      <3>2. Unusable(i)
        BY <3>1 DEF Unusable
      <3>3. ~(1 < k)
        BY <2>1, <2>2, <3>2 DEF Reached
      <3> QED
        BY <1>1, <3>2, <3>3, Indices
    <2>4. \A n \in DOMAIN spec : Unusable(n) => i <= n
      BY <1>1, <2>1, <2>2, Indices DEF Reached
    <2>5. \A n : Unusable(n)' = Unusable(n) /\ Refusal(n)' = Refusal(n)
      BY DEF Unusable, Refusal
    <2> QED
      BY <2>2, <2>3, <2>4, <2>5 DEF Ended, Fail
  <1> QED
    BY <1>1, <1>2, <1>3, QuietOutput DEF Fail, groupVars

LEMMA AlertBurnRateOutput ==
    ASSUME IInv, OInv, AlertBurnRate
    PROVE  OInv'
  <1> DEFINE slo == spec[i]
             a == slo.alerts[k]
             windows == Range(a.windows)
             keys == {errorRateKey(slo.name, w) : w \in windows}
             interval == a.windows[1].interval
             name == ruleGroupName(slo.name, "alert", interval)
             sources == {errorRateRecordingRules[key] : key \in keys}
             found == SourcesFound(slo, keys)
  <1>1. /\ ControlOK /\ Rules /\ phase = "alert" /\ i \in DOMAIN spec
        /\ k \in DOMAIN slo.alerts /\ a.kind = "burnRate" /\ WellFormed(slo)
        /\ UNCHANGED <<spec, alertEnabled>>
    <2>1. /\ ControlOK /\ Rules /\ phase = "alert" /\ i <= Len(spec)
          /\ k <= Len(slo.alerts) /\ a.kind = "burnRate"
          /\ UNCHANGED <<spec, alertEnabled>>
      BY DEF IInv, AlertBurnRate, AlertReady, Current
    <2>2. i \in DOMAIN spec /\ WellFormed(slo)
      BY <2>1, Indices
    <2> QED
      BY <2>1, <2>2, Indices, Positions
  <1>2. /\ slo.name \in SLONames /\ a.windows[1] \in Window /\ windows \subseteq Window
        /\ a.windows[1] \in windows /\ interval \in Intervals
    <2>1. /\ a \in Alert /\ a.windows[1] \in Window /\ windows \subseteq Window
      BY <1>1, AlertTypes, Positions
    <2>2. 1 \in DOMAIN a.windows
      BY <1>1, <2>1 DEF Alert
    <2> QED
      BY <1>1, <2>1, <2>2, WindowTypes, MetricTypes DEF Range
  <1>3. ASSUME NEW w \in windows
        PROVE  /\ errorRateKey(slo.name, w) \in DOMAIN errorRateRecordingRules
               /\ errorRateRecordingRules[errorRateKey(slo.name, w)]
                    = RateRule(slo, SeenWindow(spec, slo, w))
               /\ DistinctSLONames =>
                    errorRateRecordingRules[errorRateKey(slo.name, w)] = RateRule(slo, w)
               /\ RatePair(slo, w) \in Output
    <2>1. PICK m \in DOMAIN slo.windows : slo.windows[m] = w
      <3> PICK x \in DOMAIN a.windows : w = a.windows[x]
        BY DEF Range
      <3> QED
        BY <1>1 DEF WellFormed
    <2> QED
      BY <1>1, <2>1, SeenRate DEF OInv
  <1>4. CASE ~found
    <2>1. Fail("failed")
      BY <1>4 DEF AlertBurnRate, Current, sloId
    <2>2. slo.objective = NoWindow /\ (k = 1 => Refusal(i) = "failed")
      BY <1>1, <1>3, <1>4 DEF SourcesFound, Refusal
    <2> QED
      BY <1>1, <2>1, <2>2, FailOutput
  <1>5. CASE found
    <2>1. /\ AddRule(name, interval, generateAlertingRule(slo.name, sources))
          /\ k' = k + 1 /\ UNCHANGED <<phase, i, lookupVars>>
      BY <1>5 DEF AlertBurnRate, Current, sloId
    <2>2. name \in GroupName /\ name.id = slo.name /\ name.interval = interval
      BY <1>2, GroupNameType
    <2>3. \A s \in sources : s \in Rule
      <3>1. keys \subseteq DOMAIN errorRateRecordingRules
        BY <1>5 DEF SourcesFound
      <3> QED
        BY <1>1, <3>1 DEF Rules, LookupsOK
    <2>4. slo.objective # NoWindow
      BY <1>5 DEF SourcesFound
    <2>5. <<name, generateAlertingRule(slo.name, sources)>> = BurnRatePair(spec, slo, a)
      <3>1. sources = {RateRule(slo, SeenWindow(spec, slo, w)) : w \in windows}
        <4> HIDE DEF windows
        <4> QED
          BY <1>3
      <3> QED
        BY <3>1 DEF BurnRatePair
    <2>6. ASSUME DistinctSLONames PROVE \E s \in sources : <<name, s>> \in Output
      <3>1. RateRule(slo, a.windows[1]) \in sources
        BY <1>2, <1>3, <2>6
      <3>2. <<name, RateRule(slo, a.windows[1])>> = RatePair(slo, a.windows[1])
        BY DEF RatePair, ruleGroupName
      <3> QED
        BY <1>2, <1>3, <3>1, <3>2
    <2> HIDE DEF name, sources, interval, keys, windows
    <2> QED
      BY <1>1, <2>1, <2>2, <2>3, <2>4, <2>5, <2>6, AlertOutput
  <1> QED
    BY <1>4, <1>5

LEMMA AlertErrorBudgetOutput ==
    ASSUME IInv, OInv, AlertErrorBudget
    PROVE  OInv'
  <1> DEFINE slo == spec[i]
             a == slo.alerts[k]
             w == slo.objective
             name == ruleGroupName(slo.name, "alert", w.interval)
             found == slo.name \in DOMAIN errorBudgetRecordingRules
             sources == {errorBudgetRecordingRules[slo.name]}
  <1>1. /\ ControlOK /\ Rules /\ phase = "alert" /\ i \in DOMAIN spec
        /\ k \in DOMAIN slo.alerts /\ a.kind = "errorBudget" /\ WellFormed(slo)
        /\ UNCHANGED <<spec, alertEnabled>>
    <2>1. /\ ControlOK /\ Rules /\ phase = "alert" /\ i <= Len(spec)
          /\ k <= Len(slo.alerts) /\ a.kind = "errorBudget"
          /\ UNCHANGED <<spec, alertEnabled>>
      BY DEF IInv, AlertErrorBudget, AlertReady, Current
    <2>2. i \in DOMAIN spec /\ WellFormed(slo)
      BY <2>1, Indices
    <2> QED
      BY <2>1, <2>2, Indices, Positions
  <1>2. /\ found <=> \E t \in Range(spec) : t.name = slo.name /\ t.objective # NoWindow
        /\ w # NoWindow =>
             /\ errorBudgetRecordingRules[slo.name] = BudgetRule(slo, SeenObjective(spec, slo))
             /\ DistinctSLONames => errorBudgetRecordingRules[slo.name] = BudgetRule(slo, w)
             /\ BudgetPair(slo, w) \in Output
    BY <1>1, SeenBudget DEF OInv
  <1>3. CASE ~found
    <2>1. Fail("failed")
      BY <1>3 DEF AlertErrorBudget, Current, sloId
    <2>2. w = NoWindow
      BY <1>1, <1>2, <1>3 DEF Range
    <2>3. Refusal(i) = "failed"
      BY <1>2, <1>3 DEF Refusal
    <2> QED
      BY <1>1, <2>1, <2>2, <2>3, FailOutput
  <1>4. CASE found /\ w = NoWindow
    <2>1. Fail("panic")
      BY <1>4 DEF AlertErrorBudget, Current, sloId
    <2>2. k = 1 => Refusal(i) = "panic"
      BY <1>1, <1>2, <1>4 DEF Refusal
    <2> QED
      BY <1>1, <1>4, <2>1, <2>2, FailOutput
  <1>5. CASE found /\ w # NoWindow
    <2>1. /\ AddRule(name, w.interval, generateAlertingRule(slo.name, sources))
          /\ k' = k + 1 /\ UNCHANGED <<phase, i, lookupVars>>
      BY <1>5 DEF AlertErrorBudget, Current, sloId
    <2>2. w \in Window /\ slo.name \in SLONames
      BY <1>1, <1>5, WindowTypes
    <2>3. name \in GroupName /\ name.id = slo.name /\ name.interval = w.interval
      BY <2>2, MetricTypes, GroupNameType
    <2>4. \A s \in sources : s \in Rule
      BY <1>1, <1>5 DEF Rules, LookupsOK
    <2>5. <<name, generateAlertingRule(slo.name, sources)>> = BudgetAlertPair(spec, slo, w)
      BY <1>2, <1>5 DEF BudgetAlertPair
    <2>6. ASSUME DistinctSLONames PROVE \E s \in sources : <<name, s>> \in Output
      <3>1. sources = {BudgetRule(slo, w)} /\ BudgetPair(slo, w) \in Output
        BY <1>2, <1>5, <2>6
      <3>2. <<name, BudgetRule(slo, w)>> = BudgetPair(slo, w)
        BY DEF BudgetPair, ruleGroupName
      <3> QED
        BY <3>1, <3>2
    <2> HIDE DEF name, sources
    <2> QED
      BY <1>1, <1>5, <2>1, <2>3, <2>4, <2>5, <2>6, AlertOutput
  <1> QED
    BY <1>3, <1>4, <1>5

-----------------------------------------------------------------------------
(* The invariant holds of every behaviour.                                  *)

LEMMA FinishRecordingOutput ==
    ASSUME IInv, OInv, FinishRecording
    PROVE  OInv'
  <1>1. /\ ControlOK /\ i > Len(spec) /\ phase' = IF alertEnabled THEN "alert" ELSE "done"
        /\ i' = 1 /\ k' = 1 /\ UNCHANGED <<spec, alertEnabled, groupVars, lookupVars>>
    BY DEF IInv, FinishRecording
  <1>2. ASSUME NEW n \in DOMAIN spec
        PROVE  /\ \A m : Recorded(n, m) /\ Recorded(n, m)'
               /\ \A m \in DOMAIN spec[n].alerts : ~Alerted(n, m)'
    <2>1. n < i /\ n >= 1 /\ n \in Nat
      BY <1>1, Indices
    <2>2. \A m : Recorded(n, m) /\ Recorded(n, m)'
      BY <1>1, <2>1 DEF Recorded, Reached
    <2>3. ASSUME NEW m \in DOMAIN spec[n].alerts PROVE ~Alerted(n, m)'
      <3>1. m \in Nat /\ m >= 1
        BY <1>1, Indices, Positions
      <3>2. ~Reached(n, m)'
        BY <1>1, <2>1, <3>1 DEF Reached
      <3> QED
        BY <1>1, <3>2 DEF Alerted
    <2> QED
      BY <2>2, <2>3
  <1>3. Ended'
    BY <1>1 DEF Ended
  <1> QED
    BY <1>1, <1>2, <1>3, QuietOutput DEF groupVars

LEMMA NextSLOOutput ==
    ASSUME IInv, OInv, NextSLO
    PROVE  OInv'
  <1>1. /\ ControlOK /\ phase = "alert" /\ i <= Len(spec) /\ k > Len(spec[i].alerts)
        /\ i' = i + 1 /\ k' = 1
        /\ UNCHANGED <<spec, alertEnabled, phase, groupVars, lookupVars>>
    BY DEF IInv, NextSLO, Current
  <1>2. \A n, m : Recorded(n, m) /\ Recorded(n, m)'
    BY <1>1 DEF Recorded
  <1>3. ASSUME NEW n \in DOMAIN spec, NEW m \in DOMAIN spec[n].alerts, Alerted(n, m)'
        PROVE  Alerted(n, m)
    <2>1. /\ m \in Nat /\ m >= 1 /\ m <= Len(spec[n].alerts)
          /\ Len(spec[n].alerts) \in Nat /\ n \in Nat
      BY <1>1, Indices, Positions
    <2>2. n < i + 1 \/ (n = i + 1 /\ m < 1)
      BY <1>1, <1>3 DEF Alerted, Reached
    <2>3. n < i \/ (n = i /\ m < k)
      BY <1>1, <2>1, <2>2, Indices
    <2> QED
      BY <1>1, <1>3, <2>3 DEF Alerted, Reached
  <1>4. Ended'
    BY <1>1 DEF OInv, Ended
  <1> QED
    BY <1>1, <1>2, <1>3, <1>4, QuietOutput DEF groupVars

LEMMA FinishAlertingOutput ==
    ASSUME IInv, OInv, FinishAlerting
    PROVE  OInv'
  <1>1. /\ ControlOK /\ phase = "alert" /\ i > Len(spec) /\ phase' = "done"
        /\ UNCHANGED <<spec, alertEnabled, i, k, groupVars, lookupVars>>
    BY DEF IInv, FinishAlerting
  <1>2. \A n, m : Recorded(n, m) /\ Recorded(n, m)'
    BY <1>1 DEF Recorded
  <1>3. ASSUME NEW n \in DOMAIN spec, NEW m \in DOMAIN spec[n].alerts, Alerted(n, m)'
        PROVE  Alerted(n, m)
    <2>1. n < i
      BY <1>1, Indices
    <2> QED
      BY <1>1, <1>3, <2>1 DEF Alerted, Reached
  <1>4. Ended'
    BY <1>1 DEF Ended
  <1> QED
    BY <1>1, <1>2, <1>3, <1>4, QuietOutput DEF groupVars

LEMMA StutterOutput ==
    ASSUME IInv, OInv, UNCHANGED vars
    PROVE  OInv'
  <1>1. \A n, m : (Recorded(n, m)' <=> Recorded(n, m)) /\ (Alerted(n, m)' <=> Alerted(n, m))
    BY DEF vars, Recorded, Alerted, Reached
  <1>2. Ended'
    BY DEF vars, OInv, Ended, Unusable, Refusal
  <1>3. UNCHANGED <<spec, alertEnabled, ruleGroups, lookupVars>>
    BY DEF vars, groupVars
  <1> QED
    BY <1>1, <1>2, <1>3, QuietOutput DEF IInv

LEMMA ReadyOutput == Ready => OInv
  <1> SUFFICES ASSUME Ready PROVE OInv
    OBVIOUS
  <1>1. /\ DOMAIN ruleGroups = {} /\ DOMAIN errorRateRecordingRules = {}
        /\ DOMAIN errorBudgetRecordingRules = {}
        /\ phase = "record" /\ i = 1 /\ k = 1 /\ ControlOK
    BY ReadyIInv DEF Ready, IInv
  <1>2. RuleSet = {} /\ Output = {} /\ Precede /\ Once /\ Held
    BY <1>1 DEF RuleSet, Output, Precede, Once, Held
  <1>3. ASSUME NEW n \in DOMAIN spec
        PROVE  /\ \A m \in 1..MetaAt(spec[n]) : ~Recorded(n, m)
               /\ \A m : ~Alerted(n, m)
    <2>1. n \in Nat /\ n >= 1 /\ MetaAt(spec[n]) \in Nat
      BY <1>1, Indices, Positions DEF MetaAt
    <2> QED
      BY <1>1, <2>1 DEF Recorded, Reached, Alerted
  <1>4. Complete
    <2> SUFFICES ASSUME NEW n \in DOMAIN spec
                 PROVE  RatesFound(n) /\ BudgetFound(n) /\ MetaFound(n) /\ AlertsFound(n)
      BY DEF Complete
    <2>1. WellFormed(spec[n])
      BY <1>1, Indices
    <2> QED
      BY <1>1, <1>3, <2>1, Positions DEF RatesFound, BudgetFound, MetaFound, AlertsFound
  <1> QED
    BY <1>1, <1>2, <1>4 DEF OInv, RecordsTaken, Sound, Ended

LEMMA NextOutput == IInv /\ OInv /\ [Next]_vars => OInv'
  BY RecordErrorRateOutput, RecordErrorBudgetOutput, RecordMetaOutput,
     FinishRecordingOutput, AlertBurnRateOutput, AlertErrorBudgetOutput,
     NextSLOOutput, FinishAlertingOutput, StutterOutput DEF Next

LEMMA OutputInvariance == Spec => []OInv
  <1>1. Init => OInv
    BY InitReady, ReadyOutput
  <1>2. IInv /\ OInv /\ [Next]_vars => OInv'
    BY NextOutput
  <1> QED
    BY <1>1, <1>2, Invariance, PTL DEF Spec

(* Prometheus evaluates the rules of a group in order: a rule that reads a  *)
(* series comes after a rule of its group that records one it reads, when   *)
(* no two SLOs have one name.                                               *)
THEOREM OrderCorrect == Spec => []SourcePrecedes
  <1>1. OInv => SourcePrecedes
    BY DEF OInv, Precede, SourcePrecedes
  <1> QED
    BY <1>1, OutputInvariance, PTL

(* Two rules record one series only if two SLOs have the name they carry,   *)
(* or the SLO of that name has two windows of the duration they measure.    *)
THEOREM RecordingCorrect == Spec => []SeriesRecordedOnce
  <1>1. OInv => SeriesRecordedOnce
    BY DEF OInv, Once, Doubled, SeriesRecordedOnce
  <1> QED
    BY <1>1, OutputInvariance, PTL

LEMMA FailureHolds == IInv /\ OInv => FailureExplained
  <1> SUFFICES ASSUME IInv, OInv PROVE FailureExplained
    OBVIOUS
  <1> DEFINE refused == {n \in DOMAIN spec : /\ alertEnabled
                                             /\ spec[n].objective = NoWindow
                                             /\ spec[n].alerts # <<>>}
  <1>1. ASSUME phase = "done", NEW n \in refused PROVE FALSE
    <2>1. 1 \in DOMAIN spec[n].alerts
      <3>1. spec[n].alerts \in Seq(Alert)
        BY Indices DEF IInv, WellFormed, SLO
      <3> QED
        BY <3>1
    <2>2. AlertsFound(n) /\ Alerted(n, 1)
      BY <1>1 DEF OInv, Complete, Alerted
    <2> QED
      BY <2>1, <2>2 DEF AlertsFound
  <1>2. phase \in {"failed", "panic"} =>
          \E n \in refused : (\A m \in refused : n <= m) /\ phase = Refusal(n)
    BY DEF OInv, Ended, Unusable
  <1> QED
    BY <1>1, <1>2 DEF FailureExplained

LEMMA OutputHolds == IInv /\ OInv => OutputIsReference
  <1> SUFFICES ASSUME IInv, OInv, phase = "done"
               PROVE  Output = UNION {Expected(spec, slo) : slo \in Range(spec)}
    BY DEF OutputIsReference, Output
  <1>1. ASSUME NEW n \in DOMAIN spec, NEW e \in Expected(spec, spec[n])
        PROVE  e \in Output
    <2> DEFINE slo == spec[n]
    <2>1. WellFormed(slo)
      BY Indices DEF IInv
    <2>2. RatesFound(n) /\ BudgetFound(n) /\ MetaFound(n) /\ AlertsFound(n)
      BY DEF OInv, Complete
    <2>3. /\ \A m : Recorded(n, m)
          /\ alertEnabled => \A m : Alerted(n, m)
      BY DEF Recorded, Alerted
    <2>4. Stands(slo, e)
      BY <2>1, ExpectedStands
    <2>5. CASE \E w \in Range(slo.windows) : e = RatePair(slo, w)
      BY <2>2, <2>3, <2>5 DEF RatesFound, Range
    <2>6. CASE slo.objective # NoWindow /\ e = BudgetPair(slo, slo.objective)
      BY <2>2, <2>3, <2>6 DEF BudgetFound
    <2>7. CASE e = MetaPair(slo)
      BY <2>2, <2>3, <2>7 DEF MetaFound
    <2>8. CASE \E a \in Range(slo.alerts) :
                 alertEnabled /\ a.kind = "burnRate" /\ e = BurnRatePair(spec, slo, a)
      BY <2>2, <2>3, <2>8 DEF AlertsFound, Range
    <2>9. CASE \E a \in Range(slo.alerts) :
                 /\ alertEnabled /\ a.kind = "errorBudget" /\ slo.objective # NoWindow
                 /\ e = BudgetAlertPair(spec, slo, slo.objective)
      BY <2>2, <2>3, <2>9 DEF AlertsFound, Range
    <2> QED
      BY <2>4, <2>5, <2>6, <2>7, <2>8, <2>9 DEF Stands
  <1>2. \A slo \in Range(spec) : Expected(spec, slo) \subseteq Output
    BY <1>1 DEF Range
  <1> QED
    BY <1>2 DEF OInv, Sound

(* Generation fails exactly for an alert of either kind on an SLO whose      *)
(* objective has no window. The first such SLO decides how: its first alert *)
(* dereferences nil if it is an error budget alert and a namesake's budget  *)
(* is found in its place, and is an error otherwise.                        *)
THEOREM FailureCorrect == Spec => []FailureExplained
  BY FailureHolds, Invariance, OutputInvariance, PTL

(* A run that succeeds generates the rules each SLO stands for, each in the *)
(* group it belongs in, and no others, for any list of SLOs sharing the     *)
(* tables: where names are shared, the last SLO of the name is what its     *)
(* namesakes' alerts see.                                                   *)
THEOREM OutputCorrect == Spec => []OutputIsReference
  BY OutputHolds, Invariance, OutputInvariance, PTL
-----------------------------------------------------------------------------
(* The loops of the generator end, and none of its steps is blocked.        *)

(* Pairs of counts, of which the first weighs more.                         *)
Counts == Nat \X Nat

Less == {p \in Nat \X Nat : p[1] < p[2]}

Fewer == LexPairOrdering(Less, Less, Nat, Nat)

LEMMA FewerWellFounded == IsWellFoundedOn(Fewer, Counts)
  <1>1. Less = OpToRel(<, Nat)
    BY Zenon DEF Less, OpToRel
  <1>2. IsWellFoundedOn(Less, Nat)
    BY <1>1, NatLessThanWellFounded, Zenon
  <1> QED BY <1>2, WFLexPairOrdering DEF Fewer, Counts

LEMMA FewerIf ==
    ASSUME NEW a \in Nat, NEW b \in Nat, NEW c \in Nat, NEW d \in Nat,
           a < c \/ (a = c /\ b < d)
    PROVE  <<<<a, b>>, <<c, d>>>> \in Fewer
  <1>1. (a < c => <<a, c>> \in Less) /\ (b < d => <<b, d>> \in Less)
    BY DEF Less
  <1> QED BY <1>1 DEF Fewer, LexPairOrdering

(* The turns left of the loops over the SLOs, the return of each included.  *)
TurnsLeft ==
    LET slosLeft == IF i <= Len(spec) THEN Len(spec) + 1 - i ELSE 0
    IN CASE phase = "record" -> slosLeft + Len(spec) + 3
         [] phase = "alert" -> slosLeft + 1
         [] OTHER -> 0

(* The steps left for the current SLO.                                      *)
RulesLeft ==
    CASE phase = "record" /\ i <= Len(spec) /\ k <= Len(Current.windows) + 2 ->
           Len(Current.windows) + 3 - k
      [] phase = "alert" /\ i <= Len(spec) /\ k <= Len(Current.alerts) ->
           Len(Current.alerts) + 1 - k
      [] OTHER -> 0

Left == <<TurnsLeft, RulesLeft>>

LEMMA CurrentLengths ==
    ASSUME ControlOK, i <= Len(spec)
    PROVE  Len(Current.windows) \in Nat /\ Len(Current.alerts) \in Nat
  BY CurrentOK DEF WellFormed, SLO

LEMMA LeftType == ControlOK => TurnsLeft \in Nat /\ RulesLeft \in Nat
  <1> SUFFICES ASSUME ControlOK
               PROVE  TurnsLeft \in Nat /\ RulesLeft \in Nat
    OBVIOUS
  <1>1. Len(spec) \in Nat /\ i \in Nat /\ k \in Nat
    BY DEF ControlOK
  <1>2. TurnsLeft \in Nat
    BY <1>1 DEF TurnsLeft
  <1>3. RulesLeft \in Nat
    BY <1>1, CurrentLengths DEF RulesLeft
  <1> QED BY <1>2, <1>3

(* A step within an SLO, and one that leaves it.                            *)
LEMMA RuleLowers ==
    ASSUME ControlOK, WindowsRecorded, UNCHANGED <<spec, phase, i>>, k' = k + 1,
           i <= Len(spec),
           \/ phase = "record" /\ k <= Len(Current.windows) + 2
           \/ phase = "alert" /\ k <= Len(Current.alerts)
    PROVE  TurnsLeft' = TurnsLeft /\ RulesLeft' < RulesLeft
  <1>1. Len(spec) \in Nat /\ i \in Nat /\ k \in Nat
    BY DEF ControlOK
  <1>2. Len(Current.windows) \in Nat /\ Len(Current.alerts) \in Nat /\ Current' = Current
    BY CurrentLengths DEF Current
  <1>3. TurnsLeft' = TurnsLeft
    BY DEF TurnsLeft
  <1>4. RulesLeft' < RulesLeft
    BY <1>1, <1>2 DEF RulesLeft
  <1> QED BY <1>3, <1>4

LEMMA TurnLowers ==
    ASSUME ControlOK, UNCHANGED spec,
           \/ phase \in {"record", "alert"} /\ phase' \in {"done", "failed", "panic"}
           \/ phase = "record" /\ phase' = "alert" /\ i > Len(spec) /\ i' = 1
           \/ phase \in {"record", "alert"} /\ phase' = phase /\ i <= Len(spec) /\ i' = i + 1
    PROVE  TurnsLeft' < TurnsLeft
  <1>1. Len(spec) \in Nat /\ i \in Nat \ {0}
    BY DEF ControlOK
  <1> QED BY <1>1 DEF TurnsLeft

LEMMA NextLowers ==
    ASSUME IInv, Next
    PROVE  TurnsLeft' < TurnsLeft \/ (TurnsLeft' = TurnsLeft /\ RulesLeft' < RulesLeft)
  <1>1. ControlOK /\ ControlOK' /\ WindowsRecorded
    BY NextIInv DEF IInv
  <1>2. k \in Nat /\ (i <= Len(spec) => Len(Current.windows) \in Nat)
    BY <1>1, CurrentLengths DEF ControlOK
  <1>3. CASE RecordErrorRate
    BY <1>1, <1>2, <1>3, RuleLowers DEF RecordErrorRate
  <1>4. CASE RecordErrorBudget
    <2>1. \/ UNCHANGED <<spec, phase, i>> /\ k' = k + 1
          \/ UNCHANGED spec /\ phase' = "failed"
      BY <1>4 DEF RecordErrorBudget, Fail
    <2> QED BY <1>1, <1>2, <1>4, <2>1, RuleLowers, TurnLowers DEF RecordErrorBudget
  <1>5. CASE RecordMeta
    BY <1>1, <1>5, TurnLowers DEF RecordMeta
  <1>6. CASE FinishRecording
    BY <1>1, <1>6, TurnLowers DEF FinishRecording, ControlOK
  <1>7. CASE AlertBurnRate
    <2>1. \/ UNCHANGED <<spec, phase, i>> /\ k' = k + 1
          \/ UNCHANGED spec /\ phase' = "failed"
      BY <1>7 DEF AlertBurnRate, Fail
    <2> QED BY <1>1, <1>7, <2>1, RuleLowers, TurnLowers DEF AlertBurnRate, AlertReady
  <1>8. CASE AlertErrorBudget
    <2>1. \/ UNCHANGED <<spec, phase, i>> /\ k' = k + 1
          \/ UNCHANGED spec /\ phase' \in {"failed", "panic"}
      BY <1>8 DEF AlertErrorBudget, Fail
    <2> QED BY <1>1, <1>8, <2>1, RuleLowers, TurnLowers DEF AlertErrorBudget, AlertReady
  <1>9. CASE NextSLO
    BY <1>1, <1>9, TurnLowers DEF NextSLO
  <1>10. CASE FinishAlerting
    BY <1>1, <1>10, TurnLowers DEF FinishAlerting
  <1> QED BY <1>3, <1>4, <1>5, <1>6, <1>7, <1>8, <1>9, <1>10 DEF Next

(* A step that lowers the counts.                                            *)
Lowered == <<Left', Left>> \in Fewer

(* The generator takes finitely many steps, whatever the spec: each of them *)
(* lowers a pair of counts in an order without infinite descent.            *)
THEOREM StepsRunOut ==
    /\ IsWellFoundedOn(Fewer, Counts)
    /\ Spec => [](Left \in Counts) /\ [][Lowered]_vars
  <1>1. IInv => Left \in Counts
    BY LeftType DEF IInv, Left, Counts
  <1>2. IInv /\ [Next]_vars => [Lowered]_vars
    <2> SUFFICES ASSUME IInv, Next PROVE Lowered
      OBVIOUS
    <2>1. (ControlOK => TurnsLeft \in Nat /\ RulesLeft \in Nat)'
      BY LeftType, PTL
    <2>2. TurnsLeft \in Nat /\ RulesLeft \in Nat /\ TurnsLeft' \in Nat /\ RulesLeft' \in Nat
      BY <2>1, LeftType, NextIInv DEF IInv
    <2> QED BY <2>2, NextLowers, FewerIf DEF Left, Lowered
  <1>3. Spec => [](Left \in Counts) /\ [][Lowered]_vars
    BY <1>1, <1>2, Invariance, PTL DEF Spec
  <1> QED BY <1>3, FewerWellFounded

Returned == phase \in {"done", "failed", "panic"}

(* The guards of the steps.                                                 *)
CanStep ==
    \/ phase = "record" /\ i <= Len(spec) /\ k <= Len(Current.windows) + 2
    \/ \E kind \in {"burnRate", "errorBudget"} : AlertReady(kind)
    \/ phase = "alert" /\ i <= Len(spec) /\ k > Len(Current.alerts)
    \/ phase \in {"record", "alert"} /\ i > Len(spec)

LEMMA Unblocked == IInv => Returned \/ CanStep
  <1> SUFFICES ASSUME IInv, ~Returned PROVE CanStep
    OBVIOUS
  <1>1. /\ ControlOK /\ WindowsRecorded /\ phase \in {"record", "alert"}
        /\ Len(spec) \in Nat /\ i \in Nat /\ k \in Nat \ {0}
    BY DEF IInv, ControlOK, Returned
  <1>2. CASE i > Len(spec)
    BY <1>1, <1>2 DEF CanStep
  <1>3. CASE i <= Len(spec) /\ phase = "record"
    BY <1>1, <1>3 DEF CanStep, WindowsRecorded
  <1>4. CASE i <= Len(spec) /\ phase = "alert"
    <2>1. Len(Current.alerts) \in Nat
      BY <1>1, <1>4, CurrentLengths
    <2>2. ASSUME k <= Len(Current.alerts)
          PROVE  Current.alerts[k].kind \in {"burnRate", "errorBudget"}
      <3>1. WellFormed(Current) /\ k \in 1..Len(Current.alerts)
        BY <1>1, <1>4, <2>1, <2>2, CurrentOK
      <3> QED BY <3>1, AlertTypes DEF Alert
    <2> QED BY <1>1, <1>4, <2>1, <2>2 DEF CanStep, AlertReady
  <1> QED BY <1>1, <1>2, <1>3, <1>4

(* Until it returns, the generator has a step: the loop over windows never  *)
(* runs past the metadata rule, and an alert is of one of the two kinds     *)
(* that the type switch knows.                                              *)
THEOREM NeverBlocked == Spec => [](Returned \/ CanStep)
  BY Unblocked, Invariance, PTL
=============================================================================
