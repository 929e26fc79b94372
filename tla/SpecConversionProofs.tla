------------------------ MODULE SpecConversionProofs ------------------------
(***************************************************************************)
(* Proofs about SpecConversion, for every list of configurations: what      *)
(* ToSpec returns is what they mean, and satisfies the contract the rule     *)
(* generator relies on.                                                     *)
(***************************************************************************)
EXTENDS SpecConversion, SequenceTheorems, WellFoundedInduction, TLAPS

Listed(w) == \E m \in DOMAIN windows : windows[m] = w

(* What the context of the current SLO satisfies beyond ContextAgrees.      *)
UniqueNames ==
    \A m, k \in DOMAIN windows : windows[m].name = windows[k].name => m = k

ReferencesListed ==
    /\ objective # NoWindow => Listed(objective)
    /\ \A m \in DOMAIN alerts : \A x \in DOMAIN alerts[m].windows :
         Listed(alerts[m].windows[x])

ContextInv == ContextAgrees /\ UniqueNames /\ ReferencesListed

(* The inductive invariant.                                                 *)
IInv == TypeOK /\ ContextInv /\ SLOsWellFormed

-----------------------------------------------------------------------------
LEMMA CurrentType ==
    ASSUME TypeOK, i <= Len(config)
    PROVE  /\ Current \in SLOConfig
           /\ \A m \in 1..Len(Current.windows) : Current.windows[m] \in WindowConfig
           /\ \A m \in 1..Len(Current.alerts) : Current.alerts[m] \in AlertConfig
           /\ Len(Current.windows) \in Nat /\ Len(Current.alerts) \in Nat
  <1>1. Current \in SLOConfig
    BY DEF TypeOK, Current
  <1> QED BY <1>1 DEF SLOConfig

LEMMA toWindowType ==
    ASSUME NEW c \in WindowConfig, WindowAccepted(c)
    PROVE  toWindow(c) \in Window /\ toWindow(c).name = c.name
  BY ZeroAssumption DEF WindowConfig, WindowAccepted, toWindow, Window

(* What the map returns is a window of the list.                            *)
LEMMA LookupListed ==
    ASSUME TypeOK, ContextAgrees, NEW x \in DOMAIN windowsByName
    PROVE  windowsByName[x] \in Window /\ Listed(windowsByName[x])
  <1>1. PICK w \in Range(windows) : w.name = x
    BY DEF ContextAgrees
  <1>2. windowsByName[x] = w
    BY <1>1 DEF ContextAgrees
  <1>3. windowsByName[x] \in Window
    BY DEF TypeOK
  <1> QED BY <1>1, <1>2, <1>3 DEF Range, Listed

(* An alert that is converted refers to listed windows.                     *)
LEMMA toAlertListed ==
    ASSUME TypeOK, ContextAgrees, NEW a \in AlertConfig, AlertAccepted(a)
    PROVE  /\ toAlert(a) \in Alert
           /\ \A x \in DOMAIN toAlert(a).windows : Listed(toAlert(a).windows[x])
  <1>1. CASE a.types = {"errorBudget"}
    <2>1. a.types # {"burnRate"}
      BY <1>1
    <2>2. toAlert(a) = [kind |-> "errorBudget", windows |-> <<>>]
      BY <2>1 DEF toAlert
    <2> QED BY <2>2 DEF Alert
  <1>2. CASE a.types = {"burnRate"} /\ a.multi = Absent
    <2> DEFINE u == windowsByName[a.single]
    <2>1. a.single \in DOMAIN windowsByName
      BY <1>2 DEF AlertAccepted, BurnRateAccepted
    <2>2. u \in Window /\ Listed(u)
      BY <2>1, LookupListed
    <2>3. toAlert(a) = [kind |-> "burnRate", windows |-> <<u>>]
      BY <1>2 DEF toAlert, toBurnRateAlertWindow
    <2> HIDE DEF u
    <2>4. <<u>> \in [1..1 -> Window] /\ DOMAIN <<u>> = 1..1 /\ <<u>>[1] = u
      BY <2>2
    <2> QED BY <2>2, <2>3, <2>4 DEF Alert
  <1>3. CASE a.types = {"burnRate"} /\ a.multi # Absent
    <2> DEFINE u == windowsByName[a.multi.long]
               v == windowsByName[a.multi.short]
    <2>1. {a.multi.short, a.multi.long} \subseteq DOMAIN windowsByName
      BY <1>3 DEF AlertAccepted, BurnRateAccepted
    <2>2. u \in Window /\ Listed(u) /\ v \in Window /\ Listed(v)
      BY <2>1, LookupListed
    <2>3. toAlert(a) = [kind |-> "burnRate", windows |-> <<u, v>>]
      BY <1>3 DEF toAlert, toBurnRateAlertWindow
    <2> HIDE DEF u, v
    <2>4. /\ <<u, v>> \in [1..2 -> Window] /\ DOMAIN <<u, v>> = 1..2
          /\ <<u, v>>[1] = u /\ <<u, v>>[2] = v
      BY <2>2
    <2>5. \A x \in 1..2 : Listed(<<u, v>>[x])
      BY <2>2, <2>4
    <2> QED BY <2>3, <2>4, <2>5 DEF Alert
  <1> QED BY <1>1, <1>2, <1>3 DEF AlertAccepted

-----------------------------------------------------------------------------
(* One lemma per action that changes the context.                           *)

LEMMA FailStep ==
    ASSUME IInv, Fail
    PROVE  IInv'
  <1>1. TypeOK'
    BY DEF IInv, Fail, contextVars, TypeOK
  <1>2. ContextInv' /\ SLOsWellFormed'
    BY DEF IInv, Fail, contextVars, ContextInv, ContextAgrees, UniqueNames,
           ReferencesListed, Listed, SLOsWellFormed
  <1> QED BY <1>1, <1>2 DEF IInv

LEMMA AddWindowStep ==
    ASSUME IInv, NEW w \in Window, addWindow(w), UNCHANGED <<objective, alerts>>
    PROVE  /\ windows' \in Seq(Window) /\ ContextInv'
           /\ DOMAIN windowsByName' \subseteq WindowNames
           /\ \A x \in DOMAIN windowsByName' : windowsByName'[x] \in Window
  <1> DEFINE p == Len(windows) + 1
  <1>1. /\ DOMAIN windowsByName' = DOMAIN windowsByName \cup {w.name}
        /\ windowsByName'[w.name] = w
        /\ w.name \notin DOMAIN windowsByName
        /\ \A x \in DOMAIN windowsByName : windowsByName'[x] = windowsByName[x]
    BY DEF addWindow
  <1>2. /\ windows' \in Seq(Window)
        /\ DOMAIN windows' = DOMAIN windows \cup {p}
        /\ p \notin DOMAIN windows
        /\ windows'[p] = w
        /\ \A m \in DOMAIN windows : windows'[m] = windows[m]
    <2>1. windows \in Seq(Window) /\ windows' = Append(windows, w)
      BY DEF IInv, TypeOK, addWindow
    <2> QED BY <2>1
  <1> HIDE DEF p
  <1>3. \A v : Listed(v) => Listed(v)'
    BY <1>2 DEF Listed
  <1>4. Range(windows') = Range(windows) \cup {w}
    BY <1>2 DEF Range
  <1>5. \A v \in Range(windows) : v.name \in DOMAIN windowsByName
    BY DEF IInv, ContextInv, ContextAgrees
  <1>6. ContextAgrees'
    BY <1>1, <1>4, <1>5 DEF IInv, ContextInv, ContextAgrees
  <1>7. UniqueNames'
    <2>1. \A m \in DOMAIN windows : windows[m].name # w.name
      BY <1>1, <1>5 DEF Range
    <2> QED BY <1>2, <2>1 DEF IInv, ContextInv, UniqueNames
  <1>8. ReferencesListed'
    BY <1>3 DEF IInv, ContextInv, ReferencesListed
  <1>9. w.name \in WindowNames
    BY DEF Window
  <1> QED BY <1>1, <1>2, <1>6, <1>7, <1>8, <1>9 DEF IInv, ContextInv, TypeOK

LEMMA ConvertWindowStep ==
    ASSUME IInv, ConvertWindow
    PROVE  IInv'
  <1> DEFINE c == Current.windows[n]
  <1>1. CASE ~WindowAccepted(c) \/ c.name \in DOMAIN windowsByName
    <2>1. CASE Fail
      BY <2>1, FailStep
    <2>2. CASE WindowAccepted(c) /\ addWindow(toWindow(c))
      BY <1>1, <2>2 DEF addWindow, toWindow
    <2> QED BY <2>1, <2>2 DEF ConvertWindow
  <1>2. CASE WindowAccepted(c) /\ c.name \notin DOMAIN windowsByName
    <2>1. /\ addWindow(toWindow(c)) /\ n' = n + 1
          /\ UNCHANGED <<config, i, stage, objective, alerts, slos>>
      BY <1>2 DEF ConvertWindow
    <2>2. c \in WindowConfig
      <3>1. n \in 1..Len(Current.windows)
        BY CurrentType DEF IInv, TypeOK, ConvertWindow, At
      <3> QED BY <3>1, CurrentType DEF IInv, ConvertWindow, At
    <2>3. toWindow(c) \in Window
      BY <1>2, <2>2, toWindowType
    <2> HIDE DEF c
    <2>4. /\ windows' \in Seq(Window) /\ ContextInv'
          /\ DOMAIN windowsByName' \subseteq WindowNames
          /\ \A x \in DOMAIN windowsByName' : windowsByName'[x] \in Window
      BY <2>1, <2>3, AddWindowStep
    <2>5. TypeOK'
      BY <2>1, <2>4 DEF IInv, TypeOK
    <2>6. SLOsWellFormed'
      BY <2>1 DEF IInv, SLOsWellFormed
    <2> QED BY <2>4, <2>5, <2>6 DEF IInv
  <1> QED BY <1>1, <1>2

LEMMA ConvertObjectiveStep ==
    ASSUME IInv, ConvertObjective
    PROVE  IInv'
  <1> DEFINE ref == Current.windowRef
  <1>1. CASE Fail
    BY <1>1, FailStep
  <1>2. CASE ~Fail
    <2>1. /\ ref = EmptyName \/ ref \in DOMAIN windowsByName
          /\ objective' = IF ref = EmptyName THEN NoWindow ELSE windowsByName[ref]
          /\ stage' = "indicator"
          /\ UNCHANGED <<config, i, n, windows, windowsByName, alerts, slos>>
      BY <1>2 DEF ConvertObjective
    <2>2. objective' # NoWindow => objective' \in Window /\ Listed(objective')
      BY <2>1, LookupListed DEF IInv, ContextInv
    <2>3. TypeOK'
      BY <2>1, <2>2 DEF IInv, TypeOK
    <2>4. ContextInv'
      BY <2>1, <2>2 DEF IInv, ContextInv, ContextAgrees, UniqueNames,
           ReferencesListed, Listed
    <2>5. SLOsWellFormed'
      BY <2>1 DEF IInv, SLOsWellFormed
    <2> QED BY <2>3, <2>4, <2>5 DEF IInv
  <1> QED BY <1>1, <1>2

LEMMA ConvertIndicatorStep ==
    ASSUME IInv, ConvertIndicator
    PROVE  IInv'
  <1>1. CASE Fail
    BY <1>1, FailStep
  <1>2. CASE ~Fail
    <2>1. /\ stage' = "alerts" /\ n' = 1
          /\ UNCHANGED <<config, i, contextVars, slos>>
      BY <1>2 DEF ConvertIndicator
    <2>2. TypeOK'
      BY <2>1 DEF IInv, TypeOK, contextVars
    <2>3. ContextInv' /\ SLOsWellFormed'
      BY <2>1 DEF IInv, contextVars, ContextInv, ContextAgrees, UniqueNames,
           ReferencesListed, Listed, SLOsWellFormed
    <2> QED BY <2>2, <2>3 DEF IInv
  <1> QED BY <1>1, <1>2

LEMMA ConvertAlertStep ==
    ASSUME IInv, ConvertAlert
    PROVE  IInv'
  <1> DEFINE a == Current.alerts[n]
  <1>1. CASE Fail
    BY <1>1, FailStep
  <1>2. CASE ~Fail
    <2>1. /\ AlertAccepted(a) /\ alerts' = Append(alerts, toAlert(a)) /\ n' = n + 1
          /\ UNCHANGED <<config, i, stage, windows, windowsByName, objective, slos>>
      BY <1>2 DEF ConvertAlert
    <2>2. a \in AlertConfig
      <3>1. n \in 1..Len(Current.alerts)
        BY CurrentType DEF IInv, TypeOK, ConvertAlert, At
      <3> QED BY <3>1, CurrentType DEF IInv, ConvertAlert, At
    <2> DEFINE b == toAlert(a)
               p == Len(alerts) + 1
    <2>3. b \in Alert /\ \A x \in DOMAIN b.windows : Listed(b.windows[x])
      BY <2>1, <2>2, toAlertListed DEF IInv, ContextInv
    <2> HIDE DEF a, b
    <2>4. /\ alerts' \in Seq(Alert) /\ DOMAIN alerts' = DOMAIN alerts \cup {p}
          /\ alerts'[p] = b
          /\ \A m \in DOMAIN alerts : alerts'[m] = alerts[m]
      <3>1. alerts \in Seq(Alert) /\ alerts' = Append(alerts, b)
        BY <2>1 DEF IInv, TypeOK, b
      <3> QED BY <2>3, <3>1
    <2> HIDE DEF p
    <2>5. TypeOK'
      BY <2>1, <2>4 DEF IInv, TypeOK
    <2>6. ReferencesListed'
      <3>1. \A v : Listed(v)' <=> Listed(v)
        BY <2>1 DEF Listed
      <3> QED BY <2>1, <2>3, <2>4, <3>1 DEF IInv, ContextInv, ReferencesListed
    <2>7. ContextAgrees' /\ UniqueNames' /\ SLOsWellFormed'
      BY <2>1 DEF IInv, ContextInv, ContextAgrees, UniqueNames, SLOsWellFormed
    <2> QED BY <2>5, <2>6, <2>7 DEF IInv, ContextInv
  <1> QED BY <1>1, <1>2

(* The SLO that toSLO returns is well-formed, and the next starts afresh.   *)
LEMMA FinishSLOStep ==
    ASSUME IInv, FinishSLO
    PROVE  IInv'
  <1> DEFINE slo == [name |-> Current.name, windows |-> windows,
                     objective |-> objective, alerts |-> alerts]
             p == Len(slos) + 1
  <1>1. /\ i <= Len(config) /\ slos' = Append(slos, slo)
        /\ windows' = <<>> /\ windowsByName' = <<>>
        /\ objective' = NoWindow /\ alerts' = <<>>
        /\ i' = i + 1 /\ n' = 1 /\ stage' = "windows" /\ config' = config
    BY DEF FinishSLO, At, FreshContext
  <1>2. slo \in SLO
    <2>1. Current.name \in SLONames
      BY <1>1, CurrentType DEF IInv, SLOConfig
    <2> QED BY <2>1 DEF IInv, TypeOK, SLO
  <1>3. WellFormed(slo)
    BY <1>2 DEF IInv, ContextInv, UniqueNames, ReferencesListed, Listed, WellFormed
  <1> HIDE DEF slo
  <1>4. /\ slos' \in Seq(SLO) /\ DOMAIN slos' = DOMAIN slos \cup {p}
        /\ slos'[p] = slo /\ \A m \in DOMAIN slos : slos'[m] = slos[m]
    <2>1. slos \in Seq(SLO)
      BY DEF IInv, TypeOK
    <2> QED BY <1>1, <1>2, <2>1
  <1> HIDE DEF p
  <1>5. SLOsWellFormed'
    BY <1>3, <1>4 DEF IInv, SLOsWellFormed
  <1>6. TypeOK'
    BY <1>1, <1>4 DEF IInv, TypeOK
  <1>7. ContextInv'
    BY <1>1 DEF ContextInv, ContextAgrees, UniqueNames, ReferencesListed, Range
  <1> QED BY <1>5, <1>6, <1>7 DEF IInv

-----------------------------------------------------------------------------
LEMMA InitIInv == Init => IInv
  <1> SUFFICES ASSUME Init PROVE IInv
    OBVIOUS
  <1>1. config \in Seq(SLOConfig)
    BY ConfigsAssumption DEF Init
  <1>2. TypeOK
    BY <1>1 DEF Init, TypeOK
  <1>3. ContextInv
    BY DEF Init, ContextInv, ContextAgrees, UniqueNames, ReferencesListed, Range
  <1>4. SLOsWellFormed
    BY DEF Init, SLOsWellFormed
  <1> QED BY <1>2, <1>3, <1>4 DEF IInv

LEMMA NextIInv == IInv /\ [Next]_vars => IInv'
  <1> SUFFICES ASSUME IInv, [Next]_vars PROVE IInv'
    OBVIOUS
  <1>1. CASE Finish \/ UNCHANGED vars
    <2>1. UNCHANGED <<config, i, n, contextVars, slos>>
      BY <1>1 DEF Finish, vars
    <2>2. stage' \in {"windows", "indicator", "alerts", "ok", "error"}
      BY <1>1 DEF Finish, vars, IInv, TypeOK
    <2>3. TypeOK'
      BY <2>1, <2>2 DEF IInv, contextVars, TypeOK
    <2>4. ContextInv' /\ SLOsWellFormed'
      BY <2>1 DEF IInv, contextVars, ContextInv, ContextAgrees, UniqueNames,
           ReferencesListed, Listed, SLOsWellFormed
    <2> QED BY <2>3, <2>4 DEF IInv
  <1> QED BY <1>1, ConvertWindowStep, ConvertObjectiveStep, ConvertIndicatorStep,
             ConvertAlertStep, FinishSLOStep DEF Next

LEMMA Invariance == Spec => []IInv
  <1>1. Init => IInv
    BY InitIInv
  <1>2. IInv /\ [Next]_vars => IInv'
    BY NextIInv
  <1> QED BY <1>1, <1>2, PTL DEF Spec

(* The context and the result of ToSpec keep their types.                   *)
THEOREM TypeCorrect == Spec => []TypeOK
  <1>1. IInv => TypeOK
    BY DEF IInv
  <1> QED BY <1>1, Invariance, PTL

(* The list of windows of a specContext and its map describe the same       *)
(* windows, whatever is converted.                                          *)
THEOREM ContextCorrect == Spec => []ContextAgrees
  <1>1. IInv => ContextAgrees
    BY DEF IInv, ContextInv
  <1> QED BY <1>1, Invariance, PTL

(* Every SLO that ToSpec has converted is well-formed: what the rule        *)
(* generator assumes of the specs it is given (SpecsAssumption).            *)
THEOREM ConversionWellFormed == Spec => []SLOsWellFormed
  <1>1. IInv => SLOsWellFormed
    BY DEF IInv
  <1> QED BY <1>1, Invariance, PTL

-----------------------------------------------------------------------------
(* What the context is, part by part, in terms of the configuration c that  *)
(* is being converted.                                                      *)

WindowsConverted(c, l) ==
    /\ Len(windows) = l /\ l <= Len(c.windows)
    /\ \A m \in 1..l :
         WindowAccepted(c.windows[m]) /\ windows[m] = toWindow(c.windows[m])

ObjectiveConverted(c) ==
    /\ c.windowRef = EmptyName \/ c.windowRef \in DOMAIN windowsByName
    /\ objective = IF c.windowRef = EmptyName THEN NoWindow ELSE Named(c, c.windowRef)

AlertMeant(c, a) ==
    IF a.types = {"errorBudget"} THEN [kind |-> "errorBudget", windows |-> <<>>]
    ELSE IF a.multi = Absent
         THEN [kind |-> "burnRate", windows |-> <<Named(c, a.single)>>]
         ELSE [kind |-> "burnRate",
               windows |-> <<Named(c, a.multi.long), Named(c, a.multi.short)>>]

AlertsConverted(c, l) ==
    /\ Len(alerts) = l /\ l <= Len(c.alerts)
    /\ \A m \in 1..l :
         AlertAccepted(c.alerts[m]) /\ alerts[m] = AlertMeant(c, c.alerts[m])

ConfigConverted ==
    /\ stage = "windows" =>
         /\ objective = NoWindow /\ alerts = <<>>
         /\ IF i <= Len(config) THEN WindowsConverted(Current, n - 1) ELSE windows = <<>>
    /\ stage \in {"indicator", "alerts"} =>
         /\ i <= Len(config)
         /\ WindowsConverted(Current, Len(Current.windows))
         /\ ObjectiveConverted(Current)
    /\ stage = "indicator" => alerts = <<>>
    /\ stage = "alerts" => Current.indicator /\ AlertsConverted(Current, n - 1)

(* What was converted before, and how the conversion may end.               *)
Prefix ==
    /\ i <= Len(config) + 1 /\ Len(slos) = i - 1
    /\ \A m \in 1..(i - 1) : Valid(config[m]) /\ slos[m] = Meaning(config[m])

Verdict ==
    /\ stage = "ok" => i = Len(config) + 1
    /\ stage = "error" => \E m \in DOMAIN config : ~Valid(config[m])

RInv == ConfigConverted /\ Prefix /\ Verdict

-----------------------------------------------------------------------------
(* Valid and Meaning, when all windows are converted.                       *)

Names(c) == {w.name : w \in Range(c.windows)}

LEMMA AllWindows ==
    ASSUME TypeOK, ContextInv, NEW c \in SLOConfig,
           WindowsConverted(c, Len(c.windows))
    PROVE  /\ windows = Meaning(c).windows
           /\ DOMAIN windowsByName = Names(c) /\ Names(c) \subseteq WindowNames
           /\ \A x \in Names(c) : Named(c, x) = windowsByName[x]
           /\ \A m, k \in DOMAIN c.windows : c.windows[m].name = c.windows[k].name => m = k
           /\ \A w \in Range(c.windows) : WindowAccepted(w)
  <1>1. /\ c.windows \in Seq(WindowConfig) /\ DOMAIN c.windows = 1..Len(c.windows)
        /\ windows \in Seq(Window) /\ DOMAIN windows = 1..Len(windows)
        /\ Len(windows) = Len(c.windows)
    BY DEF SLOConfig, TypeOK, WindowsConverted
  <1>2. \A m \in DOMAIN c.windows :
          /\ WindowAccepted(c.windows[m]) /\ windows[m] = toWindow(c.windows[m])
          /\ windows[m].name = c.windows[m].name /\ c.windows[m].name \in WindowNames
    <2>1. \A w : toWindow(w).name = w.name
      BY DEF toWindow
    <2>2. \A m \in DOMAIN c.windows : c.windows[m].name \in WindowNames
      <3>1. \A m \in DOMAIN c.windows : c.windows[m] \in WindowConfig
        BY <1>1
      <3>2. \A w \in WindowConfig : w.name \in WindowNames
        BY DEF WindowConfig
      <3> QED
        BY <3>1, <3>2
    <2> QED
      BY <1>1, <2>1, <2>2 DEF WindowsConverted
  <1>3. windows = Meaning(c).windows
    <2>1. Meaning(c).windows = [m \in DOMAIN c.windows |-> toWindow(c.windows[m])]
      BY DEF Meaning
    <2>2. windows = [m \in DOMAIN windows |-> windows[m]]
      BY <1>1
    <2> QED
      BY <1>1, <1>2, <2>1, <2>2
  <1>4. \A m, k \in DOMAIN c.windows : c.windows[m].name = c.windows[k].name => m = k
    BY <1>1, <1>2 DEF ContextInv, UniqueNames
  <1>5. Names(c) \subseteq WindowNames
    BY <1>2 DEF Names, Range
  <1>6. DOMAIN windowsByName = Names(c)
    <2>1. \A x : x \in DOMAIN windowsByName <=> \E m \in DOMAIN windows : x = windows[m].name
      BY DEF ContextInv, ContextAgrees, Range
    <2>2. \A x : x \in Names(c) <=> \E m \in DOMAIN c.windows : x = c.windows[m].name
      BY DEF Names, Range
    <2> QED
      BY <1>1, <1>2, <2>1, <2>2
  <1>7. ASSUME NEW x \in Names(c) PROVE Named(c, x) = windowsByName[x]
    <2> DEFINE w == CHOOSE w \in Range(c.windows) : w.name = x
    <2>1. w \in Range(c.windows) /\ w.name = x
      BY DEF Names
    <2>2. Named(c, x) = toWindow(w)
      BY DEF Named
    <2> HIDE DEF w
    <2>3. PICK m \in DOMAIN c.windows : w = c.windows[m]
      BY <2>1 DEF Range
    <2>4. windows[m] \in Range(windows) /\ windows[m].name = x
      BY <1>1, <1>2, <2>1, <2>3 DEF Range
    <2>5. windowsByName[x] = windows[m]
      BY <2>4 DEF ContextInv, ContextAgrees
    <2> QED
      BY <1>2, <2>2, <2>3, <2>5
  <1>8. \A w \in Range(c.windows) : WindowAccepted(w)
    BY <1>2 DEF Range
  <1> QED
    BY <1>3, <1>4, <1>5, <1>6, <1>7, <1>8

(* The parts of Valid, by the test of the code they correspond to.          *)
LEMMA WindowValid ==
    \A w : WindowAccepted(w) <=>
      /\ w.prometheus # Bad /\ w.duration # Bad
      /\ w.types = {"rolling"} \/ (w.types = {"calendar"} /\ w.start # Bad)
  BY DEF WindowAccepted

AlertValid(c, a) ==
    /\ a.alerter
    /\ \/ a.types = {"errorBudget"}
       \/ /\ a.types = {"burnRate"}
          /\ \/ a.multi = Absent /\ a.single \in Names(c)
             \/ /\ a.multi # Absent /\ a.single = Absent
                /\ {a.multi.short, a.multi.long} \subseteq Names(c)

LEMMA ValidParts ==
    ASSUME NEW c
    PROVE  Valid(c) <=>
             /\ \A m, k \in DOMAIN c.windows :
                  c.windows[m].name = c.windows[k].name => m = k
             /\ \A w \in Range(c.windows) : WindowAccepted(w)
             /\ c.windowRef \in Names(c) \cup {EmptyName}
             /\ c.indicator
             /\ \A a \in Range(c.alerts) : AlertValid(c, a)
  BY WindowValid DEF Valid, AlertValid, Names

LEMMA AlertParts ==
    ASSUME DOMAIN windowsByName \subseteq WindowNames, NEW c,
           DOMAIN windowsByName = Names(c),
           \A x \in Names(c) : Named(c, x) = windowsByName[x], NEW a
    PROVE  /\ AlertAccepted(a) <=> AlertValid(c, a)
           /\ AlertAccepted(a) => toAlert(a) = AlertMeant(c, a)
  <1>1. Absent \notin Names(c)
    BY AbsentAssumption
  <1>2. AlertAccepted(a) <=> AlertValid(c, a)
    BY <1>1 DEF AlertAccepted, BurnRateAccepted, AlertValid
  <1>3. ASSUME AlertAccepted(a) PROVE toAlert(a) = AlertMeant(c, a)
    <2>0. {"burnRate"} # {"errorBudget"}
      OBVIOUS
    <2>1. CASE a.types = {"errorBudget"}
      BY <2>0, <2>1 DEF toAlert, AlertMeant
    <2>2. CASE a.types = {"burnRate"} /\ a.multi = Absent
      BY <1>3, <2>0, <2>2
        DEF toAlert, toBurnRateAlertWindow, AlertMeant, AlertAccepted, BurnRateAccepted
    <2>3. CASE a.types = {"burnRate"} /\ a.multi # Absent
      BY <1>3, <2>0, <2>3
        DEF toAlert, toBurnRateAlertWindow, AlertMeant, AlertAccepted, BurnRateAccepted
    <2> QED
      BY <1>3, <2>1, <2>2, <2>3 DEF AlertAccepted
  <1> QED
    BY <1>2, <1>3

LEMMA MeaningAlerts ==
    ASSUME NEW c, \A a \in Range(c.alerts) : AlertValid(c, a)
    PROVE  Meaning(c).alerts = [m \in DOMAIN c.alerts |-> AlertMeant(c, c.alerts[m])]
  <1> DEFINE Meant(a) ==
               CASE a.types = {"errorBudget"} -> [kind |-> "errorBudget", windows |-> <<>>]
                 [] a.types = {"burnRate"} /\ a.multi = Absent ->
                      [kind |-> "burnRate", windows |-> <<Named(c, a.single)>>]
                 [] OTHER -> [kind |-> "burnRate",
                      windows |-> <<Named(c, a.multi.long), Named(c, a.multi.short)>>]
  <1>1. Meaning(c).alerts = [m \in DOMAIN c.alerts |-> Meant(c.alerts[m])]
    BY DEF Meaning
  <1>2. \A a : AlertValid(c, a) => Meant(a) = AlertMeant(c, a)
    <2>0. {"burnRate"} # {"errorBudget"}
      OBVIOUS
    <2> QED
      BY <2>0 DEF AlertValid, AlertMeant
  <1>3. \A m \in DOMAIN c.alerts : AlertValid(c, c.alerts[m])
    BY DEF Range
  <1> HIDE DEF Meant
  <1> QED
    BY <1>1, <1>2, <1>3

-----------------------------------------------------------------------------
(* The same facts about the configuration that is being converted.          *)

LEMMA CurrentParts ==
    ASSUME IInv, RInv, stage \in {"windows", "indicator", "alerts"}, i <= Len(config)
    PROVE  /\ Current \in SLOConfig /\ i \in DOMAIN config
           /\ n \in Nat \ {0} /\ i \in Nat \ {0}
           /\ DOMAIN Current.windows = 1..Len(Current.windows)
           /\ DOMAIN Current.alerts = 1..Len(Current.alerts)
           /\ Len(Current.windows) \in Nat /\ Len(Current.alerts) \in Nat
  <1>1. Current \in SLOConfig
    BY CurrentType DEF IInv
  <1>2. i \in DOMAIN config
    BY DEF IInv, TypeOK
  <1>3. Current.windows \in Seq(WindowConfig) /\ Current.alerts \in Seq(AlertConfig)
    BY <1>1 DEF SLOConfig
  <1> QED
    BY <1>1, <1>2, <1>3 DEF IInv, TypeOK

(* A failure is right when the current configuration is not valid.          *)
LEMMA FailRight ==
    ASSUME IInv, RInv, stage \in {"windows", "indicator", "alerts"},
           i <= Len(config), Fail, ~Valid(Current)
    PROVE  RInv'
  <1>1. /\ stage' = "error" /\ i' = i /\ config' = config /\ slos' = slos
    BY DEF Fail
  <1>2. i \in DOMAIN config
    BY CurrentParts
  <1>3. ConfigConverted'
    BY <1>1 DEF ConfigConverted
  <1>4. Prefix'
    BY <1>1 DEF RInv, Prefix
  <1>5. Verdict'
    BY <1>1, <1>2 DEF Verdict, Current
  <1> QED
    BY <1>3, <1>4, <1>5 DEF RInv

LEMMA WindowRight ==
    ASSUME IInv, RInv, ConvertWindow
    PROVE  RInv'
  <1>1. stage = "windows" /\ i <= Len(config) /\ n <= Len(Current.windows)
    BY DEF ConvertWindow, At
  <1> PICK c : c = Current
    OBVIOUS
  <1> PICK w : w = c.windows[n]
    OBVIOUS
  <1>2. /\ n \in Nat \ {0} /\ n \in DOMAIN c.windows
        /\ DOMAIN c.windows = 1..Len(c.windows) /\ Len(c.windows) \in Nat
    BY <1>1, CurrentParts
  <1>3. WindowsConverted(c, n - 1) /\ objective = NoWindow /\ alerts = <<>>
    BY <1>1 DEF RInv, ConfigConverted
  <1>4. windows \in Seq(Window) /\ DOMAIN windows = 1..(n - 1) /\ Len(windows) = n - 1
    BY <1>3 DEF WindowsConverted, IInv, TypeOK
  <1>5. CASE Fail
    <2>1. ~WindowAccepted(w) \/ w.name \in DOMAIN windowsByName
      <3>1. SUFFICES ASSUME addWindow(toWindow(w)) PROVE w.name \in DOMAIN windowsByName
        BY <1>5 DEF ConvertWindow
      <3>2. Len(windows') = n
        BY <1>2, <1>4, <3>1 DEF addWindow
      <3> QED
        BY <1>2, <1>4, <1>5, <3>2 DEF Fail, contextVars
    <2>2. CASE ~WindowAccepted(w)
      BY <1>1, <1>2, <1>5, <2>2, ValidParts, FailRight DEF Range
    <2>3. CASE w.name \in DOMAIN windowsByName
      <3>1. PICK m \in 1..(n - 1) : windows[m].name = w.name
        BY <1>4, <2>3 DEF IInv, ContextInv, ContextAgrees, Range
      <3>2. windows[m] = toWindow(c.windows[m])
        BY <1>3 DEF WindowsConverted
      <3>3. c.windows[m].name = w.name /\ m \in DOMAIN c.windows /\ m # n
        BY <1>2, <3>1, <3>2 DEF toWindow
      <3> QED
        BY <1>1, <1>2, <1>5, <3>3, ValidParts, FailRight
    <2> QED
      BY <2>1, <2>2, <2>3
  <1>6. CASE ~Fail
    <2>1. /\ WindowAccepted(w) /\ windows' = Append(windows, toWindow(w)) /\ n' = n + 1
          /\ UNCHANGED <<config, i, stage, objective, alerts, slos>>
      BY <1>6 DEF ConvertWindow, addWindow
    <2>2. /\ Len(windows') = n /\ windows'[n] = toWindow(w)
          /\ \A m \in 1..(n - 1) : windows'[m] = windows[m]
      BY <1>2, <1>4, <2>1
    <2>3. Current' = c
      BY <2>1 DEF Current
    <2>4. \A m \in 1..n : WindowAccepted(c.windows[m]) /\ windows'[m] = toWindow(c.windows[m])
      BY <1>2, <1>3, <2>1, <2>2 DEF WindowsConverted
    <2>5. n' - 1 = n /\ n <= Len(c.windows)
      BY <1>1, <1>2, <2>1
    <2>6. Len(windows') = n' - 1 /\ n' - 1 <= Len(c.windows)
      BY <2>2, <2>5
    <2>7. WindowsConverted(Current, n - 1)'
      BY <2>3, <2>4, <2>5, <2>6 DEF WindowsConverted, WindowAccepted, toWindow
    <2>8. ConfigConverted'
      BY <1>1, <1>3, <2>1, <2>7 DEF ConfigConverted
    <2>9. Prefix' /\ Verdict'
      BY <1>1, <2>1 DEF RInv, Prefix, Verdict
    <2> QED
      BY <2>8, <2>9 DEF RInv
  <1> QED
    BY <1>5, <1>6

LEMMA ObjectiveRight ==
    ASSUME IInv, RInv, ConvertObjective
    PROVE  RInv'
  <1>1. stage = "windows" /\ i <= Len(config) /\ n > Len(Current.windows)
    BY DEF ConvertObjective, At
  <1> PICK c : c = Current
    OBVIOUS
  <1>2. n \in Nat \ {0} /\ Len(c.windows) \in Nat /\ c \in SLOConfig
    BY <1>1, CurrentParts
  <1>3. WindowsConverted(c, n - 1) /\ objective = NoWindow /\ alerts = <<>>
    BY <1>1 DEF RInv, ConfigConverted
  <1>4. WindowsConverted(c, Len(c.windows))
    <2>1. n - 1 = Len(c.windows)
      BY <1>1, <1>2, <1>3 DEF WindowsConverted
    <2> QED
      BY <1>3, <2>1
  <1>5. /\ DOMAIN windowsByName = Names(c)
        /\ \A x \in Names(c) : Named(c, x) = windowsByName[x]
    BY <1>2, <1>4, AllWindows DEF IInv
  <1>6. CASE Fail
    <2>1. c.windowRef # EmptyName /\ c.windowRef \notin DOMAIN windowsByName
      BY <1>1, <1>6 DEF ConvertObjective, Fail
    <2> QED
      BY <1>1, <1>5, <1>6, <2>1, ValidParts, FailRight
  <1>7. CASE ~Fail
    <2>1. /\ c.windowRef = EmptyName \/ c.windowRef \in DOMAIN windowsByName
          /\ objective' = IF c.windowRef = EmptyName THEN NoWindow
                          ELSE windowsByName[c.windowRef]
          /\ stage' = "indicator"
          /\ UNCHANGED <<config, i, n, windows, windowsByName, alerts, slos>>
      BY <1>7 DEF ConvertObjective
    <2>2. Current' = c
      BY <2>1 DEF Current
    <2>3. WindowsConverted(Current, Len(Current.windows))'
      BY <1>4, <2>1, <2>2 DEF WindowsConverted
    <2>4. ObjectiveConverted(Current)'
      BY <1>5, <2>1, <2>2 DEF ObjectiveConverted
    <2>5. ConfigConverted'
      BY <1>1, <1>3, <2>1, <2>3, <2>4 DEF ConfigConverted
    <2>6. Prefix' /\ Verdict'
      BY <2>1 DEF RInv, Prefix, Verdict
    <2> QED
      BY <2>5, <2>6 DEF RInv
  <1> QED
    BY <1>6, <1>7

LEMMA IndicatorRight ==
    ASSUME IInv, RInv, ConvertIndicator
    PROVE  RInv'
  <1>1. stage = "indicator" /\ i <= Len(config)
    BY DEF ConvertIndicator, At
  <1>2. CASE Fail
    <2>1. ~Current.indicator
      BY <1>2 DEF ConvertIndicator, Fail
    <2> QED
      BY <1>1, <1>2, <2>1, ValidParts, FailRight
  <1>3. CASE ~Fail
    <2>1. /\ Current.indicator /\ stage' = "alerts" /\ n' = 1
          /\ UNCHANGED <<config, i, windows, windowsByName, objective, alerts, slos>>
      BY <1>3 DEF ConvertIndicator, contextVars
    <2>2. Current' = Current
      BY <2>1 DEF Current
    <2>3. /\ WindowsConverted(Current, Len(Current.windows))
          /\ ObjectiveConverted(Current) /\ alerts = <<>>
      BY <1>1 DEF RInv, ConfigConverted
    <2>4. (/\ WindowsConverted(Current, Len(Current.windows))
           /\ ObjectiveConverted(Current))'
      BY <2>1, <2>2, <2>3 DEF WindowsConverted, ObjectiveConverted
    <2>5. AlertsConverted(Current, n - 1)'
      <3>1. Len(Current.alerts) \in Nat
        BY <1>1, CurrentParts
      <3> QED
        BY <2>1, <2>2, <2>3, <3>1 DEF AlertsConverted
    <2>6. ConfigConverted'
      BY <1>1, <2>1, <2>2, <2>4, <2>5 DEF ConfigConverted
    <2>7. Prefix' /\ Verdict'
      BY <2>1 DEF RInv, Prefix, Verdict
    <2> QED
      BY <2>6, <2>7 DEF RInv
  <1> QED
    BY <1>2, <1>3

LEMMA AlertRight ==
    ASSUME IInv, RInv, ConvertAlert
    PROVE  RInv'
  <1>1. stage = "alerts" /\ i <= Len(config) /\ n <= Len(Current.alerts)
    BY DEF ConvertAlert, At
  <1> PICK c : c = Current
    OBVIOUS
  <1> PICK a : a = c.alerts[n]
    OBVIOUS
  <1>2. /\ n \in Nat \ {0} /\ n \in DOMAIN c.alerts /\ c \in SLOConfig
        /\ Len(c.alerts) \in Nat /\ DOMAIN c.alerts = 1..Len(c.alerts)
    BY <1>1, CurrentParts
  <1>3. /\ WindowsConverted(c, Len(c.windows)) /\ ObjectiveConverted(c)
        /\ c.indicator /\ AlertsConverted(c, n - 1)
    BY <1>1 DEF RInv, ConfigConverted
  <1>4. /\ DOMAIN windowsByName = Names(c) /\ DOMAIN windowsByName \subseteq WindowNames
        /\ \A x \in Names(c) : Named(c, x) = windowsByName[x]
    BY <1>2, <1>3, AllWindows DEF IInv
  <1>5. /\ AlertAccepted(a) <=> AlertValid(c, a)
        /\ AlertAccepted(a) => toAlert(a) = AlertMeant(c, a)
    BY <1>4, AlertParts
  <1>6. alerts \in Seq(Alert) /\ DOMAIN alerts = 1..(n - 1) /\ Len(alerts) = n - 1
    BY <1>3 DEF AlertsConverted, IInv, TypeOK
  <1>7. CASE Fail
    <2>1. n' = n /\ n' # n + 1
      BY <1>2, <1>7 DEF Fail
    <2>2. ~AlertAccepted(a)
      BY <2>1 DEF ConvertAlert
    <2> QED
      BY <1>1, <1>2, <1>5, <1>7, <2>2, ValidParts, FailRight DEF Range
  <1>8. CASE ~Fail
    <2>1. /\ AlertAccepted(a) /\ alerts' = Append(alerts, toAlert(a)) /\ n' = n + 1
          /\ UNCHANGED <<config, i, stage, windows, windowsByName, objective, slos>>
      BY <1>8 DEF ConvertAlert
    <2>2. /\ Len(alerts') = n /\ alerts'[n] = toAlert(a)
          /\ \A m \in 1..(n - 1) : alerts'[m] = alerts[m]
      BY <1>2, <1>6, <2>1
    <2>3. Current' = c
      BY <2>1 DEF Current
    <2>4. (WindowsConverted(Current, Len(Current.windows)) /\ ObjectiveConverted(Current))'
      BY <1>3, <2>1, <2>3 DEF WindowsConverted, ObjectiveConverted
    <2>5. AlertsConverted(Current, n - 1)'
      <3>1. \A x : AlertAccepted(x)' = AlertAccepted(x)
        BY <2>1 DEF AlertAccepted, BurnRateAccepted
      <3>2. \A m \in 1..n : AlertAccepted(c.alerts[m]) /\ alerts'[m] = AlertMeant(c, c.alerts[m])
        BY <1>2, <1>3, <1>5, <2>1, <2>2 DEF AlertsConverted
      <3>3. Len(alerts') = n' - 1 /\ n' - 1 <= Len(c.alerts) /\ n' - 1 = n
        BY <1>1, <1>2, <2>1, <2>2
      <3>4. \A m \in 1..(n' - 1) :
              AlertAccepted(c.alerts[m])' /\ alerts'[m] = AlertMeant(c, c.alerts[m])
        BY <2>1, <3>1, <3>2, <3>3 DEF AlertAccepted, BurnRateAccepted
      <3> QED
        BY <2>3, <3>3, <3>4 DEF AlertsConverted, AlertAccepted, BurnRateAccepted, AlertMeant, Named
    <2>6. ConfigConverted'
      BY <1>1, <1>3, <2>1, <2>3, <2>4, <2>5 DEF ConfigConverted
    <2>7. Prefix' /\ Verdict'
      BY <1>1, <2>1 DEF RInv, Prefix, Verdict
    <2> QED
      BY <2>6, <2>7 DEF RInv
  <1> QED
    BY <1>7, <1>8

(* What toSLO returns is what the configuration means, and it was valid.    *)
LEMMA SLORight ==
    ASSUME IInv, RInv, FinishSLO
    PROVE  /\ Valid(Current)
           /\ [name |-> Current.name, windows |-> windows,
               objective |-> objective, alerts |-> alerts] = Meaning(Current)
  <1>1. stage = "alerts" /\ i <= Len(config) /\ n > Len(Current.alerts)
    BY DEF FinishSLO, At
  <1> PICK c : c = Current
    OBVIOUS
  <1>2. /\ n \in Nat \ {0} /\ c \in SLOConfig
        /\ Len(c.alerts) \in Nat /\ DOMAIN c.alerts = 1..Len(c.alerts)
    BY <1>1, CurrentParts
  <1>3. /\ WindowsConverted(c, Len(c.windows)) /\ ObjectiveConverted(c)
        /\ c.indicator /\ AlertsConverted(c, n - 1)
    BY <1>1 DEF RInv, ConfigConverted
  <1>4. /\ windows = Meaning(c).windows
        /\ DOMAIN windowsByName = Names(c) /\ Names(c) \subseteq WindowNames
        /\ \A x \in Names(c) : Named(c, x) = windowsByName[x]
        /\ \A m, k \in DOMAIN c.windows : c.windows[m].name = c.windows[k].name => m = k
        /\ \A w \in Range(c.windows) : WindowAccepted(w)
    BY <1>2, <1>3, AllWindows DEF IInv
  <1>5. n - 1 = Len(c.alerts)
    BY <1>1, <1>2, <1>3 DEF AlertsConverted
  <1>6. \A m \in DOMAIN c.alerts :
          AlertValid(c, c.alerts[m]) /\ alerts[m] = AlertMeant(c, c.alerts[m])
    BY <1>2, <1>3, <1>4, <1>5, AlertParts DEF AlertsConverted
  <1>7. \A a \in Range(c.alerts) : AlertValid(c, a)
    BY <1>6 DEF Range
  <1>8. Valid(c)
    BY <1>3, <1>4, <1>7, ValidParts DEF ObjectiveConverted
  <1>9. alerts = Meaning(c).alerts
    <2>1. alerts \in Seq(Alert) /\ DOMAIN alerts = DOMAIN c.alerts
      BY <1>2, <1>3, <1>5 DEF AlertsConverted, IInv, TypeOK
    <2>2. alerts = [m \in DOMAIN alerts |-> alerts[m]]
      BY <2>1
    <2> QED
      BY <1>6, <1>7, <2>1, <2>2, MeaningAlerts
  <1>10. objective = Meaning(c).objective /\ c.name = Meaning(c).name
    BY <1>3 DEF ObjectiveConverted, Meaning
  <1>11. Meaning(c) = [name |-> Meaning(c).name, windows |-> Meaning(c).windows,
                       objective |-> Meaning(c).objective, alerts |-> Meaning(c).alerts]
    BY DEF Meaning
  <1> QED
    BY <1>4, <1>8, <1>9, <1>10, <1>11

LEMMA FinishSLORight ==
    ASSUME IInv, RInv, FinishSLO
    PROVE  RInv'
  <1> PICK slo : slo = [name |-> Current.name, windows |-> windows,
                        objective |-> objective, alerts |-> alerts]
    OBVIOUS
  <1>1. /\ stage = "alerts" /\ i <= Len(config) /\ slos' = Append(slos, slo)
        /\ windows' = <<>> /\ objective' = NoWindow /\ alerts' = <<>>
        /\ i' = i + 1 /\ n' = 1 /\ stage' = "windows" /\ config' = config
    BY DEF FinishSLO, At, FreshContext
  <1>2. Valid(config[i]) /\ slo = Meaning(config[i])
    BY SLORight DEF Current
  <1>3. /\ i \in Nat \ {0} /\ Len(config) \in Nat /\ slos \in Seq(SLO)
        /\ Len(slos) = i - 1
        /\ \A m \in 1..(i - 1) : Valid(config[m]) /\ slos[m] = Meaning(config[m])
    BY DEF RInv, Prefix, IInv, TypeOK
  <1>4. ConfigConverted'
    <2>1. CASE i' <= Len(config)
      <3>1. i' \in 1..Len(config) /\ config \in Seq(SLOConfig)
        BY <1>1, <1>3, <2>1 DEF IInv, TypeOK
      <3>2. Current' \in SLOConfig
        BY <1>1, <3>1 DEF Current
      <3>3. Len(Current'.windows) \in Nat
        BY <3>2 DEF SLOConfig
      <3>4. WindowsConverted(Current, n - 1)'
        BY <1>1, <3>3 DEF WindowsConverted
      <3> QED
        BY <1>1, <3>4 DEF ConfigConverted
    <2>2. CASE ~(i' <= Len(config))
      BY <1>1, <2>2 DEF ConfigConverted
    <2> QED
      BY <2>1, <2>2
  <1>5. Prefix'
    <2>1. /\ Len(slos') = i /\ slos'[i] = slo
          /\ \A m \in 1..(i - 1) : slos'[m] = slos[m]
      BY <1>1, <1>3
    <2>2. i' - 1 = i /\ i' <= Len(config) + 1
      BY <1>1, <1>3
    <2>3. \A m \in 1..i : Valid(config[m]) /\ slos'[m] = Meaning(config[m])
      BY <1>2, <1>3, <2>1
    <2>4. config' = config
      BY <1>1
    <2>5. \A m \in 1..(i' - 1) : Valid(config'[m]) /\ slos'[m] = Meaning(config'[m])
      BY <2>2, <2>3, <2>4
    <2> QED
      BY <2>1, <2>2, <2>4, <2>5 DEF Prefix
  <1>6. Verdict'
    BY <1>1 DEF Verdict
  <1> QED
    BY <1>4, <1>5, <1>6 DEF RInv

-----------------------------------------------------------------------------
LEMMA InitRight == Init /\ IInv => RInv
  <1> SUFFICES ASSUME Init, IInv PROVE RInv
    OBVIOUS
  <1>1. config \in Seq(SLOConfig) /\ Len(config) \in Nat
    BY DEF IInv, TypeOK
  <1>2. CASE 1 <= Len(config)
    <2>1. Len(Current.windows) \in Nat
      BY <1>2, CurrentType DEF Init, IInv
    <2>2. WindowsConverted(Current, n - 1)
      BY <2>1 DEF Init, WindowsConverted
    <2> QED
      BY <1>1, <2>2 DEF Init, RInv, ConfigConverted, Prefix, Verdict
  <1>3. CASE ~(1 <= Len(config))
    BY <1>1, <1>3 DEF Init, RInv, ConfigConverted, Prefix, Verdict
  <1> QED
    BY <1>2, <1>3

LEMMA NextRight == IInv /\ RInv /\ [Next]_vars => RInv'
  <1> SUFFICES ASSUME IInv, RInv, [Next]_vars PROVE RInv'
    OBVIOUS
  <1>1. CASE Finish
    <2>1. /\ stage = "windows" /\ i > Len(config) /\ stage' = "ok"
          /\ UNCHANGED <<config, i, n, slos>>
      BY <1>1 DEF Finish
    <2>2. i = Len(config) + 1
      BY <2>1 DEF RInv, Prefix, IInv, TypeOK
    <2> QED
      BY <2>1, <2>2 DEF RInv, ConfigConverted, Prefix, Verdict
  <1>2. CASE UNCHANGED vars
    <2>1. UNCHANGED <<config, i, stage, n, windows, windowsByName, objective, alerts, slos>>
      BY <1>2 DEF vars, contextVars
    <2>2. \A a : AlertAccepted(a)' = AlertAccepted(a)
      BY <2>1 DEF AlertAccepted, BurnRateAccepted
    <2>3. ConfigConverted'
      BY <2>1, <2>2 DEF RInv, ConfigConverted, Current, WindowsConverted,
           ObjectiveConverted, AlertsConverted, AlertAccepted, BurnRateAccepted
    <2>4. Prefix' /\ Verdict'
      BY <2>1 DEF RInv, Prefix, Verdict
    <2> QED
      BY <2>3, <2>4 DEF RInv
  <1> QED
    BY <1>1, <1>2, WindowRight, ObjectiveRight, IndicatorRight, AlertRight,
       FinishSLORight DEF Next

LEMMA ReferenceHolds == IInv /\ RInv => ConversionIsReference
  <1> SUFFICES ASSUME IInv, RInv, stage = "ok"
               PROVE  /\ \A m \in DOMAIN config : Valid(config[m])
                      /\ slos = [m \in DOMAIN config |-> Meaning(config[m])]
    BY DEF ConversionIsReference, RInv, Verdict
  <1>1. /\ i - 1 = Len(config) /\ Len(slos) = i - 1
        /\ DOMAIN config = 1..(i - 1) /\ DOMAIN slos = 1..(i - 1)
        /\ slos = [m \in DOMAIN slos |-> slos[m]]
    BY DEF RInv, Verdict, Prefix, IInv, TypeOK
  <1>2. \A m \in 1..(i - 1) : Valid(config[m]) /\ slos[m] = Meaning(config[m])
    BY DEF RInv, Prefix
  <1> QED
    BY <1>1, <1>2

(* ToSpec accepts exactly the lists of valid configurations, and converts   *)
(* each to what it means, whatever the others in the list are.              *)
THEOREM ConversionCorrect == Spec => []ConversionIsReference
  <1>1. IInv /\ IInv' /\ RInv /\ [Next]_vars => RInv'
    BY NextRight
  <1> QED
    BY <1>1, ReferenceHolds, Invariance, InitRight, PTL DEF Spec

-----------------------------------------------------------------------------
(* Termination: ToSpec takes finitely many steps and is never blocked.      *)

(* Pairs of counts, of which the first weighs more.                         *)
Counts == Nat \X Nat

Less == {p \in Nat \X Nat : p[1] < p[2]}

Fewer == LexPairOrdering(Less, Less, Nat, Nat)

LEMMA FewerWellFounded == IsWellFoundedOn(Fewer, Counts)
  <1>1. Less = OpToRel(<, Nat)
    BY Zenon DEF Less, OpToRel
  <1>2. IsWellFoundedOn(Less, Nat)
    BY <1>1, NatLessThanWellFounded, Zenon
  <1> QED BY <1>2, WFLexPairOrdering DEF Fewer, Counts

LEMMA FewerIf ==
    ASSUME NEW a \in Nat, NEW b \in Nat, NEW c \in Nat, NEW d \in Nat,
           a < c \/ (a = c /\ b < d)
    PROVE  <<<<a, b>>, <<c, d>>>> \in Fewer
  <1>1. (a < c => <<a, c>> \in Less) /\ (b < d => <<b, d>> \in Less)
    BY DEF Less
  <1> QED BY <1>1 DEF Fewer, LexPairOrdering

(* The configurations left, the return of ToSpec included.                  *)
ConfigsLeft ==
    IF stage \in {"ok", "error"} THEN 0
    ELSE IF i <= Len(config) THEN Len(config) + 2 - i ELSE 1

(* The turns left of a loop up to l that is at m.                           *)
TurnsFrom(m, l) == IF m <= l THEN l + 1 - m ELSE 0

(* The steps left for the current one.                                      *)
StepsLeft ==
    CASE stage = "windows" /\ i <= Len(config) ->
           TurnsFrom(n, Len(Current.windows)) + (Len(Current.alerts) + 2)
      [] stage = "indicator" /\ i <= Len(config) -> Len(Current.alerts) + 1
      [] stage = "alerts" /\ i <= Len(config) -> TurnsFrom(n, Len(Current.alerts))
      [] OTHER -> 0

Left == <<ConfigsLeft, StepsLeft>>

LEMMA TurnsFromFacts ==
    ASSUME NEW m \in Nat \ {0}, NEW l \in Nat
    PROVE  /\ TurnsFrom(m, l) \in Nat
           /\ m <= l => TurnsFrom(m + 1, l) < TurnsFrom(m, l)
           /\ TurnsFrom(m, l) < l + 1
  BY DEF TurnsFrom

LEMMA LeftType == TypeOK => ConfigsLeft \in Nat /\ StepsLeft \in Nat
  <1> SUFFICES ASSUME TypeOK
               PROVE  ConfigsLeft \in Nat /\ StepsLeft \in Nat
    OBVIOUS
  <1>1. Len(config) \in Nat /\ i \in Nat /\ n \in Nat \ {0}
    BY DEF TypeOK
  <1>2. ConfigsLeft \in Nat
    BY <1>1 DEF ConfigsLeft
  <1>3. CASE i <= Len(config)
    <2>1. Len(Current.windows) \in Nat /\ Len(Current.alerts) \in Nat
      BY <1>3, CurrentType
    <2>2. TurnsFrom(n, Len(Current.windows)) \in Nat /\ TurnsFrom(n, Len(Current.alerts)) \in Nat
      BY <1>1, <2>1, TurnsFromFacts
    <2>3. StepsLeft \in Nat
      BY <2>1, <2>2 DEF StepsLeft
    <2> QED BY <1>2, <2>3
  <1>4. CASE ~(i <= Len(config))
    BY <1>2, <1>4 DEF StepsLeft
  <1> QED BY <1>3, <1>4

LEMMA FailLowers ==
    ASSUME TypeOK, stage \notin {"ok", "error"}, Fail
    PROVE  ConfigsLeft' < ConfigsLeft
  <1>1. Len(config) \in Nat /\ i \in Nat
    BY DEF TypeOK
  <1> QED BY <1>1 DEF Fail, ConfigsLeft

LEMMA StepLowers ==
    ASSUME TypeOK, i <= Len(config), UNCHANGED <<config, i>>,
           \/ /\ stage = "windows" /\ n <= Len(Current.windows)
              /\ stage' = "windows" /\ n' = n + 1
           \/ stage = "windows" /\ stage' = "indicator"
           \/ stage = "indicator" /\ stage' = "alerts" /\ n' = 1
           \/ /\ stage = "alerts" /\ n <= Len(Current.alerts)
              /\ stage' = "alerts" /\ n' = n + 1
    PROVE  ConfigsLeft' = ConfigsLeft /\ StepsLeft' < StepsLeft
  <1>1. /\ Len(config) \in Nat /\ i \in Nat /\ n \in Nat \ {0} /\ Current' = Current
        /\ Len(Current.windows) \in Nat /\ Len(Current.alerts) \in Nat
    BY CurrentType DEF TypeOK, Current
  <1>2. ConfigsLeft' = ConfigsLeft
    BY DEF ConfigsLeft
  <1>3. ASSUME NEW l \in Nat
        PROVE  /\ TurnsFrom(n, l) \in Nat /\ TurnsFrom(n + 1, l) \in Nat
               /\ n <= l => TurnsFrom(n + 1, l) < TurnsFrom(n, l)
               /\ TurnsFrom(1, l) < l + 1 /\ TurnsFrom(1, l) \in Nat
    <2>1. n \in Nat \ {0} /\ n + 1 \in Nat \ {0}
      BY <1>1
    <2> QED BY <2>1 DEF TurnsFrom
  <1> DEFINE ws == Len(Current.windows)
             as == Len(Current.alerts)
  <1>4. CASE stage = "windows" /\ n <= ws /\ stage' = "windows" /\ n' = n + 1
    <2>1. StepsLeft = TurnsFrom(n, ws) + (as + 2) /\ StepsLeft' = TurnsFrom(n + 1, ws) + (as + 2)
      BY <1>1, <1>4 DEF StepsLeft
    <2>2. TurnsFrom(n, ws) \in Nat /\ TurnsFrom(n + 1, ws) \in Nat
          /\ TurnsFrom(n + 1, ws) < TurnsFrom(n, ws)
      BY <1>1, <1>3, <1>4
    <2> QED BY <1>1, <1>2, <2>1, <2>2
  <1>5. CASE stage = "windows" /\ stage' = "indicator"
    <2>1. StepsLeft = TurnsFrom(n, ws) + (as + 2) /\ StepsLeft' = as + 1
      BY <1>1, <1>5 DEF StepsLeft
    <2>2. TurnsFrom(n, ws) \in Nat /\ as \in Nat
      BY <1>1, <1>3
    <2> QED BY <1>2, <2>1, <2>2
  <1>6. CASE stage = "indicator" /\ stage' = "alerts" /\ n' = 1
    <2>1. StepsLeft = as + 1 /\ StepsLeft' = TurnsFrom(1, as)
      BY <1>1, <1>6 DEF StepsLeft
    <2> QED BY <1>1, <1>2, <1>3, <2>1
  <1>7. CASE stage = "alerts" /\ n <= as /\ stage' = "alerts" /\ n' = n + 1
    <2>1. StepsLeft = TurnsFrom(n, as) /\ StepsLeft' = TurnsFrom(n + 1, as)
      BY <1>1, <1>7 DEF StepsLeft
    <2> QED BY <1>1, <1>2, <1>3, <1>7, <2>1
  <1> QED BY <1>4, <1>5, <1>6, <1>7

LEMMA NextLowers ==
    ASSUME IInv, Next
    PROVE  \/ ConfigsLeft' < ConfigsLeft
           \/ ConfigsLeft' = ConfigsLeft /\ StepsLeft' < StepsLeft
  <1>1. TypeOK /\ Len(config) \in Nat /\ i \in Nat
    BY DEF IInv, TypeOK
  <1>2. CASE Fail /\ stage \notin {"ok", "error"}
    BY <1>1, <1>2, FailLowers
  <1>3. CASE ConvertWindow /\ ~Fail
    BY <1>1, <1>3, StepLowers DEF ConvertWindow, At
  <1>4. CASE ConvertObjective /\ ~Fail
    BY <1>1, <1>4, StepLowers DEF ConvertObjective, At
  <1>5. CASE ConvertIndicator /\ ~Fail
    BY <1>1, <1>5, StepLowers DEF ConvertIndicator, At
  <1>6. CASE ConvertAlert /\ ~Fail
    BY <1>1, <1>6, StepLowers DEF ConvertAlert, At
  <1>7. CASE FinishSLO
    BY <1>1, <1>7 DEF FinishSLO, At, ConfigsLeft
  <1>8. CASE Finish
    BY <1>1, <1>8 DEF Finish, ConfigsLeft
  <1>9. ASSUME Fail, ~(FinishSLO \/ Finish)
        PROVE  stage \notin {"ok", "error"}
    BY <1>9 DEF Next, ConvertWindow, ConvertObjective, ConvertIndicator, ConvertAlert, At
  <1> QED BY <1>2, <1>3, <1>4, <1>5, <1>6, <1>7, <1>8, <1>9 DEF Next

(* A step that lowers the counts.                                            *)
Lowered == <<Left', Left>> \in Fewer

(* ToSpec returns after finitely many steps on every list of                *)
(* configurations: each step lowers a pair of counts in an order without    *)
(* infinite descent.                                                        *)
THEOREM StepsRunOut ==
    /\ IsWellFoundedOn(Fewer, Counts)
    /\ Spec => [](Left \in Counts) /\ [][Lowered]_vars
  <1>1. IInv => Left \in Counts
    BY LeftType DEF IInv, Left, Counts
  <1>2. IInv /\ [Next]_vars => [Lowered]_vars
    <2> SUFFICES ASSUME IInv, Next PROVE Lowered
      OBVIOUS
    <2>1. (TypeOK => ConfigsLeft \in Nat /\ StepsLeft \in Nat)'
      BY LeftType, PTL
    <2>2. ConfigsLeft \in Nat /\ StepsLeft \in Nat /\ ConfigsLeft' \in Nat /\ StepsLeft' \in Nat
      BY <2>1, LeftType, NextIInv DEF IInv
    <2> QED BY <2>2, NextLowers, FewerIf DEF Left, Lowered
  <1>3. Spec => [](Left \in Counts) /\ [][Lowered]_vars
    BY <1>1, <1>2, Invariance, PTL DEF Spec
  <1> QED BY <1>3, FewerWellFounded

Returned == stage \in {"ok", "error"}

(* The guards of the steps.                                                 *)
CanStep ==
    \/ \E part \in {"windows", "indicator", "alerts"} : At(part)
    \/ stage = "windows" /\ i > Len(config)

LEMMA Unblocked == TypeOK /\ RInv => Returned \/ CanStep
  <1> SUFFICES ASSUME TypeOK, RInv, ~Returned PROVE CanStep
    OBVIOUS
  <1>1. i \in Nat /\ Len(config) \in Nat /\ stage \in {"windows", "indicator", "alerts"}
    BY DEF TypeOK, Returned
  <1>2. stage \in {"indicator", "alerts"} => i <= Len(config)
    BY DEF RInv, ConfigConverted
  <1> QED BY <1>1, <1>2 DEF CanStep, At

(* Until it returns, ToSpec has a step: in the middle of an SLO it never    *)
(* stands past the last configuration.                                      *)
THEOREM NeverBlocked == Spec => [](Returned \/ CanStep)
  <1>1. IInv /\ IInv' /\ RInv /\ [Next]_vars => RInv'
    BY NextRight
  <1>2. IInv /\ RInv => Returned \/ CanStep
    BY Unblocked DEF IInv
  <1> QED
    BY <1>1, <1>2, Invariance, InitRight, PTL DEF Spec
=============================================================================
