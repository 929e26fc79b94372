--------------------------- MODULE SpecConversion ---------------------------
(***************************************************************************)
(* internal/spec: ToSpec turns the SLO configurations of a spec file into   *)
(* the Spec the generators work on. Each SLO is converted window by window, *)
(* then its objective, indicator and alerts, which refer to windows by name *)
(* through a map; the first error ends the conversion.                      *)
(*                                                                          *)
(* A configuration keeps which of the alternative fields are present, the   *)
(* names it refers to, and whether its texts parse.                         *)
(***************************************************************************)
EXTENDS SLOSpec, Functions

CONSTANTS
    Configs,    \* the lists of SLO configurations that may be given
    EmptyName,  \* the empty name, which an omitted windowRef also has
    Absent,     \* an optional field that is not present
    Bad         \* a text that does not parse

ASSUME ZeroAssumption == 0 \in Intervals

ASSUME AbsentAssumption ==
    /\ Absent \notin WindowNames \cup {EmptyName} /\ Absent \notin Intervals
    /\ Bad \notin Durations /\ Bad \notin Intervals /\ Absent # Bad

Ref == WindowNames \cup {EmptyName}

WindowConfig ==
    [name: WindowNames, types: SUBSET {"rolling", "calendar"},
     duration: Durations \cup {Bad}, start: {"parses", Bad},
     prometheus: Intervals \cup {Absent, Bad}]

AlertConfig ==
    [types: SUBSET {"burnRate", "errorBudget"}, alerter: BOOLEAN,
     single: Ref \cup {Absent},
     multi: [short: Ref, long: Ref] \cup {Absent}]

SLOConfig ==
    [name: SLONames, windows: Seq(WindowConfig), windowRef: Ref,
     indicator: BOOLEAN, alerts: Seq(AlertConfig)]

ASSUME ConfigsAssumption == Configs \subseteq Seq(SLOConfig)

VARIABLES
    config,         \* the SLO configurations being converted
    i,              \* index of the current one
    stage,          \* the part of it being converted, or how ToSpec returned
    n,              \* index of the next window or alert
    windows,        \* specContext: windows of the current SLO, in order,
    windowsByName,  \* by name,
    objective,      \* and its objective's window,
    alerts,         \* and alerts
    slos            \* the SLOs converted

contextVars == <<windows, windowsByName, objective, alerts>>
vars == <<config, i, stage, n, contextVars, slos>>

-----------------------------------------------------------------------------
(* Windows.                                                                 *)

(* Mutant: a duration that does not parse passes. *)
WindowAcceptedAnyDuration(c) ==
    /\ c.prometheus # Bad
    /\ c.types \in {{"rolling"}, {"calendar"}}
    /\ "calendar" \in c.types => c.start # Bad

(* toWindow returns no error: exactly one type, and texts that parse.       *)
WindowAccepted(c) ==
    /\ c.prometheus # Bad
    /\ c.types \in {{"rolling"}, {"calendar"}}
    /\ c.duration # Bad
    /\ "calendar" \in c.types => c.start # Bad

toWindow(c) ==
    [name |-> c.name, rolling |-> c.types = {"rolling"}, duration |-> c.duration,
     interval |-> IF c.prometheus = Absent THEN 0 ELSE c.prometheus]

(* Alerts. The long window of a multi-window alert comes first: it is the   *)
(* one BurnRateAlertMultiWindows.Window returns.                            *)

BurnRateAccepted(a) ==
    \/ /\ a.single # Absent /\ a.multi = Absent
       /\ a.single \in DOMAIN windowsByName
    \/ /\ a.multi # Absent /\ a.single = Absent
       /\ {a.multi.short, a.multi.long} \subseteq DOMAIN windowsByName

AlertAccepted(a) ==
    /\ a.alerter
    /\ \/ a.types = {"burnRate"} /\ BurnRateAccepted(a)
       \/ a.types = {"errorBudget"}

(* Mutant: short and long windows swapped. *)
toBurnRateAlertWindowSwapped(a) ==
    IF a.multi = Absent THEN <<windowsByName[a.single]>>
    ELSE <<windowsByName[a.multi.short], windowsByName[a.multi.long]>>

toBurnRateAlertWindow(a) ==
    IF a.multi = Absent THEN <<windowsByName[a.single]>>
    ELSE <<windowsByName[a.multi.long], windowsByName[a.multi.short]>>

toAlert(a) ==
    IF a.types = {"burnRate"}
    THEN [kind |-> "burnRate", windows |-> toBurnRateAlertWindow(a)]
    ELSE [kind |-> "errorBudget", windows |-> <<>>]

-----------------------------------------------------------------------------
Init ==
    /\ config \in Configs
    /\ i = 1
    /\ stage = "windows"
    /\ n = 1
    /\ windows = <<>>
    /\ windowsByName = <<>>
    /\ objective = NoWindow
    /\ alerts = <<>>
    /\ slos = <<>>

Current == config[i]

At(part) == stage = part /\ i <= Len(config)

Fail ==
    /\ stage' = "error"
    /\ UNCHANGED <<config, i, n, contextVars, slos>>

(* addWindow, when it returns no error.                                     *)
addWindow(w) ==
    /\ w.name \notin DOMAIN windowsByName
    /\ windowsByName' = [x \in DOMAIN windowsByName \cup {w.name} |->
                           IF x = w.name THEN w ELSE windowsByName[x]]
    /\ windows' = Append(windows, w)

ConvertWindow ==
    /\ At("windows") /\ n <= Len(Current.windows)
    /\ LET c == Current.windows[n]
       IN \/ /\ ~WindowAccepted(c) \/ c.name \in DOMAIN windowsByName
             /\ Fail
          \/ /\ WindowAccepted(c)
             /\ addWindow(toWindow(c))
             /\ n' = n + 1
             /\ UNCHANGED <<config, i, stage, objective, alerts, slos>>

(* toObjective: an empty windowRef means no window, any other must be found. *)
ConvertObjective ==
    /\ At("windows") /\ n > Len(Current.windows)
    /\ LET ref == Current.windowRef
       IN \/ /\ ref # EmptyName /\ ref \notin DOMAIN windowsByName
             /\ Fail
          \/ /\ ref = EmptyName \/ ref \in DOMAIN windowsByName
             /\ objective' = IF ref = EmptyName THEN NoWindow
                             ELSE windowsByName[ref]
             /\ stage' = "indicator"
             /\ UNCHANGED <<config, i, n, windows, windowsByName, alerts, slos>>

ConvertIndicator ==
    /\ At("indicator")
    /\ \/ ~Current.indicator /\ Fail
       \/ /\ Current.indicator
          /\ stage' = "alerts"
          /\ n' = 1
          /\ UNCHANGED <<config, i, contextVars, slos>>

ConvertAlert ==
    /\ At("alerts") /\ n <= Len(Current.alerts)
    /\ LET a == Current.alerts[n]
       IN \/ ~AlertAccepted(a) /\ Fail
          \/ /\ AlertAccepted(a)
             /\ alerts' = Append(alerts, toAlert(a))
             /\ n' = n + 1
             /\ UNCHANGED <<config, i, stage, windows, windowsByName, objective, slos>>

(* Mutant: the map carried over from one SLO to the next. *)
FreshContextMapKept ==
    /\ windows' = <<>>
    /\ UNCHANGED windowsByName
    /\ objective' = NoWindow
    /\ alerts' = <<>>

(* The next SLO starts with an empty specContext.                           *)
FreshContext ==
    /\ windows' = <<>>
    /\ windowsByName' = <<>>
    /\ objective' = NoWindow
    /\ alerts' = <<>>

(* toSLO returns, and ToSpec goes on with the next configuration.           *)
FinishSLO ==
    /\ At("alerts") /\ n > Len(Current.alerts)
    /\ slos' = Append(slos, [name |-> Current.name, windows |-> windows,
                             objective |-> objective, alerts |-> alerts])
    /\ FreshContext
    /\ i' = i + 1
    /\ n' = 1
    /\ stage' = "windows"
    /\ UNCHANGED config

Finish ==
    /\ stage = "windows" /\ i > Len(config)
    /\ stage' = "ok"
    /\ UNCHANGED <<config, i, n, contextVars, slos>>

Next ==
    \/ ConvertWindow \/ ConvertObjective \/ ConvertIndicator \/ ConvertAlert
    \/ FinishSLO \/ Finish

Spec == Init /\ [][Next]_vars
-----------------------------------------------------------------------------
(* Properties                                                               *)

TypeOK ==
    /\ config \in Seq(SLOConfig)
    /\ i \in Nat \ {0} /\ n \in Nat \ {0}
    /\ stage \in {"windows", "indicator", "alerts", "ok", "error"}
    /\ windows \in Seq(Window)
    /\ DOMAIN windowsByName \subseteq WindowNames
    /\ \A x \in DOMAIN windowsByName : windowsByName[x] \in Window
    /\ objective \in Window \cup {NoWindow}
    /\ alerts \in Seq(Alert)
    /\ slos \in Seq(SLO)

(* What the rule generator relies on: window names are unique within an SLO *)
(* and no objective or alert refers to a window the SLO does not list. It   *)
(* holds of each SLO as soon as it is converted, whatever the configuration. *)
SLOsWellFormed == \A m \in DOMAIN slos : WellFormed(slos[m])

(* The list of windows and the map from names to windows describe the same  *)
(* windows at every moment.                                                 *)
ContextAgrees ==
    /\ DOMAIN windowsByName = {w.name : w \in Range(windows)}
    /\ \A w \in Range(windows) : windowsByName[w.name] = w

(* When ToSpec accepts a configuration, said without the context: a config  *)
(* as a relation between its own parts.                                     *)
Valid(c) ==
    LET names == {w.name : w \in Range(c.windows)}
    IN /\ \A m, k \in DOMAIN c.windows : c.windows[m].name = c.windows[k].name => m = k
       /\ \A w \in Range(c.windows) :
            /\ w.prometheus # Bad /\ w.duration # Bad
            /\ w.types = {"rolling"} \/ (w.types = {"calendar"} /\ w.start # Bad)
       /\ c.windowRef \in names \cup {EmptyName}
       /\ c.indicator
       /\ \A a \in Range(c.alerts) :
            /\ a.alerter
            /\ \/ a.types = {"errorBudget"}
               \/ /\ a.types = {"burnRate"}
                  /\ \/ a.multi = Absent /\ a.single \in names
                     \/ /\ a.multi # Absent /\ a.single = Absent
                        /\ {a.multi.short, a.multi.long} \subseteq names

(* The window of an SLO configuration that a reference names.               *)
Named(c, ref) == toWindow(CHOOSE w \in Range(c.windows) : w.name = ref)

Meaning(c) ==
    [name |-> c.name,
     windows |-> [m \in DOMAIN c.windows |-> toWindow(c.windows[m])],
     objective |-> IF c.windowRef = EmptyName THEN NoWindow ELSE Named(c, c.windowRef),
     alerts |-> [m \in DOMAIN c.alerts |->
       LET a == c.alerts[m]
       IN CASE a.types = {"errorBudget"} -> [kind |-> "errorBudget", windows |-> <<>>]
            [] a.types = {"burnRate"} /\ a.multi = Absent ->
                 [kind |-> "burnRate", windows |-> <<Named(c, a.single)>>]
            [] OTHER -> [kind |-> "burnRate",
                 windows |-> <<Named(c, a.multi.long), Named(c, a.multi.short)>>]]]

(* ToSpec accepts exactly the lists of valid configurations, and converts   *)
(* each to what it means, independently of the others in the list.          *)
ConversionIsReference ==
    /\ stage = "error" => \E m \in DOMAIN config : ~Valid(config[m])
    /\ stage = "ok" =>
         /\ \A m \in DOMAIN config : Valid(config[m])
         /\ slos = [m \in DOMAIN config |-> Meaning(config[m])]
=============================================================================
