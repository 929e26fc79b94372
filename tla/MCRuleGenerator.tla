-------------------------- MODULE MCRuleGenerator --------------------------
(***************************************************************************)
(* Bounded specs for RuleGenerator: SingleSLO varies one SLO over every     *)
(* shape of two windows, objective and alerts; SLOPairs varies the names,   *)
(* windows and alerts of two SLOs that share the tables.                     *)
(***************************************************************************)
EXTENDS RuleGenerator

MCIntervals == {0, 1}

BurnRate(windows) == [kind |-> "burnRate", windows |-> windows]

BudgetAlert == [kind |-> "errorBudget", windows |-> <<>>]

AlertsOn(windows) ==
    {BurnRate(<<w>>) : w \in Range(windows)}
      \cup {BurnRate(<<v, w>>) : v, w \in Range(windows)}
      \cup {BudgetAlert}

MakeSLO(name, windows, objective, alerts) ==
    [name |-> name, windows |-> windows, objective |-> objective,
     alerts |-> alerts]

(* All lists of at most two windows named in order. *)
WindowLists ==
    LET Named(n) == {w \in Window : w.name = n}
    IN {<<>>} \cup {<<w>> : w \in Named("a")}
         \cup {<<v, w>> : v \in Named("a"), w \in Named("b")}

SLOsOver(names, lists, MaxAlerts) ==
    UNION {UNION {{MakeSLO(name, windows, objective, alerts) :
                     objective \in Range(windows) \cup {NoWindow},
                     alerts \in UNION {[1..n -> AlertsOn(windows)] : n \in 0..MaxAlerts}}
                  : windows \in lists} : name \in names}

SingleSLO == {<<slo>> : slo \in SLOsOver({"x"}, WindowLists, 1)}

(* Pairs: rolling windows that may differ in duration and interval. *)
PairLists ==
    LET W(n, d, t) == [name |-> n, rolling |-> TRUE, duration |-> d, interval |-> t]
    IN {<<W("a", 1, 0)>>, <<W("a", 2, 1)>>, <<W("b", 2, 0)>>,
        <<W("a", 1, 0), W("b", 2, 1)>>}

SLOPairs ==
    {<<s, t>> : s \in SLOsOver({"x"}, PairLists, 1),
                t \in SLOsOver({"x", "y"}, PairLists, 1)}
      \cup {<<slo>> : slo \in SLOsOver({"x"}, PairLists, 2)}
=============================================================================
