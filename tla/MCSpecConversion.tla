-------------------------- MODULE MCSpecConversion --------------------------
(***************************************************************************)
(* Bounded configurations: single SLOs with up to two windows, each either  *)
(* right or wrong in one way, and up to one alert of any shape; and pairs   *)
(* of SLOs that refer to each other's windows.                              *)
(***************************************************************************)
EXTENDS SpecConversion

Win(name, types, duration, start, prometheus) ==
    [name |-> name, types |-> types, duration |-> duration, start |-> start,
     prometheus |-> prometheus]

Good(name) ==
    {Win(name, {"rolling"}, 1, "parses", 1),
     Win(name, {"calendar"}, 1, "parses", Absent)}

Wrong(name) ==
    {Win(name, {}, 1, "parses", 1),
     Win(name, {"rolling", "calendar"}, 1, "parses", 1),
     Win(name, {"rolling"}, Bad, "parses", 1),
     Win(name, {"calendar"}, 1, Bad, 1),
     Win(name, {"rolling"}, 1, "parses", Bad)}

Alerting(types, alerter, single, multi) ==
    [types |-> types, alerter |-> alerter, single |-> single, multi |-> multi]

Multis == [short: Ref, long: Ref]

Burns ==
    {Alerting({"burnRate"}, TRUE, s, Absent) : s \in Ref \cup {Absent}}
      \cup {Alerting({"burnRate"}, TRUE, Absent, m) : m \in Multis}
      \cup {Alerting({"burnRate"}, TRUE, s, m) : s \in Ref, m \in Multis}

OddAlerts ==
    {Alerting(t, b, "a", Absent) : t \in SUBSET {"burnRate", "errorBudget"}, b \in BOOLEAN}

Make(name, wins, ref, indicator, as) ==
    [name |-> name, windows |-> wins, windowRef |-> ref, indicator |-> indicator,
     alerts |-> as]

Lists(set) == {<<>>} \cup {<<v>> : v \in set} \cup {<<v, w>> : v, w \in set}

Singles ==
    {<<Make("x", wins, ref, TRUE, as)>> :
       wins \in Lists(UNION {Good(m) \cup Wrong(m) : m \in WindowNames}),
       ref \in Ref, as \in {<<>>, <<Alerting({"errorBudget"}, TRUE, Absent, Absent)>>}}
      \cup {<<Make("x", wins, ref, ind, as)>> :
              wins \in Lists(UNION {Good(m) : m \in WindowNames}),
              ref \in {"a", EmptyName}, ind \in BOOLEAN,
              as \in {<<a>> : a \in Burns \cup OddAlerts}}

Pairs ==
    LET Half(name) ==
          {Make(name, wins, ref, TRUE, as) :
             wins \in {<<>>} \cup {<<w>> : w \in Good("a") \cup Good("b")},
             ref \in {"a", "b", EmptyName},
             as \in {<<>>, <<Alerting({"burnRate"}, TRUE, "b", Absent)>>}}
    IN {<<s, t>> : s \in Half("x"), t \in Half("x") \cup Half("y")}

MCConfigs == {<<>>} \cup Singles \cup Pairs
MCIntervals == {0, 1}
MCWindowNames == {"a", "b", ""}
=============================================================================
