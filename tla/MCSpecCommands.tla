--------------------------- MODULE MCSpecCommands ---------------------------
(* Spec files of one SLO with every use of up to two windows, or with one   *)
(* mistake, and of two SLOs, for every command, type and format.            *)
EXTENDS SpecCommands

M == INSTANCE MCSpecConversion WITH Configs <- {}

MCIntervals == {0, 1}

Budget == M!Alerting({"errorBudget"}, TRUE, Absent, Absent)

Burn == M!Alerting({"burnRate"}, TRUE, "b", Absent)

Multi == M!Alerting({"burnRate"}, TRUE, Absent, [short |-> "b", long |-> "a"])

One ==
    {M!Make("x", wins, ref, indicator, as) :
       wins \in {<<v, w>> : v \in M!Good("a"), w \in M!Good("b")}
                \cup {<<v>> : v \in M!Good("a") \cup M!Wrong("a")},
       ref \in {"a", "b", EmptyName}, indicator \in BOOLEAN,
       as \in {<<>>, <<Budget>>, <<Burn>>, <<Multi, Budget>>}}

Other(name) ==
    {M!Make(name, <<w>>, ref, TRUE, as) :
       w \in M!Good("b"), ref \in {"b", EmptyName}, as \in {<<>>, <<Burn>>, <<Budget>>}}

MCConfigs ==
    {<<>>} \cup {<<c>> : c \in One}
      \cup {<<c, d>> : c \in Other("x"), d \in Other("x") \cup Other("y")}
=============================================================================
