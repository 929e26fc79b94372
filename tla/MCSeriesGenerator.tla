-------------------------- MODULE MCSeriesGenerator --------------------------
(* Series files with one or two families, with overrides that overlap, and  *)
(* every way to choose a window by flags.                                   *)
EXTENDS SeriesGenerator

Constant(rates, overrides) == [constant |-> [rates |-> rates, overrides |-> overrides]]

During(from, to, rates) == [start |-> from, end |-> to, rates |-> rates]

Binomial == [binomial |-> [throughput |-> 2]]

Labelled(labels, status, kinds) == [labels |-> labels, status |-> status, kinds |-> kinds]

Pair(labels, kinds) == Labelled(labels, <<"success", "failure">>, kinds)

Family(name, pairs) == [name |-> name, pairs |-> pairs]

Overlapping == <<During(2, 5, <<0, 3>>), During(4, 6, <<1, 1>>)>>

Families ==
    {<<>>,
     <<Family("a", <<Pair(<<"l1", "l2", "l3">>, Constant(<<2, 0>>, Overlapping))>>)>>,
     <<Family("a", <<Pair(<<>>, Binomial)>>), Family("b", <<>>)>>,
     <<Family("a", <<Pair(<<>>, [constant |-> Constant(<<0, 1>>, <<>>).constant,
                                 binomial |-> Binomial.binomial])>>)>>,
     <<Family("a", <<Pair(<<>>, <<>>)>>)>>,
     <<Family("a", <<Pair(<<>>, Constant(<<60, -2>>, <<>>))>>)>>,
     <<Family("a", <<Pair(<<"l1">>, Constant(<<1, 0>>, <<>>)), Pair(<<"l2">>, Binomial)>>)>>,
     <<Family("a", <<Pair(<<>>, Binomial)>>), Family("a", <<Pair(<<>>, Binomial)>>)>>,
     <<Family("a", <<Labelled(<<>>, <<"any", "any">>, Binomial)>>)>>}

MCConfigs ==
    [families: Families, start: {0, 2}, end: {0, 6}, interval: {-1, 0, 1, 2}]

MCFlags == [start: {0}, end: {0}, interval: {0}] \cup [start: {3}, end: {7}, interval: {0, 3}]

MCDraw(throughput, n) == IF n % 3 = 0 THEN throughput ELSE (n % 2) * (throughput \div 2)
=============================================================================
