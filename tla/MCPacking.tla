------------------------------ MODULE MCPacking ------------------------------
EXTENDS EfficiencyPacking
PackA == <<"app", "a.py">>
PackB == <<"app", "b.py">>
Region(id, file, score, tokens, words, forms) ==
    [id |-> id, file |-> file, score |-> score, tokens |-> tokens, named |-> TRUE, evidence |-> NONE,
     admitted |-> FALSE, code |-> TRUE, words |-> words, forms |-> forms]

\* Whole files and symbols, near duplicates, a region that wastes the budget, an
\* admitted one, one that is protected, and one that is data.
MCRegions == {
    Region(1, PackA, 90, 4, {1, 2}, "structural" :> 2),
    Region(2, PackA, 60, 6, {1, 2}, ("structural" :> 3) @@ ("slimming" :> 5)),
    [Region(3, PackB, 50, 2, {1, 2}, <<>>) EXCEPT !.named = FALSE],
    [Region(4, PackB, 10, 7, {3}, "slimming" :> 6) EXCEPT !.named = FALSE],
    [Region(5, PackB, 10, 6, {1, 2, 3}, ("json_log" :> 2) @@ ("slimming" :> 4)) EXCEPT !.code = FALSE],
    [Region(6, PackB, 95, 5, {}, <<>>) EXCEPT !.admitted = TRUE, !.evidence = "direct"]}

MCBundles ==
    {[regions |-> r, seeds |-> s, expanded |-> {PackB}, budget |-> n, debugging |-> d, aspects |-> 2] :
        r \in {p \in [1..3 -> MCRegions] : Cardinality(ToSet(p)) = 3},
        s \in {{}, {PackA}}, n \in {4, 9, 14}, d \in BOOLEAN}
=============================================================================
