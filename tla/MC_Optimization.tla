--------------------------- MODULE MC_Optimization ---------------------------
EXTENDS Optimization

MCWeights == [accuracy |-> 4, confidence |-> 1, cost_usd |-> -2, latency_ms |-> -1]

Bundle(a, c, l, e) == [accuracy |-> a, confidence |-> None, cost_usd |-> c, latency_ms |-> l, error |-> e]
MCOutcomes == {Bundle(0, 0, 0, TRUE), Bundle(2, 2, 3, FALSE), Bundle(1, 0, 2, FALSE),
               [Bundle(0, 0, 2, FALSE) EXCEPT !.confidence = 2]}

MCGenome == [prompt |-> [kind |-> "prompt", initial |-> "p0"],
             temperature |-> [kind |-> "scalar", initial |-> 1, low |-> 0, high |-> 5, quantize |-> 3],
             style |-> [kind |-> "categorical", initial |-> "s0", choices |-> {"s0", "s1"}]]

MCCandidates ==
    {[prompt |-> "p1", temperature |-> t, style |-> "s1"] : t \in {-1, 1, 2, 5, 7}}
    \cup {[prompt |-> None, temperature |-> Malformed, style |-> "s2"]}

MCStrategies == {"top_k", "cumulative", "parallel"}
=============================================================================
