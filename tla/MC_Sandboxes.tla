---------------------------- MODULE MC_Sandboxes ----------------------------
EXTENDS Sandboxes, TLC

MCCodes == {[imports |-> {"re"}, names |-> {}, does |-> "return"],
            [imports |-> {"os"}, names |-> {"eval"}, does |-> "return"]}
MCSymmetry == Permutations(Sandboxes) \cup Permutations(Executions) \cup Permutations(Agents)
=============================================================================
