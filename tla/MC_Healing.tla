----------------------------- MODULE MC_Healing -----------------------------
EXTENDS Healing

TwoTools == {<<"t", "x">>, <<"u", "x">>}
TwoArguments == {<<"t", "x">>, <<"t", "y">>}
ToolName == [p \in TwoTools \cup TwoArguments |-> p[1]]

(* Two tools with the poll loop started and stopped; one tool with two     *)
(* argument values, watched by the hooks alone, its calls cancelled and    *)
(* retried; the same, with calls that are skipped between those that run.  *)
Watched == [pairs |-> TwoTools, k |-> 1, w |-> 2, calls |-> 4, actions |-> {"abort", "skip"},
            polling |-> TRUE, stop |-> TRUE, cancel |-> FALSE, retry |-> FALSE]
HooksOnly == [pairs |-> TwoArguments, k |-> 1, w |-> 3, calls |-> 4, actions |-> {"abort"},
              polling |-> FALSE, stop |-> FALSE, cancel |-> TRUE, retry |-> TRUE]
Skipping == [pairs |-> TwoArguments, k |-> 1, w |-> 2, calls |-> 5, actions |-> {"skip"},
             polling |-> FALSE, stop |-> FALSE, cancel |-> FALSE, retry |-> FALSE]
All == {Watched, HooksOnly, Skipping}
=============================================================================
