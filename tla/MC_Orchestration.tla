--------------------------- MODULE MC_Orchestration ---------------------------
EXTENDS Orchestration

Agent(name) == [kind |-> "agent", name |-> name]
Function(name) == [kind |-> "function", name |-> name]

(* A parallel with a timeout over a pipeline and a nested parallel. *)
Nested == <<
    [kind |-> "parallel", steps |-> <<2, 3>>, needs |-> {}, merge |-> "first_wins", timeout |-> TRUE],
    [kind |-> "pipeline", steps |-> <<4, 5>>, needs |-> {}, on_error |-> <<"skip", "retry">>, max_retries |-> 1],
    [kind |-> "parallel", steps |-> <<6, 7>>, needs |-> {"b"}, merge |-> "callable", timeout |-> FALSE],
    Agent("a"), Function("b"), Agent("a"), Function("b") >>

(* A loop that keeps its best, and one with a confidence bar and a window. *)
Loop(k, w, c, t) == <<
    [kind |-> "loop", step |-> 2, evaluator |-> 3, needs |-> {"b"}, max_iterations |-> 3,
     timeout |-> t, window |-> w, confidence |-> c, keep_best |-> k],
    Agent("a"), Function("b") >>

(* A pipeline over routers: by conditions, and by a classifier with a fallback. *)
Routed == <<
    [kind |-> "pipeline", steps |-> <<2, 3>>, needs |-> {}, on_error |-> <<"retry", "stop">>, max_retries |-> 1],
    [kind |-> "router", routes |-> <<4, 5>>, needs |-> {"b"}, conditions |-> {4}, classifier |-> None, fallback |-> None],
    [kind |-> "router", routes |-> <<6>>, needs |-> {}, conditions |-> {}, classifier |-> 7, fallback |-> 8],
    Agent("a"), Function("b"), Function("b"), Agent("a"), 
    [kind |-> "parallel", steps |-> <<9, 10>>, needs |-> {}, merge |-> "collect_all", timeout |-> TRUE],
    Agent("c"), Agent("a") >>

(* Neither conditions nor a classifier: refused when it is built. *)
Unroutable == <<
    [kind |-> "router", routes |-> <<2>>, needs |-> {}, conditions |-> {}, classifier |-> None, fallback |-> None],
    Agent("a") >>

(* A loop over a parallel that its own timeout cuts off from a nested one. *)
Repeated == <<
    [kind |-> "loop", step |-> 2, evaluator |-> 3, needs |-> {"b"}, max_iterations |-> 2,
     timeout |-> FALSE, window |-> None, confidence |-> None, keep_best |-> FALSE],
    [kind |-> "parallel", steps |-> <<4>>, needs |-> {}, merge |-> "first_wins", timeout |-> TRUE],
    Function("b"),
    [kind |-> "parallel", steps |-> <<5>>, needs |-> {}, merge |-> "first_wins", timeout |-> FALSE],
    Agent("a") >>

MCShapes == {Nested, Routed, Unroutable, Repeated,
             Loop(TRUE, None, None, TRUE), Loop(TRUE, 2, 1, FALSE), Loop(FALSE, None, 1, TRUE)}
MCRegistries == {{"a", "b", "c"}, {"a", "c"}, {"b", "c"}}
=============================================================================
