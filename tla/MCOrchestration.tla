--------------------------- MODULE MCOrchestration ---------------------------
(***************************************************************************)
(* One or two calls on projects of one or two steps, for every driver.     *)
(***************************************************************************)
EXTENDS Orchestration, TLC

CONSTANTS c1, c2, s1, s2

Both == {c1, c2}

Chain == s1 :> {} @@ s2 :> {s1}

\* The usual project: two steps in order, the second after the first.
Usual(driver, flags) ==
    [driver |-> driver, order |-> <<s1, s2>>, after |-> Chain, expects |-> [s \in Step |-> "SUCCEEDED"], from |-> 1,
     stop |-> TRUE, wait |-> TRUE, scheduled |-> FALSE, flags |-> flags, rules |-> 0,
     polls |-> 1, callers |-> Both, execs |-> 2, losses |-> 0]

OneStep(callers, flags, rules) ==
    [Usual("workflows", flags) EXCEPT !.order = <<s1>>, !.rules = rules, !.callers = callers,
                               !.polls = 2 - Cardinality(callers), !.losses = 2 - Cardinality(callers)]

Workflow ==
    {OneStep({c1}, {"deploy", "run", "readback", "cleanup", "cleanup_data"}, 2),
     OneStep(Both, {"deploy", "run", "readback", "id"}, 0),
     OneStep({c1}, {"readback"}, 0),
     [OneStep(Both, {"reset_data", "deploy", "run", "readback"}, 1) EXCEPT !.execs = 1],
     OneStep(Both, {"reset_data", "deploy", "run", "cleanup", "cleanup_data"}, 0),
     [OneStep({c1}, {"deploy", "run", "readback"}, 1) EXCEPT !.wait = FALSE],
     [Usual("workflows", {"deploy", "run", "readback"}) EXCEPT !.callers = {c1}, !.losses = 1]}

Notebook ==
    {Usual("fabric", {}),
     [Usual("fabric", {}) EXCEPT !.wait = FALSE],
     [Usual("fabric", {}) EXCEPT !.expects[s1] = "FAILED"],
     [Usual("fabric", {}) EXCEPT !.expects[s1] = "BLOCKED"],
     [Usual("fabric", {}) EXCEPT !.expects[s2] = "BLOCKED", !.wait = FALSE, !.callers = {c1}],
     [Usual("fabric", {}) EXCEPT !.expects[s1] = "RUNNING", !.wait = FALSE],
     [Usual("fabric", {}) EXCEPT !.expects[s2] = "RUNNING", !.callers = {c1}],
     [Usual("fabric", {}) EXCEPT !.order = <<s2, s1>>, !.stop = FALSE],
     [Usual("fabric", {}) EXCEPT !.from = 2, !.polls = 2]}

GlueJob ==
    {[Usual("glue", {}) EXCEPT !.polls = 2],
     [Usual("glue", {}) EXCEPT !.wait = FALSE],
     [Usual("glue", {}) EXCEPT !.expects[s1] = "FAILED"],
     [Usual("states", {}) EXCEPT !.order = <<s2, s1>>, !.polls = 2],
     [Usual("states", {}) EXCEPT !.scheduled = TRUE, !.wait = FALSE, !.callers = {c1}]}

Graph ==
    {Usual("tasks", {"deploy", "run"}),
     [Usual("tasks", {"deploy", "run"}) EXCEPT !.scheduled = TRUE, !.callers = {c1}, !.polls = 2]}

MCProjects == Workflow \cup Notebook \cup GlueJob \cup Graph

=============================================================================
