----------------------------- MODULE MCPlatforms -----------------------------
(* Small instances of Platforms. *)
EXTENDS Platforms, TLC

CONSTANTS r1, r2

Fails(severity, bad) == [severity |-> severity, bad |-> bad, expression |-> FALSE]
Expression(severity, bad) == [severity |-> severity, bad |-> bad, expression |-> TRUE]

Plain(rules) == [rules |-> rules, policy |-> "always_run", lock |-> FALSE, stream |-> FALSE]

\* No rule; a quarantine rule before an abort rule that it relieves, of either
\* kind; an abort rule before a quarantine rule; a locked target; a key with
\* either policy; streams, one with a lock.
SomeContracts ==
    {Plain(<<>>),
     Plain(<<Fails("quarantine", {1}), Fails("abort", {1})>>),
     Plain(<<Expression("quarantine", {1}), Expression("abort", {1})>>),
     Plain(<<Expression("warn", {1}), Expression("abort", {1}), Fails("quarantine", {2})>>),
     [Plain(<<>>) EXCEPT !.lock = TRUE],
     [Plain(<<Fails("quarantine", {2})>>) EXCEPT !.policy = "skip_if_success"],
     [Plain(<<>>) EXCEPT !.policy = "fail_if_success"],
     [Plain(<<Expression("quarantine", {1}), Fails("abort", {2})>>) EXCEPT !.stream = TRUE],
     [Plain(<<Fails("quarantine", {1}), Expression("abort", {2})>>) EXCEPT !.stream = TRUE],
     [Plain(<<>>) EXCEPT !.lock = TRUE, !.stream = TRUE]}

\* Windows in order, without a key, with stop_on_failure off, and with either
\* kind of key; and windows that do not follow the watermark.
SomePlans ==
    LET plan == [windows |-> <<{1}, {2}>>, stop |-> TRUE, key |-> "none"]
    IN {plan, [plan EXCEPT !.stop = FALSE], [plan EXCEPT !.key = "window"],
        [plan EXCEPT !.key = "options"], [plan EXCEPT !.windows = <<{2}, {1}>>]}

AllRuns == Permutations(Run)

=============================================================================
