----------------------------- MODULE ProjectRuns -----------------------------
(***************************************************************************)
(* What the project commands of the GCP, Fabric, AWS and Snowflake         *)
(* adapters have in common.  A call (one command of an operator, a CI job  *)
(* or a script) deploys the steps of a project and runs them; an execution *)
(* is one pass over the steps, driven by the call itself (Fabric, Glue) or *)
(* by the service (Google Workflows, Step Functions, Snowflake tasks); a   *)
(* job is what the service runs for one step.  The services are external:  *)
(* a job ends when it likes, well or badly, and nobody waits for it but    *)
(* the code.                                                               *)
(*                                                                         *)
(* Each adapter is a module of its own over these variables; Orchestration *)
(* puts them together.                                                     *)
(***************************************************************************)
EXTENDS Naturals, Sequences, FiniteSets

CONSTANTS
    Caller,    \* the calls
    Step,      \* the steps of the project, one contract each
    None,      \* no call
    Projects   \* the projects that an instance looks at

Driver == {"workflows", "fabric", "glue", "states", "tasks"}

Flag == {"reset_data", "deploy", "id", "run", "readback", "cleanup", "cleanup_data"}

StepStatus == {"SUCCEEDED", "FAILED", "BLOCKED", "RUNNING"}

\* "order" is execution_order, "after" the depends_on of each step, "expects"
\* its expected_result where a call looks at it: any of the four on Fabric, no
\* other than failed, with --accept-expected-failures, on Glue; "from" the position of
\* start_at, "stop" is stop_on_failure, both of Fabric alone.  "flags" matters
\* to Google Workflows and Snowflake, whose flags are to deploy and to run;
\* "rules", the number of quality rules of a contract, to Google Workflows.
\* "polls" is what max_attempts, poll_max_attempts or max_wait_seconds allow;
\* "callers", "execs" and "losses" bound the calls, the executions and those
\* that lose an answer in an instance.
Project ==
    [driver: Driver, order: Seq(Step), after: [Step -> SUBSET Step], expects: [Step -> StepStatus],
     from: Nat \ {0}, stop: BOOLEAN, wait: BOOLEAN, scheduled: BOOLEAN, flags: SUBSET Flag, rules: Nat,
     polls: Nat, callers: SUBSET Caller, execs: Nat, losses: Nat]

ASSUME ProjectsAssumption ==
    \A p \in Projects:
        /\ p \in Project
        /\ p.from <= Len(p.order)
        /\ \A i, j \in DOMAIN p.order: p.order[i] = p.order[j] => i = j
        /\ p.driver # "fabric" => p.from = 1
        /\ \A s \in Step:
              /\ p.driver = "glue" => p.expects[s] \in {"SUCCEEDED", "FAILED"}
              /\ p.driver \notin {"fabric", "glue"} => p.expects[s] = "SUCCEEDED"
        /\ p.driver # "workflows" => p.flags \subseteq {"deploy", "run"}
ASSUME NoneAssumption == None \notin Caller

Version == Caller \cup {None}

VARIABLES
    project,
    item,      \* what the service holds of each step: the call its code and its definition are from
    machine,   \* the call that the deployed workflow or state machine is from
    started,   \* the tasks that are resumed
    updates,   \* definition updates accepted by Fabric and not applied
    execs,     \* the executions
    jobs,      \* the jobs
    erased,    \* the jobs whose rows a cleanup deleted
    calls      \* the calls

service == <<item, machine, started, updates>>
vars == <<project, service, execs, jobs, erased, calls>>

Op == {"write", "record", "check", "pass", "flag", "record_failed"}

\* An execution in a service has come to "op" of the step "at", for which it
\* looks at a job; "lost" says that it does not know of all its jobs.
Exec ==
    [by: Version, label: {"local", "running", "succeeded", "failed", "raised", "cancelled", "ended"},
     at: Nat, op: Op, job: Nat, polls: Nat, lost: BOOLEAN]

Job ==
    [step: Step, exec: Nat, kind: Op, code: Version, def: Version,
     state: {"running", "succeeded", "failed"}, bad: SUBSET Nat]

\* Where a call is: the flags of the GCP command, or its next request.
Label ==
    Flag \cup {"idle", "done", "end", "wait", "runs", "quality", "reset_runs", "reset_quality",
              "cleanup_runs", "cleanup_quality", "look", "create", "update", "operation",
              "submit", "publish", "lookup", "start", "find", "create_machine", "update_machine",
              "execute", "watch", "suspend", "clock", "resume"}

\* "since" is the number of jobs that a watcher takes for older than its run,
\* "mixed" a history: what it runs may be from another deployment.
Call ==
    [label: Label, exec: Nat, at: Nat, job: Nat, polls: Nat, since: Nat, ok: BOOLEAN,
     statuses: SUBSET StepStatus, seen: SUBSET Nat, verdict: {"none", "raised"} \cup StepStatus,
     mixed: BOOLEAN]

Init ==
    /\ project \in Projects
    /\ item = [s \in Step |-> [code |-> None, def |-> None]]
    /\ machine = None
    /\ started = {}
    /\ updates = {}
    /\ execs = <<>>
    /\ jobs = <<>>
    /\ erased = {}
    /\ calls = [c \in Caller |->
          [label |-> "idle", exec |-> 0, at |-> project.from, job |-> 0, polls |-> 0, since |-> 0,
           ok |-> TRUE, statuses |-> {}, seen |-> {}, verdict |-> "none", mixed |-> FALSE]]

-----------------------------------------------------------------------------
(* Calls *)

Steps == {project.order[i]: i \in DOMAIN project.order}

Current(c) == project.order[calls[c].at]

Active(c) == calls[c].label \notin {"idle", "done"}

At(c, driver, label) == project.driver = driver /\ calls[c].label = label

\* An execution that a service takes further.
Running(e) == e # 0 /\ execs[e].label = "running"

\* A call begins.  It is mixed with every call under way, and with an update
\* that a call before it has left with the service; an execution that still
\* runs is mixed with it; one that begins with
\* "clock" runs what others deployed.
Begin(c, label, e) ==
    LET others == {x \in Caller: Active(x)}
    IN  /\ c \in project.callers
        /\ calls[c].label = "idle"
        /\ calls' = [x \in Caller |->
              IF x = c
              THEN [calls[c] EXCEPT !.label = label, !.exec = e, !.mixed = others # {} \/ updates # {} \/ label = "clock"]
              ELSE [calls[x] EXCEPT !.mixed = @ \/ x \in others \/ Running(calls[x].exec)]]

Goto(c, label) == calls' = [calls EXCEPT ![c] = [@ EXCEPT !.label = label, !.polls = 0]]

Finish(c, verdict) == calls' = [calls EXCEPT ![c] = [@ EXCEPT !.label = "done", !.verdict = verdict]]

\* The next step of the project, from "label" on, or the end of the loop.
NextStep(c, label, end) ==
    LET x == calls[c]
    IN  calls' = [calls EXCEPT ![c] =
           IF x.at < Len(project.order)
           THEN [x EXCEPT !.at = x.at + 1, !.label = label, !.polls = 0]
           ELSE [x EXCEPT !.at = project.from, !.label = end, !.polls = 0]]

\* One more look at something that goes on, if there is one left.
Poll(c) ==
    IF calls[c].polls + 1 < project.polls
    THEN calls' = [calls EXCEPT ![c].polls = @ + 1]
    ELSE Finish(c, "raised")

End(c) ==
    /\ calls[c].label = "end"
    /\ Finish(c, "SUCCEEDED")
    /\ UNCHANGED <<project, service, execs, jobs, erased>>

\* A request or a command fails, or the process of the call dies.
Raise(c) ==
    /\ Active(c)
    /\ Finish(c, "raised")
    /\ UNCHANGED <<project, service, execs, jobs, erased>>

-----------------------------------------------------------------------------
(* Executions and jobs *)

NewExec(by, label) ==
    [by |-> by, label |-> label, at |-> 1, op |-> "write", job |-> 0, polls |-> 0, lost |-> FALSE]

NewJob(e, s, kind) ==
    [step |-> s, exec |-> e, kind |-> kind, code |-> item[s].code, def |-> item[s].def,
     state |-> "running", bad |-> {}]

Live(j) == jobs[j].state = "running"

Of(e, s, kind) == {j \in DOMAIN jobs: jobs[j].exec = e /\ jobs[j].step = s /\ jobs[j].kind = kind}

Succeeded(e, s, kind) == \E j \in Of(e, s, kind): jobs[j].state = "succeeded"

LiveOf(s) == {j \in DOMAIN jobs: jobs[j].step = s /\ Live(j)}

\* A schedule leaves every call that has still to start its execution the
\* place for it within the bound.
Room == Len(execs) + Cardinality({c \in project.callers: calls[c].label # "done" /\ calls[c].exec = 0}) < project.execs

SetExec(e, label) == execs' = [execs EXCEPT ![e].label = label]

\* The service ends a job; what a query of the quality rules counts is known
\* then: "bad" are the rules with failed rows.
JobEnds(j) ==
    /\ Live(j)
    /\ \E state \in {"succeeded", "failed"},
          bad \in IF jobs[j].kind = "check" THEN SUBSET (1..project.rules) ELSE {{}}:
          /\ state = "failed" => bad = {}
          /\ jobs' = [jobs EXCEPT ![j].state = state, ![j].bad = bad]
    /\ UNCHANGED <<project, service, execs, erased, calls>>

=============================================================================
