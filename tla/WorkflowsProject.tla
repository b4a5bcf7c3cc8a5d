--------------------------- MODULE WorkflowsProject ---------------------------
(***************************************************************************)
(* deploy-project --orchestration workflows of the GCP adapter: the        *)
(* generated workflow, as Google Workflows goes through it, and the        *)
(* command that deploys it, executes it, waits, reads the evidence back    *)
(* and cleans up.                                                          *)
(*                                                                         *)
(* The execution queries BigQuery by jobs: "write" is the load or the      *)
(* query of the contract, "record" the row of the run, "check" the script  *)
(* of the quality rules, "pass" and "flag" its row.                        *)
(***************************************************************************)
EXTENDS ProjectRuns

On(e, label) == project.driver = "workflows" /\ execs[e].label = label

Doing(e) == project.order[execs[e].at]

\* The execution goes on with "op" of the step where it is.
Then(e, op) == execs' = [execs EXCEPT ![e] = [@ EXCEPT !.op = op, !.job = 0, !.polls = 0]]

StepDone(e) ==
    LET x == execs[e]
    IN  execs' = [execs EXCEPT ![e] =
           IF x.at = Len(project.order)
           THEN [x EXCEPT !.label = "succeeded"]
           ELSE [x EXCEPT !.at = x.at + 1, !.op = "write", !.job = 0, !.polls = 0]]

\* A job that the workflow waited for is over.  The rows of the script of the
\* quality rules are those of its last statement.
Succeeds(e) ==
    LET op == execs[e].op
        failing == project.rules \in jobs[execs[e].job].bad
    IN  CASE op = "write" -> Then(e, "record")
          [] op = "record" -> IF project.rules > 0 THEN Then(e, "check") ELSE StepDone(e)
          [] op = "check" -> Then(e, IF failing THEN "flag" ELSE "pass")
          [] op = "pass" -> StepDone(e)
          [] op \in {"flag", "record_failed"} -> SetExec(e, "failed")

\* An error of the write, or of its insertion, goes on record; any other one
\* is raised.
Errs(e, lost) ==
    LET x == execs[e]
    IN  execs' = [execs EXCEPT ![e] =
           IF x.op = "write"
           THEN [x EXCEPT !.op = "record_failed", !.job = 0, !.polls = 0, !.lost = x.lost \/ lost]
           ELSE [x EXCEPT !.label = "raised", !.lost = x.lost \/ lost]]

MayLose(e) ==
    ~execs[e].lost /\ Cardinality({f \in DOMAIN execs: execs[f].lost}) < project.losses

\* jobs.insert gives no job id: an answer that is lost is that of a job.  The
\* insertion is repeated if the predicate calls the error retryable.
Insert(e) ==
    LET job == [NewJob(e, Doing(e), execs[e].op) EXCEPT !.code = execs[e].by, !.def = execs[e].by]
    IN  /\ On(e, "running")
        /\ execs[e].job = 0
        /\ \/ /\ jobs' = Append(jobs, job)
              /\ \/ execs' = [execs EXCEPT ![e].job = Len(jobs) + 1]
                 \/ MayLose(e) /\ execs' = [execs EXCEPT ![e].lost = TRUE]
                 \/ MayLose(e) /\ Errs(e, TRUE)
           \/ Errs(e, FALSE) /\ UNCHANGED jobs
        /\ UNCHANGED <<project, service, erased, calls>>

\* Mutant: a job that takes too long goes on record as failed.
LookRecordingTimeouts(e) ==
    LET state == jobs[execs[e].job].state
    IN  /\ On(e, "running")
        /\ execs[e].job # 0
        /\ CASE state = "failed" -> Errs(e, FALSE)
             [] state = "succeeded" -> Succeeds(e)
             [] state = "running" -> Errs(e, FALSE)
        /\ UNCHANGED <<project, service, jobs, erased, calls>>

\* poll_check.  poll_timeout is raised whatever the job is.
Look(e) ==
    LET state == jobs[execs[e].job].state
    IN  /\ On(e, "running")
        /\ execs[e].job # 0
        /\ CASE state = "failed" -> Errs(e, FALSE)
             [] state = "succeeded" -> Succeeds(e)
             [] state = "running" ->
                   IF execs[e].polls < project.polls
                   THEN execs' = [execs EXCEPT ![e].polls = @ + 1]
                   ELSE SetExec(e, "raised")
        /\ UNCHANGED <<project, service, jobs, erased, calls>>

\* Any other call of the workflow fails for good.
ExecutionRaises(e) ==
    /\ On(e, "running")
    /\ SetExec(e, "raised")
    /\ UNCHANGED <<project, service, jobs, erased, calls>>

-----------------------------------------------------------------------------
(* The command *)

\* The order in which the command obeys its flags.  A cleanup of data takes three
\* places: its queries, on the targets first, are sent one after the other.
Flow == <<"reset_data", "reset_runs", "reset_quality", "deploy", "run", "wait", "runs", "quality",
          "cleanup", "cleanup_data", "cleanup_runs", "cleanup_quality", "end">>

Asked(label) ==
    CASE label = "wait" -> project.wait
      [] label \in {"runs", "quality"} -> "readback" \in project.flags
      [] label \in {"reset_runs", "reset_quality"} -> "reset_data" \in project.flags
      [] label \in {"cleanup_runs", "cleanup_quality"} -> "cleanup_data" \in project.flags
      [] label = "end" -> TRUE
      [] OTHER -> label \in project.flags

\* What the command does from a place of that order on.
FirstOf(i) == Flow[CHOOSE j \in i..Len(Flow): Asked(Flow[j]) /\ \A k \in i..(j - 1): ~Asked(Flow[k])]

NextFlag(label) == FirstOf(1 + CHOOSE i \in DOMAIN Flow: Flow[i] = label)

\* --workflow-execution-id names an execution that there is.
Start(c) ==
    /\ project.driver = "workflows"
    /\ \E e \in {0} \cup IF "id" \in project.flags THEN DOMAIN execs ELSE {}: Begin(c, FirstOf(1), e)
    /\ UNCHANGED <<project, service, execs, jobs, erased>>

\* The targets are dropped, the evidence of runs deleted and at last that of
\* rules, whichever execution they are from: what the jobs of these kinds left.
Deletes(label) ==
    CASE label \in {"reset_data", "cleanup_data"} -> {"write"}
      [] label \in {"reset_runs", "cleanup_runs"} -> {"record", "record_failed"}
      [] label \in {"reset_quality", "cleanup_quality"} -> {"pass", "flag"}
      [] OTHER -> {}

CleanUpData(c, label) ==
    /\ At(c, "workflows", label)
    /\ Deletes(label) # {}
    /\ erased' = erased \cup {j \in DOMAIN jobs: jobs[j].kind \in Deletes(label) /\ jobs[j].state = "succeeded"}
    /\ Goto(c, NextFlag(label))
    /\ UNCHANGED <<project, service, execs, jobs>>

Deploy(c) ==
    /\ At(c, "workflows", "deploy")
    /\ machine' = c
    /\ Goto(c, NextFlag("deploy"))
    /\ UNCHANGED <<project, item, started, updates, execs, jobs, erased>>

\* A given execution id comes before that of the execution it starts.
Run(c) ==
    LET x == calls[c]
    IN  /\ At(c, "workflows", "run")
        /\ IF machine = None
           THEN Finish(c, "raised") /\ UNCHANGED execs
           ELSE /\ Len(execs) < project.execs
                /\ execs' = Append(execs, NewExec(machine, "running"))
                /\ calls' = [calls EXCEPT ![c] =
                      [x EXCEPT !.label = NextFlag("run"), !.exec = IF x.exec = 0 THEN Len(execs) + 1 ELSE x.exec]]
        /\ UNCHANGED <<project, service, jobs, erased>>

\* gcloud waits for the end of the execution, whatever it is; a deleted one is
\* not found.
WaitFor(c) ==
    /\ At(c, "workflows", "wait")
    /\ \/ calls[c].exec = 0 /\ Finish(c, "raised")
       \/ /\ calls[c].exec # 0
          /\ execs[calls[c].exec].label # "running"
          /\ IF execs[calls[c].exec].label = "cancelled" THEN Finish(c, "raised") ELSE Goto(c, NextFlag("wait"))
    /\ UNCHANGED <<project, service, execs, jobs, erased>>

\* Two queries, of the rows of the runs and of the quality rules: those of the
\* execution if its id is known.
ReadBack(c, label) ==
    LET x == calls[c]
        kinds == IF label = "runs" THEN {"record", "record_failed"} ELSE {"pass", "flag"}
        rows == {j \in DOMAIN jobs \ erased:
                   jobs[j].kind \in kinds /\ jobs[j].state = "succeeded" /\ x.exec \in {0, jobs[j].exec}}
    IN  /\ At(c, "workflows", label)
        /\ label \in {"runs", "quality"}
        /\ calls' = [calls EXCEPT ![c] = [x EXCEPT !.label = NextFlag(label), !.seen = x.seen \cup rows]]
        /\ UNCHANGED <<project, service, execs, jobs, erased>>

\* Deleting the workflow cancels its executions; if there is none to delete,
\* the command goes on.
CleanUp(c) ==
    /\ At(c, "workflows", "cleanup")
    /\ machine' = None
    /\ execs' = [e \in DOMAIN execs |->
          IF execs[e].label = "running" THEN [execs[e] EXCEPT !.label = "cancelled"] ELSE execs[e]]
    /\ Goto(c, NextFlag("cleanup"))
    /\ UNCHANGED <<project, item, started, updates, jobs, erased>>

Continue(c) ==
    /\ project.driver = "workflows"
    /\ \/ CleanUpData(c, calls[c].label) \/ Deploy(c) \/ Run(c)
       \/ WaitFor(c) \/ ReadBack(c, calls[c].label) \/ CleanUp(c)

Proceed(e) == Insert(e) \/ Look(e)

Next ==
    \/ \E c \in Caller: Start(c) \/ Continue(c)
    \/ \E e \in DOMAIN execs: Proceed(e) \/ ExecutionRaises(e)

=============================================================================
