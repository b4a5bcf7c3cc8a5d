---------------------------- MODULE Orchestration ----------------------------
(***************************************************************************)
(* Calls that deploy and run one project at the same time, by the means of *)
(* one of the adapters, and what holds of every one of them.               *)
(***************************************************************************)
EXTENDS ProjectRuns

Workflows == INSTANCE WorkflowsProject
Fabric == INSTANCE FabricProject
Glue == INSTANCE GlueProject
Tasks == INSTANCE TaskGraph

\* What can be deployed as a state machine: dependency_waves raises otherwise.
ASSUME WavesAssumption ==
    \A p \in Projects: p.driver = "states" =>
        \E wave \in [{p.order[i]: i \in DOMAIN p.order} -> 1..Len(p.order)]: Glue!InWaves(p, wave)

Next ==
    \/ Workflows!Next \/ Fabric!Next \/ Glue!Next \/ Tasks!Next
    \/ \E c \in Caller: End(c) \/ Raise(c)
    \/ \E j \in DOMAIN jobs: JobEnds(j)

Spec == Init /\ [][Next]_vars

-----------------------------------------------------------------------------

TypeOK ==
    /\ project \in Projects
    /\ item \in [Step -> [code: Version, def: Version]]
    /\ machine \in Version
    /\ started \subseteq Step
    /\ updates \subseteq [step: Step, by: Caller, new: BOOLEAN]
    /\ \A e \in DOMAIN execs: execs[e] \in Exec
    /\ \A j \in DOMAIN jobs: jobs[j] \in Job
    /\ erased \subseteq DOMAIN jobs
    /\ calls \in [Caller -> Call]

Selected == {project.order[i]: i \in project.from..Len(project.order)}

Returned(c) == calls[c].label = "done" /\ calls[c].verdict # "raised"

Waited(c) == Returned(c) /\ project.wait /\ calls[c].exec # 0

\* The rows of a history that a watcher of the task graph reads are by task,
\* not by execution.
OthersMeet(c) == project.driver = "tasks" /\ \E j \in DOMAIN jobs: j > calls[c].since /\ jobs[j].exec # calls[c].exec

\* What a call runs is what it deployed, code and definition: except where
\* another call deployed meanwhile, or where Fabric dropped or delayed an
\* update that it had accepted.
RunsWhatItDeployed ==
    \A j \in DOMAIN jobs:
        LET by == execs[jobs[j].exec].by
        IN  (by # None /\ ~calls[by].mixed) => jobs[j].code = by /\ jobs[j].def = by

\* The last rule of the contract, the only one whose result is looked at, has
\* found nothing.
CleanCheck(e, s) == \E k \in Of(e, s, "check"): jobs[k].state = "succeeded" /\ project.rules \notin jobs[k].bad

\* The criteria of the readback plan: a SUCCEEDED row for every target, and no
\* quality row but PASSED ones.
Accepts(c) ==
    /\ \A s \in Steps: \E j \in calls[c].seen: jobs[j].step = s /\ jobs[j].kind = "record"
    /\ \A j \in calls[c].seen: jobs[j].kind # "flag"

\* A workflow that is over and meets the criteria has written every target and
\* checked it: only the last step may lack its check, for the plan does not ask
\* that there be a quality row; and a check may have failed of which another
\* call deleted the row, between the two queries.
ReadbackIsTrue(c) ==
    LET e == calls[c].exec
    IN  /\ execs[e].label # "running"
        /\ "readback" \in project.flags /\ Accepts(c) =>
              \A s \in Steps:
                 /\ Succeeded(e, s, "write")
                 /\ \/ project.rules = 0 \/ CleanCheck(e, s)
                    \/ s = project.order[Len(project.order)] /\ execs[e].label = "raised"
                    \/ Of(e, s, "flag") \cap erased # {}

\* The step has come, in the execution, to what the project expects of it: its
\* job has succeeded, or failed (Glue accepts an expected failure and does not
\* ask for it); it is blocked, which may be that no job of it ran, or that its
\* job failed for want of capacity; or it is running, which says that a job was
\* started and is never so for a call that waits.
AsExpected(e, s) ==
    LET Ended(states) == \E j \in Of(e, s, "write"): jobs[j].state \in states
    IN  \/ project.expects[s] = "SUCCEEDED" /\ Ended({"succeeded"})
        \/ project.expects[s] = "FAILED" /\ Ended({"failed"} \cup IF project.driver = "glue" THEN {"succeeded"} ELSE {})
        \/ project.expects[s] = "BLOCKED" /\ \A j \in Of(e, s, "write"): jobs[j].state = "failed"
        \/ project.expects[s] = "RUNNING" /\ ~project.wait /\ Of(e, s, "write") # {}

\* Success is one's own: a call that waited, or any call on Fabric, that returned
\* SUCCEEDED has every selected step come, in its own execution, to what the
\* project expects: to a success of its job unless the project says otherwise.
\* The task graph may show the rows of another execution; gcloud only says that
\* the execution is over, and the readback has to say the rest.
SuccessIsOurs ==
    \A c \in Caller:
        /\ calls[c].verdict = "SUCCEEDED"
        /\ Waited(c) \/ (Returned(c) /\ project.driver = "fabric")
        => IF project.driver = "workflows"
           THEN ReadbackIsTrue(c)
           ELSE \A s \in Selected: AsExpected(calls[c].exec, s) \/ OthersMeet(c)

\* Nothing of an execution goes on after a call that waited has returned, and
\* nothing is left of it if the call cleaned up: not so if the call gave up on
\* a job, or lost the answer that names it, or left a graph of which a task
\* failed.
NothingRunsAfterAVerdict ==
    \A c \in Caller:
        Waited(c) =>
            \/ \A j \in DOMAIN jobs:
                  jobs[j].exec = calls[c].exec =>
                     /\ ~Live(j)
                     /\ "cleanup_data" \in project.flags =>
                           jobs[j].state = "failed" \/ jobs[j].kind = "check" \/ j \in erased
            \/ project.driver = "workflows" /\ (execs[calls[c].exec].label = "raised" \/ execs[calls[c].exec].lost)
            \/ project.driver = "tasks" /\ (calls[c].verdict = "FAILED" \/ OthersMeet(c))

\* An execution writes a target once, but for an insertion that the workflow
\* repeats since it lost the answer to the first; and after the steps that this
\* one depends on have come to what the project expects, in the same execution:
\* by the graph with Step Functions and tasks, and by its place in the order, if
\* the dependency comes before it, with the others.  What is expected to be
\* blocked or running need not have ended, then; a call that does not wait only
\* starts the steps in that order, and one that goes on after a failure does not
\* look.
StepsRunOnceInOrder ==
    [][\A j \in DOMAIN jobs' \ DOMAIN jobs:
          LET new == jobs'[j]
              place(s) == CHOOSE i \in DOMAIN project.order: project.order[i] = s
          IN  new.kind = "write" =>
                /\ Of(new.exec, new.step, "write") = {} \/ (project.driver = "workflows" /\ execs[new.exec].lost)
                /\ \A d \in project.after[new.step] \cap Selected:
                      \/ AsExpected(new.exec, d)
                      \/ /\ project.driver \in {"fabric", "glue"} /\ ~project.wait
                         /\ Of(new.exec, d, "write") # {}
                      \/ project.driver \in {"workflows", "fabric", "glue"} /\ place(d) >= place(new.step)
                      \/ project.driver = "fabric" /\ ~project.stop]_vars

\* The rows of an execution of the workflow tell how its jobs ended: a row
\* of a success that the write committed, a row of a failure that it did not,
\* if no answer was lost, PASSED that no row fails the last rule, and after an
\* execution that succeeded nothing is missing.
EvidenceTellsTheOutcome ==
    project.driver = "workflows" =>
        \A e \in DOMAIN execs: \A s \in Steps:
            /\ Of(e, s, "record") # {} => Succeeded(e, s, "write")
            /\ (Of(e, s, "record_failed") # {} /\ ~execs[e].lost) =>
                  \A j \in Of(e, s, "write"): jobs[j].state = "failed"
            /\ Of(e, s, "pass") # {} => CleanCheck(e, s)
            /\ execs[e].label = "succeeded" =>
                  Succeeded(e, s, "record") /\ (project.rules > 0 => Succeeded(e, s, "pass"))

=============================================================================
