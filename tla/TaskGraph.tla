------------------------------ MODULE TaskGraph ------------------------------
(***************************************************************************)
(* deploy-project and run-project of the Snowflake adapter: a task graph   *)
(* that calls the library runner for one contract a task, and the command  *)
(* that executes its root and reads the task history.                      *)
(***************************************************************************)
EXTENDS ProjectRuns

Roots == {s \in Steps: project.after[s] = {}}

RootStarted == Roots \cap started # {}

\* deploy-project, run-project, or the one and then the other.
Start(c) ==
    /\ project.driver = "tasks"
    /\ \/ "deploy" \in project.flags /\ Begin(c, "publish", 0)
       \/ "run" \in project.flags /\ Begin(c, "clock", 0)
    /\ UNCHANGED <<project, service, execs, jobs, erased>>

\* The contract, where a task finds it when it runs.
Publish(c) ==
    /\ At(c, "tasks", "publish")
    /\ item' = [item EXCEPT ![Current(c)].code = c]
    /\ NextStep(c, "publish", "suspend")
    /\ UNCHANGED <<project, machine, started, updates, execs, jobs, erased>>

\* ALTER TASK IF EXISTS ... SUSPEND, from the last task to the root.
Suspend(c) ==
    /\ At(c, "tasks", "suspend")
    /\ started' = started \ {project.order[Len(project.order) + 1 - calls[c].at]}
    /\ NextStep(c, "suspend", "create")
    /\ UNCHANGED <<project, item, machine, updates, execs, jobs, erased>>

\* CREATE OR REPLACE TASK: suspended, after tasks that are there, and in a
\* graph whose root is suspended.
Create(c) ==
    LET s == Current(c)
    IN  /\ At(c, "tasks", "create")
        /\ IF (\E d \in project.after[s]: item[d].def = None) \/ (s \notin Roots /\ RootStarted)
           THEN Finish(c, "raised") /\ UNCHANGED <<item, started>>
           ELSE /\ item' = [item EXCEPT ![s].def = c]
                /\ started' = started \ {s}
                /\ \E next \in {"end"} \cup IF "run" \in project.flags THEN {"clock"} ELSE {}:
                      NextStep(c, "create", next)
        /\ UNCHANGED <<project, machine, updates, execs, jobs, erased>>

\* started_after, before the first command of the run.
Clock(c) ==
    /\ At(c, "tasks", "clock")
    /\ calls' = [calls EXCEPT ![c] = [@ EXCEPT !.label = "resume", !.since = Len(jobs)]]
    /\ UNCHANGED <<project, service, execs, jobs, erased>>

\* ALTER TASK ... RESUME of the tasks that depend on others, which the service
\* refuses while the root is resumed.
Resume(c) ==
    LET s == Current(c)
    IN  /\ At(c, "tasks", "resume")
        /\ IF s \notin Roots /\ (RootStarted \/ item[s].def = None)
           THEN Finish(c, "raised") /\ UNCHANGED started
           ELSE /\ started' = started \cup ({s} \ Roots)
                /\ NextStep(c, "resume", "execute")
        /\ UNCHANGED <<project, item, machine, updates, execs, jobs, erased>>

Execute(c) ==
    /\ At(c, "tasks", "execute")
    /\ Len(execs) < project.execs
    /\ execs' = Append(execs, NewExec(c, "running"))
    /\ calls' = [calls EXCEPT ![c] =
          [@ EXCEPT !.exec = Len(execs) + 1, !.label = IF project.wait THEN "watch" ELSE "end"]]
    /\ UNCHANGED <<project, service, jobs, erased>>

\* Mutant: rows from before the run count too.
LatestEver(c, s) ==
    LET rows == {j \in DOMAIN jobs: jobs[j].step = s}
    IN  {j \in rows: \A k \in rows: k <= j}

\* The latest row of a task since the clock was read, whichever execution of
\* the graph it is from.
Latest(c, s) ==
    LET rows == {j \in DOMAIN jobs: j > calls[c].since /\ jobs[j].step = s}
    IN  {j \in rows: \A k \in rows: k <= j}

\* wait_snowflake_project_tasks
Watch(c) ==
    LET latest == UNION {Latest(c, s): s \in Steps}
        over == \A s \in Steps: Latest(c, s) # {} /\ \A j \in Latest(c, s): ~Live(j)
    IN  /\ At(c, "tasks", "watch")
        /\ IF over \/ \E j \in latest: jobs[j].state = "failed"
           THEN Finish(c, IF \A j \in latest: jobs[j].state = "succeeded" THEN "SUCCEEDED" ELSE "FAILED")
           ELSE Poll(c)
        /\ UNCHANGED <<project, service, execs, jobs, erased>>

-----------------------------------------------------------------------------
(* The service, and the operator who enables the schedule *)

\* The lifecycle command that resumes the root.
Enable ==
    /\ project.driver = "tasks" /\ project.scheduled
    /\ \E s \in Roots: item[s].def # None /\ s \notin started /\ started' = started \cup {s}
    /\ UNCHANGED <<project, item, machine, updates, execs, jobs, erased, calls>>

Scheduled ==
    /\ project.driver = "tasks"
    /\ RootStarted /\ Room
    /\ execs' = Append(execs, NewExec(None, "running"))
    /\ UNCHANGED <<project, service, jobs, erased, calls>>

\* One execution of the graph after the other; a task that is suspended, or
\* follows one that failed, does not run.
CanRun(e, s) ==
    /\ Of(e, s, "write") = {}
    /\ item[s].def # None
    /\ s \notin Roots => s \in started
    /\ s \in Roots => \A f \in 1..(e - 1): execs[f].label # "running"
    /\ \A d \in project.after[s]: Succeeded(e, d, "write")

StartTask(e, s) ==
    /\ project.driver = "tasks"
    /\ execs[e].label = "running"
    /\ CanRun(e, s)
    /\ jobs' = Append(jobs, NewJob(e, s, "write"))
    /\ UNCHANGED <<project, service, execs, erased, calls>>

ExecutionEnds(e) ==
    /\ project.driver = "tasks"
    /\ execs[e].label = "running"
    /\ \A s \in Roots: Of(e, s, "write") # {}
    /\ \A s \in Steps: ~CanRun(e, s) /\ \A j \in Of(e, s, "write"): ~Live(j)
    /\ SetExec(e, "ended")
    /\ UNCHANGED <<project, service, jobs, erased, calls>>

Continue(c) ==
    \/ Publish(c) \/ Suspend(c) \/ Create(c) \/ Clock(c) \/ Resume(c) \/ Execute(c) \/ Watch(c)

Next ==
    \/ Enable \/ Scheduled
    \/ \E c \in Caller: Start(c) \/ Continue(c)
    \/ \E e \in DOMAIN execs: ExecutionEnds(e) \/ \E s \in Steps: StartTask(e, s)

=============================================================================
