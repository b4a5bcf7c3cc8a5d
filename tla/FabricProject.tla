---------------------------- MODULE FabricProject ----------------------------
(***************************************************************************)
(* run_fabric_project_smoke: step by step, the call deploys a notebook by  *)
(* its name, runs it and waits for the job instance.                       *)
(***************************************************************************)
EXTENDS ProjectRuns

\* The status that the project names for the step is the one it is to have:
\* a step that is expected to be blocked need have run no job, and one that is
\* expected to be running is never waited for to the end.
Matches(s, status) == status = project.expects[s]

Continues(s, status) ==
    Matches(s, status) \/ (~project.wait /\ project.expects[s] = "SUCCEEDED" /\ status = "RUNNING")

ProjectStatus(ok, statuses) ==
    IF ok THEN "SUCCEEDED"
    ELSE IF ~project.wait /\ statuses \subseteq {"RUNNING", "SUCCEEDED"} THEN "RUNNING"
    ELSE IF "BLOCKED" \in statuses THEN "BLOCKED"
    ELSE "FAILED"

\* The result of a step, and the next step or the status of the project.
Outcome(c, status) ==
    LET s == Current(c)
        ok == calls[c].ok /\ Matches(s, status)
        statuses == calls[c].statuses \cup {status}
        last == calls[c].at = Len(project.order) \/ (project.stop /\ ~Continues(s, status))
        noted == [calls[c] EXCEPT !.ok = ok, !.statuses = statuses, !.polls = 0]
    IN  calls' = [calls EXCEPT ![c] =
           IF last
           THEN [noted EXCEPT !.label = "done", !.verdict = ProjectStatus(ok, statuses)]
           ELSE [noted EXCEPT !.label = "look", !.at = calls[c].at + 1]]

Start(c) ==
    /\ At(c, "fabric", "idle")
    /\ Len(execs) < project.execs
    /\ Begin(c, "look", Len(execs) + 1)
    /\ execs' = Append(execs, NewExec(c, "local"))
    /\ UNCHANGED <<project, service, jobs, erased>>

\* The preflight does not find the workspace or the lakehouse, or the
\* definition of the notebook cannot be read: update_blocked.
Blocked(c) ==
    /\ At(c, "fabric", "look")
    /\ Outcome(c, "BLOCKED")
    /\ UNCHANGED <<project, service, execs, jobs, erased>>

\* Mutant: a notebook that is there is taken as it is.
LookForName(c) ==
    /\ At(c, "fabric", "look")
    /\ Goto(c, IF item[Current(c)].def = None THEN "create" ELSE "submit")
    /\ UNCHANGED <<project, service, execs, jobs, erased>>

\* The name is looked up and the definition compared.
Look(c) ==
    LET held == item[Current(c)].def
    IN  /\ At(c, "fabric", "look")
        /\ Goto(c, CASE held = None -> "create" [] held = c -> "submit" [] OTHER -> "update")
        /\ UNCHANGED <<project, service, execs, jobs, erased>>

\* The definition goes to the service.  Answered with 200, it is there; with
\* 202, an operation is to bring it there.  The service holds one notebook of
\* a name: a second creation fails.
Send(c, label, new) ==
    LET u == [step |-> Current(c), by |-> c, new |-> new]
    IN  /\ At(c, "fabric", label)
        /\ \/ /\ new => item[u.step].def = None
              /\ item' = [item EXCEPT ![u.step] = [code |-> c, def |-> c]]
              /\ Goto(c, "submit")
              /\ UNCHANGED updates
           \/ /\ updates' = updates \cup {u}
              /\ Goto(c, "operation")
              /\ UNCHANGED item
        /\ UNCHANGED <<project, machine, started, execs, jobs, erased>>

Create(c) == Send(c, "create", TRUE)

Update(c) == Send(c, "update", FALSE)

\* The service ends an operation, which may fail.
OperationEnds(u) ==
    /\ u \in updates
    /\ updates' = updates \ {u}
    /\ \/ /\ u.new => item[u.step].def = None
          /\ item' = [item EXCEPT ![u.step] = [code |-> u.by, def |-> u.by]]
          /\ UNCHANGED calls
       \/ calls' = [calls EXCEPT ![u.by].mixed = TRUE] /\ UNCHANGED item
    /\ UNCHANGED <<project, machine, started, execs, jobs, erased>>

\* poll_operation goes on for 202 and 429.  The body of the 200 that says the
\* operation is over, with its status, is not looked at.
PollOperation(c) ==
    /\ At(c, "fabric", "operation")
    /\ IF \E u \in updates: u.by = c THEN Poll(c) ELSE Goto(c, "submit")
    /\ UNCHANGED <<project, service, execs, jobs, erased>>

\* run_notebook of the notebook that has the name now.  The request may have
\* been served although its answer is lost.
Submit(c) ==
    /\ At(c, "fabric", "submit")
    /\ IF item[Current(c)].def = None
       THEN Finish(c, "raised") /\ UNCHANGED jobs
       ELSE /\ jobs' = Append(jobs, NewJob(calls[c].exec, Current(c), "write"))
            /\ \/ /\ project.wait
                  /\ calls' = [calls EXCEPT ![c] = [@ EXCEPT !.label = "wait", !.job = Len(jobs) + 1]]
               \/ ~project.wait /\ Outcome(c, "RUNNING")
               \/ Finish(c, "raised")
    /\ UNCHANGED <<project, service, execs, erased>>

\* Mutant: a job that takes too long is taken for one that failed.
WaitGivesUp(c) ==
    LET state == jobs[calls[c].job].state
    IN  /\ At(c, "fabric", "wait")
        /\ Outcome(c, IF state = "succeeded" THEN "SUCCEEDED" ELSE "FAILED")
        /\ UNCHANGED <<project, service, execs, jobs, erased>>

\* wait_job_instance.  A failure for want of Spark capacity is a BLOCKED.
Wait(c) ==
    LET state == jobs[calls[c].job].state
    IN  /\ At(c, "fabric", "wait")
        /\ CASE state = "running" -> Poll(c)
             [] state = "succeeded" -> Outcome(c, "SUCCEEDED")
             [] state = "failed" -> \E status \in {"FAILED", "BLOCKED"}: Outcome(c, status)
        /\ UNCHANGED <<project, service, execs, jobs, erased>>

Continue(c) ==
    \/ Blocked(c) \/ Look(c) \/ Create(c) \/ Update(c)
    \/ PollOperation(c) \/ Submit(c) \/ Wait(c)

Next ==
    \/ \E c \in Caller: Start(c) \/ Continue(c)
    \/ \E u \in updates: OperationEnds(u)

=============================================================================
