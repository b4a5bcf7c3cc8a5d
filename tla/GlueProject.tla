----------------------------- MODULE GlueProject -----------------------------
(***************************************************************************)
(* deploy-project of the AWS adapter: for each step the call publishes the *)
(* script, registers the Glue job and, with --run, starts it and waits; or *)
(* it deploys a state machine over all jobs, starts and watches it.        *)
(***************************************************************************)
EXTENDS ProjectRuns

Start(c) ==
    /\ calls[c].label = "idle"
    /\ project.driver \in {"glue", "states"}
    /\ IF project.driver = "glue"
       THEN /\ Len(execs) < project.execs
            /\ Begin(c, "publish", Len(execs) + 1)
            /\ execs' = Append(execs, NewExec(c, "local"))
       ELSE Begin(c, "publish", 0) /\ UNCHANGED execs
    /\ UNCHANGED <<project, service, jobs, erased>>

\* The artifacts of the contract replace those at the same place in S3, from
\* where a job run takes its script.
Publish(c) ==
    /\ calls[c].label = "publish"
    /\ item' = [item EXCEPT ![Current(c)].code = c]
    /\ Goto(c, "lookup")
    /\ UNCHANGED <<project, machine, started, updates, execs, jobs, erased>>

Lookup(c) ==
    /\ calls[c].label = "lookup"
    /\ Goto(c, IF item[Current(c)].def = None THEN "create" ELSE "update")
    /\ UNCHANGED <<project, service, execs, jobs, erased>>

\* CreateJob is refused if the name is taken.
Register(c) ==
    /\ calls[c].label \in {"create", "update"}
    /\ IF calls[c].label = "create" /\ item[Current(c)].def # None
       THEN Finish(c, "raised") /\ UNCHANGED item
       ELSE /\ item' = [item EXCEPT ![Current(c)].def = c]
            /\ IF project.driver = "glue" THEN Goto(c, "start") ELSE NextStep(c, "publish", "find")
    /\ UNCHANGED <<project, machine, started, updates, execs, jobs, erased>>

\* ConcurrentRunsExceededException is retried up to the deadline.
StartJob(c) ==
    /\ At(c, "glue", "start")
    /\ IF LiveOf(Current(c)) # {}
       THEN Poll(c) /\ UNCHANGED jobs
       ELSE /\ jobs' = Append(jobs, NewJob(calls[c].exec, Current(c), "write"))
            /\ \/ /\ project.wait
                  /\ calls' = [calls EXCEPT ![c] =
                        [@ EXCEPT !.label = "wait", !.job = Len(jobs) + 1, !.polls = 0]]
               \/ ~project.wait /\ NextStep(c, "publish", "end")
               \/ Finish(c, "raised")
    /\ UNCHANGED <<project, service, execs, erased>>

\* wait_project_step: a failure raises unless it is an expected one.
Wait(c) ==
    LET state == jobs[calls[c].job].state
    IN  /\ At(c, "glue", "wait")
        /\ CASE state = "running" -> Poll(c)
             [] state = "succeeded" -> NextStep(c, "publish", "end")
             [] state = "failed" ->
                   IF project.expects[Current(c)] = "FAILED"
                   THEN NextStep(c, "publish", "end")
                   ELSE Finish(c, "raised")
        /\ UNCHANGED <<project, service, execs, jobs, erased>>

-----------------------------------------------------------------------------
(* The state machine *)

FindMachine(c) ==
    /\ At(c, "states", "find")
    /\ Goto(c, IF machine = None THEN "create_machine" ELSE "update_machine")
    /\ UNCHANGED <<project, service, execs, jobs, erased>>

RegisterMachine(c) ==
    /\ calls[c].label \in {"create_machine", "update_machine"}
    /\ IF calls[c].label = "create_machine" /\ machine # None
       THEN Finish(c, "raised") /\ UNCHANGED machine
       ELSE machine' = c /\ Goto(c, "execute")
    /\ UNCHANGED <<project, item, started, updates, execs, jobs, erased>>

Execute(c) ==
    LET x == calls[c]
    IN  /\ At(c, "states", "execute")
        /\ Len(execs) < project.execs
        /\ execs' = Append(execs, NewExec(c, "running"))
        /\ calls' = [calls EXCEPT ![c] =
              [x EXCEPT !.exec = Len(execs) + 1,
                        !.label = IF project.wait THEN "watch" ELSE "done",
                        !.verdict = IF project.wait THEN x.verdict ELSE "SUCCEEDED"]]
        /\ UNCHANGED <<project, service, jobs, erased>>

\* The EventBridge schedule of the project starts an execution.
Scheduled ==
    /\ project.driver = "states"
    /\ project.scheduled /\ machine # None /\ Room
    /\ execs' = Append(execs, NewExec(None, "running"))
    /\ UNCHANGED <<project, service, jobs, erased, calls>>

\* Anything but SUCCEEDED raises.
Watch(c) ==
    LET label == execs[calls[c].exec].label
    IN  /\ At(c, "states", "watch")
        /\ CASE label = "running" -> Poll(c)
             [] label = "succeeded" -> Finish(c, "SUCCEEDED")
             [] label = "failed" -> Finish(c, "raised")
        /\ UNCHANGED <<project, service, execs, jobs, erased>>

\* dependency_waves: a step is in the first wave, or in the one after the last
\* of its dependencies.  It raises for a project whose steps are not in waves.
InWaves(p, wave) ==
    \A s \in DOMAIN wave:
        LET before == p.after[s] \cap DOMAIN wave
        IN  IF before = {} THEN wave[s] = 1
            ELSE (\A d \in before: wave[d] < wave[s]) /\ \E d \in before: wave[s] = wave[d] + 1

Wave == CHOOSE wave \in [Steps -> 1..Len(project.order)]: InWaves(project, wave)

\* Mutant: the branches of all waves start at once.
StartTaskUnordered(e, s) ==
    /\ project.driver = "states"
    /\ execs[e].label = "running"
    /\ Of(e, s, "write") = {}
    /\ IF LiveOf(s) = {}
       THEN jobs' = Append(jobs, NewJob(e, s, "write")) /\ UNCHANGED execs
       ELSE SetExec(e, "failed") /\ UNCHANGED jobs
    /\ UNCHANGED <<project, service, erased, calls>>

\* A branch of the current wave starts its Glue job; with a run of the job
\* under way it fails, for the state has no Retry.
StartTask(e, s) ==
    /\ project.driver = "states"
    /\ execs[e].label = "running"
    /\ Of(e, s, "write") = {}
    /\ \A d \in Steps: Wave[d] < Wave[s] => Succeeded(e, d, "write")
    /\ IF LiveOf(s) = {}
       THEN jobs' = Append(jobs, NewJob(e, s, "write")) /\ UNCHANGED execs
       ELSE SetExec(e, "failed") /\ UNCHANGED jobs
    /\ UNCHANGED <<project, service, erased, calls>>

ExecutionEnds(e) ==
    /\ project.driver = "states"
    /\ execs[e].label = "running"
    /\ \/ (\A s \in Steps: Succeeded(e, s, "write")) /\ SetExec(e, "succeeded")
       \/ /\ \E j \in DOMAIN jobs: jobs[j].exec = e /\ jobs[j].state = "failed"
          /\ SetExec(e, "failed")
    /\ UNCHANGED <<project, service, jobs, erased, calls>>

Continue(c) ==
    /\ project.driver \in {"glue", "states"}
    /\ \/ Publish(c) \/ Lookup(c) \/ Register(c) \/ StartJob(c) \/ Wait(c) \/ End(c)
       \/ FindMachine(c) \/ RegisterMachine(c) \/ Execute(c) \/ Watch(c)

Next ==
    \/ Scheduled
    \/ \E c \in Caller: Start(c) \/ Continue(c)
    \/ \E e \in DOMAIN execs: ExecutionEnds(e) \/ \E s \in Steps: StartTask(e, s)

=============================================================================
