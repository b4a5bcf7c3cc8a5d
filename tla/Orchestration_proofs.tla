------------------------ MODULE Orchestration_proofs -------------------------
(***************************************************************************)
(* What a call may conclude from its verdict, from its readback and from   *)
(* the evidence, for every project, any number of calls and executions,    *)
(* and whatever the service does.                                          *)
(*                                                                         *)
(* Four invariants, one for each way to go through the steps: WorkInv (the *)
(* workflow of Google), FabricInv and GlueInv (the loop of a command) and  *)
(* ServedInv (Step Functions and Snowflake tasks).  The project, and with  *)
(* it the driver, is fixed: Driven puts them together.                     *)
(***************************************************************************)
EXTENDS Orchestration, NaturalsInduction, TLAPS

ByWorkflow == project.driver = "workflows"

Types ==
    /\ project \in Projects
    /\ machine \in Version
    /\ execs \in Seq(Exec)
    /\ \A e \in DOMAIN execs: execs[e].at \in DOMAIN project.order
    /\ jobs \in Seq(Job)

Owned == \A j \in DOMAIN jobs: jobs[j].exec \in DOMAIN execs

\* The step where an execution is, and what is left of one that it is past.
Here(e) == project.order[execs[e].at]

Past(e, s) ==
    /\ Succeeded(e, s, "record")
    /\ project.rules > 0 => Succeeded(e, s, "pass")

\* The job that an execution looks at is one of the operation where it is.
LooksAtItsOwn(e) == execs[e].job # 0 => execs[e].job \in Of(e, Here(e), execs[e].op)

\* The place in a step tells what has been done of it.
OpTells(e) ==
    /\ execs[e].op \in {"record", "check", "pass", "flag"} => Succeeded(e, Here(e), "write")
    /\ execs[e].op \in {"check", "pass", "flag"} => Succeeded(e, Here(e), "record")
    /\ execs[e].op = "pass" => CleanCheck(e, Here(e))

\* The place in the order tells what has been done of it.
PlaceTells(e) ==
    \A i \in DOMAIN project.order:
        (i < execs[e].at \/ execs[e].label = "succeeded") => Past(e, project.order[i])

NothingAhead(e) ==
    \A j \in DOMAIN jobs:
        jobs[j].exec = e => \E i \in DOMAIN project.order: i <= execs[e].at /\ jobs[j].step = project.order[i]

\* An execution that records a failure does nothing else any more.
FailureIsLast(e) ==
    \A j \in DOMAIN jobs:
        (jobs[j].exec = e /\ jobs[j].kind = "record_failed") =>
            jobs[j].step = Here(e) /\ execs[e].op = "record_failed"

\* As long as no answer is lost, an execution knows of all that it inserts.
KnowsItsWrites(e) ==
    ~execs[e].lost =>
        \A j \in Of(e, Here(e), "write"):
            /\ execs[e].op = "write" => j = execs[e].job
            /\ execs[e].op = "record_failed" => jobs[j].state = "failed"

RowsAreTrue(e) ==
    \A j \in DOMAIN jobs:
        jobs[j].exec = e =>
            /\ jobs[j].kind = "record" => Succeeded(e, jobs[j].step, "write")
            /\ jobs[j].kind = "pass" => CleanCheck(e, jobs[j].step)

Tells(e) ==
    /\ LooksAtItsOwn(e) /\ OpTells(e) /\ PlaceTells(e) /\ NothingAhead(e)
    /\ FailureIsLast(e) /\ KnowsItsWrites(e) /\ RowsAreTrue(e)

EvidenceInv == Types /\ Owned /\ \A e \in DOMAIN execs: Tells(e)

LEMMA OrderFacts ==
    ASSUME project \in Projects
    PROVE  /\ project.order \in Seq(Step)
           /\ \A i, j \in DOMAIN project.order: project.order[i] = project.order[j] => i = j
           /\ project.rules \in Nat /\ Len(project.order) \in Nat
           /\ DOMAIN project.order = 1..Len(project.order) /\ 1 \in DOMAIN project.order
<1>1. project.order \in Seq(Step) /\ project.from \in Nat \ {0} /\ project.from <= Len(project.order)
      BY ProjectsAssumption DEF Project
<1> QED BY <1>1, ProjectsAssumption DEF Project

\* What of a step of the project touches executions or jobs, where a workflow
\* drives it.
LEMMA WhatMoves ==
    ASSUME ByWorkflow, Next
    PROVE  /\ project' = project /\ (machine \in Version => machine' \in Version)
           /\ \/ UNCHANGED <<execs, jobs>>
              \/ \E e \in DOMAIN execs: Workflows!Proceed(e) \/ Workflows!ExecutionRaises(e)
              \/ \E c \in Caller: Workflows!Run(c) \/ Workflows!CleanUp(c)
              \/ \E j \in DOMAIN jobs: JobEnds(j)
<1> USE DEF ByWorkflow, service, Workflows!service, Fabric!service, Glue!service, Tasks!service
<1> DEFINE Goal == /\ project' = project /\ (machine \in Version => machine' \in Version)
                   /\ \/ UNCHANGED <<execs, jobs>>
                      \/ \E e \in DOMAIN execs: Workflows!Proceed(e) \/ Workflows!ExecutionRaises(e)
                      \/ \E c \in Caller: Workflows!Run(c) \/ Workflows!CleanUp(c)
                      \/ \E j \in DOMAIN jobs: JobEnds(j)
<1>1. ASSUME Workflows!Next
      PROVE  Goal
      <2>1. ASSUME NEW c \in Caller, Workflows!Start(c) \/ Workflows!CleanUpData(c, calls[c].label)
                       \/ Workflows!Deploy(c) \/ Workflows!WaitFor(c)
                       \/ Workflows!ReadBack(c, calls[c].label)
            PROVE  Goal
            BY <2>1 DEF Workflows!Start, Workflows!CleanUpData, Workflows!Deploy, Workflows!WaitFor,
               Workflows!ReadBack, Version
      <2>2. ASSUME NEW c \in Caller, Workflows!Run(c) \/ Workflows!CleanUp(c)
            PROVE  Goal
            BY <2>2 DEF Workflows!Run, Workflows!CleanUp, Version
      <2>3. ASSUME NEW e \in DOMAIN execs, Workflows!Proceed(e) \/ Workflows!ExecutionRaises(e)
            PROVE  Goal
            BY <2>3 DEF Workflows!Proceed, Workflows!Insert, Workflows!Look, Workflows!ExecutionRaises
      <2> QED BY <1>1, <2>1, <2>2, <2>3 DEF Workflows!Next, Workflows!Continue
<1>2. ASSUME Fabric!Next
      PROVE  Goal
      <2>1. ASSUME NEW c \in Caller, Fabric!Start(c) \/ Fabric!Continue(c)
            PROVE  FALSE
            BY <2>1 DEF Fabric!Start, Fabric!Continue, Fabric!Blocked, Fabric!Look, Fabric!Create, Fabric!Update,
               Fabric!Send, Fabric!PollOperation, Fabric!Submit, Fabric!Wait, Fabric!At
      <2>2. ASSUME NEW u \in updates, Fabric!OperationEnds(u)
            PROVE  Goal
            BY <2>2 DEF Fabric!OperationEnds
      <2> QED BY <1>2, <2>1, <2>2 DEF Fabric!Next
<1>3. ASSUME Glue!Next
      PROVE  Goal
      BY <1>3 DEF Glue!Next, Glue!Scheduled, Glue!Start, Glue!Continue, Glue!ExecutionEnds, Glue!StartTask
<1>4. ASSUME Tasks!Next
      PROVE  Goal
      BY <1>4 DEF Tasks!Next, Tasks!Enable, Tasks!Scheduled, Tasks!Start, Tasks!Continue, Tasks!ExecutionEnds,
         Tasks!StartTask, Tasks!Publish, Tasks!Suspend, Tasks!Create, Tasks!Clock, Tasks!Resume, Tasks!Execute,
         Tasks!Watch, Tasks!At
<1>5. ASSUME NEW c \in Caller, End(c) \/ Raise(c)
      PROVE  Goal
      BY <1>5 DEF End, Raise
<1>6. ASSUME NEW j \in DOMAIN jobs, JobEnds(j)
      PROVE  Goal
      BY <1>6 DEF JobEnds
<1> QED BY <1>1, <1>2, <1>3, <1>4, <1>5, <1>6 DEF Next

-----------------------------------------------------------------------------
(* Jobs stay: there may be more of them, and a settled one is as it was. *)

Stay ==
    \A j \in DOMAIN jobs:
        /\ j \in DOMAIN jobs'
        /\ jobs'[j].step = jobs[j].step /\ jobs'[j].exec = jobs[j].exec /\ jobs'[j].kind = jobs[j].kind
        /\ jobs[j].state # "running" => jobs'[j] = jobs[j]

LEMMA Stable ==
    ASSUME Stay, project' = project
    PROVE  /\ \A e, s, k: Succeeded(e, s, k) => Succeeded(e, s, k)'
           /\ \A e, s, k: \A j \in Of(e, s, k): j \in Of(e, s, k)'
           /\ \A e, s: CleanCheck(e, s) => CleanCheck(e, s)'
           /\ \A e, s: Past(e, s) => Past(e, s)'
<1>1. \A e, s, k: \A j \in Of(e, s, k): j \in Of(e, s, k)'
      BY DEF Stay, Of
<1>2. \A e, s, k: Succeeded(e, s, k) => Succeeded(e, s, k)'
      <2> SUFFICES ASSUME NEW e, NEW s, NEW k, Succeeded(e, s, k)
                   PROVE  Succeeded(e, s, k)'
          OBVIOUS
      <2>1. PICK j \in Of(e, s, k): jobs[j].state = "succeeded"
            BY DEF Succeeded
      <2>2. j \in Of(e, s, k)' /\ jobs'[j].state = "succeeded"
            BY <1>1, <2>1 DEF Stay, Of
      <2> QED BY <2>2 DEF Succeeded
<1>3. \A e, s: CleanCheck(e, s) => CleanCheck(e, s)'
      <2> SUFFICES ASSUME NEW e, NEW s, CleanCheck(e, s)
                   PROVE  CleanCheck(e, s)'
          OBVIOUS
      <2>1. PICK j \in Of(e, s, "check"): jobs[j].state = "succeeded" /\ project.rules \notin jobs[j].bad
            BY DEF CleanCheck
      <2>2. j \in Of(e, s, "check")' /\ jobs'[j] = jobs[j]
            BY <1>1, <2>1 DEF Stay, Of
      <2> QED BY <2>1, <2>2 DEF CleanCheck
<1>4. \A e, s: Past(e, s) => Past(e, s)'
      BY <1>2 DEF Past
<1> QED BY <1>1, <1>2, <1>3, <1>4

\* An execution that gets no new job and stays where it is.
LEMMA Keeps ==
    ASSUME Stay, project' = project, NEW e, Tells(e),
           \A j \in DOMAIN jobs': jobs'[j].exec = e => j \in DOMAIN jobs,
           execs'[e].at = execs[e].at, execs'[e].op = execs[e].op, execs'[e].job = execs[e].job,
           execs'[e].lost = execs[e].lost \/ execs'[e].lost,
           execs'[e].label = execs[e].label \/ execs'[e].label # "succeeded"
    PROVE  Tells(e)'
<1>1. Here(e)' = Here(e)
      BY DEF Here
<1>2. \A s, k: Of(e, s, k)' = Of(e, s, k)
      BY DEF Stay, Of
<1>3. LooksAtItsOwn(e)'
      BY <1>1, <1>2 DEF Tells, LooksAtItsOwn
<1>4. OpTells(e)'
      BY <1>1, Stable DEF Tells, OpTells
<1>5. PlaceTells(e)'
      BY Stable DEF Tells, PlaceTells
<1>6. NothingAhead(e)'
      BY DEF Tells, NothingAhead, Stay
<1>7. FailureIsLast(e)'
      BY <1>1 DEF Tells, FailureIsLast, Stay
<1>8. KnowsItsWrites(e)'
      BY <1>1, <1>2 DEF Tells, KnowsItsWrites, Stay, Of
<1>9. RowsAreTrue(e)'
      <2>1. ASSUME NEW j \in DOMAIN jobs', jobs'[j].exec = e, NEW s, s = jobs'[j].step
            PROVE  /\ jobs'[j].kind = "record" => Succeeded(e, s, "write")'
                   /\ jobs'[j].kind = "pass" => CleanCheck(e, s)'
            <3>1. j \in DOMAIN jobs /\ s = jobs[j].step /\ jobs[j].exec = e /\ jobs'[j].kind = jobs[j].kind
                  BY <2>1 DEF Stay
            <3> QED BY <3>1, Stable DEF Tells, RowsAreTrue
      <2> QED BY <2>1 DEF RowsAreTrue
<1> QED BY <1>3, <1>4, <1>5, <1>6, <1>7, <1>8, <1>9 DEF Tells

\* What steps leave of the types: an execution is changed, or there is one
\* more, or a job changes, or there is one more.
LEMMA ExecChanges ==
    ASSUME Types, Owned, NEW e \in DOMAIN execs, NEW x \in Exec, x.at \in DOMAIN project.order,
           execs' = [execs EXCEPT ![e] = x], project' = project
    PROVE  /\ execs' \in Seq(Exec) /\ DOMAIN execs' = DOMAIN execs /\ execs'[e] = x
           /\ \A f \in DOMAIN execs': f # e => execs'[f] = execs[f]
           /\ \A f \in DOMAIN execs': execs'[f].at \in DOMAIN project'.order
BY DEF Types

LEMMA ExecRecords ==
    ASSUME NEW x \in Exec
    PROVE  /\ x.at \in Nat /\ x.op \in Op /\ x.job \in Nat /\ x.polls \in Nat /\ x.lost \in BOOLEAN
           /\ x.by \in Version
           /\ \A op \in Op: [x EXCEPT !.op = op, !.job = 0, !.polls = 0] \in Exec
           /\ \A n \in Nat: [x EXCEPT !.at = n, !.op = "write", !.job = 0, !.polls = 0] \in Exec
           /\ \A n \in Nat: [x EXCEPT !.job = n] \in Exec
           /\ \A n \in Nat: [x EXCEPT !.polls = n] \in Exec
           /\ \A l \in BOOLEAN: [x EXCEPT !.lost = l] \in Exec
           /\ \A l \in BOOLEAN: [x EXCEPT !.op = "record_failed", !.job = 0, !.polls = 0, !.lost = l] \in Exec
           /\ \A l \in BOOLEAN: [x EXCEPT !.label = "raised", !.lost = l] \in Exec
           /\ \A label \in {"succeeded", "failed", "raised", "cancelled"}: [x EXCEPT !.label = label] \in Exec
<1>1. /\ x.at \in Nat /\ x.op \in Op /\ x.job \in Nat /\ x.polls \in Nat /\ x.lost \in BOOLEAN
      /\ x.by \in Version
      BY DEF Exec
<1>2. \A op \in Op: [x EXCEPT !.op = op, !.job = 0, !.polls = 0] \in Exec
      BY DEF Exec
<1>3. \A n \in Nat: [x EXCEPT !.at = n, !.op = "write", !.job = 0, !.polls = 0] \in Exec
      BY DEF Exec, Op
<1>4. \A n \in Nat: [x EXCEPT !.job = n] \in Exec
      BY DEF Exec
<1>5. \A n \in Nat: [x EXCEPT !.polls = n] \in Exec
      BY DEF Exec
<1>6. \A l \in BOOLEAN: [x EXCEPT !.lost = l] \in Exec
      BY DEF Exec
<1>7. \A l \in BOOLEAN: [x EXCEPT !.op = "record_failed", !.job = 0, !.polls = 0, !.lost = l] \in Exec
      BY DEF Exec, Op
<1>8. \A l \in BOOLEAN: [x EXCEPT !.label = "raised", !.lost = l] \in Exec
      BY DEF Exec
<1>9. \A label \in {"succeeded", "failed", "raised", "cancelled"}: [x EXCEPT !.label = label] \in Exec
      BY DEF Exec
<1> QED BY <1>1, <1>2, <1>3, <1>4, <1>5, <1>6, <1>7, <1>8, <1>9

LEMMA Relabelled ==
    ASSUME NEW x \in Exec, NEW label \in {"succeeded", "failed", "raised", "cancelled"}
    PROVE  LET y == [x EXCEPT !.label = label]
           IN  /\ y \in Exec /\ y.at = x.at /\ y.op = x.op /\ y.job = x.job /\ y.lost = x.lost
               /\ y.label = label
<1>1. [x EXCEPT !.label = label] \in Exec
      BY ExecRecords
<1> QED BY <1>1 DEF Exec

LEMMA JobEndsKeeps ==
    ASSUME EvidenceInv, machine' \in Version, NEW j \in DOMAIN jobs, JobEnds(j)
    PROVE  EvidenceInv'
<1> USE DEF service
<1>1. project' = project /\ execs' = execs /\ jobs[j].state = "running"
      BY DEF JobEnds, Live
<1>2. PICK state \in {"succeeded", "failed"},
           bad \in (IF jobs[j].kind = "check" THEN SUBSET (1..project.rules) ELSE {{}}):
              jobs' = [jobs EXCEPT ![j].state = state, ![j].bad = bad]
      BY DEF JobEnds
<1>3. bad \in SUBSET Nat
      BY OrderFacts DEF EvidenceInv, Types
<1> DEFINE k == [jobs[j] EXCEPT !.state = state, !.bad = bad]
<1>4. jobs[j] \in Job /\ jobs \in Seq(Job)
      BY DEF EvidenceInv, Types
<1>5. k \in Job /\ k.step = jobs[j].step /\ k.exec = jobs[j].exec /\ k.kind = jobs[j].kind
      BY <1>3, <1>4 DEF Job
<1>6. jobs' = [jobs EXCEPT ![j] = k]
      BY <1>2, <1>4
<1> HIDE DEF k
<1>7. jobs' \in Seq(Job) /\ DOMAIN jobs' = DOMAIN jobs /\ jobs'[j] = k
      /\ \A i \in DOMAIN jobs: i # j => jobs'[i] = jobs[i]
      BY <1>4, <1>5, <1>6
<1>8. Stay
      BY <1>1, <1>5, <1>7 DEF Stay
<1>9. Types' /\ Owned'
      BY <1>1, <1>7, <1>8 DEF EvidenceInv, Types, Owned, Stay
<1>10. ASSUME NEW e \in DOMAIN execs'
       PROVE  Tells(e)'
       BY <1>1, <1>7, <1>8, Keeps DEF EvidenceInv
<1> QED BY <1>9, <1>10 DEF EvidenceInv

LEMMA RaisingKeeps ==
    ASSUME EvidenceInv, machine' \in Version, NEW e \in DOMAIN execs, Workflows!ExecutionRaises(e)
    PROVE  EvidenceInv'
<1> USE DEF service, Workflows!service
<1> DEFINE x == [execs[e] EXCEPT !.label = "raised"]
<1>1. project' = project /\ jobs' = jobs /\ execs' = [execs EXCEPT ![e] = x]
      BY DEF Workflows!ExecutionRaises, Workflows!SetExec, EvidenceInv, Types
<1>2. execs[e] \in Exec
      BY DEF EvidenceInv, Types
<1>3. x \in Exec /\ x.at = execs[e].at /\ x.op = execs[e].op /\ x.job = execs[e].job
      /\ x.lost = execs[e].lost /\ x.label # "succeeded"
      BY <1>2, Relabelled
<1> HIDE DEF x
<1>4. /\ execs' \in Seq(Exec) /\ DOMAIN execs' = DOMAIN execs /\ execs'[e] = x
      /\ \A f \in DOMAIN execs': f # e => execs'[f] = execs[f]
      /\ \A f \in DOMAIN execs': execs'[f].at \in DOMAIN project'.order
      BY <1>1, <1>3, ExecChanges DEF EvidenceInv, Types
<1>5. Stay
      BY <1>1 DEF Stay
<1>6. ASSUME NEW f \in DOMAIN execs'
      PROVE  Tells(f)'
      <2>1. CASE f = e
            BY <1>1, <1>3, <1>4, <1>5, <2>1, Keeps DEF EvidenceInv
      <2>2. CASE f # e
            BY <1>1, <1>4, <1>5, <2>2, Keeps DEF EvidenceInv
      <2> QED BY <2>1, <2>2
<1> QED BY <1>1, <1>4, <1>6 DEF EvidenceInv, Types, Owned

LEMMA CleanUpKeeps ==
    ASSUME EvidenceInv, machine' \in Version, NEW c \in Caller, Workflows!CleanUp(c)
    PROVE  EvidenceInv'
<1> USE DEF service, Workflows!service
<1>1. project' = project /\ jobs' = jobs
      BY DEF Workflows!CleanUp
<1>2. execs' = [e \in DOMAIN execs |->
          IF execs[e].label = "running" THEN [execs[e] EXCEPT !.label = "cancelled"] ELSE execs[e]]
      BY DEF Workflows!CleanUp
<1>3. \A e \in DOMAIN execs: execs[e] \in Exec
      BY DEF EvidenceInv, Types
<1>4. ASSUME NEW e \in DOMAIN execs
      PROVE  /\ execs'[e] \in Exec /\ execs'[e].at = execs[e].at /\ execs'[e].op = execs[e].op
             /\ execs'[e].job = execs[e].job /\ execs'[e].lost = execs[e].lost
             /\ execs'[e].label = execs[e].label \/ execs'[e].label # "succeeded"
      <2> DEFINE x == [execs[e] EXCEPT !.label = "cancelled"]
      <2>1. x \in Exec /\ x.at = execs[e].at /\ x.op = execs[e].op /\ x.job = execs[e].job
            /\ x.lost = execs[e].lost /\ x.label # "succeeded"
            BY <1>3, Relabelled
      <2>2. execs'[e] = IF execs[e].label = "running" THEN x ELSE execs[e]
            BY <1>2
      <2> HIDE DEF x
      <2> QED BY <1>3, <2>1, <2>2
<1>5. DOMAIN execs' = DOMAIN execs /\ execs' \in Seq(Exec)
      <2>1. DOMAIN execs' = DOMAIN execs /\ execs' = [e \in DOMAIN execs |-> execs'[e]]
            BY <1>2
      <2>2. DOMAIN execs = 1..Len(execs) /\ Len(execs) \in Nat
            BY DEF EvidenceInv, Types
      <2>3. execs' \in [1..Len(execs) -> Exec]
            BY <1>4, <2>1, <2>2
      <2> QED BY <2>1, <2>2, <2>3
<1>6. Stay
      BY <1>1 DEF Stay
<1>7. ASSUME NEW e \in DOMAIN execs'
      PROVE  Tells(e)'
      BY <1>1, <1>4, <1>5, <1>6, Keeps DEF EvidenceInv
<1> QED BY <1>1, <1>4, <1>5, <1>7 DEF EvidenceInv, Types, Owned

LEMMA RunKeeps ==
    ASSUME EvidenceInv, machine' \in Version, NEW c \in Caller, Workflows!Run(c)
    PROVE  EvidenceInv'
<1> USE DEF service, Workflows!service
<1>1. project' = project /\ jobs' = jobs
      BY DEF Workflows!Run
<1>2. Stay
      BY <1>1 DEF Stay
<1>3. CASE execs' = execs
      <2>1. \A e \in DOMAIN execs': Tells(e)'
            BY <1>1, <1>2, <1>3, Keeps DEF EvidenceInv
      <2> QED BY <1>1, <1>3, <2>1 DEF EvidenceInv, Types, Owned
<1>4. CASE execs' # execs
      <2> DEFINE x == NewExec(machine, "running")
      <2>1. execs' = Append(execs, x)
            BY <1>4 DEF Workflows!Run, Workflows!NewExec, NewExec
      <2>2. x \in Exec /\ x.at = 1 /\ x.op = "write" /\ x.job = 0 /\ x.label = "running"
            <3>1. \A l \in BOOLEAN: [by |-> machine, label |-> "running", at |-> 1, op |-> "write", job |-> 0,
                                      polls |-> 0, lost |-> l] \in Exec
                  BY DEF EvidenceInv, Types, Exec, Op
            <3>2. FALSE \in BOOLEAN
                  BY Zenon
            <3> QED BY <3>1, <3>2 DEF NewExec
      <2> HIDE DEF x
      <2>3. execs \in Seq(Exec) /\ Len(execs) \in Nat /\ DOMAIN execs = 1..Len(execs)
            BY DEF EvidenceInv, Types
      <2>4. /\ execs' \in Seq(Exec) /\ DOMAIN execs' = 1..(Len(execs) + 1) /\ execs'[Len(execs) + 1] = x
            /\ \A e \in DOMAIN execs: execs'[e] = execs[e]
            BY <2>1, <2>2, <2>3
      <2>5. Types'
            BY <1>1, <2>2, <2>3, <2>4, OrderFacts DEF EvidenceInv, Types
      <2>6. Owned'
            BY <1>1, <2>3, <2>4 DEF EvidenceInv, Owned
      <2>7. ASSUME NEW e \in DOMAIN execs'
            PROVE  Tells(e)'
            <3>1. CASE e \in DOMAIN execs
                  BY <1>1, <1>2, <2>4, <3>1, Keeps DEF EvidenceInv
            <3>2. CASE e = Len(execs) + 1
                  <4>1. \A j \in DOMAIN jobs': jobs'[j].exec # e
                        BY <1>1, <2>3, <3>2 DEF EvidenceInv, Owned
                  <4>2. execs'[e] = x
                        BY <2>4, <3>2
                  <4>3. LooksAtItsOwn(e)' /\ OpTells(e)'
                        BY <2>2, <4>2 DEF LooksAtItsOwn, OpTells
                  <4>4. PlaceTells(e)'
                        BY <1>1, <2>2, <4>2, OrderFacts DEF PlaceTells, EvidenceInv, Types
                  <4>5. NothingAhead(e)' /\ FailureIsLast(e)' /\ RowsAreTrue(e)' /\ KnowsItsWrites(e)'
                        BY <4>1 DEF NothingAhead, FailureIsLast, RowsAreTrue, KnowsItsWrites, Of
                  <4> QED BY <4>3, <4>4, <4>5 DEF Tells
            <3> QED BY <2>3, <2>4, <3>1, <3>2
      <2> QED BY <2>5, <2>6, <2>7 DEF EvidenceInv
<1> QED BY <1>3, <1>4

\* One execution moves, perhaps with a new job of its own: if its part of the
\* invariant holds then all do.
LEMMA OneMoves ==
    ASSUME EvidenceInv, machine' \in Version, project' = project, NEW e \in DOMAIN execs,
           NEW y \in Exec, y.at \in DOMAIN project.order, execs' = [execs EXCEPT ![e] = y],
           NEW k \in Job, k.exec = e, jobs' = jobs \/ jobs' = Append(jobs, k)
    PROVE  /\ execs'[e] = y /\ Stay /\ jobs' \in Seq(Job)
           /\ Tells(e)' => EvidenceInv'
<1>1. /\ execs' \in Seq(Exec) /\ DOMAIN execs' = DOMAIN execs /\ execs'[e] = y
      /\ \A f \in DOMAIN execs': f # e => execs'[f] = execs[f]
      /\ \A f \in DOMAIN execs': execs'[f].at \in DOMAIN project'.order
      BY ExecChanges DEF EvidenceInv
<1>2. jobs \in Seq(Job) /\ DOMAIN jobs = 1..Len(jobs) /\ Len(jobs) \in Nat
      BY DEF EvidenceInv, Types
<1>3. /\ jobs' \in Seq(Job) /\ \A j \in DOMAIN jobs: j \in DOMAIN jobs' /\ jobs'[j] = jobs[j]
      /\ \A j \in DOMAIN jobs': j \notin DOMAIN jobs => jobs'[j].exec = e
      BY <1>2
<1>4. Stay
      BY <1>3 DEF Stay
<1>5. ASSUME NEW f \in DOMAIN execs', f # e
      PROVE  Tells(f)'
      <2>1. \A j \in DOMAIN jobs': jobs'[j].exec = f => j \in DOMAIN jobs
            BY <1>3, <1>5
      <2> QED BY <1>1, <1>4, <1>5, <2>1, Keeps DEF EvidenceInv
<1>6. Types' /\ Owned'
      BY <1>1, <1>3 DEF EvidenceInv, Types, Owned
<1> QED BY <1>1, <1>3, <1>4, <1>5, <1>6 DEF EvidenceInv

\* An error, after which each write that the execution knows of has failed.
LEMMA ErrsKeeps ==
    ASSUME EvidenceInv, machine' \in Version, NEW e \in DOMAIN execs, execs[e].label = "running",
           Workflows!Errs(e, FALSE), project' = project, jobs' = jobs,
           (execs[e].op = "write" /\ ~execs[e].lost) =>
              \A j \in Of(e, Here(e), "write"): jobs[j].state = "failed"
    PROVE  EvidenceInv'
<1>1. execs[e] \in Exec /\ execs[e].at \in DOMAIN project.order /\ Tells(e)
      BY DEF EvidenceInv, Types
<1>2. Stay
      BY DEF Stay
<1>3. PICK k \in Job: k.exec = e
      <2>1. e \in Nat /\ Step # {}
            BY OrderFacts DEF EvidenceInv, Types
      <2>2. PICK s \in Step: TRUE
            BY <2>1
      <2> DEFINE k == [step |-> s, exec |-> e, kind |-> "write", code |-> None, def |-> None,
                       state |-> "failed", bad |-> {}]
      <2>3. k \in Job /\ k.exec = e
            BY <2>1, <2>2 DEF Job, Op, Version
      <2> QED BY <2>3
<1>4. CASE execs[e].op # "write"
      <2> DEFINE y == [execs[e] EXCEPT !.label = "raised", !.lost = execs[e].lost \/ FALSE]
      <2>1. execs' = [execs EXCEPT ![e] = y]
            BY <1>4 DEF Workflows!Errs
      <2>2. (execs[e].lost \/ FALSE) \in BOOLEAN
            BY <1>1, ExecRecords
      <2>3. y \in Exec
            BY <1>1, <2>2, ExecRecords
      <2>4. y.at = execs[e].at /\ y.op = execs[e].op /\ y.job = execs[e].job /\ y.label = "raised"
            /\ (execs[e].lost => y.lost) /\ (y.lost => execs[e].lost)
            BY <1>1 DEF Exec
      <2> HIDE DEF y
      <2>5. execs'[e] = y /\ (Tells(e)' => EvidenceInv')
            BY <1>1, <1>3, <2>1, <2>3, <2>4, OneMoves
      <2>6. y.lost = execs[e].lost \/ y.lost
            BY <1>1, <2>3, <2>4, ExecRecords
      <2>7. Tells(e)'
            BY <1>1, <1>2, <2>4, <2>5, <2>6, Keeps
      <2> QED BY <2>5, <2>7
<1>5. CASE execs[e].op = "write"
      <2> DEFINE y == [execs[e] EXCEPT !.op = "record_failed", !.job = 0, !.polls = 0, !.lost = execs[e].lost \/ FALSE]
      <2>1. execs' = [execs EXCEPT ![e] = y]
            BY <1>5 DEF Workflows!Errs
      <2>2. (execs[e].lost \/ FALSE) \in BOOLEAN
            BY <1>1, ExecRecords
      <2>3. y \in Exec
            BY <1>1, <2>2, ExecRecords
      <2>4. y.at = execs[e].at /\ y.op = "record_failed" /\ y.job = 0 /\ y.label = "running"
            /\ (execs[e].lost => y.lost)
            BY <1>1 DEF Exec
      <2> HIDE DEF y
      <2>5. execs'[e] = y /\ (Tells(e)' => EvidenceInv')
            BY <1>1, <1>3, <2>1, <2>3, <2>4, OneMoves
      <2>6. Here(e)' = Here(e)
            BY <2>4, <2>5 DEF Here
      <2>7. LooksAtItsOwn(e)' /\ OpTells(e)'
            BY <2>4, <2>5 DEF LooksAtItsOwn, OpTells
      <2>8. PlaceTells(e)' /\ NothingAhead(e)' /\ RowsAreTrue(e)'
            BY <1>1, <2>4, <2>5 DEF Tells, PlaceTells, NothingAhead, RowsAreTrue, Past, Succeeded, CleanCheck, Of
      <2>9. FailureIsLast(e)' /\ KnowsItsWrites(e)'
            BY <1>1, <1>5, <2>4, <2>5, <2>6 DEF Tells, FailureIsLast, KnowsItsWrites, Of
      <2> QED BY <2>5, <2>7, <2>8, <2>9 DEF Tells
<1> QED BY <1>4, <1>5

LEMMA InsertKeeps ==
    ASSUME EvidenceInv, machine' \in Version, NEW e \in DOMAIN execs, Workflows!Insert(e)
    PROVE  EvidenceInv'
<1> USE DEF service, Workflows!service
<1> DEFINE x == execs[e]
           op == execs[e].op
           n == Len(jobs) + 1
           k == [Workflows!NewJob(e, Workflows!Doing(e), execs[e].op) EXCEPT !.code = execs[e].by, !.def = execs[e].by]
<1>1. /\ x \in Exec /\ x.at \in DOMAIN project.order /\ Tells(e) /\ e \in Nat
      /\ project' = project /\ x.label = "running" /\ x.job = 0
      /\ jobs \in Seq(Job) /\ DOMAIN jobs = 1..Len(jobs) /\ Len(jobs) \in Nat
      BY DEF EvidenceInv, Types, Workflows!Insert, Workflows!On
<1>2. CASE jobs' = jobs /\ Workflows!Errs(e, FALSE)
      <2>1. (op = "write" /\ ~x.lost) => \A j \in Of(e, Here(e), "write"): jobs[j].state = "failed"
            BY <1>1 DEF Tells, KnowsItsWrites, Of
      <2> QED BY <1>1, <1>2, <2>1, ErrsKeeps
<1>3. CASE /\ jobs' = Append(jobs, k)
           /\ \/ execs' = [execs EXCEPT ![e].job = n]
              \/ execs' = [execs EXCEPT ![e].lost = TRUE]
              \/ Workflows!Errs(e, TRUE)
      <2>1. k \in Job /\ k.exec = e /\ k.step = Here(e) /\ k.kind = op /\ k.state = "running"
            <3>1. op \in Op /\ x.by \in Version
                  BY <1>1 DEF Exec
            <3>2. project.order \in Seq(Step)
                  BY OrderFacts DEF EvidenceInv, Types
            <3>3. Here(e) \in Step
                  BY <1>1, <3>2 DEF Here
            <3> QED BY <1>1, <3>1, <3>3 DEF Workflows!NewJob, Workflows!Doing, Here, Job
      <2> HIDE DEF k
      <2>2. /\ DOMAIN jobs' = 1..n /\ jobs'[n] = k /\ n \in Nat
            /\ \A j \in DOMAIN jobs: jobs'[j] = jobs[j]
            BY <1>1, <1>3, <2>1
      <2>3. PICK y \in Exec:
               /\ execs' = [execs EXCEPT ![e] = y]
               /\ y.at = x.at /\ y.label # "succeeded"
               /\ y.op = op \/ (op = "write" /\ y.op = "record_failed")
               /\ y.job = 0 \/ (y.job = n /\ y.op = op)
               /\ y.lost \/ (y.job = n /\ y.op = op /\ ~x.lost)
               /\ y.op = "record_failed" /\ op = "write" => y.lost
            <3>0. TRUE \in BOOLEAN
                  BY Zenon
            <3>1. CASE execs' = [execs EXCEPT ![e].job = n]
                  <4> DEFINE y == [execs[e] EXCEPT !.job = n]
                  <4>1. y \in Exec
                        BY <1>1, <2>2, ExecRecords
                  <4>2. y.at = x.at /\ y.label = x.label /\ y.op = op /\ y.job = n
                        /\ (x.lost => y.lost) /\ (y.lost => x.lost)
                        BY <1>1 DEF Exec
                  <4>3. execs' = [execs EXCEPT ![e] = y]
                        BY <3>1
                  <4> HIDE DEF y
                  <4> QED BY <1>1, <4>1, <4>2, <4>3
            <3>2. CASE execs' = [execs EXCEPT ![e].lost = TRUE]
                  <4> DEFINE y == [execs[e] EXCEPT !.lost = TRUE]
                  <4>1. y \in Exec
                        BY <1>1, <3>0, ExecRecords, Zenon
                  <4>2. y.at = x.at /\ y.label = x.label /\ y.op = op /\ y.job = x.job /\ y.lost
                        BY <1>1 DEF Exec
                  <4>3. execs' = [execs EXCEPT ![e] = y]
                        BY <3>2
                  <4> HIDE DEF y
                  <4> QED BY <1>1, <4>1, <4>2, <4>3
            <3>3. CASE Workflows!Errs(e, TRUE) /\ op = "write"
                  <4> DEFINE y == [execs[e] EXCEPT !.op = "record_failed", !.job = 0, !.polls = 0,
                                                   !.lost = execs[e].lost \/ TRUE]
                  <4>1. y \in Exec
                        BY <1>1, ExecRecords
                  <4>2. y.at = x.at /\ y.label = x.label /\ y.op = "record_failed" /\ y.job = 0 /\ y.lost
                        BY <1>1 DEF Exec
                  <4>3. execs' = [execs EXCEPT ![e] = y]
                        BY <3>3 DEF Workflows!Errs
                  <4> HIDE DEF y
                  <4> QED BY <1>1, <3>3, <4>1, <4>2, <4>3
            <3>4. CASE Workflows!Errs(e, TRUE) /\ op # "write"
                  <4> DEFINE y == [execs[e] EXCEPT !.label = "raised", !.lost = execs[e].lost \/ TRUE]
                  <4>1. y \in Exec
                        BY <1>1, ExecRecords
                  <4>2. y.at = x.at /\ y.label = "raised" /\ y.op = op /\ y.job = x.job /\ y.lost
                        BY <1>1 DEF Exec
                  <4>3. execs' = [execs EXCEPT ![e] = y]
                        BY <3>4 DEF Workflows!Errs
                  <4> HIDE DEF y
                  <4> QED BY <1>1, <3>4, <4>1, <4>2, <4>3
            <3> QED BY <1>3, <3>1, <3>2, <3>3, <3>4
      <2>4. execs'[e] = y /\ Stay /\ (Tells(e)' => EvidenceInv')
            BY <1>1, <1>3, <2>1, <2>3, OneMoves
      <2>5. Here(e)' = Here(e)
            BY <1>1, <2>3, <2>4 DEF Here
      <2>6. LooksAtItsOwn(e)'
            BY <1>1, <2>1, <2>2, <2>3, <2>4, <2>5 DEF LooksAtItsOwn, Of
      <2>7. OpTells(e)'
            BY <1>1, <2>3, <2>4, <2>5, Stable DEF Tells, OpTells
      <2>8. PlaceTells(e)'
            BY <1>1, <2>3, <2>4, Stable DEF Tells, PlaceTells
      <2>9. NothingAhead(e)'
            <3> SUFFICES ASSUME NEW j \in DOMAIN jobs', jobs'[j].exec = e
                         PROVE  \E i \in DOMAIN project'.order: i <= execs'[e].at /\ jobs'[j].step = project'.order[i]
                BY DEF NothingAhead
            <3>1. CASE j = n
                  <4>1. x.at \in Nat
                        BY <1>1, ExecRecords
                  <4> QED BY <1>1, <2>1, <2>2, <2>3, <2>4, <3>1, <4>1 DEF Here
            <3>2. CASE j # n
                  BY <1>1, <2>2, <2>3, <2>4, <3>2 DEF Tells, NothingAhead
            <3> QED BY <3>1, <3>2
      <2>10. FailureIsLast(e)'
            BY <1>1, <2>1, <2>2, <2>3, <2>4, <2>5 DEF Tells, FailureIsLast
      <2>11. KnowsItsWrites(e)'
            BY <1>1, <2>1, <2>2, <2>3, <2>4, <2>5 DEF Tells, KnowsItsWrites, Of
      <2>12. RowsAreTrue(e)'
            <3>1. ASSUME NEW j \in DOMAIN jobs', jobs'[j].exec = e, NEW s, s = jobs'[j].step
                  PROVE  /\ jobs'[j].kind = "record" => Succeeded(e, s, "write")'
                         /\ jobs'[j].kind = "pass" => CleanCheck(e, s)'
                  <4>1. CASE j = n
                        BY <1>1, <2>1, <2>2, <2>4, <3>1, <4>1, Stable DEF Tells, OpTells
                  <4>2. CASE j # n
                        BY <1>1, <2>2, <2>4, <3>1, <4>2, Stable DEF Tells, RowsAreTrue
                  <4> QED BY <4>1, <4>2
            <3> QED BY <3>1 DEF RowsAreTrue
      <2> QED BY <2>4, <2>6, <2>7, <2>8, <2>9, <2>10, <2>11, <2>12 DEF Tells
<1> QED BY <1>2, <1>3 DEF Workflows!Insert, Workflows!MayLose

LEMMA LookKeeps ==
    ASSUME EvidenceInv, machine' \in Version, NEW e \in DOMAIN execs, Workflows!Look(e)
    PROVE  EvidenceInv'
<1> USE DEF service, Workflows!service
<1> DEFINE x == execs[e]
           op == execs[e].op
           job == execs[e].job
<1>1. /\ x \in Exec /\ x.at \in DOMAIN project.order /\ Tells(e) /\ e \in Nat
      /\ project' = project /\ jobs' = jobs /\ x.label = "running" /\ x.job # 0
      /\ jobs \in Seq(Job) /\ DOMAIN jobs = 1..Len(jobs) /\ Len(jobs) \in Nat
      BY DEF EvidenceInv, Types, Workflows!Look, Workflows!On
<1>2. job \in Of(e, Here(e), op) /\ job \in DOMAIN jobs
      BY <1>1 DEF Tells, LooksAtItsOwn, Of
<1>3. Stay
      BY <1>1 DEF Stay
<1>4. jobs[job] \in Job /\ jobs[job].exec = e
      BY <1>1, <1>2 DEF Of
<1>5. CASE jobs[job].state = "failed"
      <2>1. Workflows!Errs(e, FALSE)
            BY <1>5 DEF Workflows!Look
      <2>2. (op = "write" /\ ~x.lost) => \A j \in Of(e, Here(e), "write"): jobs[j].state = "failed"
            BY <1>1, <1>5 DEF Tells, KnowsItsWrites
      <2> QED BY <1>1, <2>1, <2>2, ErrsKeeps
\* The execution stays where it is.
<1>6. ASSUME NEW y \in Exec, execs' = [execs EXCEPT ![e] = y], y.at = x.at, y.op = op, y.job = job,
             y.lost = x.lost, y.label = x.label \/ y.label # "succeeded"
      PROVE  EvidenceInv'
      <2>1. execs'[e] = y /\ (Tells(e)' => EvidenceInv')
            BY <1>1, <1>4, <1>6, OneMoves
      <2>2. Tells(e)'
            BY <1>1, <1>3, <1>6, <2>1, Keeps
      <2> QED BY <2>1, <2>2
<1>7. CASE jobs[job].state = "running"
      <2>1. CASE execs' = [execs EXCEPT ![e].polls = @ + 1]
            <3> DEFINE y == [execs[e] EXCEPT !.polls = execs[e].polls + 1]
            <3>1. x.polls + 1 \in Nat
                  BY <1>1 DEF Exec
            <3>2. y \in Exec
                  BY <1>1, <3>1, ExecRecords
            <3>3. y.at = x.at /\ y.op = op /\ y.job = job /\ y.lost = x.lost /\ y.label = x.label
                  BY <1>1 DEF Exec
            <3>4. execs' = [execs EXCEPT ![e] = y]
                  BY <2>1
            <3> HIDE DEF y
            <3> QED BY <1>6, <3>2, <3>3, <3>4
      <2>2. CASE Workflows!SetExec(e, "raised")
            <3> DEFINE y == [execs[e] EXCEPT !.label = "raised"]
            <3>1. y \in Exec /\ y.at = x.at /\ y.op = op /\ y.job = job /\ y.lost = x.lost /\ y.label = "raised"
                  BY <1>1, Relabelled
            <3>2. execs' = [execs EXCEPT ![e] = y]
                  BY <2>2 DEF Workflows!SetExec
            <3> HIDE DEF y
            <3> QED BY <1>6, <3>1, <3>2
      <2> QED BY <1>7, <2>1, <2>2 DEF Workflows!Look
\* The execution goes on in its step.
<1>8. ASSUME NEW next \in Op, Workflows!Then(e, next), next \notin {"write", "record_failed"}, op # "record_failed",
             Succeeded(e, Here(e), "write"),
             next \in {"check", "pass", "flag"} => Succeeded(e, Here(e), "record"),
             next = "pass" => CleanCheck(e, Here(e))
      PROVE  EvidenceInv'
      <2> DEFINE y == [execs[e] EXCEPT !.op = next, !.job = 0, !.polls = 0]
      <2>1. y \in Exec
            BY <1>1, ExecRecords
      <2>2. y.at = x.at /\ y.op = next /\ y.job = 0 /\ y.lost = x.lost /\ y.label = "running"
            BY <1>1 DEF Exec
      <2>3. execs' = [execs EXCEPT ![e] = y]
            BY <1>8 DEF Workflows!Then
      <2> HIDE DEF y
      <2>4. execs'[e] = y /\ (Tells(e)' => EvidenceInv')
            BY <1>1, <1>4, <2>1, <2>2, <2>3, OneMoves
      <2>5. Here(e)' = Here(e)
            BY <1>1, <2>2, <2>4 DEF Here
      <2>6. LooksAtItsOwn(e)'
            BY <2>2, <2>4 DEF LooksAtItsOwn
      <2>7. OpTells(e)'
            BY <1>1, <1>3, <1>8, <2>2, <2>4, <2>5, Stable DEF OpTells
      <2>8. PlaceTells(e)'
            BY <1>1, <1>3, <2>2, <2>4, Stable DEF Tells, PlaceTells
      <2>9. NothingAhead(e)'
            BY <1>1, <2>2, <2>4 DEF Tells, NothingAhead
      <2>10. FailureIsLast(e)' /\ KnowsItsWrites(e)'
            BY <1>1, <1>8, <2>2, <2>4, <2>5 DEF Tells, FailureIsLast, KnowsItsWrites
      <2>11. RowsAreTrue(e)'
            BY <1>1, <2>2, <2>4 DEF Tells, RowsAreTrue, Succeeded, CleanCheck, Of
      <2> QED BY <2>4, <2>6, <2>7, <2>8, <2>9, <2>10, <2>11 DEF Tells
\* The step is done.
<1>9. ASSUME Workflows!StepDone(e), op \notin {"write", "record_failed"}, Past(e, Here(e))
      PROVE  EvidenceInv'
      <2>0. x.at \in Nat /\ DOMAIN project.order = 1..Len(project.order) /\ Len(project.order) \in Nat
            /\ \A i, j \in DOMAIN project.order: project.order[i] = project.order[j] => i = j
            BY <1>1, OrderFacts DEF EvidenceInv, Types
      <2>a. CASE x.at = Len(project.order)
            <3> DEFINE y == [execs[e] EXCEPT !.label = "succeeded"]
            <3>1. y \in Exec /\ y.at = x.at /\ y.op = op /\ y.job = job /\ y.lost = x.lost /\ y.label = "succeeded"
                  BY <1>1, Relabelled
            <3>2. execs' = [execs EXCEPT ![e] = y]
                  BY <1>9, <2>a DEF Workflows!StepDone
            <3> HIDE DEF y
            <3>3. execs'[e] = y /\ (Tells(e)' => EvidenceInv')
                  BY <1>1, <1>4, <3>1, <3>2, OneMoves
            <3>4. Here(e)' = Here(e)
                  BY <1>1, <3>1, <3>3 DEF Here
            <3>5. LooksAtItsOwn(e)' /\ OpTells(e)'
                  BY <1>1, <1>3, <3>1, <3>3, <3>4, Stable DEF Tells, LooksAtItsOwn, OpTells
            <3>6. PlaceTells(e)'
                  <4>1. \A i \in DOMAIN project.order: i < x.at \/ project.order[i] = Here(e)
                        BY <2>0, <2>a DEF Here
                  <4>2. \A i \in DOMAIN project.order: Past(e, project.order[i])
                        BY <1>1, <1>9, <4>1 DEF Tells, PlaceTells
                  <4> QED BY <1>1, <1>3, <4>2, Stable DEF PlaceTells
            <3>7. NothingAhead(e)' /\ FailureIsLast(e)' /\ KnowsItsWrites(e)'
                  BY <1>1, <1>2, <3>1, <3>3, <3>4 DEF Tells, NothingAhead, FailureIsLast, KnowsItsWrites, Of
            <3>8. RowsAreTrue(e)'
                  BY <1>1, <3>1, <3>3 DEF Tells, RowsAreTrue, Succeeded, CleanCheck, Of
            <3> QED BY <3>3, <3>5, <3>6, <3>7, <3>8 DEF Tells
      <2>b. CASE x.at # Len(project.order)
            <3> DEFINE y == [execs[e] EXCEPT !.at = execs[e].at + 1, !.op = "write", !.job = 0, !.polls = 0]
            <3>1. y \in Exec
                  <4> DEFINE n == execs[e].at + 1
                  <4>1. n \in Nat
                        BY <2>0
                  <4>2. y = [execs[e] EXCEPT !.at = n, !.op = "write", !.job = 0, !.polls = 0]
                        OBVIOUS
                  <4> HIDE DEF n, y
                  <4> QED BY <1>1, <4>1, <4>2, ExecRecords
            <3>2. y.at = x.at + 1 /\ y.op = "write" /\ y.job = 0 /\ y.lost = x.lost /\ y.label = "running"
                  BY <1>1 DEF Exec
            <3>3. y.at \in DOMAIN project.order
                  BY <1>1, <2>0, <2>b, <3>2
            <3>4. execs' = [execs EXCEPT ![e] = y]
                  BY <1>9, <2>b DEF Workflows!StepDone
            <3> HIDE DEF y
            <3>5. execs'[e] = y /\ (Tells(e)' => EvidenceInv')
                  BY <1>1, <1>4, <3>1, <3>3, <3>4, OneMoves
            <3>6. LooksAtItsOwn(e)' /\ OpTells(e)'
                  BY <3>2, <3>5 DEF LooksAtItsOwn, OpTells
            <3>7. PlaceTells(e)'
                  <4>1. \A i \in DOMAIN project.order: i < x.at + 1 => i < x.at \/ project.order[i] = Here(e)
                        BY <2>0 DEF Here
                  <4>2. \A i \in DOMAIN project.order: i < x.at + 1 => Past(e, project.order[i])
                        BY <1>1, <1>9, <4>1 DEF Tells, PlaceTells
                  <4> QED BY <1>1, <1>3, <3>2, <3>5, <4>2, Stable DEF PlaceTells
            <3>8. NothingAhead(e)'
                  BY <1>1, <2>0, <3>2, <3>5 DEF Tells, NothingAhead
            <3>9. FailureIsLast(e)'
                  BY <1>1, <1>9 DEF Tells, FailureIsLast
            <3>10. KnowsItsWrites(e)'
                  <4>1. Here(e)' = project.order[x.at + 1]
                        BY <1>1, <3>2, <3>5 DEF Here
                  <4>2. \A j \in DOMAIN jobs: jobs[j].exec = e => jobs[j].step # project.order[x.at + 1]
                        BY <1>1, <2>0, <3>2, <3>3 DEF Tells, NothingAhead
                  <4> QED BY <1>1, <4>1, <4>2 DEF KnowsItsWrites, Of
            <3>11. RowsAreTrue(e)'
                  BY <1>1 DEF Tells, RowsAreTrue, Succeeded, CleanCheck, Of
            <3> QED BY <3>5, <3>6, <3>7, <3>8, <3>9, <3>10, <3>11 DEF Tells
      <2> QED BY <2>a, <2>b
<1>10. CASE jobs[job].state = "succeeded"
      <2>1. Workflows!Succeeds(e)
            BY <1>10 DEF Workflows!Look
      <2>2. Succeeded(e, Here(e), op)
            BY <1>2, <1>10 DEF Succeeded
      <2>3. CASE op = "write"
            <3>1. Workflows!Then(e, "record")
                  BY <2>1, <2>3 DEF Workflows!Succeeds
            <3> QED BY <1>8, <2>2, <2>3, <3>1 DEF Op
      <2>4. CASE op = "record"
            <3>1. Succeeded(e, Here(e), "write") /\ Succeeded(e, Here(e), "record")
                  BY <1>1, <2>2, <2>4 DEF Tells, OpTells
            <3>2. CASE project.rules > 0
                  <4>1. Workflows!Then(e, "check")
                        BY <2>1, <2>4, <3>2 DEF Workflows!Succeeds
                  <4> QED BY <1>8, <2>4, <3>1, <4>1 DEF Op
            <3>3. CASE ~(project.rules > 0)
                  <4>1. Workflows!StepDone(e)
                        BY <2>1, <2>4, <3>3 DEF Workflows!Succeeds
                  <4> QED BY <1>9, <2>4, <3>1, <3>3, <4>1 DEF Past
            <3> QED BY <3>2, <3>3
      <2>5. CASE op = "check"
            <3>1. Succeeded(e, Here(e), "write") /\ Succeeded(e, Here(e), "record")
                  BY <1>1, <2>5 DEF Tells, OpTells
            <3>2. CASE project.rules \in jobs[job].bad
                  <4>1. Workflows!Then(e, "flag")
                        BY <2>1, <2>5, <3>2 DEF Workflows!Succeeds
                  <4> QED BY <1>8, <2>5, <3>1, <4>1 DEF Op
            <3>3. CASE project.rules \notin jobs[job].bad
                  <4>1. Workflows!Then(e, "pass")
                        BY <2>1, <2>5, <3>3 DEF Workflows!Succeeds
                  <4>2. CleanCheck(e, Here(e))
                        BY <1>2, <1>10, <2>5, <3>3 DEF CleanCheck
                  <4> QED BY <1>8, <2>5, <3>1, <4>1, <4>2 DEF Op
            <3> QED BY <3>2, <3>3
      <2>6. CASE op = "pass"
            <3>1. Workflows!StepDone(e)
                  BY <2>1, <2>6 DEF Workflows!Succeeds
            <3>2. Past(e, Here(e))
                  BY <1>1, <2>2, <2>6 DEF Tells, OpTells, Past
            <3> QED BY <1>9, <2>6, <3>1, <3>2
      <2>7. CASE op \in {"flag", "record_failed"}
            <3> DEFINE y == [execs[e] EXCEPT !.label = "failed"]
            <3>1. y \in Exec /\ y.at = x.at /\ y.op = op /\ y.job = job /\ y.lost = x.lost /\ y.label = "failed"
                  BY <1>1, Relabelled
            <3>2. execs' = [execs EXCEPT ![e] = y]
                  BY <2>1, <2>7 DEF Workflows!Succeeds, Workflows!SetExec
            <3> HIDE DEF y
            <3> QED BY <1>6, <3>1, <3>2
      <2>8. op \in Op
            BY <1>1 DEF Exec
      <2> QED BY <2>3, <2>4, <2>5, <2>6, <2>7, <2>8 DEF Op
<1>11. jobs[job].state \in {"running", "succeeded", "failed"}
      BY <1>4 DEF Job
<1> QED BY <1>5, <1>7, <1>10, <1>11

LEMMA EvidenceInit == (Init /\ ByWorkflow) => EvidenceInv
<1> SUFFICES ASSUME Init, ByWorkflow
             PROVE  EvidenceInv
    OBVIOUS
<1>1. project \in Projects /\ machine \in Version /\ execs = <<>> /\ jobs = <<>>
      BY DEF Init, Version
<1>2. DOMAIN execs = {} /\ DOMAIN jobs = {} /\ execs \in Seq(Exec) /\ jobs \in Seq(Job)
      BY <1>1
<1> QED BY <1>1, <1>2 DEF EvidenceInv, Types, Owned

LEMMA EvidenceStep == (EvidenceInv /\ ByWorkflow /\ [Next]_vars) => (EvidenceInv /\ ByWorkflow)'
<1> SUFFICES ASSUME EvidenceInv, ByWorkflow, [Next]_vars
             PROVE  (EvidenceInv /\ ByWorkflow)'
    OBVIOUS
<1>1. machine \in Version
      BY DEF EvidenceInv, Types
<1>2. CASE /\ project' = project /\ machine' \in Version /\ UNCHANGED <<execs, jobs>>
      <2>1. Stay
            BY <1>2 DEF Stay
      <2>2. \A e \in DOMAIN execs': Tells(e)'
            BY <1>2, <2>1, Keeps DEF EvidenceInv
      <2> QED BY <1>2, <2>2 DEF EvidenceInv, Types, Owned, ByWorkflow
<1>3. CASE UNCHANGED vars
      BY <1>1, <1>2, <1>3 DEF vars, service
<1>4. CASE Next
      <2>1. project' = project /\ machine' \in Version
            BY <1>1, <1>4, WhatMoves
      <2>2. ASSUME NEW e \in DOMAIN execs, Workflows!Proceed(e) \/ Workflows!ExecutionRaises(e)
            PROVE  EvidenceInv'
            BY <2>1, <2>2, InsertKeeps, LookKeeps, RaisingKeeps DEF Workflows!Proceed
      <2>3. ASSUME NEW c \in Caller, Workflows!Run(c) \/ Workflows!CleanUp(c)
            PROVE  EvidenceInv'
            BY <2>1, <2>3, RunKeeps, CleanUpKeeps
      <2>4. ASSUME NEW j \in DOMAIN jobs, JobEnds(j)
            PROVE  EvidenceInv'
            BY <2>1, <2>4, JobEndsKeeps
      <2>5. CASE UNCHANGED <<execs, jobs>>
            BY <1>2, <2>1, <2>5
      <2>6. EvidenceInv'
            BY <1>4, <2>2, <2>3, <2>4, <2>5, WhatMoves
      <2> QED BY <2>1, <2>6 DEF ByWorkflow
<1> QED BY <1>3, <1>4

\* The project of a behaviour is fixed, so that whoever drives it does so for
\* good.
LEMMA DriverIsFixed == (~ByWorkflow /\ [Next]_vars) => ~ByWorkflow'
<1> USE DEF vars, service, Workflows!service, Fabric!service, Glue!service, Tasks!service
<1> SUFFICES ASSUME [Next]_vars
             PROVE  project' = project
    BY DEF ByWorkflow
<1>1. CASE UNCHANGED vars
      BY <1>1
<1>2. ASSUME Workflows!Next
      PROVE  project' = project
      BY <1>2 DEF Workflows!Next, Workflows!Start, Workflows!Continue, Workflows!CleanUpData, Workflows!Deploy,
         Workflows!Run, Workflows!WaitFor, Workflows!ReadBack, Workflows!CleanUp, Workflows!Proceed,
         Workflows!Insert, Workflows!Look, Workflows!ExecutionRaises
<1>3. ASSUME Fabric!Next
      PROVE  project' = project
      BY <1>3 DEF Fabric!Next, Fabric!Start, Fabric!Continue, Fabric!Blocked, Fabric!Look, Fabric!Create,
         Fabric!Update, Fabric!Send, Fabric!PollOperation, Fabric!Submit, Fabric!Wait, Fabric!OperationEnds
<1>4. ASSUME Glue!Next
      PROVE  project' = project
      BY <1>4 DEF Glue!Next, Glue!Start, Glue!Continue, Glue!Publish, Glue!Lookup, Glue!Register, Glue!StartJob,
         Glue!Wait, Glue!FindMachine, Glue!RegisterMachine, Glue!Execute, Glue!Scheduled, Glue!Watch,
         Glue!StartTask, Glue!ExecutionEnds, Glue!End
<1>5. ASSUME Tasks!Next
      PROVE  project' = project
      BY <1>5 DEF Tasks!Next, Tasks!Start, Tasks!Continue, Tasks!Publish, Tasks!Suspend, Tasks!Create, Tasks!Clock,
         Tasks!Resume, Tasks!Execute, Tasks!Watch, Tasks!Enable, Tasks!Scheduled, Tasks!StartTask,
         Tasks!ExecutionEnds
<1>6. ASSUME NEW c \in Caller, End(c) \/ Raise(c)
      PROVE  project' = project
      BY <1>6 DEF End, Raise
<1>7. ASSUME NEW j \in DOMAIN jobs, JobEnds(j)
      PROVE  project' = project
      BY <1>7 DEF JobEnds
<1> QED BY <1>1, <1>2, <1>3, <1>4, <1>5, <1>6, <1>7 DEF Next

LEMMA EvidenceTold ==
    ASSUME EvidenceInv, ByWorkflow
    PROVE  EvidenceTellsTheOutcome
<1> SUFFICES ASSUME NEW e \in DOMAIN execs, NEW s \in Steps
             PROVE  /\ Of(e, s, "record") # {} => Succeeded(e, s, "write")
                    /\ (Of(e, s, "record_failed") # {} /\ ~execs[e].lost) =>
                          \A j \in Of(e, s, "write"): jobs[j].state = "failed"
                    /\ Of(e, s, "pass") # {} => CleanCheck(e, s)
                    /\ execs[e].label = "succeeded" =>
                          Succeeded(e, s, "record") /\ (project.rules > 0 => Succeeded(e, s, "pass"))
    BY DEF EvidenceTellsTheOutcome
<1>1. Tells(e)
      BY DEF EvidenceInv
<1>2. Of(e, s, "record") # {} => Succeeded(e, s, "write")
      BY <1>1 DEF Tells, RowsAreTrue, Of
<1>3. Of(e, s, "pass") # {} => CleanCheck(e, s)
      BY <1>1 DEF Tells, RowsAreTrue, Of
<1>4. (Of(e, s, "record_failed") # {} /\ ~execs[e].lost) => \A j \in Of(e, s, "write"): jobs[j].state = "failed"
      BY <1>1 DEF Tells, FailureIsLast, KnowsItsWrites, Of
<1>5. execs[e].label = "succeeded" => Past(e, s)
      BY <1>1 DEF Tells, PlaceTells, Steps
<1> QED BY <1>2, <1>3, <1>4, <1>5 DEF Past

\* The rows that an execution of the workflow leaves in the evidence tables
\* tell how its jobs ended, for every project, any number of calls that deploy,
\* run and clean up next to each other, and whatever the service does to a job
\* or to an answer.
THEOREM EvidenceIsTrue == Spec => []EvidenceTellsTheOutcome
<1>1. ~ByWorkflow => EvidenceTellsTheOutcome
      BY DEF ByWorkflow, EvidenceTellsTheOutcome
<1>2. Init => (EvidenceInv /\ ByWorkflow) \/ ~ByWorkflow
      BY EvidenceInit
<1>3. ((EvidenceInv /\ ByWorkflow) \/ ~ByWorkflow) /\ [Next]_vars => ((EvidenceInv /\ ByWorkflow) \/ ~ByWorkflow)'
      BY EvidenceStep, DriverIsFixed
<1>4. (EvidenceInv /\ ByWorkflow) \/ ~ByWorkflow => EvidenceTellsTheOutcome
      BY <1>1, EvidenceTold
<1> QED BY <1>2, <1>3, <1>4, PTL DEF Spec

-----------------------------------------------------------------------------
(* Calls, executions and jobs of any driver *)

Typed ==
    /\ project \in Projects
    /\ item \in [Step -> [code: Version, def: Version]]
    /\ machine \in Version
    /\ updates \subseteq [step: Step, by: Caller, new: BOOLEAN]
    /\ execs \in Seq(Exec)
    /\ jobs \in Seq(Job)
    /\ calls \in [Caller -> Call]
    /\ Owned
    /\ \A c \in Caller:
          calls[c].exec \in 0..Len(execs) /\ calls[c].at \in project.from..Len(project.order)

\* Two records of a call that differ by their label and their polls only.
Kept(x, y) ==
    /\ y.exec = x.exec /\ y.at = x.at /\ y.job = x.job /\ y.since = x.since /\ y.ok = x.ok
    /\ y.statuses = x.statuses /\ y.seen = x.seen /\ y.verdict = x.verdict /\ y.mixed = x.mixed

Others(c) == calls' \in [Caller -> Call] /\ \A d \in Caller: d # c => calls'[d] = calls[d]

Goes(c, label) == Others(c) /\ calls'[c].label = label /\ Kept(calls[c], calls'[c])

Finishes(c, verdict) ==
    /\ Others(c)
    /\ calls'[c].label = "done" /\ calls'[c].verdict = verdict
    /\ calls'[c].exec = calls[c].exec /\ calls'[c].at = calls[c].at /\ calls'[c].job = calls[c].job
    /\ calls'[c].since = calls[c].since /\ calls'[c].ok = calls[c].ok
    /\ calls'[c].seen = calls[c].seen /\ calls'[c].mixed = calls[c].mixed

\* The next step of the order, or the first one again.
Turns(c, at, label) ==
    /\ Others(c)
    /\ calls'[c].label = label /\ calls'[c].at = at
    /\ calls'[c].exec = calls[c].exec /\ calls'[c].job = calls[c].job
    /\ calls'[c].since = calls[c].since /\ calls'[c].ok = calls[c].ok
    /\ calls'[c].seen = calls[c].seen /\ calls'[c].mixed = calls[c].mixed
    /\ calls'[c].verdict = calls[c].verdict

Advances(c, label, end) ==
    \/ calls[c].at < Len(project.order) /\ Turns(c, calls[c].at + 1, label)
    \/ calls[c].at = Len(project.order) /\ Turns(c, project.from, end)

LEMMA Moved ==
    ASSUME calls \in [Caller -> Call], NEW c \in Caller, NEW y \in Call,
           calls' = [calls EXCEPT ![c] = y]
    PROVE  Others(c) /\ calls'[c] = y
BY DEF Others

LEMMA GotoGoes ==
    ASSUME calls \in [Caller -> Call], NEW c \in Caller, NEW label \in Label, Goto(c, label)
    PROVE  Goes(c, label)
<1> DEFINE y == [calls[c] EXCEPT !.label = label, !.polls = 0]
<1>1. calls[c] \in Call
      OBVIOUS
<1>2. y \in Call /\ y.label = label /\ Kept(calls[c], y)
      BY <1>1 DEF Call, Kept
<1>3. calls' = [calls EXCEPT ![c] = y]
      BY DEF Goto
<1> HIDE DEF y
<1> QED BY <1>2, <1>3, Moved DEF Goes

LEMMA FinishFinishes ==
    ASSUME calls \in [Caller -> Call], NEW c \in Caller,
           NEW verdict \in {"none", "raised"} \cup StepStatus, Finish(c, verdict)
    PROVE  Finishes(c, verdict)
<1> DEFINE y == [calls[c] EXCEPT !.label = "done", !.verdict = verdict]
<1>1. calls[c] \in Call
      OBVIOUS
<1>2. /\ y \in Call /\ y.label = "done" /\ y.verdict = verdict
      /\ y.exec = calls[c].exec /\ y.at = calls[c].at /\ y.job = calls[c].job
      /\ y.since = calls[c].since /\ y.ok = calls[c].ok /\ y.seen = calls[c].seen /\ y.mixed = calls[c].mixed
      BY <1>1 DEF Call, Label
<1>3. calls' = [calls EXCEPT ![c] = y]
      BY DEF Finish
<1> HIDE DEF y
<1> QED BY <1>2, <1>3, Moved DEF Finishes

LEMMA PollPolls ==
    ASSUME calls \in [Caller -> Call], NEW c \in Caller, Poll(c)
    PROVE  Goes(c, calls[c].label) \/ Finishes(c, "raised")
<1>1. CASE calls[c].polls + 1 < project.polls
      <2> DEFINE y == [calls[c] EXCEPT !.polls = calls[c].polls + 1]
      <2>1. calls[c] \in Call
            OBVIOUS
      <2>2. y \in Call /\ y.label = calls[c].label /\ Kept(calls[c], y)
            BY <2>1 DEF Call, Kept
      <2>3. calls' = [calls EXCEPT ![c] = y]
            BY <1>1, <2>1 DEF Poll, Call
      <2> HIDE DEF y
      <2> QED BY <2>2, <2>3, Moved DEF Goes
<1>2. CASE ~(calls[c].polls + 1 < project.polls)
      BY <1>2, FinishFinishes DEF Poll
<1> QED BY <1>1, <1>2

LEMMA NextStepAdvances ==
    ASSUME Typed, NEW c \in Caller, NEW label \in Label, NEW end \in Label, NextStep(c, label, end)
    PROVE  Advances(c, label, end)
<1>1. calls \in [Caller -> Call] /\ calls[c] \in Call /\ calls[c].at \in project.from..Len(project.order)
      BY DEF Typed
<1>2. project.from \in Nat /\ Len(project.order) \in Nat
      BY OrderFacts, ProjectsAssumption DEF Typed, Project
<1>3. CASE calls[c].at < Len(project.order)
      <2> DEFINE n == calls[c].at + 1
                 y == [calls[c] EXCEPT !.at = n, !.label = label, !.polls = 0]
      <2>0. n \in Nat /\ calls' = [calls EXCEPT ![c] = y]
            BY <1>1, <1>2, <1>3 DEF NextStep
      <2> HIDE DEF n
      <2>1. /\ y \in Call /\ y.label = label /\ y.at = n
            /\ y.exec = calls[c].exec /\ y.job = calls[c].job /\ y.verdict = calls[c].verdict
            /\ y.since = calls[c].since /\ y.ok = calls[c].ok /\ y.seen = calls[c].seen /\ y.mixed = calls[c].mixed
            BY <1>1, <2>0 DEF Call
      <2> HIDE DEF y
      <2>2. Turns(c, n, label)
            BY <1>1, <2>0, <2>1, Moved DEF Turns
      <2> QED BY <1>3, <2>2 DEF Advances, n
<1>4. CASE ~(calls[c].at < Len(project.order))
      <2> DEFINE y == [calls[c] EXCEPT !.at = project.from, !.label = end, !.polls = 0]
      <2>1. /\ y \in Call /\ y.label = end /\ y.at = project.from
            /\ y.exec = calls[c].exec /\ y.job = calls[c].job /\ y.verdict = calls[c].verdict
            /\ y.since = calls[c].since /\ y.ok = calls[c].ok /\ y.seen = calls[c].seen /\ y.mixed = calls[c].mixed
            BY <1>1, <1>2 DEF Call
      <2>2. calls' = [calls EXCEPT ![c] = y]
            BY <1>4, <1>1 DEF NextStep
      <2>3. calls[c].at = Len(project.order)
            BY <1>1, <1>2, <1>4
      <2> HIDE DEF y
      <2> QED BY <1>1, <2>1, <2>2, <2>3, Moved DEF Advances, Turns
<1> QED BY <1>3, <1>4

\* Who else was about when a call began.
Begun(c, label, e) ==
    /\ calls' \in [Caller -> Call]
    /\ calls'[c].label = label /\ calls'[c].exec = e /\ calls'[c].at = calls[c].at
    /\ calls'[c].ok = calls[c].ok /\ calls'[c].verdict = calls[c].verdict /\ calls'[c].seen = calls[c].seen
    /\ ~calls'[c].mixed => updates = {} /\ label # "clock" /\ \A d \in Caller: ~Active(d)
    /\ \A d \in Caller: d # c =>
          /\ calls'[d].label = calls[d].label
          /\ calls'[d].exec = calls[d].exec /\ calls'[d].at = calls[d].at /\ calls'[d].job = calls[d].job
          /\ calls'[d].since = calls[d].since /\ calls'[d].ok = calls[d].ok
          /\ calls'[d].seen = calls[d].seen /\ calls'[d].verdict = calls[d].verdict
          /\ calls[d].mixed => calls'[d].mixed
          /\ Active(d) \/ Running(calls[d].exec) => calls'[d].mixed
          /\ calls'[d].mixed => calls[d].mixed \/ Active(d) \/ Running(calls[d].exec)

LEMMA Marked ==
    ASSUME NEW x \in Call, NEW b \in BOOLEAN, NEW y, y = [x EXCEPT !.mixed = b]
    PROVE  /\ y \in Call /\ y.mixed = b /\ y.label = x.label /\ y.exec = x.exec /\ y.at = x.at
           /\ y.job = x.job /\ y.since = x.since /\ y.ok = x.ok /\ y.seen = x.seen /\ y.verdict = x.verdict
BY DEF Call

LEMMA BeginBegins ==
    ASSUME calls \in [Caller -> Call], NEW c \in Caller, NEW label \in Label, NEW e \in Nat, Begin(c, label, e)
    PROVE  Begun(c, label, e) /\ calls[c].label = "idle"
<1> DEFINE others == {x \in Caller: Active(x)}
           b == others # {} \/ updates # {} \/ label = "clock"
           m(x) == calls[x].mixed \/ x \in others \/ Running(calls[x].exec)
           y == [calls[c] EXCEPT !.label = label, !.exec = e, !.mixed = b]
           z(x) == [calls[x] EXCEPT !.mixed = m(x)]
<1>1. calls' = [x \in Caller |-> IF x = c THEN y ELSE z(x)] /\ calls[c].label = "idle"
      BY DEF Begin
<1>2. b \in BOOLEAN /\ \A x \in Caller: m(x) \in BOOLEAN
      OBVIOUS
<1>3. /\ ~b => updates = {} /\ label # "clock" /\ \A d \in Caller: ~Active(d)
      /\ \A d \in Caller: /\ calls[d].mixed => m(d)
                          /\ Active(d) \/ Running(calls[d].exec) => m(d)
                          /\ m(d) => calls[d].mixed \/ Active(d) \/ Running(calls[d].exec)
      OBVIOUS
<1> HIDE DEF b, m
<1>4. /\ y \in Call /\ y.mixed = b /\ y.label = label /\ y.exec = e /\ y.at = calls[c].at
      /\ y.ok = calls[c].ok /\ y.seen = calls[c].seen /\ y.verdict = calls[c].verdict
      <2>1. calls[c] \in Call /\ b \in BOOLEAN
            BY <1>2
      <2>2. y = [calls[c] EXCEPT !.label = label, !.exec = e, !.mixed = b]
            OBVIOUS
      <2> HIDE DEF y
      <2>3. y \in Call
            BY <2>1, <2>2 DEF Call
      <2>4. y.mixed = b
            BY <2>1, <2>2 DEF Call
      <2> QED BY <2>1, <2>2, <2>3 DEF Call
<1>5. ASSUME NEW d \in Caller
      PROVE  /\ z(d) \in Call /\ z(d).mixed = m(d) /\ z(d).label = calls[d].label
             /\ z(d).exec = calls[d].exec /\ z(d).at = calls[d].at /\ z(d).job = calls[d].job
             /\ z(d).since = calls[d].since /\ z(d).ok = calls[d].ok /\ z(d).seen = calls[d].seen
             /\ z(d).verdict = calls[d].verdict
      <2>1. calls[d] \in Call /\ m(d) \in BOOLEAN
            BY <1>2
      <2> QED BY <2>1, Marked
<1> HIDE DEF y, z
<1>6. calls' \in [Caller -> Call] /\ calls'[c] = y /\ \A d \in Caller: d # c => calls'[d] = z(d)
      BY <1>1, <1>4, <1>5
<1> QED BY <1>1, <1>3, <1>4, <1>5, <1>6 DEF Begun

\* The service changes nothing of a job but how it ended, and keeps it.
SameCode == \A j \in DOMAIN jobs: jobs'[j].code = jobs[j].code /\ jobs'[j].def = jobs[j].def

LEMMA JobEndsFlat ==
    ASSUME project \in Projects, jobs \in Seq(Job), NEW j \in DOMAIN jobs, JobEnds(j)
    PROVE  /\ jobs' \in Seq(Job) /\ DOMAIN jobs' = DOMAIN jobs /\ Len(jobs') = Len(jobs) /\ Stay /\ SameCode
           /\ \A i \in DOMAIN jobs: i # j => jobs'[i] = jobs[i]
           /\ jobs[j].state = "running" /\ jobs'[j].state \in {"succeeded", "failed"}
<1>1. jobs[j].state = "running"
      BY DEF JobEnds, Live
<1>2. PICK state \in {"succeeded", "failed"},
           bad \in (IF jobs[j].kind = "check" THEN SUBSET (1..project.rules) ELSE {{}}):
              jobs' = [jobs EXCEPT ![j].state = state, ![j].bad = bad]
      BY DEF JobEnds
<1>3. bad \in SUBSET Nat
      BY OrderFacts
<1> DEFINE k == [jobs[j] EXCEPT !.state = state, !.bad = bad]
<1>4. jobs[j] \in Job
      OBVIOUS
<1>5. k \in Job /\ k.step = jobs[j].step /\ k.exec = jobs[j].exec /\ k.kind = jobs[j].kind /\ k.state = state
      /\ k.code = jobs[j].code /\ k.def = jobs[j].def
      BY <1>3, <1>4 DEF Job
<1>6. jobs' = [jobs EXCEPT ![j] = k]
      BY <1>2, <1>4
<1> HIDE DEF k
<1>7. jobs' \in Seq(Job) /\ DOMAIN jobs' = DOMAIN jobs /\ Len(jobs') = Len(jobs) /\ jobs'[j] = k
      /\ \A i \in DOMAIN jobs: i # j => jobs'[i] = jobs[i]
      BY <1>5, <1>6
<1> QED BY <1>1, <1>5, <1>7 DEF Stay, SameCode

LEMMA Appended ==
    ASSUME NEW S, NEW s \in Seq(S), NEW x \in S, NEW t, t = Append(s, x)
    PROVE  /\ t \in Seq(S) /\ Len(s) \in Nat /\ Len(t) = Len(s) + 1 /\ t[Len(s) + 1] = x
           /\ DOMAIN s = 1..Len(s) /\ DOMAIN t = 1..(Len(s) + 1) /\ Len(s) + 1 \notin DOMAIN s
           /\ \A i \in DOMAIN s: i \in DOMAIN t /\ t[i] = s[i]
           /\ \A i \in DOMAIN t: i \in DOMAIN s \/ i = Len(s) + 1
OBVIOUS

LEMMA NewJobs ==
    ASSUME Typed, NEW e \in DOMAIN execs, NEW s \in Step, NEW kind \in Op
    PROVE  LET k == NewJob(e, s, kind)
           IN  /\ k \in Job /\ k.exec = e /\ k.step = s /\ k.kind = kind /\ k.state = "running"
               /\ k.code = item[s].code /\ k.def = item[s].def
<1>1. item[s].code \in Version /\ item[s].def \in Version /\ e \in Nat
      BY DEF Typed
<1> QED BY <1>1 DEF NewJob, Job

LEMMA NewExecs ==
    ASSUME NEW by \in Version, NEW label \in {"local", "running"}
    PROVE  LET x == NewExec(by, label)
           IN  x \in Exec /\ x.by = by /\ x.label = label /\ x.at = 1 /\ x.op = "write" /\ x.job = 0 /\ ~x.lost
<1>1. FALSE \in BOOLEAN
      BY Zenon
<1>2. \A l \in BOOLEAN: [by |-> by, label |-> label, at |-> 1, op |-> "write", job |-> 0, polls |-> 0, lost |-> l]
                        \in Exec
      BY DEF Exec, Op
<1>3. NewExec(by, label) \in Exec
      BY <1>1, <1>2 DEF NewExec
<1> QED BY <1>3 DEF NewExec

\* An execution is as it was but for its label.
LEMMA SetExecFlat ==
    ASSUME execs \in Seq(Exec), NEW e \in DOMAIN execs,
           NEW label \in {"succeeded", "failed", "ended"}, SetExec(e, label)
    PROVE  /\ execs' \in Seq(Exec) /\ Len(execs') = Len(execs) /\ DOMAIN execs' = DOMAIN execs
           /\ execs'[e].label = label /\ execs'[e].by = execs[e].by
           /\ \A f \in DOMAIN execs: f # e => execs'[f] = execs[f]
<1> DEFINE x == [execs[e] EXCEPT !.label = label]
<1>1. x \in Exec /\ x.label = label /\ x.by = execs[e].by
      <2>1. execs[e] \in Exec
            OBVIOUS
      <2> QED BY <2>1 DEF Exec
<1>2. execs' = [execs EXCEPT ![e] = x]
      BY DEF SetExec
<1> HIDE DEF x
<1> QED BY <1>1, <1>2

\* Whatever else moves, the types stay.
LEMMA TypedKeeps ==
    ASSUME Typed, project' = project, item' \in [Step -> [code: Version, def: Version]], machine' \in Version,
           updates' \subseteq [step: Step, by: Caller, new: BOOLEAN],
           execs' \in Seq(Exec), DOMAIN execs \subseteq DOMAIN execs', jobs' \in Seq(Job), Stay,
           \A j \in DOMAIN jobs': j \in DOMAIN jobs \/ jobs'[j].exec \in DOMAIN execs',
           calls' \in [Caller -> Call],
           \A c \in Caller:
              /\ calls'[c].exec = calls[c].exec \/ calls'[c].exec \in 0..Len(execs')
              /\ calls'[c].at = calls[c].at \/ calls'[c].at \in project.from..Len(project.order)
    PROVE  Typed'
<1>1. /\ DOMAIN execs = 1..Len(execs) /\ DOMAIN execs' = 1..Len(execs')
      /\ Len(execs) \in Nat /\ Len(execs') \in Nat
      BY DEF Typed
<1>2. 0..Len(execs) \subseteq 0..Len(execs')
      <2>1. CASE Len(execs) = 0
            BY <1>1, <2>1
      <2>2. CASE Len(execs) # 0
            <3>1. Len(execs) \in DOMAIN execs'
                  BY <1>1, <2>2
            <3> QED BY <1>1, <3>1
      <2> QED BY <2>1, <2>2
<1>3. Owned'
      BY DEF Typed, Owned, Stay
<1>4. \A c \in Caller:
         calls'[c].exec \in 0..Len(execs') /\ calls'[c].at \in project'.from..Len(project'.order)
      BY <1>2 DEF Typed
<1> QED BY <1>3, <1>4 DEF Typed

-----------------------------------------------------------------------------
(* Who meets whom: what a call runs may be of another one only if it met it. *)

Busy(x) == x.label \notin {"idle", "done"}

About(x, es) == Busy(x) \/ (x.exec # 0 /\ es[x.exec].label = "running")

Meet ==
    /\ \A c \in Caller: calls[c].label = "idle" => ~calls[c].mixed /\ calls[c].exec = 0
    /\ \A c, d \in Caller: d # c /\ Busy(calls[d]) /\ About(calls[c], execs) => calls[c].mixed
    /\ \A u \in updates: \A c \in Caller: c # u.by /\ About(calls[c], execs) => calls[c].mixed

Mixing == \A c \in Caller: calls[c].mixed => calls'[c].mixed

LEMMA MeetKeeps ==
    ASSUME Meet, Mixing, updates \subseteq [step: Step, by: Caller, new: BOOLEAN],
           \A c \in Caller: /\ Busy(calls'[c]) => Busy(calls[c])
                            /\ About(calls'[c], execs') => About(calls[c], execs)
                            /\ calls'[c].label = "idle" => calls'[c] = calls[c],
           \A u \in updates': u \in updates \/ (u.by \in Caller /\ Busy(calls[u.by]))
    PROVE  Meet'
<1>1. \A c \in Caller: calls'[c].label = "idle" => ~calls'[c].mixed /\ calls'[c].exec = 0
      BY DEF Meet
<1>2. \A c, d \in Caller: d # c /\ Busy(calls'[d]) /\ About(calls'[c], execs') => calls'[c].mixed
      BY DEF Meet, Mixing
<1>3. \A u \in updates': \A c \in Caller: c # u.by /\ About(calls'[c], execs') => calls'[c].mixed
      BY DEF Meet, Mixing
<1> QED BY <1>1, <1>2, <1>3 DEF Meet

LEMMA MeetBegins ==
    ASSUME Typed, Meet, NEW c \in Caller, NEW label \in Label \ {"idle"}, NEW e \in Nat, Begun(c, label, e),
           calls[c].label = "idle", updates' = updates,
           \A f \in DOMAIN execs: execs'[f] = execs[f]
    PROVE  Meet' /\ Mixing
<1>1. ASSUME NEW d \in Caller, d # c
      PROVE  /\ Busy(calls'[d]) => Busy(calls[d])
             /\ About(calls'[d], execs') => About(calls[d], execs)
             /\ About(calls[d], execs) => calls'[d].mixed
             /\ calls'[d].label = "idle" => ~calls'[d].mixed /\ calls'[d].exec = 0
             /\ calls[d].mixed => calls'[d].mixed
      <2>1. calls[d].exec # 0 => calls[d].exec \in DOMAIN execs
            BY DEF Typed
      <2>2. calls'[d].label = calls[d].label /\ calls'[d].exec = calls[d].exec
            /\ (Active(d) \/ Running(calls[d].exec) => calls'[d].mixed)
            /\ (calls'[d].mixed => calls[d].mixed \/ Active(d) \/ Running(calls[d].exec))
            /\ (calls[d].mixed => calls'[d].mixed)
            BY <1>1 DEF Begun
      <2> QED BY <2>1, <2>2 DEF Busy, About, Active, Running, Meet
<1>2. ~calls[c].mixed /\ calls'[c].label # "idle"
      BY DEF Meet, Begun
<1>3. ~calls'[c].mixed => updates = {} /\ \A d \in Caller: ~Busy(calls[d])
      BY DEF Begun, Active, Busy
<1>4. Mixing
      BY <1>1, <1>2 DEF Mixing
<1>5. \A d \in Caller: calls'[d].label = "idle" => ~calls'[d].mixed /\ calls'[d].exec = 0
      BY <1>1, <1>2
<1>6. \A x, d \in Caller: d # x /\ Busy(calls'[d]) /\ About(calls'[x], execs') => calls'[x].mixed
      <2> SUFFICES ASSUME NEW x \in Caller, NEW d \in Caller, d # x, Busy(calls'[d]), About(calls'[x], execs')
                   PROVE  calls'[x].mixed
          OBVIOUS
      <2>1. CASE x = c
            BY <1>1, <1>3, <2>1
      <2>2. CASE x # c
            BY <1>1, <2>2
      <2> QED BY <2>1, <2>2
<1>7. \A u \in updates': \A x \in Caller: x # u.by /\ About(calls'[x], execs') => calls'[x].mixed
      BY <1>1, <1>3
<1> QED BY <1>4, <1>5, <1>6, <1>7 DEF Meet

LEMMA RunsKeeps ==
    ASSUME RunsWhatItDeployed, Typed, Stay, SameCode, Mixing,
           \A e \in DOMAIN execs: execs'[e].by = execs[e].by,
           \A e \in DOMAIN execs': execs'[e].by \in Version,
           \A j \in DOMAIN jobs': j \notin DOMAIN jobs =>
              LET by == execs'[jobs'[j].exec].by
              IN  (by # None /\ ~calls'[by].mixed) => jobs'[j].code = by /\ jobs'[j].def = by
    PROVE  RunsWhatItDeployed'
<1> SUFFICES ASSUME NEW j \in DOMAIN jobs', NEW by, by = execs'[jobs'[j].exec].by, by # None, ~calls'[by].mixed
             PROVE  jobs'[j].code = by /\ jobs'[j].def = by
    BY DEF RunsWhatItDeployed
<1>1. CASE j \notin DOMAIN jobs
      BY <1>1
<1>2. CASE j \in DOMAIN jobs
      <2>1. jobs'[j].exec = jobs[j].exec /\ jobs[j].exec \in DOMAIN execs
            BY <1>2 DEF Stay, Typed, Owned
      <2>2. by = execs[jobs[j].exec].by /\ by \in Caller
            <3>1. execs[jobs[j].exec] \in Exec
                  BY <2>1 DEF Typed
            <3>2. execs[jobs[j].exec].by \in Version
                  BY <3>1 DEF Exec
            <3> QED BY <2>1, <3>2 DEF Version
      <2>3. ~calls[by].mixed
            BY <2>2 DEF Mixing
      <2>4. jobs[j].code = by /\ jobs[j].def = by
            BY <1>2, <2>2, <2>3 DEF RunsWhatItDeployed
      <2> QED BY <1>2, <2>4 DEF SameCode
<1> QED BY <1>1, <1>2

-----------------------------------------------------------------------------
(* Fabric and Glue, where the call itself goes through the steps. *)

Loop == project.driver \in {"fabric", "glue"}

Walking == {"look", "create", "update", "operation", "submit", "publish", "lookup", "start"}

\* What a call knows of a step when it has gone on to the next one.
Passed(c, i) ==
    LET right == AsExpected(calls[c].exec, project.order[i])
        run == ~project.wait /\ Of(calls[c].exec, project.order[i], "write") # {}
    IN  /\ project.driver = "fabric" =>
             /\ calls[c].ok => right
             /\ project.stop => right \/ run
        /\ project.driver = "glue" => right \/ run

Ahead(c) ==
    calls[c].label \in Walking \cup {"wait"} =>
        \A j \in DOMAIN jobs: jobs[j].exec = calls[c].exec =>
            \E i \in DOMAIN project.order:
                jobs[j].step = project.order[i] /\ (i < calls[c].at \/ (i = calls[c].at /\ calls[c].label = "wait"))

AwaitsItsOwn(c) ==
    calls[c].label = "wait" => project.wait /\ Of(calls[c].exec, Current(c), "write") = {calls[c].job}

AwaitsAll(c) ==
    (project.wait /\ calls[c].verdict # "raised") =>
        \A j \in DOMAIN jobs:
            (jobs[j].exec = calls[c].exec /\ jobs[j].state = "running") =>
                calls[c].label = "wait" /\ j = calls[c].job

PassesInOrder(c) ==
    /\ calls[c].label \in Walking \cup {"wait"} =>
          \A i \in DOMAIN project.order: (project.from <= i /\ i < calls[c].at) => Passed(c, i)
    /\ (calls[c].label = "end" \/ (calls[c].label = "done" /\ calls[c].verdict = "SUCCEEDED")) =>
          /\ project.driver = "fabric" => calls[c].ok
          /\ \A i \in DOMAIN project.order: project.from <= i => Passed(c, i)

Loops(c) ==
    /\ calls[c].label \in Walking \cup {"idle", "wait", "end", "done"}
    /\ calls[c].label = "end" => project.driver = "glue"
    /\ calls[c].label # "done" => calls[c].verdict = "none"
    /\ calls[c].label = "idle" => calls[c].at = project.from
    /\ Busy(calls[c]) => calls[c].exec # 0
    /\ calls[c].exec # 0 => execs[calls[c].exec].by = c
    /\ Ahead(c) /\ AwaitsItsOwn(c) /\ AwaitsAll(c) /\ PassesInOrder(c)

LoopInv ==
    /\ \A e \in DOMAIN execs: execs[e].label = "local"
    /\ \A j \in DOMAIN jobs: jobs[j].kind = "write"
    /\ \A c \in Caller: Loops(c)

\* What the steps of a call come to.
Submits(c) ==
    \E k \in Job: /\ k.exec = calls[c].exec /\ k.step = Current(c) /\ k.kind = "write" /\ k.state = "running"
                  /\ k.code = item[Current(c)].code /\ k.def = item[Current(c)].def
                  /\ jobs' = Append(jobs, k)

LEMMA SubmitsAJob ==
    ASSUME NEW c \in Caller, jobs \in Seq(Job), Submits(c)
    PROVE  /\ Len(jobs) + 1 \in DOMAIN jobs'
           /\ \E k \in DOMAIN jobs': jobs'[k].exec = calls[c].exec /\ jobs'[k].step = Current(c)
                                    /\ jobs'[k].kind = "write"
<1>1. PICK x \in Job: /\ x.exec = calls[c].exec /\ x.step = Current(c) /\ x.kind = "write"
                      /\ jobs' = Append(jobs, x)
      BY Zenon DEF Submits
<1>2. jobs'[Len(jobs) + 1] = x /\ Len(jobs) + 1 \in DOMAIN jobs'
      BY <1>1
<1> QED BY <1>1, <1>2, Zenon

Stays(c) == calls'[c].exec = calls[c].exec /\ calls'[c].mixed = calls[c].mixed

LoopBegins(c) ==
    /\ calls[c].label = "idle"
    /\ \E label \in Walking: Begun(c, label, Len(execs) + 1)
    /\ execs' = Append(execs, NewExec(c, "local"))
    /\ jobs' = jobs

LoopWalks(c) ==
    /\ \/ calls[c].label \in Walking /\ \E label \in Walking: Goes(c, label)
       \/ calls[c].label = "wait" /\ Goes(c, "wait")
    /\ jobs' = jobs

LoopRaises(c) ==
    /\ Busy(calls[c])
    /\ Finishes(c, "raised")
    /\ jobs' = jobs \/ (calls[c].label \in Walking /\ Submits(c))

LoopSubmits(c) ==
    /\ calls[c].label \in Walking /\ project.wait
    /\ Submits(c)
    /\ Others(c) /\ Stays(c)
    /\ calls'[c].label = "wait" /\ calls'[c].job = Len(jobs) + 1
    /\ calls'[c].at = calls[c].at /\ calls'[c].ok = calls[c].ok /\ calls'[c].verdict = calls[c].verdict

LoopPasses(c) ==
    /\ \/ calls[c].label = "wait" /\ jobs[calls[c].job].state # "running" /\ jobs' = jobs
       \/ calls[c].label \in Walking /\ ~project.wait /\ Submits(c)
       \/ calls[c].label \in Walking /\ jobs' = jobs
    /\ Others(c) /\ Stays(c)
    /\ calls'[c].ok => calls[c].ok
    /\ \E i \in DOMAIN project.order:
          /\ i = calls[c].at
          /\ \/ /\ i < Len(project.order) /\ calls'[c].at = i + 1 /\ calls'[c].label \in Walking
                /\ calls'[c].verdict = calls[c].verdict
                /\ Passed(c, i)'
             \/ /\ i = Len(project.order) /\ calls'[c].at = project.from /\ calls'[c].label = "end"
                /\ calls'[c].verdict = calls[c].verdict
                /\ project.driver = "glue"
                /\ Passed(c, i)'
             \/ /\ calls'[c].at = i /\ calls'[c].label = "done"
                /\ calls'[c].verdict \in StepStatus
                /\ calls'[c].verdict = "SUCCEEDED" =>
                      i = Len(project.order) /\ calls'[c].ok /\ Passed(c, i)'

LoopEnds(c) ==
    /\ calls[c].label = "end"
    /\ Finishes(c, "SUCCEEDED")
    /\ jobs' = jobs

LoopStep(c) ==
    \/ LoopBegins(c)
    \/ execs' = execs /\ (LoopWalks(c) \/ LoopRaises(c) \/ LoopSubmits(c) \/ LoopPasses(c) \/ LoopEnds(c))

-----------------------------------------------------------------------------

\* What a step has come to it stays, unless another job of it is started.
LEMMA AsExpectedStays ==
    ASSUME Stay, project' = project, NEW e, NEW s, AsExpected(e, s),
           \A j \in DOMAIN jobs': j \in DOMAIN jobs \/ jobs'[j].exec # e \/ jobs'[j].step # s
    PROVE  AsExpected(e, s)'
<1>1. \A k \in Of(e, s, "write"): k \in Of(e, s, "write")' /\ (jobs[k].state # "running" => jobs'[k] = jobs[k])
      BY DEF Of, Stay
<1>2. \A k \in Of(e, s, "write")': k \in Of(e, s, "write")
      BY DEF Of, Stay
<1>3. ASSUME NEW k \in Of(e, s, "write"), jobs[k].state \in {"succeeded", "failed"}
      PROVE  k \in Of(e, s, "write")' /\ jobs'[k].state = jobs[k].state
      BY <1>1, <1>3
<1>4. CASE project.expects[s] = "SUCCEEDED"
      <2>1. \E k \in Of(e, s, "write"): jobs[k].state = "succeeded"
            BY <1>4 DEF AsExpected
      <2> QED BY <1>3, <1>4, <2>1 DEF AsExpected
<1>5. CASE project.expects[s] = "FAILED"
      <2>1. PICK k \in Of(e, s, "write"):
               jobs[k].state \in {"failed"} \cup IF project.driver = "glue" THEN {"succeeded"} ELSE {}
            BY <1>5 DEF AsExpected
      <2> QED BY <1>3, <1>5, <2>1 DEF AsExpected
<1>6. CASE project.expects[s] = "BLOCKED"
      <2>1. \A k \in Of(e, s, "write"): jobs[k].state = "failed"
            BY <1>6 DEF AsExpected
      <2> QED BY <1>2, <1>3, <1>6, <2>1 DEF AsExpected
<1>7. CASE project.expects[s] = "RUNNING"
      BY <1>1, <1>7 DEF AsExpected
<1> QED BY <1>4, <1>5, <1>6, <1>7 DEF AsExpected

LEMMA PassedStays ==
    ASSUME Typed, Stay, project' = project, NEW c \in Caller, NEW i \in DOMAIN project.order,
           calls'[c].exec = calls[c].exec, calls'[c].ok => calls[c].ok, Passed(c, i),
           \A j \in DOMAIN jobs': \/ j \in DOMAIN jobs
                                  \/ jobs'[j].exec # calls[c].exec \/ jobs'[j].step # project.order[i]
    PROVE  Passed(c, i)'
<1>1. Of(calls[c].exec, project.order[i], "write") # {} => (Of(calls[c].exec, project.order[i], "write") # {})'
      BY DEF Of, Stay
<1>2. PICK e, s: e = calls[c].exec /\ s = project.order[i]
      OBVIOUS
<1>3. AsExpected(e, s) => AsExpected(e, s)'
      BY <1>2, AsExpectedStays
<1>4. AsExpected(calls[c].exec, project.order[i]) => AsExpected(e, s)
      BY <1>2
<1>5. AsExpected(e, s)' => AsExpected(calls[c].exec, project.order[i])'
      BY <1>2 DEF AsExpected, Of
<1> QED BY <1>1, <1>3, <1>4, <1>5 DEF Passed

Alike(c) ==
    /\ calls'[c].label = calls[c].label /\ calls'[c].exec = calls[c].exec /\ calls'[c].at = calls[c].at
    /\ calls'[c].job = calls[c].job /\ calls'[c].ok = calls[c].ok /\ calls'[c].verdict = calls[c].verdict
    /\ calls'[c].since = calls[c].since /\ calls'[c].seen = calls[c].seen

LEMMA LoopsStays ==
    ASSUME Typed, Stay, project' = project, NEW c \in Caller, Loops(c), Alike(c),
           \A e \in DOMAIN execs: execs'[e].by = execs[e].by,
           \A j \in DOMAIN jobs': jobs'[j].exec = calls[c].exec => j \in DOMAIN jobs
    PROVE  Loops(c)'
<1>1. calls[c].exec # 0 => calls[c].exec \in DOMAIN execs
      BY DEF Typed
<1>2. Ahead(c)'
      BY DEF Loops, Ahead, Alike, Stay
<1>3. AwaitsItsOwn(c)'
      BY DEF Loops, AwaitsItsOwn, Alike, Stay, Of, Current
<1>4. AwaitsAll(c)'
      BY DEF Loops, AwaitsAll, Alike, Stay
<1>5. PassesInOrder(c)'
      <2>1. \A i \in DOMAIN project.order: Passed(c, i) => Passed(c, i)'
            <3>1. \A i \in DOMAIN project.order, j \in DOMAIN jobs':
                     j \in DOMAIN jobs \/ jobs'[j].exec # calls[c].exec \/ jobs'[j].step # project.order[i]
                  OBVIOUS
            <3> QED BY <3>1, PassedStays DEF Alike
      <2> QED BY <2>1 DEF Loops, PassesInOrder, Alike
<1> QED BY <1>1, <1>2, <1>3, <1>4, <1>5 DEF Loops, Alike, Busy

\* No two calls have the same execution.
LEMMA OwnExecution ==
    ASSUME LoopInv, NEW c \in Caller, NEW d \in Caller, calls[c].exec # 0, calls[c].exec = calls[d].exec
    PROVE  c = d
BY DEF LoopInv, Loops

\* What becomes of the others when a call makes a step, and of the jobs.
LEMMA LoopFrame ==
    ASSUME Typed, LoopInv, NEW c \in Caller, project' = project, LoopStep(c)
    PROVE  /\ execs' \in Seq(Exec) /\ DOMAIN execs \subseteq DOMAIN execs'
           /\ \A e \in DOMAIN execs: execs'[e] = execs[e]
           /\ \A e \in DOMAIN execs': execs'[e].label = "local"
           /\ jobs' \in Seq(Job) /\ Stay /\ SameCode
           /\ \A j \in DOMAIN jobs: jobs'[j] = jobs[j]
           /\ \A j \in DOMAIN jobs': j \notin DOMAIN jobs =>
                 /\ j = Len(jobs) + 1
                 /\ calls[c].label \in Walking /\ calls[c].exec \in DOMAIN execs
                 /\ jobs'[j].exec = calls[c].exec /\ jobs'[j].step = Current(c) /\ jobs'[j].kind = "write"
                 /\ jobs'[j].code = item[Current(c)].code /\ jobs'[j].def = item[Current(c)].def
           /\ \A d \in Caller: d # c => Alike(d)
<1>1. execs \in Seq(Exec) /\ jobs \in Seq(Job) /\ c \in Version
      BY DEF Typed, Version
<1>2. CASE LoopBegins(c)
      <2> DEFINE x == NewExec(c, "local")
      <2>1. x \in Exec /\ x.label = "local" /\ execs' = Append(execs, x)
            BY <1>1, <1>2, NewExecs DEF LoopBegins
      <2> HIDE DEF x
      <2>2. /\ execs' \in Seq(Exec) /\ DOMAIN execs \subseteq DOMAIN execs'
            /\ \A e \in DOMAIN execs: execs'[e] = execs[e]
            /\ \A e \in DOMAIN execs': execs'[e].label = "local"
            <3>1. \A e \in DOMAIN execs: execs[e].label = "local"
                  BY DEF LoopInv
            <3> QED BY <1>1, <2>1, <3>1
      <2>3. jobs' = jobs /\ Stay /\ SameCode
            BY <1>2 DEF LoopBegins, Stay, SameCode
      <2>4. \A d \in Caller: d # c => Alike(d)
            BY <1>2 DEF LoopBegins, Begun, Alike
      <2> QED BY <1>1, <2>2, <2>3, <2>4
<1>3. CASE execs' = execs /\ (LoopWalks(c) \/ LoopRaises(c) \/ LoopSubmits(c) \/ LoopPasses(c) \/ LoopEnds(c))
      <2>1. Others(c)
            BY <1>3 DEF LoopWalks, LoopRaises, LoopSubmits, LoopPasses, LoopEnds, Goes, Finishes
      <2>2. \A d \in Caller: d # c => Alike(d)
            BY <2>1 DEF Others, Alike
      <2>3. jobs' = jobs \/ (calls[c].label \in Walking /\ Submits(c))
            BY <1>3 DEF LoopWalks, LoopRaises, LoopSubmits, LoopPasses, LoopEnds
      <2>4. CASE jobs' = jobs
            BY <1>1, <1>3, <2>2, <2>4 DEF LoopInv, Stay, SameCode
      <2>5. CASE calls[c].label \in Walking /\ Submits(c)
            <3>1. PICK k \in Job: /\ k.exec = calls[c].exec /\ k.step = Current(c) /\ k.kind = "write"
                                  /\ k.state = "running"
                                  /\ k.code = item[Current(c)].code /\ k.def = item[Current(c)].def
                                  /\ jobs' = Append(jobs, k)
                  BY <2>5 DEF Submits
            <3>2. /\ jobs' \in Seq(Job) /\ jobs'[Len(jobs) + 1] = k
                  /\ \A i \in DOMAIN jobs: i \in DOMAIN jobs' /\ jobs'[i] = jobs[i]
                  /\ \A i \in DOMAIN jobs': i \in DOMAIN jobs \/ i = Len(jobs) + 1
                  BY <1>1, <3>1, Appended
            <3>3. Stay /\ SameCode
                  BY <3>2 DEF Stay, SameCode
            <3>4. calls[c].exec \in DOMAIN execs
                  BY <2>5 DEF Typed, LoopInv, Loops, Busy, Walking
            <3> QED BY <1>1, <1>3, <2>2, <2>5, <3>1, <3>2, <3>3, <3>4 DEF LoopInv
      <2> QED BY <2>3, <2>4, <2>5
<1> QED BY <1>2, <1>3 DEF LoopStep

LEMMA AtFacts ==
    ASSUME Typed, NEW c \in Caller
    PROVE  /\ project.from \in Nat /\ project.from >= 1 /\ Len(project.order) \in Nat /\ calls[c].at \in Nat
           /\ project.from <= calls[c].at /\ calls[c].at <= Len(project.order)
           /\ DOMAIN project.order = 1..Len(project.order) /\ calls[c].at \in DOMAIN project.order
           /\ Current(c) \in Step
           /\ \A i, j \in DOMAIN project.order: project.order[i] = project.order[j] => i = j
<1>1. project \in Projects /\ calls[c].at \in project.from..Len(project.order)
      BY DEF Typed
<1>2. project.from \in Nat \ {0} /\ project.order \in Seq(Step)
      BY <1>1, ProjectsAssumption DEF Project
<1> QED BY <1>1, <1>2, OrderFacts DEF Current

\* The jobs of a call before the step, and one of the step.
LEMMA AheadWith ==
    ASSUME Typed, LoopInv, NEW c \in Caller, project' = project, LoopStep(c), calls[c].label \in Walking,
           NEW j \in DOMAIN jobs', jobs'[j].exec = calls[c].exec
    PROVE  \E i \in DOMAIN project.order:
              jobs'[j].step = project.order[i] /\ (i < calls[c].at \/ (i = calls[c].at /\ j \notin DOMAIN jobs))
<1>1. CASE j \in DOMAIN jobs
      <2>1. jobs'[j] = jobs[j]
            BY <1>1, LoopFrame
      <2>2. Ahead(c) /\ calls[c].label # "wait"
            BY DEF LoopInv, Loops, Walking
      <2> QED BY <1>1, <2>1, <2>2 DEF Ahead
<1>2. CASE j \notin DOMAIN jobs
      <2>1. jobs'[j].step = Current(c)
            BY <1>2, LoopFrame
      <2> QED BY <1>2, <2>1, AtFacts DEF Current
<1> QED BY <1>1, <1>2

\* The steps before the one that a call has come to get no other job.
LEMMA PassedBefore ==
    ASSUME Typed, LoopInv, NEW c \in Caller, project' = project, LoopStep(c),
           calls'[c].exec = calls[c].exec, calls'[c].ok => calls[c].ok,
           NEW i \in DOMAIN project.order, i < calls[c].at \/ jobs' = jobs, Passed(c, i)
    PROVE  Passed(c, i)'
<1>1. \A j \in DOMAIN jobs': j \in DOMAIN jobs \/ jobs'[j].step = project.order[calls[c].at]
      BY LoopFrame DEF Current
<1>2. i < calls[c].at => project.order[i] # project.order[calls[c].at]
      BY AtFacts
<1>3. \A j \in DOMAIN jobs': \/ j \in DOMAIN jobs
                              \/ jobs'[j].exec # calls[c].exec \/ jobs'[j].step # project.order[i]
      BY <1>1, <1>2
<1>4. Stay
      BY LoopFrame
<1> QED BY <1>3, <1>4, PassedStays

LEMMA LoopMoves ==
    ASSUME Typed, LoopInv, Loop, NEW c \in Caller, project' = project, LoopStep(c)
    PROVE  Loops(c)'
<1>0. /\ Loops(c) /\ Stay
      /\ \A j \in DOMAIN jobs: jobs'[j] = jobs[j]
      /\ \A j \in DOMAIN jobs': j \notin DOMAIN jobs =>
            j = Len(jobs) + 1 /\ calls[c].label \in Walking
            /\ jobs'[j].exec = calls[c].exec /\ jobs'[j].step = Current(c) /\ jobs'[j].kind = "write"
      /\ \A e \in DOMAIN execs: execs'[e] = execs[e]
      BY LoopFrame DEF LoopInv
<1>1. calls[c].exec # 0 => calls[c].exec \in DOMAIN execs
      BY DEF Typed
<1>2. CASE LoopBegins(c)
      <2>1. PICK label \in Walking: Begun(c, label, Len(execs) + 1)
            BY <1>2 DEF LoopBegins
      <2>2. /\ calls'[c].label = label /\ calls'[c].exec = Len(execs) + 1 /\ calls'[c].at = calls[c].at
            /\ calls'[c].ok = calls[c].ok /\ calls'[c].verdict = calls[c].verdict
            BY <2>1 DEF Begun
      <2>3. \A j \in DOMAIN jobs': jobs'[j].exec # Len(execs) + 1
            <3>1. jobs' = jobs /\ DOMAIN execs = 1..Len(execs) /\ Len(execs) \in Nat
                  BY <1>2 DEF LoopBegins, Typed
            <3> QED BY <3>1 DEF Typed, Owned
      <2>4. execs'[Len(execs) + 1].by = c
            <3>1. c \in Version
                  BY DEF Version
            <3>2. NewExec(c, "local") \in Exec /\ NewExec(c, "local").by = c
                  BY <3>1, NewExecs
            <3>3. execs \in Seq(Exec) /\ execs' = Append(execs, NewExec(c, "local"))
                  BY <1>2 DEF Typed, LoopBegins
            <3> QED BY <3>2, <3>3
      <2>5. calls[c].at = project.from
            BY <1>0, <1>2 DEF LoopBegins, Loops
      <2> QED BY <1>0, <1>2, <2>1, <2>2, <2>3, <2>4, <2>5, AtFacts
              DEF LoopBegins, Loops, Walking, Busy, Ahead, AwaitsItsOwn, AwaitsAll, PassesInOrder
<1>3. CASE execs' = execs /\ LoopWalks(c)
      <2>1. jobs' = jobs /\ Kept(calls[c], calls'[c])
            BY <1>3 DEF LoopWalks, Goes
      <2>2. \A i \in DOMAIN project.order: Passed(c, i) => Passed(c, i)'
            BY <2>1, PassedBefore DEF Kept
      <2>3. CASE calls[c].label = "wait"
            <3>1. Alike(c)
                  BY <1>3, <2>1, <2>3 DEF LoopWalks, Goes, Kept, Alike, Walking
            <3> QED BY <1>0, <2>1, <3>1, LoopsStays
      <2>4. CASE calls[c].label # "wait"
            <3>1. calls[c].label \in Walking /\ calls'[c].label \in Walking
                  BY <1>3, <2>4 DEF LoopWalks, Goes
            <3>2. Ahead(c)' /\ AwaitsItsOwn(c)'
                  BY <1>0, <2>1, <3>1 DEF Loops, Kept, Ahead, AwaitsItsOwn, Walking
            <3>3. AwaitsAll(c)'
                  BY <1>0, <2>1, <3>1 DEF Loops, Kept, AwaitsAll, Walking
            <3>4. PassesInOrder(c)'
                  BY <1>0, <2>1, <2>2, <3>1 DEF Loops, Kept, PassesInOrder, Walking
            <3> QED BY <1>0, <1>1, <1>3, <2>1, <3>1, <3>2, <3>3, <3>4 DEF Loops, Kept, Walking, Busy
      <2> QED BY <2>3, <2>4
<1>4. CASE execs' = execs /\ (LoopRaises(c) \/ LoopEnds(c))
      <2>1. /\ calls'[c].label = "done" /\ calls'[c].exec = calls[c].exec /\ calls'[c].at = calls[c].at
            /\ calls'[c].ok = calls[c].ok /\ calls'[c].job = calls[c].job
            /\ calls'[c].verdict = "raised" \/ (calls'[c].verdict = "SUCCEEDED" /\ LoopEnds(c))
            BY <1>4 DEF LoopRaises, LoopEnds, Finishes
      <2>2. LoopEnds(c) => \A i \in DOMAIN project.order: Passed(c, i) => Passed(c, i)'
            BY <2>1, PassedBefore DEF LoopEnds
      <2>3. Ahead(c)' /\ AwaitsItsOwn(c)'
            BY <2>1 DEF Ahead, AwaitsItsOwn, Walking
      <2>4. AwaitsAll(c)'
            <3>1. CASE calls'[c].verdict = "raised"
                  BY <3>1 DEF AwaitsAll
            <3>2. CASE LoopEnds(c)
                  BY <1>0, <2>1, <3>2 DEF LoopEnds, Loops, AwaitsAll
            <3> QED BY <2>1, <3>1, <3>2
      <2>5. PassesInOrder(c)'
            BY <1>0, <2>1, <2>2 DEF LoopEnds, Loops, PassesInOrder, Walking
      <2> QED BY <1>0, <1>1, <1>4, <2>1, <2>3, <2>4, <2>5 DEF Loops, Walking, Busy
<1>5. CASE execs' = execs /\ LoopSubmits(c)
      <2>1. /\ calls'[c].label = "wait" /\ calls'[c].exec = calls[c].exec /\ calls'[c].at = calls[c].at
            /\ calls'[c].ok = calls[c].ok /\ calls'[c].job = Len(jobs) + 1 /\ calls'[c].verdict = calls[c].verdict
            /\ calls[c].label \in Walking /\ project.wait
            BY <1>5 DEF LoopSubmits, Stays
      <2>2. \A i \in DOMAIN project.order: (i < calls[c].at /\ Passed(c, i)) => Passed(c, i)'
            BY <2>1, PassedBefore
      <2>3. Len(jobs) + 1 \in DOMAIN jobs'
            BY <1>5, SubmitsAJob DEF LoopSubmits, Typed
      <2>4. Len(jobs) + 1 \notin DOMAIN jobs
            BY DEF Typed
      <2>5. Ahead(c)'
            BY <2>1, AheadWith, <1>5 DEF Ahead, LoopStep
      <2>6. AwaitsItsOwn(c)'
            <3>1. \A j \in DOMAIN jobs': (jobs'[j].exec = calls[c].exec /\ jobs'[j].step = Current(c)) =>
                     j = Len(jobs) + 1
                  <4>1. Ahead(c) /\ calls[c].label # "wait"
                        BY <1>0, <2>1 DEF Loops, Walking
                  <4> QED BY <1>0, <2>1, <4>1, AtFacts DEF Ahead, Current
            <3>2. LET j == Len(jobs) + 1
                  IN  jobs'[j].exec = calls[c].exec /\ jobs'[j].step = Current(c) /\ jobs'[j].kind = "write"
                  BY <1>0, <2>3, <2>4
            <3>3. Of(calls[c].exec, Current(c), "write")' = {Len(jobs) + 1}
                  BY <2>1, <2>3, <3>1, <3>2 DEF Of, Current
            <3> QED BY <2>1, <3>3 DEF AwaitsItsOwn, Current
      <2>7. AwaitsAll(c)'
            BY <1>0, <2>1 DEF Loops, AwaitsAll, Walking
      <2>8. PassesInOrder(c)'
            BY <1>0, <2>1, <2>2 DEF Loops, PassesInOrder, Walking
      <2> QED BY <1>0, <1>1, <1>5, <2>1, <2>5, <2>6, <2>7, <2>8 DEF Loops, Walking, Busy
<1>6. CASE execs' = execs /\ LoopPasses(c)
      <2>1. PICK n \in DOMAIN project.order:
               /\ n = calls[c].at
               /\ \/ /\ n < Len(project.order) /\ calls'[c].at = n + 1 /\ calls'[c].label \in Walking
                     /\ calls'[c].verdict = calls[c].verdict
                     /\ Passed(c, n)'
                  \/ /\ n = Len(project.order) /\ calls'[c].at = project.from /\ calls'[c].label = "end"
                     /\ calls'[c].verdict = calls[c].verdict
                     /\ project.driver = "glue"
                     /\ Passed(c, n)'
                  \/ /\ calls'[c].at = n /\ calls'[c].label = "done"
                     /\ calls'[c].verdict \in StepStatus
                     /\ calls'[c].verdict = "SUCCEEDED" =>
                           n = Len(project.order) /\ calls'[c].ok /\ Passed(c, n)'
            BY <1>6 DEF LoopPasses
      <2>2. calls'[c].exec = calls[c].exec /\ (calls'[c].ok => calls[c].ok) /\ Busy(calls[c])
            BY <1>6 DEF LoopPasses, Stays, Walking, Busy
      <2>3. \A i \in DOMAIN project.order: (i < n /\ Passed(c, i)) => Passed(c, i)'
            BY <2>1, <2>2, PassedBefore
      <2>4. \A i \in DOMAIN project.order: (project.from <= i /\ i < n) => Passed(c, i)'
            BY <1>0, <1>6, <2>1, <2>3 DEF Loops, PassesInOrder, LoopPasses
      <2>5. AwaitsAll(c)'
            <3>1. CASE calls[c].label = "wait" /\ jobs[calls[c].job].state # "running" /\ jobs' = jobs
                  BY <1>0, <2>2, <3>1 DEF Loops, AwaitsAll
            <3>2. CASE calls[c].label \in Walking /\ ~project.wait
                  BY <3>2 DEF AwaitsAll
            <3>3. CASE calls[c].label \in Walking /\ jobs' = jobs
                  BY <1>0, <2>2, <3>3 DEF Loops, AwaitsAll, Walking
            <3> QED BY <1>6, <3>1, <3>2, <3>3 DEF LoopPasses
      \* What has been run is at or before the step that is passed.
      <2>6. \A j \in DOMAIN jobs': jobs'[j].exec = calls[c].exec =>
               \E i \in DOMAIN project.order: jobs'[j].step = project.order[i] /\ i <= n
            <3>1. CASE calls[c].label = "wait" /\ jobs' = jobs
                  BY <1>0, <2>1, <3>1, AtFacts DEF Loops, Ahead
            <3>2. CASE calls[c].label \in Walking
                  BY <1>6, <2>1, <3>2, AheadWith, AtFacts DEF LoopStep
            <3> QED BY <1>6, <3>1, <3>2 DEF LoopPasses
      <2>7. CASE /\ n < Len(project.order) /\ calls'[c].at = n + 1 /\ calls'[c].label \in Walking
                 /\ calls'[c].verdict = calls[c].verdict
                 /\ Passed(c, n)'
            <3>1. Ahead(c)' /\ AwaitsItsOwn(c)'
                  BY <2>2, <2>6, <2>7, AtFacts DEF Ahead, AwaitsItsOwn, Walking
            <3>2. PassesInOrder(c)'
                  BY <2>4, <2>7, AtFacts DEF PassesInOrder, Walking
            <3> QED BY <1>0, <1>1, <1>6, <2>2, <2>5, <2>7, <3>1, <3>2 DEF Loops, Walking, Busy
      <2>8. CASE /\ n = Len(project.order) /\ calls'[c].at = project.from /\ calls'[c].label = "end"
                 /\ calls'[c].verdict = calls[c].verdict
                 /\ project.driver = "glue"
                 /\ Passed(c, n)'
            <3>1. Ahead(c)' /\ AwaitsItsOwn(c)'
                  BY <2>8 DEF Ahead, AwaitsItsOwn, Walking
            <3>2. PassesInOrder(c)'
                  BY <2>4, <2>8, AtFacts DEF PassesInOrder, Walking
            <3> QED BY <1>0, <1>1, <1>6, <2>2, <2>5, <2>8, <3>1, <3>2 DEF Loops, Walking, Busy
      <2>9. CASE /\ calls'[c].at = n /\ calls'[c].label = "done"
                 /\ calls'[c].verdict \in StepStatus
                 /\ calls'[c].verdict = "SUCCEEDED" =>
                       n = Len(project.order) /\ calls'[c].ok /\ Passed(c, n)'
            <3>1. Ahead(c)' /\ AwaitsItsOwn(c)'
                  BY <2>9 DEF Ahead, AwaitsItsOwn, Walking
            <3>2. PassesInOrder(c)'
                  BY <2>4, <2>9, AtFacts DEF PassesInOrder, Walking
            <3> QED BY <1>0, <1>1, <1>6, <2>2, <2>5, <2>9, <3>1, <3>2 DEF Loops, Walking, Busy
      <2> QED BY <2>1, <2>7, <2>8, <2>9
<1> QED BY <1>2, <1>3, <1>4, <1>5, <1>6 DEF LoopStep

LEMMA LoopKeeps ==
    ASSUME Typed, LoopInv, Loop, NEW c \in Caller, project' = project, LoopStep(c)
    PROVE  LoopInv'
<1>1. /\ \A e \in DOMAIN execs': execs'[e].label = "local"
      /\ \A j \in DOMAIN jobs': jobs'[j].kind = "write"
      BY LoopFrame DEF LoopInv
<1>2. ASSUME NEW d \in Caller
      PROVE  Loops(d)'
      <2>1. CASE d = c
            BY <2>1, LoopMoves
      <2>2. CASE d # c
            <3>1. Alike(d) /\ Stay /\ (\A e \in DOMAIN execs: execs'[e].by = execs[e].by)
                  BY <2>2, LoopFrame
            <3>2. \A j \in DOMAIN jobs': jobs'[j].exec = calls[d].exec => j \in DOMAIN jobs
                  <4> SUFFICES ASSUME NEW j \in DOMAIN jobs', jobs'[j].exec = calls[d].exec, j \notin DOMAIN jobs
                               PROVE  FALSE
                      OBVIOUS
                  <4>1. jobs'[j].exec = calls[c].exec /\ calls[c].exec \in DOMAIN execs
                        BY LoopFrame
                  <4>2. calls[c].exec # 0
                        BY <4>1 DEF Typed
                  <4> QED BY <2>2, <4>1, <4>2, OwnExecution
            <3> QED BY <3>1, <3>2, LoopsStays DEF LoopInv
      <2> QED BY <2>1, <2>2
<1> QED BY <1>1, <1>2 DEF LoopInv

\* The service ends a job, or an operation.
LEMMA LoopServes ==
    ASSUME Typed, LoopInv, project' = project, execs' = execs, Stay,
           DOMAIN jobs' = DOMAIN jobs, \A c \in Caller: Alike(c)
    PROVE  LoopInv'
<1>1. \A c \in Caller: Loops(c)'
      BY LoopsStays DEF LoopInv
<1> QED BY <1>1 DEF LoopInv, Stay

LEMMA LoopSuccess ==
    ASSUME Typed, LoopInv, Loop
    PROVE  SuccessIsOurs /\ NothingRunsAfterAVerdict
<1>1. \A c \in Caller: Loops(c)
      BY DEF LoopInv
<1>2. SuccessIsOurs
      <2> SUFFICES ASSUME NEW c \in Caller, calls[c].verdict = "SUCCEEDED", NEW s \in Selected,
                          Waited(c) \/ (Returned(c) /\ project.driver = "fabric")
                   PROVE  AsExpected(calls[c].exec, s)
          BY DEF SuccessIsOurs, Loop
      <2>1. PICK i \in project.from..Len(project.order): s = project.order[i]
            BY DEF Selected
      <2>2. i \in DOMAIN project.order /\ project.from <= i
            BY <2>1, AtFacts
      <2>3. Passed(c, i) /\ IF project.driver = "fabric" THEN calls[c].ok ELSE project.wait
            BY <1>1, <2>2 DEF Loops, PassesInOrder, Waited, Returned
      <2> QED BY <2>1, <2>3 DEF Passed, Loop
<1>3. NothingRunsAfterAVerdict
      <2> SUFFICES ASSUME NEW c \in Caller, Waited(c), NEW j \in DOMAIN jobs, jobs[j].exec = calls[c].exec
                   PROVE  ~Live(j) /\ "cleanup_data" \notin project.flags
          BY DEF NothingRunsAfterAVerdict
      <2>1. "cleanup_data" \notin project.flags
            <3>1. project \in Projects
                  BY DEF Typed
            <3>2. project.driver # "workflows"
                  BY DEF Loop
            <3>3. project.flags \subseteq {"deploy", "run"}
                  BY <3>1, <3>2, ProjectsAssumption
            <3> QED BY <3>3
      <2> QED BY <1>1, <2>1 DEF Loops, AwaitsAll, Waited, Returned, Live
<1> QED BY <1>2, <1>3

\* The step after which the call has come to the new job has been passed.
LEMMA LoopOrder ==
    ASSUME Typed, LoopInv, Loop, NEW c \in Caller, project' = project, LoopStep(c),
           NEW j \in DOMAIN jobs' \ DOMAIN jobs
    PROVE  LET new == jobs'[j]
               place(s) == CHOOSE i \in DOMAIN project.order: project.order[i] = s
           IN  /\ Of(new.exec, new.step, "write") = {}
               /\ \A d \in project.after[new.step] \cap Selected:
                     \/ AsExpected(new.exec, d) \/ (~project.wait /\ Of(new.exec, d, "write") # {})
                     \/ place(d) >= place(new.step)
                     \/ project.driver = "fabric" /\ ~project.stop
<1> DEFINE place(s) == CHOOSE i \in DOMAIN project.order: project.order[i] = s
<1>1. /\ calls[c].label \in Walking /\ calls[c].exec \in DOMAIN execs
      /\ jobs'[j].exec = calls[c].exec /\ jobs'[j].step = project.order[calls[c].at]
      BY LoopFrame DEF Current
<1>2. Ahead(c) /\ PassesInOrder(c) /\ calls[c].label # "wait"
      BY <1>1 DEF LoopInv, Loops, Walking
<1>3. \A i \in DOMAIN project.order: place(project.order[i]) = i
      BY AtFacts
<1> HIDE DEF place
<1>4. Of(jobs'[j].exec, jobs'[j].step, "write") = {}
      BY <1>1, <1>2, AtFacts DEF Ahead, Of
<1>5. ASSUME NEW d \in project.after[jobs'[j].step] \cap Selected,
             ~(place(d) >= place(jobs'[j].step)), ~(project.driver = "fabric" /\ ~project.stop)
      PROVE  AsExpected(jobs'[j].exec, d) \/ (~project.wait /\ Of(jobs'[j].exec, d, "write") # {})
      <2>1. PICK i \in project.from..Len(project.order): d = project.order[i]
            BY DEF Selected
      <2>2. i \in DOMAIN project.order /\ project.from <= i
            BY <2>1, AtFacts
      <2>3. i < calls[c].at
            BY <1>1, <1>3, <1>5, <2>1, <2>2, AtFacts
      <2>4. Passed(c, i)
            BY <1>1, <1>2, <2>2, <2>3 DEF PassesInOrder
      <2> QED BY <1>1, <1>5, <2>1, <2>4 DEF Passed, Loop
<1> QED BY <1>4, <1>5 DEF place

-----------------------------------------------------------------------------
(* Fabric: what a notebook is submitted from. *)

\* A call that meets nobody knows what it runs.
Known(c) ==
    ~calls[c].mixed =>
        /\ calls[c].label = "submit" => item[Current(c)].def = c
        /\ calls[c].label = "operation" => (\E u \in updates: u.by = c) \/ item[Current(c)].def = c

Sent(u) ==
    /\ calls[u.by].label \in {"operation", "done"}
    /\ calls[u.by].label = "operation" => u.step = Current(u.by)

FabricItems ==
    /\ \A s \in Step: item[s].code = item[s].def
    /\ \A u \in updates: Sent(u)
    /\ \A c \in Caller: Known(c)

FabricInv == Typed /\ Meet /\ LoopInv /\ FabricItems /\ RunsWhatItDeployed

OnFabric == project.driver = "fabric"

Item == [Step -> [code: Version, def: Version]]

\* A call moves, and nothing that others know of.
LEMMA FabricItemsKeeps ==
    ASSUME Typed, Meet, FabricItems, NEW c \in Caller, Busy(calls[c]), Others(c), project' = project,
           \A s \in Step: item'[s].code = item'[s].def,
           \A u \in updates': u \in updates \/ (u.by = c /\ Sent(u)'),
           \A u \in updates: u.by = c => Sent(u)',
           Known(c)', Mixing
    PROVE  FabricItems'
<1>1. ASSUME NEW u \in updates'
      PROVE  Sent(u)'
      <2>1. CASE u.by = c
            BY <2>1
      <2>2. CASE u.by # c
            <3>1. u \in updates /\ u.by \in Caller
                  BY <2>2 DEF Typed
            <3> QED BY <2>2, <3>1 DEF FabricItems, Sent, Others, Current
      <2> QED BY <2>1, <2>2
<1>2. ASSUME NEW d \in Caller
      PROVE  Known(d)'
      <2>1. CASE d = c
            BY <2>1
      <2>2. CASE d # c
            <3>1. Busy(calls[d]) => calls[d].mixed
                  BY <2>2 DEF Meet, About
            <3> QED BY <2>2, <3>1 DEF Known, Others, Busy
      <2> QED BY <2>1, <2>2
<1> QED BY <1>1, <1>2 DEF FabricItems

\* The status of a step, and where the call goes on.
LEMMA OutcomeFlat ==
    ASSUME Typed, OnFabric, NEW c \in Caller, NEW status \in StepStatus, Fabric!Outcome(c, status)
    PROVE  /\ Others(c) /\ Stays(c)
           /\ calls'[c].ok => calls[c].ok /\ Fabric!Matches(Current(c), status)
           /\ \/ /\ calls[c].at < Len(project.order) /\ calls'[c].at = calls[c].at + 1
                 /\ calls'[c].label = "look" /\ calls'[c].verdict = calls[c].verdict
                 /\ project.stop => Fabric!Continues(Current(c), status)
              \/ /\ calls'[c].at = calls[c].at /\ calls'[c].label = "done" /\ calls'[c].verdict \in StepStatus
                 /\ calls'[c].verdict = "SUCCEEDED" => calls'[c].ok
                 /\ calls[c].at = Len(project.order) \/ (project.stop /\ ~Fabric!Continues(Current(c), status))
<1> DEFINE s == Current(c)
           ok == calls[c].ok /\ Fabric!Matches(s, status)
           statuses == calls[c].statuses \cup {status}
           last == calls[c].at = Len(project.order) \/ (project.stop /\ ~Fabric!Continues(s, status))
           verdict == Fabric!ProjectStatus(ok, statuses)
           n == calls[c].at + 1
           noted == [calls[c] EXCEPT !.ok = ok, !.statuses = statuses, !.polls = 0]
           over == [noted EXCEPT !.label = "done", !.verdict = verdict]
           next == [noted EXCEPT !.label = "look", !.at = n]
<1>1. calls' = [calls EXCEPT ![c] = IF last THEN over ELSE next]
      BY DEF Fabric!Outcome, Fabric!Current, Current
<1>2. calls[c] \in Call /\ calls \in [Caller -> Call]
      BY DEF Typed
<1>3. ok \in BOOLEAN /\ statuses \in SUBSET StepStatus /\ n \in Nat
      <2>1. calls[c].statuses \in SUBSET StepStatus
            BY <1>2 DEF Call
      <2> QED BY <2>1, AtFacts
<1>4. verdict \in StepStatus /\ (verdict = "SUCCEEDED" => ok)
      BY DEF Fabric!ProjectStatus, StepStatus
<1>5. ok => calls[c].ok /\ Fabric!Matches(s, status)
      OBVIOUS
<1>6. ~last => calls[c].at < Len(project.order) /\ (project.stop => Fabric!Continues(s, status))
      BY AtFacts
<1> HIDE DEF ok, statuses, n, verdict
<1>7. noted \in Call /\ noted.ok = ok /\ noted.exec = calls[c].exec /\ noted.mixed = calls[c].mixed
      /\ noted.at = calls[c].at /\ noted.verdict = calls[c].verdict
      BY <1>2, <1>3 DEF Call
<1> HIDE DEF noted
<1>8. over \in Call /\ over.ok = ok /\ over.exec = calls[c].exec /\ over.mixed = calls[c].mixed
      /\ over.at = calls[c].at /\ over.verdict = verdict /\ over.label = "done"
      BY <1>4, <1>7 DEF Call, Label
<1>9. next \in Call /\ next.ok = ok /\ next.exec = calls[c].exec /\ next.mixed = calls[c].mixed
      /\ next.at = n /\ next.verdict = calls[c].verdict /\ next.label = "look"
      BY <1>3, <1>7 DEF Call, Label
<1> HIDE DEF over, next
<1>10. CASE last
       <2>1. calls' = [calls EXCEPT ![c] = over]
             BY <1>1, <1>10
       <2>2. Others(c) /\ calls'[c] = over
             BY <1>2, <1>8, <2>1, Moved
       <2> QED BY <1>4, <1>5, <1>8, <1>10, <2>2 DEF Stays
<1>11. CASE ~last
       <2>1. calls' = [calls EXCEPT ![c] = next]
             BY <1>1, <1>11
       <2>2. Others(c) /\ calls'[c] = next
             BY <1>2, <1>9, <2>1, Moved
       <2> QED BY <1>5, <1>6, <1>9, <1>11, <2>2 DEF Stays, n
<1> QED BY <1>10, <1>11

\* What the status says of the job is so: then the call passes the step.
LEMMA OutcomePasses ==
    ASSUME Typed, OnFabric, NEW c \in Caller, NEW status \in StepStatus, Fabric!Outcome(c, status),
           project' = project, NEW e, NEW s, e = calls[c].exec, s = Current(c),
           \/ calls[c].label = "wait" /\ jobs[calls[c].job].state # "running" /\ jobs' = jobs
           \/ calls[c].label \in Walking /\ ~project.wait /\ Submits(c)
           \/ calls[c].label \in Walking /\ jobs' = jobs,
           Fabric!Matches(s, status) => AsExpected(e, s)',
           (~project.wait /\ status = "RUNNING") =>
              \E k \in DOMAIN jobs': jobs'[k].exec = calls[c].exec /\ jobs'[k].step = Current(c)
                                     /\ jobs'[k].kind = "write"
    PROVE  LoopPasses(c)
<1>1. PICK n \in DOMAIN project.order: n = calls[c].at /\ project.order[n] = Current(c)
      BY AtFacts DEF Current
<1>2. Stays(c)
      BY OutcomeFlat
<1>3. Fabric!Matches(Current(c), status) => AsExpected(calls[c].exec, project.order[n])'
      BY <1>1, <1>2 DEF AsExpected, Of, Stays
<1>4. (~project.wait /\ status = "RUNNING") => (Of(calls[c].exec, project.order[n], "write") # {})'
      BY <1>1, <1>2 DEF Of, Stays
<1>5. Fabric!Continues(Current(c), status) =>
         Fabric!Matches(Current(c), status) \/ (~project.wait /\ status = "RUNNING")
      BY DEF Fabric!Continues
<1>7. ASSUME calls'[c].ok => Fabric!Matches(Current(c), status),
             project.stop => Fabric!Continues(Current(c), status)
      PROVE  Passed(c, n)'
      BY <1>1, <1>3, <1>4, <1>5, <1>7 DEF Passed, OnFabric
<1>8. calls'[c].ok => calls[c].ok /\ Fabric!Matches(Current(c), status)
      BY OutcomeFlat
<1>9. CASE /\ calls[c].at < Len(project.order) /\ calls'[c].at = calls[c].at + 1
           /\ calls'[c].label = "look" /\ calls'[c].verdict = calls[c].verdict
           /\ project.stop => Fabric!Continues(Current(c), status)
      BY <1>1, <1>7, <1>8, <1>9, OutcomeFlat DEF LoopPasses, Walking
<1>10. CASE /\ calls'[c].at = calls[c].at /\ calls'[c].label = "done" /\ calls'[c].verdict \in StepStatus
            /\ calls'[c].verdict = "SUCCEEDED" => calls'[c].ok
            /\ calls[c].at = Len(project.order) \/ (project.stop /\ ~Fabric!Continues(Current(c), status))
       <2>1. calls'[c].verdict = "SUCCEEDED" => n = Len(project.order) /\ calls'[c].ok /\ Passed(c, n)'
             <3> SUFFICES ASSUME calls'[c].verdict = "SUCCEEDED"
                          PROVE  n = Len(project.order) /\ calls'[c].ok /\ Passed(c, n)'
                 OBVIOUS
             <3>1. calls'[c].ok /\ Fabric!Matches(Current(c), status)
                   BY <1>8, <1>10
             <3>2. Fabric!Continues(Current(c), status)
                   BY <3>1 DEF Fabric!Continues
             <3> QED BY <1>1, <1>7, <1>10, <3>1, <3>2
       <2> QED BY <1>1, <1>8, <1>10, <2>1, OutcomeFlat DEF LoopPasses
<1> QED BY <1>9, <1>10, OutcomeFlat

\* What a step of a call comes to on Fabric.
FabricStep(c) ==
    /\ LoopStep(c) /\ Busy(calls[c]) /\ Others(c) /\ Stays(c)
    /\ execs' = execs /\ project' = project /\ machine' = machine
    /\ item' \in Item
    /\ updates' \subseteq [step: Step, by: Caller, new: BOOLEAN]
    /\ \A u \in updates': u \in updates \/ u.by = c
    /\ FabricItems'
    /\ jobs' = jobs \/ calls[c].label = "submit"
    /\ calls'[c].at = calls[c].at \/ calls'[c].at = calls[c].at + 1
    /\ calls'[c].at \in project.from..Len(project.order)

LEMMA StaysMixes ==
    ASSUME NEW c \in Caller, Others(c), Stays(c)
    PROVE  Mixing
BY DEF Others, Stays, Mixing

\* A call goes on, or gives up, and the service has no more to do with it.
LEMMA FabricQuiet ==
    ASSUME FabricInv, OnFabric, NEW c \in Caller, Busy(calls[c]), Others(c), Stays(c),
           project' = project, item' = item, updates' = updates,
           \A u \in updates: u.by = c => Sent(u)',
           Known(c)'
    PROVE  FabricItems'
<1>1. \A s \in Step: item'[s].code = item'[s].def
      BY DEF FabricInv, FabricItems
<1> QED BY <1>1, StaysMixes, FabricItemsKeeps DEF FabricInv

LEMMA FabricWalks ==
    ASSUME FabricInv, OnFabric, NEW c \in Caller, Fabric!Look(c) \/ Fabric!PollOperation(c)
    PROVE  FabricStep(c)
<1> USE DEF service, Fabric!service
<1>1. calls \in [Caller -> Call] /\ calls[c].at \in project.from..Len(project.order)
      BY DEF FabricInv, Typed
<1>2. /\ project' = project /\ machine' = machine /\ item' = item /\ updates' = updates /\ execs' = execs
      /\ jobs' = jobs
      BY DEF Fabric!Look, Fabric!PollOperation
<1>3. CASE Fabric!Look(c)
      <2>1. calls[c].label = "look"
            BY <1>3 DEF Fabric!Look, Fabric!At
      <2>2. \E label \in {"create", "submit", "update"}:
               Goto(c, label) /\ (label = "submit" => item[Current(c)].def = c)
            <3> DEFINE held == item[Current(c)].def
            <3>1. Goto(c, CASE held = None -> "create" [] held = c -> "submit" [] OTHER -> "update")
                  BY <1>3 DEF Fabric!Look, Fabric!Goto, Goto, Fabric!Current, Current
            <3>2. CASE held = None
                  <4>1. Goto(c, "create")
                        BY <3>1, <3>2, NoneAssumption
                  <4> QED BY <4>1
            <3>3. CASE held = c
                  <4>1. Goto(c, "submit")
                        BY <3>1, <3>3, NoneAssumption
                  <4> QED BY <3>3, <4>1
            <3>4. CASE held # None /\ held # c
                  <4>1. Goto(c, "update")
                        BY <3>1, <3>4
                  <4> QED BY <4>1
            <3> QED BY <3>2, <3>3, <3>4
      <2>3. PICK label \in {"create", "submit", "update"}: 
               Goto(c, label) /\ (label = "submit" => item[Current(c)].def = c)
            BY <2>2
      <2>4. Goes(c, label)
            BY <1>1, <2>3, GotoGoes DEF Label
      <2>5. LoopWalks(c) /\ Busy(calls[c]) /\ Others(c) /\ Stays(c)
            BY <1>2, <2>1, <2>4 DEF LoopWalks, Walking, Goes, Kept, Busy, Stays
      <2>6. Known(c)'
            BY <1>2, <2>3, <2>4 DEF Known, Goes, Kept, Current
      <2>7. \A u \in updates: u.by # c
            BY <2>1 DEF FabricInv, FabricItems, Sent
      <2>8. FabricItems'
            BY <1>2, <2>5, <2>6, <2>7, FabricQuiet
      <2> QED BY <1>1, <1>2, <2>4, <2>5, <2>8 DEF FabricStep, LoopStep, Goes, Kept, FabricInv, Typed, Item
<1>4. CASE Fabric!PollOperation(c)
      <2>1. calls[c].label = "operation"
            BY <1>4 DEF Fabric!PollOperation, Fabric!At
      <2>2. CASE \E u \in updates: u.by = c
            <3>1. Poll(c)
                  BY <1>4, <2>2 DEF Fabric!PollOperation, Fabric!Poll, Poll, Fabric!Finish, Finish
            <3>2. Goes(c, "operation") \/ Finishes(c, "raised")
                  BY <1>1, <2>1, <3>1, PollPolls
            <3>3. LoopWalks(c) \/ LoopRaises(c)
                  BY <1>2, <2>1, <3>2 DEF LoopWalks, LoopRaises, Walking, Busy
            <3>4. Busy(calls[c]) /\ Others(c) /\ Stays(c)
                  BY <2>1, <3>2 DEF Goes, Finishes, Kept, Busy, Stays
            <3>5. Known(c)'
                  BY <1>2, <2>2, <3>2 DEF Known, Goes, Finishes, Kept
            <3>6. \A u \in updates: u.by = c => Sent(u)'
                  BY <1>2, <2>1, <3>2 DEF FabricInv, FabricItems, Sent, Goes, Finishes, Kept, Current
            <3>7. FabricItems'
                  BY <1>2, <3>4, <3>5, <3>6, FabricQuiet
            <3> QED BY <1>1, <1>2, <3>2, <3>3, <3>4, <3>7
                    DEF FabricStep, LoopStep, Goes, Finishes, Kept, FabricInv, Typed, Item
      <2>3. CASE \A u \in updates: u.by # c
            <3>1. Goto(c, "submit")
                  BY <1>4, <2>3 DEF Fabric!PollOperation, Fabric!Goto, Goto
            <3>2. Goes(c, "submit")
                  BY <1>1, <3>1, GotoGoes DEF Label
            <3>3. LoopWalks(c) /\ Busy(calls[c]) /\ Others(c) /\ Stays(c)
                  BY <1>2, <2>1, <3>2 DEF LoopWalks, Walking, Goes, Kept, Busy, Stays
            <3>4. Known(c)'
                  BY <1>2, <2>1, <2>3, <3>2 DEF FabricInv, FabricItems, Known, Goes, Kept, Current
            <3>5. FabricItems'
                  BY <1>2, <2>3, <3>3, <3>4, FabricQuiet
            <3> QED BY <1>1, <1>2, <3>2, <3>3, <3>5 DEF FabricStep, LoopStep, Goes, Kept, FabricInv, Typed, Item
      <2> QED BY <2>2, <2>3
<1> QED BY <1>3, <1>4

LEMMA FabricRaises ==
    ASSUME FabricInv, OnFabric, NEW c \in Caller, Raise(c)
    PROVE  FabricStep(c)
<1> USE DEF service
<1>1. calls \in [Caller -> Call] /\ calls[c].at \in project.from..Len(project.order)
      BY DEF FabricInv, Typed
<1>2. /\ project' = project /\ machine' = machine /\ item' = item /\ updates' = updates /\ execs' = execs
      /\ jobs' = jobs
      BY DEF Raise
<1>3. Finishes(c, "raised") /\ Busy(calls[c])
      BY <1>1, FinishFinishes DEF Raise, Active, Busy
<1>4. LoopRaises(c) /\ Others(c) /\ Stays(c)
      BY <1>2, <1>3 DEF LoopRaises, Finishes, Stays
<1>5. Known(c)' /\ \A u \in updates: u.by = c => Sent(u)'
      BY <1>3 DEF Known, Sent, Finishes
<1>6. FabricItems'
      BY <1>2, <1>3, <1>4, <1>5, FabricQuiet
<1> QED BY <1>1, <1>2, <1>3, <1>4, <1>6 DEF FabricStep, LoopStep, Finishes, FabricInv, Typed, Item

LEMMA FabricSends ==
    ASSUME FabricInv, OnFabric, NEW c \in Caller, Fabric!Create(c) \/ Fabric!Update(c)
    PROVE  FabricStep(c)
<1> USE DEF service, Fabric!service
<1>1. calls \in [Caller -> Call] /\ calls[c].at \in project.from..Len(project.order) /\ Current(c) \in Step
      /\ item \in Item
      BY AtFacts DEF FabricInv, Typed, Item
<1>2. PICK new \in BOOLEAN, label \in {"create", "update"}: Fabric!Send(c, label, new)
      BY DEF Fabric!Create, Fabric!Update
<1>3. PICK u \in [step: Step, by: Caller, new: BOOLEAN]:
         u = [step |-> Current(c), by |-> c, new |-> new] /\ u.by = c /\ u.step = Current(c)
      <2> DEFINE x == [step |-> Current(c), by |-> c, new |-> new]
      <2>1. x \in [step: Step, by: Caller, new: BOOLEAN]
            BY <1>1
      <2>2. x = [step |-> Current(c), by |-> c, new |-> new] /\ x.by = c /\ x.step = Current(c)
            OBVIOUS
      <2> HIDE DEF x
      <2> QED BY <2>1, <2>2
<1>4. /\ calls[c].label \in {"create", "update"}
      /\ project' = project /\ machine' = machine /\ execs' = execs /\ jobs' = jobs
      /\ \/ /\ item' = [item EXCEPT ![Current(c)] = [code |-> c, def |-> c]]
            /\ Goto(c, "submit")
            /\ updates' = updates
         \/ /\ updates' = updates \cup {u}
            /\ Goto(c, "operation")
            /\ item' = item
      BY <1>2, <1>3 DEF Fabric!Send, Fabric!At, Fabric!Goto, Goto, Fabric!Current, Current
<1>5. \A v \in updates: v.by # c
      BY <1>4 DEF FabricInv, FabricItems, Sent
<1>6. CASE /\ item' = [item EXCEPT ![Current(c)] = [code |-> c, def |-> c]]
           /\ Goto(c, "submit")
           /\ updates' = updates
      <2>1. Goes(c, "submit")
            BY <1>1, <1>6, GotoGoes DEF Label
      <2>2. LoopWalks(c) /\ Busy(calls[c]) /\ Others(c) /\ Stays(c)
            BY <1>4, <2>1 DEF LoopWalks, Walking, Goes, Kept, Busy, Stays
      <2>3. [code |-> c, def |-> c] \in [code: Version, def: Version]
            BY DEF Version
      <2>4. item' \in Item /\ item'[Current(c)].code = c /\ item'[Current(c)].def = c
            /\ \A s \in Step: s # Current(c) => item'[s] = item[s]
            BY <1>1, <1>6, <2>3 DEF Item
      <2>5. Known(c)'
            BY <1>4, <2>1, <2>4 DEF Known, Goes, Kept, Current
      <2>6. FabricItems'
            BY <1>4, <1>5, <1>6, <2>2, <2>4, <2>5, StaysMixes, FabricItemsKeeps DEF FabricInv, FabricItems
      <2> QED BY <1>1, <1>4, <1>6, <2>1, <2>2, <2>4, <2>6 DEF FabricStep, LoopStep, Goes, Kept, FabricInv, Typed
<1>7. CASE /\ updates' = updates \cup {u}
           /\ Goto(c, "operation")
           /\ item' = item
      <2>1. Goes(c, "operation")
            BY <1>1, <1>7, GotoGoes DEF Label
      <2>2. LoopWalks(c) /\ Busy(calls[c]) /\ Others(c) /\ Stays(c)
            BY <1>4, <2>1 DEF LoopWalks, Walking, Goes, Kept, Busy, Stays
      <2>3. Known(c)' /\ Sent(u)'
            BY <1>3, <1>4, <1>7, <2>1 DEF Known, Sent, Goes, Kept, Current
      <2>4. \A v \in updates': v \in updates \/ v = u
            BY <1>7
      <2>5. FabricItems'
            BY <1>3, <1>4, <1>5, <1>7, <2>2, <2>3, <2>4, StaysMixes, FabricItemsKeeps DEF FabricInv, FabricItems
      <2>6. updates' \subseteq [step: Step, by: Caller, new: BOOLEAN]
            BY <1>3, <2>4 DEF FabricInv, Typed
      <2> QED BY <1>1, <1>3, <1>4, <1>7, <2>1, <2>2, <2>4, <2>5, <2>6 DEF FabricStep, LoopStep, Goes, Kept, Item
<1> QED BY <1>4, <1>6, <1>7

LEMMA FabricBlocks ==
    ASSUME FabricInv, OnFabric, NEW c \in Caller, Fabric!Blocked(c)
    PROVE  FabricStep(c)
<1> USE DEF service, Fabric!service
<1>1. calls[c].at \in project.from..Len(project.order)
      BY DEF FabricInv, Typed
<1>2. /\ project' = project /\ machine' = machine /\ item' = item /\ updates' = updates /\ execs' = execs
      /\ jobs' = jobs /\ calls[c].label = "look" /\ Fabric!Outcome(c, "BLOCKED")
      BY DEF Fabric!Blocked, Fabric!At
<1> PICK e, s: e = calls[c].exec /\ s = Current(c)
    OBVIOUS
\* No job of the step has been submitted.
<1>3. "BLOCKED" \in StepStatus /\ (Fabric!Matches(s, "BLOCKED") => AsExpected(e, s)')
      <2>1. Ahead(c) /\ calls[c].label \in Walking /\ calls[c].label # "wait"
            BY <1>2 DEF FabricInv, LoopInv, Loops, Walking
      <2>2. Of(e, s, "write") = {}
            BY <2>1, AtFacts DEF FabricInv, Ahead, Of, Current
      <2>3. Of(e, s, "write")' = {}
            BY <1>2, <2>2 DEF Of
      <2> QED BY <1>2, <2>3 DEF StepStatus, Fabric!Matches, AsExpected
<1>4. LoopPasses(c)
      BY <1>2, <1>3, OutcomePasses DEF FabricInv, Walking
<1>5. /\ Others(c) /\ Stays(c) /\ calls'[c].label \in {"look", "done"}
      /\ calls'[c].at = calls[c].at \/ (calls[c].at < Len(project.order) /\ calls'[c].at = calls[c].at + 1)
      BY <1>2, <1>3, OutcomeFlat DEF FabricInv
<1>6. \A u \in updates: u.by # c
      BY <1>2 DEF FabricInv, FabricItems, Sent
<1>7. Known(c)'
      BY <1>5 DEF Known
<1>8. Busy(calls[c])
      BY <1>2 DEF Busy
<1>9. FabricItems'
      BY <1>2, <1>5, <1>6, <1>7, <1>8, FabricQuiet
<1>10. calls'[c].at \in project.from..Len(project.order)
      BY <1>1, <1>5, AtFacts DEF FabricInv
<1> QED BY <1>2, <1>4, <1>5, <1>8, <1>9, <1>10 DEF FabricStep, LoopStep, FabricInv, Typed, Item

LEMMA FabricSubmits ==
    ASSUME FabricInv, OnFabric, NEW c \in Caller, Fabric!Submit(c)
    PROVE  FabricStep(c)
<1> USE DEF service, Fabric!service
<1>1. /\ calls \in [Caller -> Call] /\ calls[c].at \in project.from..Len(project.order) /\ Current(c) \in Step
      /\ calls[c] \in Call
      BY AtFacts DEF FabricInv, Typed
<1>2. /\ project' = project /\ machine' = machine /\ item' = item /\ updates' = updates /\ execs' = execs
      /\ calls[c].label = "submit"
      BY DEF Fabric!Submit, Fabric!At
<1>3. \A u \in updates: u.by # c
      BY <1>2 DEF FabricInv, FabricItems, Sent
<1>4. Busy(calls[c]) /\ calls[c].label \in Walking
      BY <1>2 DEF Busy, Walking
<1>5. ASSUME Others(c), Stays(c), calls'[c].label \in {"wait", "look", "done"}
      PROVE  FabricItems'
      <2>1. Known(c)'
            BY <1>5 DEF Known
      <2> QED BY <1>2, <1>3, <1>4, <1>5, <2>1, FabricQuiet
<1>6. ASSUME Finishes(c, "raised"), jobs' = jobs \/ Submits(c)
      PROVE  FabricStep(c)
      <2>1. LoopRaises(c) /\ Others(c) /\ Stays(c)
            BY <1>4, <1>6 DEF LoopRaises, Finishes, Stays
      <2>2. FabricItems'
            BY <1>5, <1>6, <2>1 DEF Finishes
      <2> QED BY <1>1, <1>2, <1>4, <1>6, <2>1, <2>2 DEF FabricStep, LoopStep, FabricInv, Typed, Item, Finishes
<1>7. CASE Finish(c, "raised") /\ jobs' = jobs
      BY <1>1, <1>6, <1>7, FinishFinishes
<1>8. CASE /\ jobs' = Append(jobs, NewJob(calls[c].exec, Current(c), "write"))
           /\ \/ /\ project.wait
                 /\ calls' = [calls EXCEPT ![c] = [calls[c] EXCEPT !.label = "wait", !.job = Len(jobs) + 1]]
              \/ ~project.wait /\ Fabric!Outcome(c, "RUNNING")
              \/ Finish(c, "raised")
      <2>1. calls[c].exec \in DOMAIN execs /\ "write" \in Op
            BY <1>2, <1>4 DEF FabricInv, LoopInv, Loops, Typed, Op
      <2>2. Submits(c)
            BY <1>1, <1>8, <2>1, NewJobs DEF Submits, FabricInv
      <2>3. CASE Finish(c, "raised")
            BY <1>1, <1>6, <2>2, <2>3, FinishFinishes
      <2>4. CASE ~project.wait /\ Fabric!Outcome(c, "RUNNING")
            <3>1. \E k \in DOMAIN jobs': jobs'[k].exec = calls[c].exec /\ jobs'[k].step = Current(c)
                                         /\ jobs'[k].kind = "write"
                  BY <2>2, SubmitsAJob DEF FabricInv, Typed
            <3> PICK e, s: e = calls[c].exec /\ s = Current(c)
                OBVIOUS
            <3>2. "RUNNING" \in StepStatus /\ (Fabric!Matches(s, "RUNNING") => AsExpected(e, s)')
                  BY <1>2, <2>4, <3>1 DEF StepStatus, Fabric!Matches, AsExpected, Of
            <3>3. LoopPasses(c)
                  BY <1>2, <1>4, <2>2, <2>4, <3>1, <3>2, OutcomePasses DEF FabricInv
            <3>4. /\ Others(c) /\ Stays(c) /\ calls'[c].label \in {"look", "done"}
                  /\ calls'[c].at = calls[c].at
                     \/ (calls[c].at < Len(project.order) /\ calls'[c].at = calls[c].at + 1)
                  BY <2>4, <3>2, OutcomeFlat DEF FabricInv
            <3>5. FabricItems'
                  BY <1>5, <3>4
            <3>6. calls'[c].at \in project.from..Len(project.order)
                  BY <1>1, <3>4, AtFacts DEF FabricInv
            <3> QED BY <1>2, <1>4, <3>3, <3>4, <3>5, <3>6 DEF FabricStep, LoopStep, FabricInv, Typed, Item
      <2>5. CASE project.wait
                 /\ calls' = [calls EXCEPT ![c] = [calls[c] EXCEPT !.label = "wait", !.job = Len(jobs) + 1]]
            <3> DEFINE n == Len(jobs) + 1
                       y == [calls[c] EXCEPT !.label = "wait", !.job = n]
            <3>1. n \in Nat
                  BY DEF FabricInv, Typed
            <3>2. calls' = [calls EXCEPT ![c] = y]
                  BY <2>5
            <3> HIDE DEF n
            <3>3. /\ y \in Call /\ y.label = "wait" /\ y.job = n /\ y.exec = calls[c].exec /\ y.at = calls[c].at
                  /\ y.ok = calls[c].ok /\ y.mixed = calls[c].mixed /\ y.verdict = calls[c].verdict
                  BY <1>1, <3>1 DEF Call, Label
            <3> HIDE DEF y
            <3>4. Others(c) /\ calls'[c] = y
                  BY <1>1, <3>2, <3>3, Moved
            <3>5. Stays(c) /\ FabricItems'
                  BY <1>5, <3>3, <3>4 DEF Stays
            <3>6. LoopSubmits(c)
                  BY <1>4, <2>2, <2>5, <3>3, <3>4, <3>5 DEF LoopSubmits, n
            <3> QED BY <1>1, <1>2, <1>4, <3>3, <3>4, <3>5, <3>6 DEF FabricStep, LoopStep, FabricInv, Typed, Item
      <2> QED BY <1>8, <2>3, <2>4, <2>5
<1>9. \/ Finish(c, "raised") /\ jobs' = jobs
      \/ /\ jobs' = Append(jobs, NewJob(calls[c].exec, Current(c), "write"))
         /\ \/ /\ project.wait
               /\ calls' = [calls EXCEPT ![c] = [calls[c] EXCEPT !.label = "wait", !.job = Len(jobs) + 1]]
            \/ ~project.wait /\ Fabric!Outcome(c, "RUNNING")
            \/ Finish(c, "raised")
      BY DEF Fabric!Submit, Fabric!Finish, Finish, Fabric!NewJob, NewJob, Fabric!Current, Current
<1> QED BY <1>7, <1>8, <1>9

LEMMA FabricWaits ==
    ASSUME FabricInv, OnFabric, NEW c \in Caller, Fabric!Wait(c)
    PROVE  FabricStep(c)
<1> USE DEF service, Fabric!service
<1>1. /\ calls \in [Caller -> Call] /\ calls[c].at \in project.from..Len(project.order)
      BY DEF FabricInv, Typed
<1>2. /\ project' = project /\ machine' = machine /\ item' = item /\ updates' = updates /\ execs' = execs
      /\ jobs' = jobs /\ calls[c].label = "wait"
      BY DEF Fabric!Wait, Fabric!At
<1>3. \A u \in updates: u.by # c
      BY <1>2 DEF FabricInv, FabricItems, Sent
<1>4. Busy(calls[c])
      BY <1>2 DEF Busy
<1>5. ASSUME Others(c), Stays(c), calls'[c].label \in {"wait", "look", "done"}
      PROVE  FabricItems'
      <2>1. Known(c)'
            BY <1>5 DEF Known
      <2> QED BY <1>2, <1>3, <1>4, <1>5, <2>1, FabricQuiet
<1> DEFINE k == calls[c].job
           state == jobs[k].state
<1> PICK e, s: e = calls[c].exec /\ s = Current(c)
    OBVIOUS
<1>0. Of(e, s, "write") = {k}
      BY <1>2 DEF FabricInv, LoopInv, Loops, AwaitsItsOwn
<1>6. /\ k \in DOMAIN jobs /\ jobs[k].exec = e /\ jobs[k].step = s /\ jobs[k].kind = "write"
      /\ state \in {"running", "succeeded", "failed"}
      <2>1. k \in Of(e, s, "write")
            BY <1>0
      <2>2. k \in DOMAIN jobs
            BY <2>1 DEF Of
      <2>3. jobs[k] \in Job
            BY <2>2 DEF FabricInv, Typed
      <2> QED BY <2>1, <2>2, <2>3 DEF Of, Job
<1>7. CASE state = "running"
      <2>1. Poll(c)
            BY <1>7 DEF Fabric!Wait, Fabric!Poll, Poll, Fabric!Finish, Finish
      <2>2. Goes(c, "wait") \/ Finishes(c, "raised")
            BY <1>1, <1>2, <2>1, PollPolls
      <2>3. LoopWalks(c) \/ LoopRaises(c)
            BY <1>2, <1>4, <2>2 DEF LoopWalks, LoopRaises
      <2>4. Others(c) /\ Stays(c) /\ calls'[c].label \in {"wait", "done"} /\ calls'[c].at = calls[c].at
            BY <2>2 DEF Goes, Finishes, Kept, Stays
      <2> QED BY <1>1, <1>2, <1>4, <1>5, <2>3, <2>4 DEF FabricStep, LoopStep, FabricInv, Typed, Item
<1>8. CASE state # "running"
      <2>1. \E status \in StepStatus:
               /\ Fabric!Outcome(c, status)
               /\ status # "RUNNING"
               /\ status = "SUCCEEDED" => state = "succeeded"
               /\ status \in {"FAILED", "BLOCKED"} => state = "failed"
            <3>1. CASE state = "succeeded"
                  <4>1. Fabric!Outcome(c, "SUCCEEDED")
                        BY <3>1 DEF Fabric!Wait
                  <4> QED BY <3>1, <4>1 DEF StepStatus
            <3>2. CASE state = "failed"
                  <4>1. PICK status \in {"FAILED", "BLOCKED"}: Fabric!Outcome(c, status)
                        BY <3>2 DEF Fabric!Wait
                  <4> QED BY <3>2, <4>1 DEF StepStatus
            <3> QED BY <1>6, <1>8, <3>1, <3>2
      <2>2. PICK status \in StepStatus:
               /\ Fabric!Outcome(c, status)
               /\ status # "RUNNING"
               /\ status = "SUCCEEDED" => state = "succeeded"
               /\ status \in {"FAILED", "BLOCKED"} => state = "failed"
            BY <2>1
      <2>3. Fabric!Matches(s, status) => AsExpected(e, s)'
            <3>1. Of(e, s, "write")' = {k}
                  BY <1>0, <1>2 DEF Of
            <3>2. project'.expects[s] = project.expects[s] /\ jobs'[k].state = state
                  BY <1>2
            <3> QED BY <2>2, <3>1, <3>2 DEF Fabric!Matches, AsExpected, StepStatus
      <2>4. LoopPasses(c)
            BY <1>2, <1>8, <2>2, <2>3, OutcomePasses DEF FabricInv
      <2>5. /\ Others(c) /\ Stays(c) /\ calls'[c].label \in {"look", "done"}
            /\ calls'[c].at = calls[c].at \/ (calls[c].at < Len(project.order) /\ calls'[c].at = calls[c].at + 1)
            BY <2>2, OutcomeFlat DEF FabricInv
      <2>6. FabricItems'
            BY <1>5, <2>5
      <2>7. calls'[c].at \in project.from..Len(project.order)
            BY <1>1, <2>5, AtFacts DEF FabricInv
      <2> QED BY <1>2, <1>4, <2>4, <2>5, <2>6, <2>7 DEF FabricStep, LoopStep, FabricInv, Typed, Item
<1> QED BY <1>7, <1>8

LEMMA FabricCases ==
    ASSUME FabricInv, OnFabric, Next
    PROVE  \/ \E c \in Caller: Fabric!Start(c) \/ FabricStep(c)
           \/ \E u \in updates: Fabric!OperationEnds(u)
           \/ \E j \in DOMAIN jobs: JobEnds(j)
<1>1. ASSUME Workflows!Next
      PROVE  FALSE
      BY <1>1 DEF OnFabric, Workflows!Next, Workflows!Start, Workflows!Continue, Workflows!Proceed,
         Workflows!Insert, Workflows!Look, Workflows!ExecutionRaises, Workflows!On
<1>2. ASSUME Glue!Next
      PROVE  FALSE
      BY <1>2 DEF OnFabric, Glue!Next, Glue!Scheduled, Glue!Start, Glue!Continue, Glue!ExecutionEnds, Glue!StartTask
<1>3. ASSUME Tasks!Next
      PROVE  FALSE
      BY <1>3 DEF OnFabric, Tasks!Next, Tasks!Enable, Tasks!Scheduled, Tasks!Start, Tasks!Continue,
         Tasks!ExecutionEnds, Tasks!StartTask, Tasks!Publish, Tasks!Suspend, Tasks!Create, Tasks!Clock,
         Tasks!Resume, Tasks!Execute, Tasks!Watch, Tasks!At
<1>4. ASSUME NEW c \in Caller, End(c)
      PROVE  FALSE
      BY <1>4 DEF End, OnFabric, FabricInv, LoopInv, Loops
<1>5. ASSUME NEW c \in Caller, Fabric!Continue(c) \/ Raise(c)
      PROVE  FabricStep(c)
      BY <1>5, FabricWalks, FabricRaises, FabricSends, FabricBlocks, FabricSubmits, FabricWaits DEF Fabric!Continue
<1> QED BY <1>1, <1>2, <1>3, <1>4, <1>5 DEF Next, Fabric!Next

LEMMA FabricStarts ==
    ASSUME FabricInv, OnFabric, NEW c \in Caller, Fabric!Start(c)
    PROVE  /\ LoopBegins(c) /\ project' = project /\ machine' = machine /\ item' = item /\ updates' = updates
           /\ Begun(c, "look", Len(execs) + 1)
<1> USE DEF service, Fabric!service
<1>1. calls \in [Caller -> Call] /\ Len(execs) + 1 \in Nat
      BY DEF FabricInv, Typed
<1>2. Begin(c, "look", Len(execs) + 1)
      BY DEF Fabric!Start, Fabric!Begin, Begin, Fabric!Active, Active, Fabric!Running, Running
<1>3. Begun(c, "look", Len(execs) + 1) /\ calls[c].label = "idle"
      BY <1>1, <1>2, BeginBegins DEF Label
<1> QED BY <1>3 DEF LoopBegins, Walking, Fabric!Start, Fabric!NewExec, NewExec

\* The rest of the invariant, whatever a call does.
LEMMA LoopTypes ==
    ASSUME Typed, LoopInv, NEW c \in Caller, project' = project, LoopStep(c), machine' = machine,
           item' \in Item, updates' \subseteq [step: Step, by: Caller, new: BOOLEAN],
           calls' \in [Caller -> Call], calls'[c].at \in project.from..Len(project.order)
    PROVE  Typed'
<1>1. /\ execs' \in Seq(Exec) /\ DOMAIN execs \subseteq DOMAIN execs' /\ jobs' \in Seq(Job) /\ Stay
      /\ \A j \in DOMAIN jobs': j \in DOMAIN jobs \/ jobs'[j].exec \in DOMAIN execs
      /\ \A d \in Caller: d # c => Alike(d)
      BY LoopFrame
<1>2. calls'[c].exec = calls[c].exec \/ calls'[c].exec \in 0..Len(execs')
      <2>1. CASE LoopBegins(c)
            <3>1. calls'[c].exec = Len(execs) + 1 /\ execs' = Append(execs, NewExec(c, "local"))
                  BY <2>1 DEF LoopBegins, Begun
            <3>2. Len(execs') = Len(execs) + 1 /\ Len(execs) \in Nat
                  BY <1>1, <3>1 DEF Typed
            <3> QED BY <3>1, <3>2
      <2>2. CASE LoopWalks(c) \/ LoopRaises(c) \/ LoopSubmits(c) \/ LoopPasses(c) \/ LoopEnds(c)
            BY <2>2 DEF LoopWalks, LoopRaises, LoopSubmits, LoopPasses, LoopEnds, Goes, Finishes, Kept, Stays
      <2> QED BY <2>1, <2>2 DEF LoopStep
<1>3. machine' \in Version
      BY DEF Typed
<1> QED BY <1>1, <1>2, <1>3, TypedKeeps DEF Item, Alike

LEMMA LoopMeets ==
    ASSUME Typed, LoopInv, Meet, NEW c \in Caller, LoopStep(c), project' = project, Typed', Busy(calls[c]),
           Others(c), Stays(c), \A u \in updates': u \in updates \/ u.by = c
    PROVE  Meet'
<1>1. \A e \in DOMAIN execs': execs'[e].label # "running"
      BY LoopFrame
<1>2. \A d \in Caller: calls'[d].exec = 0 \/ calls'[d].exec \in DOMAIN execs'
      BY DEF Typed
<1>3. \A d \in Caller: Busy(calls'[d]) => Busy(calls[d])
      BY DEF Others
<1>4. \A d \in Caller: calls'[d].label = "idle" => calls'[d] = calls[d]
      <2>1. calls'[c].label # "idle"
            BY DEF LoopStep, LoopBegins, Begun, LoopWalks, LoopRaises, LoopSubmits, LoopPasses, LoopEnds, Goes,
               Finishes, Walking, Busy
      <2> QED BY <2>1 DEF Others
<1> QED BY <1>1, <1>2, <1>3, <1>4, StaysMixes, MeetKeeps DEF About, Typed

LEMMA ExecTypes ==
    ASSUME Typed, NEW e \in DOMAIN execs
    PROVE  execs[e] \in Exec /\ execs[e].by \in Version
<1>1. execs[e] \in Exec
      BY DEF Typed
<1> QED BY <1>1 DEF Exec

\* A call under way moves.
LEMMA LoopHolds ==
    ASSUME Typed, Meet, LoopInv, Loop, RunsWhatItDeployed, NEW c \in Caller, LoopStep(c),
           Busy(calls[c]), Others(c), Stays(c),
           project' = project, machine' = machine, execs' = execs, item' \in Item,
           updates' \subseteq [step: Step, by: Caller, new: BOOLEAN],
           \A u \in updates': u \in updates \/ u.by = c,
           calls'[c].at \in project.from..Len(project.order),
           (jobs' # jobs /\ ~calls[c].mixed) => item[Current(c)].code = c /\ item[Current(c)].def = c
    PROVE  Typed' /\ Meet' /\ LoopInv' /\ RunsWhatItDeployed'
<1>1. Typed'
      BY LoopTypes DEF Others
<1>2. LoopInv' /\ Meet'
      BY <1>1, LoopKeeps, LoopMeets
<1>3. /\ Stay /\ SameCode /\ Mixing
      /\ \A e \in DOMAIN execs: execs'[e].by = execs[e].by
      /\ \A e \in DOMAIN execs': execs'[e].by \in Version
      BY LoopFrame, StaysMixes, ExecTypes
<1>4. ASSUME NEW j \in DOMAIN jobs', j \notin DOMAIN jobs, ~calls'[execs'[jobs'[j].exec].by].mixed
      PROVE  jobs'[j].code = execs'[jobs'[j].exec].by /\ jobs'[j].def = execs'[jobs'[j].exec].by
      <2>1. /\ jobs'[j].exec = calls[c].exec /\ calls[c].exec \in DOMAIN execs
            /\ jobs'[j].code = item[Current(c)].code /\ jobs'[j].def = item[Current(c)].def
            BY <1>4, LoopFrame
      <2>2. execs'[calls[c].exec].by = c
            BY <2>1 DEF LoopInv, Loops, Typed
      <2>3. ~calls[c].mixed /\ jobs' # jobs
            BY <1>4, <2>1, <2>2 DEF Stays
      <2> QED BY <2>1, <2>2, <2>3
<1>5. RunsWhatItDeployed'
      BY <1>3, <1>4, RunsKeeps
<1> QED BY <1>1, <1>2, <1>5

\* A call begins.
LEMMA LoopOpens ==
    ASSUME Typed, Meet, LoopInv, Loop, RunsWhatItDeployed, NEW c \in Caller, NEW label \in Walking,
           LoopBegins(c), project' = project, machine' = machine, item' = item, updates' = updates,
           Begun(c, label, Len(execs) + 1)
    PROVE  Typed' /\ Meet' /\ LoopInv' /\ RunsWhatItDeployed' /\ Mixing
<1>1. LoopStep(c) /\ Len(execs) + 1 \in Nat /\ calls'[c].at = calls[c].at /\ jobs' = jobs
      /\ calls[c].label = "idle" /\ label \in Label \ {"idle"}
      BY DEF LoopStep, LoopBegins, Typed, Begun, Walking, Label
<1>2. Typed'
      BY <1>1, LoopTypes DEF Begun, Typed, Item
<1>3. \A e \in DOMAIN execs: execs'[e] = execs[e]
      BY <1>1, LoopFrame
<1>4. Meet' /\ Mixing
      BY <1>1, <1>3, MeetBegins
<1>5. LoopInv'
      BY <1>1, LoopKeeps
<1>6. /\ Stay /\ SameCode
      /\ \A e \in DOMAIN execs: execs'[e].by = execs[e].by
      BY <1>1, LoopFrame
<1>7. \A e \in DOMAIN execs': execs'[e].by \in Version
      <2>1. \A e \in DOMAIN execs': execs'[e] \in Exec
            BY <1>2 DEF Typed
      <2> QED BY <2>1 DEF Exec
<1>8. RunsWhatItDeployed'
      BY <1>1, <1>4, <1>6, <1>7, RunsKeeps
<1> QED BY <1>2, <1>4, <1>5, <1>8

\* The service ends a job.
LEMMA LoopWaits ==
    ASSUME Typed, Meet, LoopInv, Loop, RunsWhatItDeployed, NEW j \in DOMAIN jobs, JobEnds(j)
    PROVE  /\ Typed' /\ Meet' /\ LoopInv' /\ RunsWhatItDeployed'
           /\ project' = project /\ item' = item /\ updates' = updates /\ calls' = calls
<1>1. /\ project' = project /\ machine' = machine /\ item' = item /\ updates' = updates /\ execs' = execs
      /\ calls' = calls
      BY DEF JobEnds, service
<1>2. jobs' \in Seq(Job) /\ DOMAIN jobs' = DOMAIN jobs /\ Stay /\ SameCode
      BY JobEndsFlat DEF Typed
<1>3. Typed'
      BY <1>1, <1>2, TypedKeeps DEF Typed
<1>4. LoopInv'
      BY <1>1, <1>2, LoopServes DEF Alike
<1>5. Meet' /\ Mixing
      BY <1>1 DEF Meet, Mixing
<1>6. \A e \in DOMAIN execs: execs[e].by \in Version
      BY ExecTypes
<1>7. RunsWhatItDeployed'
      BY <1>1, <1>2, <1>5, <1>6, RunsKeeps
<1> QED BY <1>1, <1>3, <1>4, <1>5, <1>7

\* The service ends an operation: for a call that has met nobody it is the
\* call's own.
LEMMA FabricServes ==
    ASSUME FabricInv, OnFabric, NEW u \in updates, Fabric!OperationEnds(u)
    PROVE  FabricInv' /\ OnFabric'
<1> USE DEF service, Fabric!service
<1>1. /\ project' = project /\ machine' = machine /\ execs' = execs /\ jobs' = jobs /\ updates' = updates \ {u}
      /\ u.by \in Caller /\ u.step \in Step /\ Sent(u) /\ calls \in [Caller -> Call] /\ item \in Item
      BY DEF Fabric!OperationEnds, FabricInv, FabricItems, Typed, Item
<1>2. \/ item' = [item EXCEPT ![u.step] = [code |-> u.by, def |-> u.by]] /\ calls' = calls
      \/ calls' = [calls EXCEPT ![u.by].mixed = TRUE] /\ item' = item
      BY DEF Fabric!OperationEnds
<1>3. \A e \in DOMAIN execs: execs[e].by \in Version
      BY ExecTypes DEF FabricInv
<1>4. \A v \in updates: v.by \in Caller
      BY DEF FabricInv, Typed
<1>5. Stay /\ SameCode
      BY <1>1 DEF Stay, SameCode
<1>6. ASSUME calls' \in [Caller -> Call], Mixing, \A d \in Caller: Alike(d),
             item' \in Item, FabricItems'
      PROVE  FabricInv' /\ OnFabric'
      <2>1. Typed'
            BY <1>1, <1>5, <1>6, TypedKeeps DEF FabricInv, Typed, Alike, Item
      <2>2. LoopInv'
            BY <1>1, <1>5, <1>6, LoopServes DEF FabricInv
      <2>3. \A d \in Caller: calls[d].label = "idle" => calls'[d].mixed = calls[d].mixed
            <3>1. calls[u.by].label # "idle"
                  BY <1>1 DEF Sent
            <3> QED BY <1>1, <1>2, <3>1
      <2>4. Meet'
            <3>1. \A d \in Caller: calls'[d].label = "idle" => ~calls'[d].mixed /\ calls'[d].exec = 0
                  BY <1>6, <2>3 DEF FabricInv, Meet, Alike
            <3>2. \A d \in Caller: calls'[d].label = calls[d].label /\ calls'[d].exec = calls[d].exec
                  BY <1>6 DEF Alike
            <3>3. \A x, d \in Caller: d # x /\ Busy(calls'[d]) /\ About(calls'[x], execs') => calls'[x].mixed
                  BY <1>1, <1>6, <3>2 DEF FabricInv, Meet, Mixing, Busy, About
            <3>4. \A v \in updates': \A x \in Caller: x # v.by /\ About(calls'[x], execs') => calls'[x].mixed
                  BY <1>1, <1>6, <3>2 DEF FabricInv, Meet, Mixing, Busy, About
            <3> QED BY <3>1, <3>3, <3>4 DEF Meet
      <2>5. RunsWhatItDeployed'
            BY <1>1, <1>3, <1>5, <1>6, RunsKeeps DEF FabricInv
      <2> QED BY <1>1, <1>6, <2>1, <2>2, <2>4, <2>5 DEF FabricInv, OnFabric
<1>7. CASE item' = [item EXCEPT ![u.step] = [code |-> u.by, def |-> u.by]] /\ calls' = calls
      <2>1. [code |-> u.by, def |-> u.by] \in [code: Version, def: Version]
            BY <1>1 DEF Version
      <2>2. item' \in Item /\ item'[u.step].code = u.by /\ item'[u.step].def = u.by
            /\ \A s \in Step: s # u.step => item'[s] = item[s]
            BY <1>1, <1>7, <2>1 DEF Item
      <2>3. \A v \in updates': Sent(v)'
            BY <1>1, <1>7 DEF FabricInv, FabricItems, Sent, Current
      <2>4. ASSUME NEW d \in Caller
            PROVE  Known(d)'
            <3> SUFFICES ASSUME ~calls[d].mixed
                         PROVE  /\ calls[d].label = "submit" => item'[Current(d)].def = d
                                /\ calls[d].label = "operation" =>
                                      (\E v \in updates': v.by = d) \/ item'[Current(d)].def = d
                BY <1>1, <1>7 DEF Known, Current
            <3>1. CASE d = u.by
                  <4>1. calls[d].label # "submit" /\ (calls[d].label = "operation" => u.step = Current(d))
                        BY <1>1, <3>1 DEF Sent
                  <4> QED BY <2>2, <3>1, <4>1
            <3>2. CASE d # u.by
                  <4>1. ~Busy(calls[d])
                        BY <3>2 DEF FabricInv, Meet, About
                  <4> QED BY <4>1 DEF Busy
            <3> QED BY <3>1, <3>2
      <2>5. \A s \in Step: item'[s].code = item'[s].def
            BY <2>2 DEF FabricInv, FabricItems
      <2>6. FabricItems'
            BY <2>3, <2>4, <2>5 DEF FabricItems
      <2>7. Mixing /\ \A d \in Caller: Alike(d)
            BY <1>7 DEF Mixing, Alike
      <2> QED BY <1>1, <1>6, <1>7, <2>2, <2>6, <2>7
<1>8. CASE calls' = [calls EXCEPT ![u.by].mixed = TRUE] /\ item' = item
      <2>1. PICK y: y = [calls[u.by] EXCEPT !.mixed = TRUE]
            OBVIOUS
      <2>2. /\ y \in Call /\ y.mixed /\ y.label = calls[u.by].label /\ y.exec = calls[u.by].exec
            /\ y.at = calls[u.by].at /\ y.job = calls[u.by].job /\ y.since = calls[u.by].since
            /\ y.ok = calls[u.by].ok /\ y.seen = calls[u.by].seen /\ y.verdict = calls[u.by].verdict
            <3>1. calls[u.by] \in Call /\ TRUE \in BOOLEAN
                  BY <1>1
            <3>2. y.mixed = TRUE
                  BY <2>1, <3>1, Marked
            <3>3. /\ y \in Call /\ y.label = calls[u.by].label /\ y.exec = calls[u.by].exec
                  /\ y.at = calls[u.by].at /\ y.job = calls[u.by].job /\ y.since = calls[u.by].since
                  /\ y.ok = calls[u.by].ok /\ y.seen = calls[u.by].seen /\ y.verdict = calls[u.by].verdict
                  BY <2>1, <3>1 DEF Call
            <3> QED BY <3>2, <3>3
      <2>3. calls' = [calls EXCEPT ![u.by] = y]
            BY <1>1, <1>8, <2>1
      <2>4. Others(u.by) /\ calls'[u.by] = y
            BY <1>1, <2>2, <2>3, Moved
      <2>5. Mixing /\ (\A d \in Caller: Alike(d)) /\ calls' \in [Caller -> Call]
            BY <2>2, <2>4 DEF Mixing, Alike, Others
      <2>6. \A v \in updates': Sent(v)'
            <3> SUFFICES ASSUME NEW v \in updates'
                         PROVE  Sent(v)'
                OBVIOUS
            <3>1. v \in updates /\ Sent(v) /\ v.by \in Caller
                  BY <1>1, <1>4 DEF FabricInv, FabricItems
            <3>2. Alike(v.by)
                  BY <2>5, <3>1
            <3> QED BY <1>1, <3>1, <3>2 DEF Sent, Alike, Current
      <2>7. ASSUME NEW d \in Caller
            PROVE  Known(d)'
            <3>1. CASE d = u.by
                  BY <2>2, <2>4, <3>1 DEF Known
            <3>2. CASE d # u.by
                  <4>1. Busy(calls[d]) => calls[d].mixed
                        BY <3>2 DEF FabricInv, Meet, About
                  <4> QED BY <2>4, <3>2, <4>1 DEF Known, Busy, Others
            <3> QED BY <3>1, <3>2
      <2>8. FabricItems'
            BY <1>8, <2>6, <2>7 DEF FabricInv, FabricItems
      <2> QED BY <1>1, <1>6, <1>8, <2>5, <2>8
<1> QED BY <1>2, <1>7, <1>8

LEMMA FabricKeeps ==
    ASSUME FabricInv, OnFabric, Next
    PROVE  FabricInv' /\ OnFabric'
<1>0. Loop
      BY DEF OnFabric, Loop
<1>1. ASSUME NEW c \in Caller, FabricStep(c)
      PROVE  FabricInv' /\ OnFabric'
      <2>1. (jobs' # jobs /\ ~calls[c].mixed) => item[Current(c)].code = c /\ item[Current(c)].def = c
            BY <1>1, AtFacts DEF FabricInv, FabricItems, Known, FabricStep
      <2> QED BY <1>0, <1>1, <2>1, LoopHolds DEF FabricInv, FabricStep, OnFabric
<1>2. ASSUME NEW c \in Caller, Fabric!Start(c)
      PROVE  FabricInv' /\ OnFabric'
      <2>1. /\ LoopBegins(c) /\ project' = project /\ machine' = machine /\ item' = item /\ updates' = updates
            /\ Begun(c, "look", Len(execs) + 1)
            BY <1>2, FabricStarts
      <2>2. Typed' /\ Meet' /\ LoopInv' /\ RunsWhatItDeployed' /\ Mixing
            BY <1>0, <2>1, LoopOpens DEF FabricInv, Walking
      <2>3. FabricItems'
            <3>1. \A d \in Caller: calls'[d].label # calls[d].label => calls'[d].label = "look" /\ d = c
                  BY <2>1 DEF Begun
            <3>2. \A d \in Caller: calls'[d].at = calls[d].at /\ (~calls'[d].mixed => ~calls[d].mixed)
                  BY <2>1, <2>2 DEF Begun, Mixing
            <3>3. ASSUME NEW d \in Caller
                  PROVE  Known(d)'
                  BY <2>1, <3>1, <3>2 DEF FabricInv, FabricItems, Known, Current
            <3>4. ASSUME NEW u \in updates'
                  PROVE  Sent(u)'
                  <4>1. u \in updates /\ u.by \in Caller /\ Sent(u) /\ u.by # c
                        BY <2>1 DEF FabricInv, FabricItems, Typed, Sent, LoopBegins
                  <4> QED BY <2>1, <3>1, <3>2, <4>1 DEF Sent, Current
            <3> QED BY <2>1, <3>3, <3>4 DEF FabricInv, FabricItems
      <2> QED BY <2>1, <2>2, <2>3 DEF FabricInv, OnFabric
<1>3. ASSUME NEW u \in updates, Fabric!OperationEnds(u)
      PROVE  FabricInv' /\ OnFabric'
      BY <1>3, FabricServes
<1>4. ASSUME NEW j \in DOMAIN jobs, JobEnds(j)
      PROVE  FabricInv' /\ OnFabric'
      <2>1. /\ Typed' /\ Meet' /\ LoopInv' /\ RunsWhatItDeployed'
            /\ project' = project /\ item' = item /\ updates' = updates /\ calls' = calls
            BY <1>0, <1>4, LoopWaits DEF FabricInv
      <2>2. FabricItems'
            BY <2>1 DEF FabricInv, FabricItems, Known, Sent, Current
      <2> QED BY <2>1, <2>2 DEF FabricInv, OnFabric
<1> QED BY <1>1, <1>2, <1>3, <1>4, FabricCases

-----------------------------------------------------------------------------
(* Glue: what a job is started from. *)

OnGlue == project.driver = "glue"

\* A call that meets nobody finds what it published and registered.
Registered(c) ==
    ~calls[c].mixed =>
        /\ calls[c].label \in {"lookup", "create", "update", "start"} => item[Current(c)].code = c
        /\ calls[c].label = "start" => item[Current(c)].def = c

GlueInv == updates = {} /\ Typed /\ Meet /\ LoopInv /\ RunsWhatItDeployed /\ \A c \in Caller: Registered(c)

GlueStep(c) ==
    /\ LoopStep(c) /\ Busy(calls[c]) /\ Others(c) /\ Stays(c)
    /\ execs' = execs /\ project' = project /\ machine' = machine /\ updates' = updates
    /\ item' \in Item
    /\ Registered(c)'
    /\ jobs' = jobs \/ calls[c].label = "start"
    /\ calls'[c].at \in project.from..Len(project.order)

LEMMA GlueCases ==
    ASSUME OnGlue, updates = {}, Next
    PROVE  \/ \E c \in Caller: Glue!Start(c) \/ Glue!Publish(c) \/ Glue!Lookup(c) \/ Glue!Register(c)
                               \/ Glue!RegisterMachine(c) \/ Glue!StartJob(c) \/ Glue!Wait(c)
                               \/ End(c) \/ Raise(c)
           \/ \E j \in DOMAIN jobs: JobEnds(j)
<1>1. ASSUME Workflows!Next
      PROVE  FALSE
      BY <1>1 DEF OnGlue, Workflows!Next, Workflows!Start, Workflows!Continue, Workflows!Proceed,
         Workflows!Insert, Workflows!Look, Workflows!ExecutionRaises, Workflows!On
<1>2. ASSUME NEW c \in Caller, Fabric!Start(c) \/ Fabric!Continue(c)
      PROVE  FALSE
      BY <1>2 DEF OnGlue, Fabric!Start, Fabric!Continue, Fabric!Blocked, Fabric!Look, Fabric!Create,
         Fabric!Update, Fabric!Send, Fabric!PollOperation, Fabric!Submit, Fabric!Wait, Fabric!At
<1>3. ASSUME Tasks!Next
      PROVE  FALSE
      BY <1>3 DEF OnGlue, Tasks!Next, Tasks!Enable, Tasks!Scheduled, Tasks!Start, Tasks!Continue,
         Tasks!ExecutionEnds, Tasks!StartTask, Tasks!Publish, Tasks!Suspend, Tasks!Create, Tasks!Clock,
         Tasks!Resume, Tasks!Execute, Tasks!Watch, Tasks!At
<1>4. ASSUME NEW c \in Caller, Glue!Continue(c)
      PROVE  \/ Glue!Publish(c) \/ Glue!Lookup(c) \/ Glue!Register(c) \/ Glue!StartJob(c) \/ Glue!Wait(c)
             \/ End(c) \/ Glue!RegisterMachine(c)
      <2>1. Glue!End(c) => End(c)
            BY DEF Glue!End, End, Glue!Finish, Finish, Glue!service, service
      <2> QED BY <1>4, <2>1 DEF OnGlue, Glue!Continue, Glue!FindMachine, Glue!Execute, Glue!Watch, Glue!At
<1>5. Glue!Next => \E c \in Caller: Glue!Start(c) \/ Glue!Continue(c)
      BY DEF OnGlue, Glue!Next, Glue!Scheduled, Glue!ExecutionEnds, Glue!StartTask
<1>6. ~Fabric!Next
      BY <1>2 DEF Fabric!Next
<1> QED BY <1>1, <1>3, <1>4, <1>5, <1>6 DEF Next

LEMMA GlueStarts ==
    ASSUME GlueInv, OnGlue, NEW c \in Caller, Glue!Start(c)
    PROVE  /\ LoopBegins(c) /\ project' = project /\ machine' = machine /\ item' = item /\ updates' = updates
           /\ Begun(c, "publish", Len(execs) + 1)
<1> USE DEF service, Glue!service, OnGlue
<1>1. calls \in [Caller -> Call] /\ Len(execs) + 1 \in Nat
      BY DEF GlueInv, Typed
<1>2. Begin(c, "publish", Len(execs) + 1)
      BY DEF Glue!Start, Glue!Begin, Begin, Glue!Active, Active, Glue!Running, Running
<1>3. Begun(c, "publish", Len(execs) + 1) /\ calls[c].label = "idle"
      BY <1>1, <1>2, BeginBegins DEF Label
<1> QED BY <1>3 DEF LoopBegins, Walking, Glue!Start, Glue!NewExec, NewExec

\* A call on the way from the artifacts to the job, or one that gives up.
LEMMA GlueWalks ==
    ASSUME GlueInv, OnGlue, NEW c \in Caller, Busy(calls[c]),
           project' = project, machine' = machine, updates' = updates, execs' = execs, jobs' = jobs, item' \in Item,
           \/ calls[c].label \in Walking /\ \E label \in Walking: Goes(c, label)
           \/ calls[c].label = "wait" /\ Goes(c, "wait")
           \/ Finishes(c, "raised"),
           Registered(c)'
    PROVE  GlueStep(c)
<1>1. LoopWalks(c) \/ LoopRaises(c)
      BY DEF LoopWalks, LoopRaises
<1>2. Others(c) /\ Stays(c) /\ calls'[c].at = calls[c].at
      BY DEF Goes, Finishes, Kept, Stays
<1> QED BY <1>1, <1>2 DEF GlueStep, LoopStep, GlueInv, Typed

LEMMA GlueRaises ==
    ASSUME GlueInv, OnGlue, NEW c \in Caller, Raise(c)
    PROVE  GlueStep(c)
<1>1. calls \in [Caller -> Call] /\ item \in Item
      BY DEF GlueInv, Typed, Item
<1>2. /\ project' = project /\ machine' = machine /\ item' = item /\ updates' = updates /\ execs' = execs
      /\ jobs' = jobs
      BY DEF Raise, service
<1>3. Finishes(c, "raised") /\ Busy(calls[c])
      BY <1>1, FinishFinishes DEF Raise, Active, Busy
<1>4. Registered(c)'
      BY <1>3 DEF Finishes, Registered
<1> QED BY <1>1, <1>2, <1>3, <1>4, GlueWalks

LEMMA GluePublishes ==
    ASSUME GlueInv, OnGlue, NEW c \in Caller,
           Glue!Publish(c) \/ Glue!Lookup(c) \/ Glue!Register(c) \/ Glue!RegisterMachine(c)
    PROVE  GlueStep(c)
<1> USE DEF service, Glue!service
<1>1. /\ calls \in [Caller -> Call] /\ Current(c) \in Step /\ item \in Item /\ c \in Version
      /\ item[Current(c)] \in [code: Version, def: Version]
      BY AtFacts DEF GlueInv, Typed, Item, Version
<1>2. CASE Glue!Publish(c)
      <2> DEFINE x == [item[Current(c)] EXCEPT !.code = c]
      <2>1. /\ project' = project /\ machine' = machine /\ updates' = updates /\ execs' = execs /\ jobs' = jobs
            /\ calls[c].label = "publish" /\ Goto(c, "lookup")
            /\ item' = [item EXCEPT ![Current(c)] = x]
            BY <1>2 DEF Glue!Publish, Glue!Goto, Goto, Glue!Current, Current
      <2>2. x \in [code: Version, def: Version] /\ x.code = c
            BY <1>1
      <2> HIDE DEF x
      <2>3. item' \in Item /\ item'[Current(c)] = x
            BY <1>1, <2>1, <2>2 DEF Item
      <2>4. Goes(c, "lookup")
            BY <1>1, <2>1, GotoGoes DEF Label
      <2>5. Registered(c)'
            BY <2>1, <2>2, <2>3, <2>4 DEF Registered, Goes, Kept, Current
      <2> QED BY <2>1, <2>3, <2>4, <2>5, GlueWalks DEF Walking, Busy
<1>3. CASE Glue!Lookup(c)
      <2>1. /\ project' = project /\ machine' = machine /\ updates' = updates /\ execs' = execs /\ jobs' = jobs
            /\ calls[c].label = "lookup" /\ item' = item
            /\ Goto(c, "create") \/ Goto(c, "update")
            BY <1>3 DEF Glue!Lookup, Glue!Goto, Goto
      <2>2. Goes(c, "create") \/ Goes(c, "update")
            BY <1>1, <2>1, GotoGoes DEF Label
      <2>3. Registered(c)'
            BY <2>1, <2>2 DEF GlueInv, Registered, Goes, Kept, Current
      <2> QED BY <1>1, <2>1, <2>2, <2>3, GlueWalks DEF Walking, Busy
<1>4. CASE Glue!Register(c)
      <2>1. /\ project' = project /\ machine' = machine /\ updates' = updates /\ execs' = execs /\ jobs' = jobs
            /\ calls[c].label \in {"create", "update"}
            BY <1>4 DEF Glue!Register
      <2>2. CASE Finish(c, "raised") /\ item' = item
            <3>1. Finishes(c, "raised")
                  BY <1>1, <2>2, FinishFinishes
            <3>2. Registered(c)'
                  BY <3>1 DEF Finishes, Registered
            <3> QED BY <1>1, <2>1, <2>2, <3>1, <3>2, GlueWalks DEF Busy
      <2>3. CASE item' = [item EXCEPT ![Current(c)].def = c] /\ Goto(c, "start")
            <3> DEFINE x == [item[Current(c)] EXCEPT !.def = c]
            <3>1. item' = [item EXCEPT ![Current(c)] = x]
                  BY <2>3
            <3>2. x \in [code: Version, def: Version] /\ x.def = c /\ x.code = item[Current(c)].code
                  BY <1>1
            <3> HIDE DEF x
            <3>3. item' \in Item /\ item'[Current(c)] = x
                  BY <1>1, <3>1, <3>2 DEF Item
            <3>4. Goes(c, "start")
                  BY <1>1, <2>3, GotoGoes DEF Label
            <3>5. Registered(c)'
                  BY <2>1, <3>2, <3>3, <3>4 DEF GlueInv, Registered, Goes, Kept, Current
            <3> QED BY <2>1, <3>3, <3>4, <3>5, GlueWalks DEF Walking, Busy
      <2> QED BY <1>4, <2>2, <2>3 DEF OnGlue, Glue!Register, Glue!Goto, Goto, Glue!Finish, Finish,
                                      Glue!Current, Current
<1>5. CASE Glue!RegisterMachine(c)
      BY <1>5 DEF Glue!RegisterMachine, GlueInv, LoopInv, Loops, Walking
<1> QED BY <1>2, <1>3, <1>4, <1>5

\* The end of a job with which Glue goes on.
GlueAccepts(s, state) == state = "succeeded" \/ (project.expects[s] = "FAILED" /\ state = "failed")

\* The next step, or the end of the loop.
LEMMA GluePasses ==
    ASSUME GlueInv, OnGlue, NEW c \in Caller, NextStep(c, "publish", "end"),
           project' = project, machine' = machine, updates' = updates, execs' = execs, item' = item,
           \/ /\ calls[c].label = "wait" /\ jobs' = jobs
              /\ GlueAccepts(Current(c), jobs[calls[c].job].state)
           \/ calls[c].label = "start" /\ ~project.wait /\ Submits(c)
    PROVE  GlueStep(c)
<1>1. PICK n \in DOMAIN project.order: n = calls[c].at /\ project.order[n] = Current(c) /\ n \in Nat
      BY AtFacts DEF Current, GlueInv
<1>2. Advances(c, "publish", "end")
      BY NextStepAdvances DEF GlueInv, Label
<1>3. Others(c) /\ Stays(c) /\ (calls'[c].ok => calls[c].ok) /\ calls'[c].label \in {"publish", "end"}
      BY <1>2 DEF Advances, Turns, Stays
<1>4. Passed(c, n)'
      <2>1. CASE calls[c].label = "wait"
            <3> PICK e, s: e = calls[c].exec /\ s = project.order[n]
                OBVIOUS
            <3>1. calls[c].job \in Of(e, s, "write") /\ project.wait
                  BY <1>1, <2>1 DEF GlueInv, LoopInv, Loops, AwaitsItsOwn
            <3>2. jobs' = jobs /\ GlueAccepts(s, jobs[calls[c].job].state)
                  BY <1>1, <2>1
            <3>3. calls[c].job \in Of(e, s, "write")'
                  BY <3>1, <3>2 DEF Of
            <3>4. project.expects[s] = "SUCCEEDED" \/ project.expects[s] = "FAILED"
                  BY AtFacts, <1>1, ProjectsAssumption DEF GlueInv, Typed, OnGlue
            <3>5. AsExpected(e, s)'
                  BY <3>2, <3>3, <3>4 DEF AsExpected, GlueAccepts, OnGlue
            <3>6. AsExpected(calls[c].exec, project.order[n])'
                  BY <1>3, <3>5 DEF AsExpected, Of, Stays
            <3> QED BY <3>6 DEF Passed, OnGlue
      <2>2. CASE calls[c].label = "start" /\ ~project.wait /\ Submits(c)
            <3>1. \E k \in DOMAIN jobs': jobs'[k].exec = calls[c].exec /\ jobs'[k].step = Current(c)
                                         /\ jobs'[k].kind = "write"
                  BY <2>2, SubmitsAJob DEF GlueInv, Typed
            <3> QED BY <1>1, <1>3, <2>2, <3>1 DEF Passed, OnGlue, Of, Stays
      <2> QED BY <2>1, <2>2
<1>5. \/ calls[c].label = "wait" /\ jobs[calls[c].job].state # "running" /\ jobs' = jobs
      \/ calls[c].label \in Walking /\ ~project.wait /\ Submits(c)
      BY DEF GlueAccepts, Walking
<1>6. LoopPasses(c)
      BY <1>1, <1>2, <1>3, <1>4, <1>5 DEF LoopPasses, Advances, Turns, OnGlue, Walking
<1>7. Registered(c)'
      BY <1>3 DEF Registered
<1>8. calls'[c].at \in project.from..Len(project.order)
      BY <1>2, AtFacts DEF GlueInv, Advances, Turns
<1>9. Busy(calls[c]) /\ item' \in Item
      BY DEF Busy, GlueInv, Typed, Item
<1> QED BY <1>3, <1>6, <1>7, <1>8, <1>9 DEF GlueStep, LoopStep

LEMMA GlueSubmits ==
    ASSUME GlueInv, OnGlue, NEW c \in Caller, Glue!StartJob(c)
    PROVE  GlueStep(c)
<1> USE DEF service, Glue!service
<1>1. /\ calls \in [Caller -> Call] /\ Current(c) \in Step /\ item \in Item /\ calls[c] \in Call
      /\ calls[c].at \in project.from..Len(project.order)
      BY AtFacts DEF GlueInv, Typed, Item
<1>2. /\ project' = project /\ machine' = machine /\ updates' = updates /\ execs' = execs /\ item' = item
      /\ calls[c].label = "start" /\ calls[c].label \in Walking /\ Busy(calls[c])
      BY DEF Glue!StartJob, Glue!At, Walking, Busy
<1>3. CASE Poll(c) /\ jobs' = jobs
      <2>1. Goes(c, "start") \/ Finishes(c, "raised")
            BY <1>1, <1>2, <1>3, PollPolls
      <2>2. Registered(c)'
            BY <1>2, <2>1 DEF GlueInv, Registered, Goes, Kept, Finishes, Current
      <2> QED BY <1>1, <1>2, <1>3, <2>1, <2>2, GlueWalks DEF Walking
<1>4. CASE /\ jobs' = Append(jobs, NewJob(calls[c].exec, Current(c), "write"))
           /\ \/ /\ project.wait
                 /\ calls' = [calls EXCEPT ![c] = [calls[c] EXCEPT !.label = "wait", !.job = Len(jobs) + 1,
                                                                  !.polls = 0]]
              \/ ~project.wait /\ NextStep(c, "publish", "end")
              \/ Finish(c, "raised")
      <2>1. calls[c].exec \in DOMAIN execs /\ "write" \in Op
            BY <1>2 DEF GlueInv, LoopInv, Loops, Typed, Op
      <2>2. Submits(c)
            BY <1>1, <1>4, <2>1, NewJobs DEF Submits, GlueInv
      <2>3. CASE Finish(c, "raised")
            <3>1. Finishes(c, "raised")
                  BY <1>1, <2>3, FinishFinishes
            <3>2. LoopRaises(c) /\ Others(c) /\ Stays(c) /\ Registered(c)'
                  BY <1>2, <2>2, <3>1 DEF LoopRaises, Finishes, Stays, Registered
            <3> QED BY <1>1, <1>2, <3>1, <3>2 DEF GlueStep, LoopStep, Finishes
      <2>4. CASE ~project.wait /\ NextStep(c, "publish", "end")
            BY <1>2, <2>2, <2>4, GluePasses
      <2>5. CASE project.wait
                 /\ calls' = [calls EXCEPT ![c] = [calls[c] EXCEPT !.label = "wait", !.job = Len(jobs) + 1,
                                                                 !.polls = 0]]
            <3> DEFINE n == Len(jobs) + 1
                       y == [calls[c] EXCEPT !.label = "wait", !.job = n, !.polls = 0]
            <3>1. n \in Nat
                  BY DEF GlueInv, Typed
            <3>2. calls' = [calls EXCEPT ![c] = y]
                  BY <2>5
            <3> HIDE DEF n
            <3>3. /\ y \in Call /\ y.label = "wait" /\ y.job = n /\ y.exec = calls[c].exec /\ y.at = calls[c].at
                  /\ y.ok = calls[c].ok /\ y.mixed = calls[c].mixed /\ y.verdict = calls[c].verdict
                  BY <1>1, <3>1 DEF Call, Label
            <3> HIDE DEF y
            <3>4. Others(c) /\ calls'[c] = y
                  BY <1>1, <3>2, <3>3, Moved
            <3>5. Stays(c) /\ Registered(c)'
                  BY <3>3, <3>4 DEF Stays, Registered
            <3>6. LoopSubmits(c)
                  BY <1>2, <2>2, <2>5, <3>3, <3>4, <3>5 DEF LoopSubmits, n
            <3> QED BY <1>1, <1>2, <3>3, <3>4, <3>5, <3>6 DEF GlueStep, LoopStep
      <2> QED BY <1>4, <2>3, <2>4, <2>5
<1>5. \/ Poll(c) /\ jobs' = jobs
      \/ /\ jobs' = Append(jobs, NewJob(calls[c].exec, Current(c), "write"))
         /\ \/ /\ project.wait
               /\ calls' = [calls EXCEPT ![c] = [calls[c] EXCEPT !.label = "wait", !.job = Len(jobs) + 1,
                                                                !.polls = 0]]
            \/ ~project.wait /\ NextStep(c, "publish", "end")
            \/ Finish(c, "raised")
      BY DEF Glue!StartJob, Glue!Finish, Finish, Glue!NewJob, NewJob, Glue!Current, Current, Glue!Poll, Poll,
         Glue!NextStep, NextStep
<1> QED BY <1>3, <1>4, <1>5

LEMMA GlueWaits ==
    ASSUME GlueInv, OnGlue, NEW c \in Caller, Glue!Wait(c)
    PROVE  GlueStep(c)
<1> USE DEF service, Glue!service
<1>1. calls \in [Caller -> Call] /\ item \in Item
      BY DEF GlueInv, Typed, Item
<1>2. /\ project' = project /\ machine' = machine /\ item' = item /\ updates' = updates /\ execs' = execs
      /\ jobs' = jobs /\ calls[c].label = "wait" /\ Busy(calls[c])
      BY DEF Glue!Wait, Glue!At, Busy
<1> DEFINE state == jobs[calls[c].job].state
<1>3. state \in {"running", "succeeded", "failed"}
      <2>1. calls[c].job \in DOMAIN jobs
            BY <1>2 DEF GlueInv, LoopInv, Loops, AwaitsItsOwn, Of
      <2>2. jobs[calls[c].job] \in Job
            BY <2>1 DEF GlueInv, Typed
      <2> QED BY <2>2 DEF Job
<1>4. CASE Poll(c) \/ Finish(c, "raised")
      <2>1. Goes(c, "wait") \/ Finishes(c, "raised")
            BY <1>1, <1>2, <1>4, PollPolls, FinishFinishes
      <2>2. Registered(c)'
            BY <2>1 DEF Registered, Goes, Finishes
      <2> QED BY <1>1, <1>2, <2>1, <2>2, GlueWalks
<1>5. CASE NextStep(c, "publish", "end") /\ GlueAccepts(Current(c), state)
      BY <1>2, <1>5, GluePasses
<1>6. \/ Poll(c) \/ Finish(c, "raised")
      \/ NextStep(c, "publish", "end") /\ GlueAccepts(Current(c), state)
      <2>1. CASE state = "running"
            BY <2>1 DEF Glue!Wait, Glue!Poll, Poll, Glue!Finish, Finish
      <2>2. CASE state = "succeeded"
            BY <2>2 DEF Glue!Wait, Glue!NextStep, NextStep, GlueAccepts
      <2>3. CASE state = "failed"
            BY <2>3 DEF Glue!Wait, Glue!NextStep, NextStep, Glue!Finish, Finish, Glue!Current, Current, GlueAccepts
      <2> QED BY <1>3, <2>1, <2>2, <2>3
<1> QED BY <1>4, <1>5, <1>6

LEMMA GlueEnds ==
    ASSUME GlueInv, OnGlue, NEW c \in Caller, End(c)
    PROVE  GlueStep(c)
<1>1. calls \in [Caller -> Call] /\ item \in Item /\ "SUCCEEDED" \in {"none", "raised"} \cup StepStatus
      BY DEF GlueInv, Typed, Item, StepStatus
<1>2. /\ project' = project /\ machine' = machine /\ item' = item /\ updates' = updates /\ execs' = execs
      /\ jobs' = jobs /\ calls[c].label = "end" /\ Finish(c, "SUCCEEDED")
      BY DEF End, service
<1>3. Finishes(c, "SUCCEEDED") /\ Busy(calls[c])
      BY <1>1, <1>2, FinishFinishes DEF Busy
<1>4. LoopEnds(c) /\ Others(c) /\ Stays(c) /\ Registered(c)' /\ calls'[c].at = calls[c].at
      BY <1>2, <1>3 DEF LoopEnds, Finishes, Stays, Registered
<1> QED BY <1>1, <1>2, <1>3, <1>4 DEF GlueStep, LoopStep, GlueInv, Typed

LEMMA GlueKeeps ==
    ASSUME GlueInv, OnGlue, Next
    PROVE  GlueInv' /\ OnGlue'
<1>0. Loop /\ updates = {}
      BY DEF OnGlue, Loop, GlueInv
<1>1. ASSUME NEW c \in Caller, GlueStep(c)
      PROVE  GlueInv' /\ OnGlue'
      <2>1. (jobs' # jobs /\ ~calls[c].mixed) => item[Current(c)].code = c /\ item[Current(c)].def = c
            BY <1>1, AtFacts DEF GlueInv, Registered, GlueStep
      <2>2. Typed' /\ Meet' /\ LoopInv' /\ RunsWhatItDeployed'
            BY <1>0, <1>1, <2>1, LoopHolds DEF GlueInv, GlueStep
      <2>3. ASSUME NEW d \in Caller
            PROVE  Registered(d)'
            <3>1. d # c => (Busy(calls[d]) => calls[d].mixed)
                  BY <1>1 DEF GlueInv, Meet, About, GlueStep
            <3> QED BY <1>1, <3>1 DEF GlueStep, Others, Busy, Registered
      <2> QED BY <1>0, <1>1, <2>2, <2>3 DEF GlueInv, GlueStep, OnGlue
<1>2. ASSUME NEW c \in Caller, Glue!Start(c)
      PROVE  GlueInv' /\ OnGlue'
      <2>1. /\ LoopBegins(c) /\ project' = project /\ machine' = machine /\ item' = item /\ updates' = updates
            /\ Begun(c, "publish", Len(execs) + 1)
            BY <1>2, GlueStarts
      <2>2. Typed' /\ Meet' /\ LoopInv' /\ RunsWhatItDeployed' /\ Mixing
            BY <1>0, <2>1, LoopOpens DEF GlueInv, Walking
      <2>3. \A d \in Caller: calls'[d].label # calls[d].label => calls'[d].label = "publish" /\ d = c
            BY <2>1 DEF Begun
      <2>4. \A d \in Caller: calls'[d].at = calls[d].at /\ (~calls'[d].mixed => ~calls[d].mixed)
            BY <2>1, <2>2 DEF Begun, Mixing
      <2>5. \A d \in Caller: Registered(d)'
            BY <2>1, <2>3, <2>4 DEF GlueInv, Registered, Current
      <2> QED BY <1>0, <2>1, <2>2, <2>5 DEF GlueInv, OnGlue
<1>3. ASSUME NEW j \in DOMAIN jobs, JobEnds(j)
      PROVE  GlueInv' /\ OnGlue'
      <2>1. /\ Typed' /\ Meet' /\ LoopInv' /\ RunsWhatItDeployed'
            /\ project' = project /\ item' = item /\ updates' = updates /\ calls' = calls
            BY <1>0, <1>3, LoopWaits DEF GlueInv
      <2> QED BY <2>1 DEF GlueInv, Registered, Current, OnGlue
<1> QED BY <1>0, <1>1, <1>2, <1>3, GlueCases, GlueRaises, GluePublishes, GlueSubmits, GlueWaits, GlueEnds

-----------------------------------------------------------------------------
(* Step Functions and Snowflake tasks, where the service goes through the   *)
(* steps of what a call has deployed.                                       *)

Served == project.driver \in {"states", "tasks"}

Preparing ==
    {"publish", "lookup", "create", "update", "find", "create_machine", "update_machine", "execute",
     "suspend", "clock", "resume"}

\* The labels at which all that a call deploys is there.
Deployed == {"find", "create_machine", "update_machine", "execute", "clock", "resume"}

Runs(c) == calls[c].label \in Deployed \/ Running(calls[c].exec)

CodeIsOwn(c) ==
    \A i \in DOMAIN project.order:
        (\/ calls[c].label = "publish" /\ i < calls[c].at
         \/ calls[c].label \in {"lookup", "update"} /\ i <= calls[c].at
         \/ calls[c].label = "create" /\ (i <= calls[c].at \/ project.driver = "tasks")
         \/ calls[c].label = "suspend"
         \/ Runs(c))
        => item[project.order[i]].code = c

DefinitionIsOwn(c) ==
    \A i \in DOMAIN project.order:
        (\/ project.driver = "states" /\ calls[c].label \in {"publish", "lookup", "create", "update"}
            /\ i < calls[c].at
         \/ project.driver = "tasks" /\ calls[c].label = "create" /\ i < calls[c].at
         \/ Runs(c))
        => item[project.order[i]].def = c

\* A call that meets nobody finds what it deployed, as far as it has come, and
\* so does its execution.
DeploysItsOwn(c) == ~calls[c].mixed => CodeIsOwn(c) /\ DefinitionIsOwn(c)

AllSucceeded(e) == \A s \in Steps: Succeeded(e, s, "write")

Serves(c) ==
    /\ calls[c].label \in Preparing \cup {"idle", "watch", "end", "done"}
    /\ calls[c].label \in Preparing \cup {"idle"} => calls[c].exec = 0
    /\ calls[c].label = "watch" => calls[c].exec # 0
    /\ calls[c].label = "end" => calls[c].exec = 0 \/ ~project.wait
    /\ calls[c].label = "idle" => calls[c].at = 1
    /\ calls[c].label = "done" => calls[c].verdict \in {"raised", "SUCCEEDED", "FAILED"}
    /\ calls[c].label = "done" /\ calls[c].verdict = "FAILED" => project.driver = "tasks"
    /\ calls[c].exec # 0 => execs[calls[c].exec].by = c
    /\ (Waited(c) /\ calls[c].verdict = "SUCCEEDED") => AllSucceeded(calls[c].exec) \/ OthersMeet(c)
    /\ DeploysItsOwn(c)

\* A step has one job in an execution.
OneEach ==
    /\ \A j \in DOMAIN jobs: jobs[j].kind = "write" /\ jobs[j].step \in Steps
    /\ \A j, k \in DOMAIN jobs: jobs[j].exec = jobs[k].exec /\ jobs[j].step = jobs[k].step => j = k

Executes(e) ==
    /\ execs[e].by # None => calls[execs[e].by].exec = e
    /\ project.driver = "states" => execs[e].label \in {"running", "succeeded", "failed"}
    /\ execs[e].label = "succeeded" => AllSucceeded(e)

ServedInv ==
    /\ updates = {} /\ Typed /\ Meet /\ RunsWhatItDeployed /\ OneEach
    /\ \A e \in DOMAIN execs: Executes(e)
    /\ \A c \in Caller: Serves(c)

LEMMA FromTheFirst ==
    ASSUME project \in Projects, Served
    PROVE  project.from = 1 /\ (\A s \in Step: project.expects[s] = "SUCCEEDED") /\ "cleanup_data" \notin project.flags
           /\ project.driver # "workflows" /\ Selected = Steps
<1>1. /\ project.from = 1 /\ (\A s \in Step: project.expects[s] = "SUCCEEDED") /\ "cleanup_data" \notin project.flags
      /\ project.driver # "workflows"
      BY ProjectsAssumption DEF Served
<1> QED BY <1>1, OrderFacts DEF Selected, Steps

LEMMA ServedHolds ==
    ASSUME ServedInv, Served
    PROVE  SuccessIsOurs /\ NothingRunsAfterAVerdict /\ RunsWhatItDeployed
<1>1. /\ project.driver # "workflows" /\ Selected = Steps /\ "cleanup_data" \notin project.flags
      /\ \A s \in Steps: project.expects[s] = "SUCCEEDED"
      <2>1. Steps \subseteq Step
            BY OrderFacts DEF ServedInv, Typed, Steps
      <2> QED BY <2>1, FromTheFirst DEF ServedInv, Typed
<1>2. SuccessIsOurs
      <2>1. \A e: \A s \in Steps: Succeeded(e, s, "write") => AsExpected(e, s)
            BY <1>1 DEF Succeeded, AsExpected
      <2> QED BY <1>1, <2>1 DEF ServedInv, Serves, SuccessIsOurs, AllSucceeded, Waited, Served
<1>3. NothingRunsAfterAVerdict
      <2> SUFFICES ASSUME NEW c \in Caller, Waited(c),
                          ~(project.driver = "tasks" /\ (calls[c].verdict = "FAILED" \/ OthersMeet(c))),
                          NEW j \in DOMAIN jobs, jobs[j].exec = calls[c].exec
                   PROVE  ~Live(j)
          BY <1>1 DEF NothingRunsAfterAVerdict
      <2>1. calls[c].verdict = "SUCCEEDED"
            BY DEF ServedInv, Serves, Waited, Returned
      <2>2. AllSucceeded(calls[c].exec) /\ jobs[j].step \in Steps
            BY <2>1 DEF ServedInv, Serves, OneEach, OthersMeet
      <2>3. PICK k \in Of(calls[c].exec, jobs[j].step, "write"): jobs[k].state = "succeeded"
            BY <2>2 DEF AllSucceeded, Succeeded
      <2>4. k = j
            BY <2>3 DEF ServedInv, OneEach, Of
      <2> QED BY <2>3, <2>4 DEF Live
<1> QED BY <1>2, <1>3 DEF ServedInv

\* What a step of a call comes to.
ServedStep(c) ==
    /\ Busy(calls[c]) /\ Others(c) /\ calls'[c].label # "idle" /\ calls'[c].mixed = calls[c].mixed
    /\ jobs' = jobs /\ updates' = updates /\ project' = project /\ machine' \in Version /\ item' \in Item
    /\ calls'[c].at \in project.from..Len(project.order)
    /\ \/ execs' = execs /\ calls'[c].exec = calls[c].exec
       \/ /\ execs' = Append(execs, NewExec(c, "running"))
          /\ calls[c].exec = 0 /\ calls'[c].exec = Len(execs) + 1
    /\ Serves(c)'

\* There are more executions, and a new job of one of them, or one is over.
LEMMA ServesStays ==
    ASSUME Typed, Served, project' = project, NEW c \in Caller, Serves(c), calls'[c] = calls[c], Stay,
           \A e \in DOMAIN execs: e \in DOMAIN execs' /\ execs'[e].by = execs[e].by
                                  /\ (execs'[e].label = "running" => execs[e].label = "running"),
           DeploysItsOwn(c)'
    PROVE  Serves(c)'
<1>1. calls[c].exec # 0 => calls[c].exec \in DOMAIN execs
      BY DEF Typed
<1>2. AllSucceeded(calls[c].exec) => AllSucceeded(calls[c].exec)'
      <2>1. \A s \in Steps: Succeeded(calls[c].exec, s, "write") => Succeeded(calls[c].exec, s, "write")'
            BY DEF Succeeded, Of, Stay
      <2> QED BY <2>1 DEF AllSucceeded, Steps
<1>3. OthersMeet(c) => OthersMeet(c)'
      BY DEF OthersMeet, Stay
<1>4. Waited(c)' <=> Waited(c)
      BY DEF Waited, Returned
<1> QED BY <1>1, <1>2, <1>3, <1>4 DEF Serves

LEMMA ServedMoves ==
    ASSUME ServedInv, Served, NEW c \in Caller, ServedStep(c)
    PROVE  ServedInv' /\ Served'
<1>1. /\ project' = project /\ jobs' = jobs /\ updates' = updates /\ Others(c) /\ Serves(c)' /\ Stay /\ SameCode
      /\ execs \in Seq(Exec) /\ jobs \in Seq(Job) /\ c \in Version /\ c # None
      BY NoneAssumption DEF ServedStep, ServedInv, Typed, Stay, SameCode, Version
<1>2. /\ execs' \in Seq(Exec) /\ DOMAIN execs \subseteq DOMAIN execs'
      /\ \A e \in DOMAIN execs: execs'[e] = execs[e]
      /\ calls'[c].exec = calls[c].exec \/ calls'[c].exec \in 0..Len(execs')
      /\ \A e \in DOMAIN execs': e \in DOMAIN execs \/
            (execs'[e].by = c /\ e = calls'[c].exec /\ execs'[e].label = "running")
      /\ (calls'[c].exec # calls[c].exec) => calls[c].exec = 0
      <2>1. CASE execs' = execs /\ calls'[c].exec = calls[c].exec
            BY <1>1, <2>1
      <2>2. CASE /\ execs' = Append(execs, NewExec(c, "running"))
                 /\ calls[c].exec = 0 /\ calls'[c].exec = Len(execs) + 1
            <3> DEFINE x == NewExec(c, "running")
            <3>1. x \in Exec /\ x.by = c /\ x.label = "running" /\ execs' = Append(execs, x)
                  BY <1>1, <2>2, NewExecs
            <3> HIDE DEF x
            <3>2. /\ execs' \in Seq(Exec) /\ Len(execs') = Len(execs) + 1 /\ execs'[Len(execs) + 1] = x
                  /\ Len(execs) \in Nat
                  /\ \A i \in DOMAIN execs: i \in DOMAIN execs' /\ execs'[i] = execs[i]
                  /\ \A i \in DOMAIN execs': i \in DOMAIN execs \/ i = Len(execs) + 1
                  BY <1>1, <3>1, Appended
            <3> QED BY <2>2, <3>1, <3>2
      <2> QED BY <2>1, <2>2 DEF ServedStep
<1>3. Typed'
      <2>1. Typed
            BY DEF ServedInv
      <2>2. calls' \in [Caller -> Call] /\ calls'[c].at \in project.from..Len(project.order)
            BY <1>1 DEF ServedStep, Others
      <2>3. \A d \in Caller: calls'[d].exec = calls[d].exec \/ calls'[d].exec \in 0..Len(execs')
            BY <1>1, <1>2 DEF Others
      <2>4. \A d \in Caller: calls'[d].at = calls[d].at \/ calls'[d].at \in project.from..Len(project.order)
            BY <1>1, <2>2 DEF Others
      <2>5. /\ item' \in [Step -> [code: Version, def: Version]] /\ machine' \in Version
            /\ updates' \subseteq [step: Step, by: Caller, new: BOOLEAN]
            /\ \A j \in DOMAIN jobs': j \in DOMAIN jobs \/ jobs'[j].exec \in DOMAIN execs'
            /\ jobs' \in Seq(Job)
            BY <1>1 DEF ServedStep, Item, ServedInv
      <2> QED BY <1>1, <1>2, <2>1, <2>2, <2>3, <2>4, <2>5, TypedKeeps
<1>4. Mixing
      BY <1>1 DEF Mixing, Others, ServedStep
<1>5. \A d \in Caller: calls[d].exec = 0 \/ calls[d].exec \in DOMAIN execs
      BY DEF ServedInv, Typed
<1>6. Meet'
      <2>1. \A d \in Caller: Busy(calls'[d]) => Busy(calls[d])
            BY <1>1 DEF Others, ServedStep
      <2>2. \A d \in Caller: About(calls'[d], execs') => About(calls[d], execs)
            BY <1>1, <1>2, <1>5 DEF Others, ServedStep, About
      <2>3. \A d \in Caller: calls'[d].label = "idle" => calls'[d] = calls[d]
            BY <1>1 DEF Others, ServedStep
      <2> QED BY <1>1, <1>4, <2>1, <2>2, <2>3, MeetKeeps DEF ServedInv, Typed
<1>7. ASSUME NEW d \in Caller
      PROVE  Serves(d)'
      <2>1. CASE d = c
            BY <1>1, <2>1
      <2>2. CASE d # c
            <3>1. calls'[d] = calls[d] /\ (About(calls[d], execs) => calls[d].mixed)
                  BY <1>1, <2>2 DEF Others, ServedInv, Meet, ServedStep
            <3>2. DeploysItsOwn(d)'
                  BY <1>1, <1>2, <1>5, <3>1 DEF DeploysItsOwn, CodeIsOwn, DefinitionIsOwn, Runs, Running, About, Busy,
                     Deployed
            <3> QED BY <1>1, <1>2, <3>1, <3>2, ServesStays DEF ServedInv
      <2> QED BY <2>1, <2>2
<1>8. ASSUME NEW e \in DOMAIN execs'
      PROVE  Executes(e)'
      <2>1. CASE e \notin DOMAIN execs
            BY <1>1, <1>2, <2>1 DEF Executes
      <2>2. CASE e \in DOMAIN execs
            <3>1. execs'[e] = execs[e] /\ Executes(e) /\ execs[e].by \in Version /\ e # 0
                  BY <1>1, <1>2, <2>2, ExecTypes DEF ServedInv
            <3>2. execs[e].by # None => calls'[execs[e].by].exec = e
                  BY <1>1, <1>2, <3>1 DEF Executes, Others, Version
            <3>3. AllSucceeded(e)' <=> AllSucceeded(e)
                  BY <1>1 DEF AllSucceeded, Succeeded, Of, Steps
            <3> QED BY <1>1, <3>1, <3>2, <3>3 DEF Executes
      <2> QED BY <2>1, <2>2
<1>9. RunsWhatItDeployed'
      <2>1. \A e \in DOMAIN execs': execs'[e] \in Exec
            BY <1>2
      <2>2. \A e \in DOMAIN execs': execs'[e].by \in Version
            BY <2>1 DEF Exec
      <2> QED BY <1>1, <1>2, <1>4, <2>2, RunsKeeps DEF ServedInv
<1>10. OneEach'
      BY <1>1 DEF ServedInv, OneEach, Steps
<1> QED BY <1>1, <1>3, <1>6, <1>7, <1>8, <1>9, <1>10 DEF ServedInv, Served

\* What the service does.
LEMMA ServedRests ==
    ASSUME ServedInv, Served, project' = project, calls' = calls, item' = item, machine' = machine,
           updates' = updates,
           execs' \in Seq(Exec),
           \A e \in DOMAIN execs: e \in DOMAIN execs' /\ execs'[e].by = execs[e].by
                                  /\ (execs'[e].label = "running" => execs[e].label = "running"),
           \A e \in DOMAIN execs': Executes(e)',
           jobs' \in Seq(Job), Stay, SameCode, OneEach',
           \A j \in DOMAIN jobs': j \in DOMAIN jobs \/
              LET e == jobs'[j].exec
                  s == jobs'[j].step
              IN  /\ e \in DOMAIN execs /\ s \in Steps /\ execs[e].label = "running"
                  /\ jobs'[j].code = item[s].code /\ jobs'[j].def = item[s].def
    PROVE  ServedInv' /\ Served'
<1>1. Typed'
      <2>1. \A j \in DOMAIN jobs': j \in DOMAIN jobs \/ jobs'[j].exec \in DOMAIN execs'
            OBVIOUS
      <2> QED BY <2>1, TypedKeeps DEF ServedInv, Typed
<1>2. Mixing
      BY DEF Mixing
<1>3. \A d \in Caller: calls[d].exec = 0 \/ calls[d].exec \in DOMAIN execs
      BY DEF ServedInv, Typed
<1>4. Meet'
      <2>1. \A d \in Caller: About(calls'[d], execs') => About(calls[d], execs)
            BY <1>3 DEF About
      <2> QED BY <1>2, <2>1, MeetKeeps DEF ServedInv, Typed
<1>5. ASSUME NEW d \in Caller
      PROVE  Serves(d)'
      <2>1. DeploysItsOwn(d)'
            <3>1. Runs(d)' => Runs(d)
                  BY <1>3 DEF Runs, Running
            <3> QED BY <3>1 DEF ServedInv, Serves, DeploysItsOwn, CodeIsOwn, DefinitionIsOwn
      <2> QED BY <2>1, ServesStays DEF ServedInv
<1>6. RunsWhatItDeployed'
      <2>1. \A e \in DOMAIN execs': execs'[e] \in Exec
            OBVIOUS
      <2>2. \A e \in DOMAIN execs': execs'[e].by \in Version
            BY <2>1 DEF Exec
      <2>3. ASSUME NEW j \in DOMAIN jobs', j \notin DOMAIN jobs, NEW by, by = execs'[jobs'[j].exec].by,
                   by # None, ~calls'[by].mixed
            PROVE  jobs'[j].code = by /\ jobs'[j].def = by
            <3>1. PICK e \in DOMAIN execs, s \in Steps:
                     /\ e = jobs'[j].exec /\ s = jobs'[j].step /\ execs[e].label = "running"
                     /\ jobs'[j].code = item[s].code /\ jobs'[j].def = item[s].def
                  BY <2>3
            <3>2. by = execs[e].by /\ by \in Caller
                  BY <2>3, <3>1, ExecTypes DEF ServedInv, Version
            <3>3. calls[by].exec = e /\ e # 0 /\ ~calls[by].mixed
                  BY <2>3, <3>2 DEF ServedInv, Executes, Typed
            <3>4. Runs(by)
                  BY <3>1, <3>3 DEF Runs, Running
            <3>5. PICK i \in DOMAIN project.order: s = project.order[i]
                  BY DEF Steps
            <3> QED BY <3>1, <3>2, <3>3, <3>4, <3>5 DEF ServedInv, Serves, DeploysItsOwn, CodeIsOwn, DefinitionIsOwn
      <2> QED BY <1>2, <2>2, <2>3, RunsKeeps DEF ServedInv
<1> QED BY <1>1, <1>4, <1>5, <1>6 DEF ServedInv, Served

LEMMA AllSucceededStays ==
    ASSUME Stay, project' = project, NEW e, AllSucceeded(e)
    PROVE  AllSucceeded(e)'
<1>1. \A s \in Steps: Succeeded(e, s, "write") => Succeeded(e, s, "write")'
      BY DEF Succeeded, Of, Stay
<1> QED BY <1>1 DEF AllSucceeded, Steps

LEMMA ServedSchedules ==
    ASSUME ServedInv, Served, Glue!Scheduled \/ Tasks!Scheduled
    PROVE  ServedInv' /\ Served'
<1> USE DEF Glue!service, Tasks!service
<1>1. /\ project' = project /\ calls' = calls /\ item' = item /\ machine' = machine /\ updates' = updates
      /\ jobs' = jobs /\ execs' = Append(execs, NewExec(None, "running"))
      BY DEF Glue!Scheduled, Tasks!Scheduled, Glue!NewExec, Tasks!NewExec, NewExec
<1> DEFINE x == NewExec(None, "running")
<1>2. x \in Exec /\ x.by = None /\ x.label = "running" /\ execs' = Append(execs, x) /\ execs \in Seq(Exec)
      BY <1>1, NewExecs DEF Version, ServedInv, Typed
<1> HIDE DEF x
<1>3. /\ execs' \in Seq(Exec) /\ execs'[Len(execs) + 1] = x
      /\ \A i \in DOMAIN execs: i \in DOMAIN execs' /\ execs'[i] = execs[i]
      /\ \A i \in DOMAIN execs': i \in DOMAIN execs \/ i = Len(execs) + 1
      BY <1>2, Appended
<1>4. Stay /\ SameCode
      BY <1>1 DEF Stay, SameCode
<1>5. ASSUME NEW e \in DOMAIN execs'
      PROVE  Executes(e)'
      <2>1. CASE e \in DOMAIN execs
            <3>1. Executes(e) /\ execs'[e] = execs[e]
                  BY <1>3, <2>1 DEF ServedInv
            <3>2. AllSucceeded(e) => AllSucceeded(e)'
                  BY <1>1, <1>4, AllSucceededStays
            <3> QED BY <1>1, <3>1, <3>2 DEF Executes
      <2>2. CASE e \notin DOMAIN execs
            BY <1>2, <1>3, <2>2 DEF Executes
      <2> QED BY <2>1, <2>2
<1>6. OneEach'
      BY <1>1 DEF ServedInv, OneEach, Steps
<1>7. \A e \in DOMAIN execs: e \in DOMAIN execs' /\ execs'[e].by = execs[e].by
                            /\ (execs'[e].label = "running" => execs[e].label = "running")
      BY <1>3
<1>8. jobs' \in Seq(Job) /\ \A j \in DOMAIN jobs': j \in DOMAIN jobs
      BY <1>1 DEF ServedInv, Typed
<1> QED BY <1>1, <1>3, <1>4, <1>5, <1>6, <1>7, <1>8, ServedRests

\* An execution is over.
LEMMA ServedEnds ==
    ASSUME ServedInv, Served, NEW e \in DOMAIN execs,
           project' = project, calls' = calls, item' = item, machine' = machine, updates' = updates, jobs' = jobs,
           NEW label \in {"succeeded", "failed", "ended"}, SetExec(e, label),
           label = "succeeded" => AllSucceeded(e),
           label = "ended" => project.driver = "tasks"
    PROVE  ServedInv' /\ Served'
<1>1. execs \in Seq(Exec)
      BY DEF ServedInv, Typed
<1>2. /\ execs' \in Seq(Exec) /\ Len(execs') = Len(execs) /\ DOMAIN execs' = DOMAIN execs
      /\ execs'[e].label = label /\ execs'[e].by = execs[e].by
      /\ \A f \in DOMAIN execs: f # e => execs'[f] = execs[f]
      BY <1>1, SetExecFlat
<1>3. Stay /\ SameCode
      BY DEF Stay, SameCode
<1>4. ASSUME NEW f \in DOMAIN execs'
      PROVE  Executes(f)'
      <2>1. Executes(f) /\ execs'[f].by = execs[f].by
            BY <1>2 DEF ServedInv
      <2>2. AllSucceeded(f) => AllSucceeded(f)'
            BY <1>3, AllSucceededStays
      <2>3. execs'[f].label = "succeeded" => AllSucceeded(f)
            BY <1>2, <2>1 DEF Executes
      <2>4. project.driver = "states" => execs'[f].label \in {"running", "succeeded", "failed"}
            BY <1>2, <2>1 DEF Executes
      <2> QED BY <2>1, <2>2, <2>3, <2>4 DEF Executes
<1>5. OneEach'
      BY DEF ServedInv, OneEach, Steps
<1>6. \A f \in DOMAIN execs: f \in DOMAIN execs' /\ execs'[f].by = execs[f].by
                            /\ (execs'[f].label = "running" => execs[f].label = "running")
      BY <1>2
<1>7. jobs' \in Seq(Job) /\ \A j \in DOMAIN jobs': j \in DOMAIN jobs
      BY DEF ServedInv, Typed
<1> QED BY <1>2, <1>3, <1>4, <1>5, <1>6, <1>7, ServedRests

\* A task starts.
LEMMA ServedStarts ==
    ASSUME ServedInv, Served, NEW e \in DOMAIN execs, NEW s \in Steps, execs[e].label = "running",
           project' = project, calls' = calls, item' = item, machine' = machine, updates' = updates,
           execs' = execs, Of(e, s, "write") = {}, jobs' = Append(jobs, NewJob(e, s, "write"))
    PROVE  ServedInv' /\ Served'
<1> DEFINE k == NewJob(e, s, "write")
<1>1. s \in Step /\ "write" \in Op
      BY OrderFacts DEF Steps, ServedInv, Typed, Op
<1>2. /\ k \in Job /\ k.exec = e /\ k.step = s /\ k.kind = "write" /\ k.code = item[s].code /\ k.def = item[s].def
      /\ jobs' = Append(jobs, k) /\ jobs \in Seq(Job)
      BY <1>1, NewJobs DEF ServedInv, Typed
<1> HIDE DEF k
<1>3. /\ jobs' \in Seq(Job) /\ jobs'[Len(jobs) + 1] = k
      /\ \A i \in DOMAIN jobs: i \in DOMAIN jobs' /\ jobs'[i] = jobs[i]
      /\ \A i \in DOMAIN jobs': i \in DOMAIN jobs \/ i = Len(jobs) + 1
      BY <1>2, Appended
<1>4. Stay /\ SameCode
      BY <1>3 DEF Stay, SameCode
<1>5. ASSUME NEW f \in DOMAIN execs'
      PROVE  Executes(f)'
      BY <1>4, AllSucceededStays DEF Executes, ServedInv
<1>6. OneEach'
      <2>1. \A j \in DOMAIN jobs': jobs'[j].kind = "write" /\ jobs'[j].step \in Steps
            BY <1>2, <1>3 DEF ServedInv, OneEach
      <2>2. \A j \in DOMAIN jobs: ~(jobs[j].exec = e /\ jobs[j].step = s)
            BY DEF ServedInv, OneEach, Of
      <2>3. \A i, j \in DOMAIN jobs': jobs'[i].exec = jobs'[j].exec /\ jobs'[i].step = jobs'[j].step => i = j
            BY <1>2, <1>3, <2>2 DEF ServedInv, OneEach
      <2> QED BY <2>1, <2>3 DEF OneEach, Steps
<1>7. \A f \in DOMAIN execs: f \in DOMAIN execs' /\ execs'[f].by = execs[f].by
                            /\ (execs'[f].label = "running" => execs[f].label = "running")
      OBVIOUS
<1>8. execs' \in Seq(Exec)
      BY DEF ServedInv, Typed
<1> QED BY <1>2, <1>3, <1>4, <1>5, <1>6, <1>7, <1>8, ServedRests

LEMMA ServedWaits ==
    ASSUME ServedInv, Served, NEW j \in DOMAIN jobs, JobEnds(j)
    PROVE  ServedInv' /\ Served'
<1>1. /\ project' = project /\ machine' = machine /\ item' = item /\ updates' = updates /\ execs' = execs
      /\ calls' = calls
      BY DEF JobEnds, service
<1>2. jobs' \in Seq(Job) /\ DOMAIN jobs' = DOMAIN jobs /\ Stay /\ SameCode
      BY JobEndsFlat DEF ServedInv, Typed
<1>3. ASSUME NEW f \in DOMAIN execs'
      PROVE  Executes(f)'
      BY <1>1, <1>2, AllSucceededStays DEF Executes, ServedInv
<1>4. OneEach'
      BY <1>1, <1>2 DEF ServedInv, OneEach, Steps, Stay
<1>5. \A f \in DOMAIN execs: f \in DOMAIN execs' /\ execs'[f].by = execs[f].by
                            /\ (execs'[f].label = "running" => execs[f].label = "running")
      BY <1>1
<1>6. execs' \in Seq(Exec)
      BY <1>1 DEF ServedInv, Typed
<1> QED BY <1>1, <1>2, <1>3, <1>4, <1>5, <1>6, ServedRests

\* A call begins: those that are about become mixed, as it does with them.
LEMMA ServedOpens ==
    ASSUME ServedInv, Served, NEW c \in Caller, NEW label \in {"publish", "clock"}, Begin(c, label, 0),
           project' = project, item' = item, machine' = machine, updates' = updates,
           execs' = execs, jobs' = jobs
    PROVE  ServedInv' /\ Served'
<1>1. Typed /\ Meet /\ calls \in [Caller -> Call] /\ project \in Projects
      BY DEF ServedInv, Typed
<1>2. Begun(c, label, 0) /\ calls[c].label = "idle" /\ label \in Label \ {"idle"}
      BY <1>1, BeginBegins DEF Label
<1>3. Meet' /\ Mixing
      BY <1>1, <1>2, MeetBegins
<1>4. Stay /\ SameCode
      BY DEF Stay, SameCode
<1>5. Typed'
      BY <1>1, <1>2, <1>4, TypedKeeps DEF Begun, Typed
<1>6. RunsWhatItDeployed'
      BY <1>3, <1>4, RunsKeeps, ExecTypes DEF ServedInv
<1>7. \A d \in Caller: calls'[d].exec = calls[d].exec
      <2>1. calls[c].exec = 0
            BY <1>1, <1>2 DEF Meet
      <2> QED BY <1>2, <2>1 DEF Begun
<1>8. ASSUME NEW e \in DOMAIN execs'
      PROVE  Executes(e)'
      <2>1. Executes(e) /\ execs[e].by \in Version
            BY <1>1, ExecTypes DEF ServedInv
      <2> QED BY <1>4, <1>7, <2>1, AllSucceededStays DEF Executes, Version
<1>9. OneEach'
      BY DEF ServedInv, OneEach, Steps
<1>10. ASSUME NEW d \in Caller
       PROVE  Serves(d)'
       <2>1. Serves(d)
             BY DEF ServedInv
       <2>2. CASE d = c
             <3>1. /\ calls'[c].label = label /\ calls'[c].exec = 0 /\ calls'[c].at = 1
                   /\ (~calls'[c].mixed => label # "clock")
                   BY <1>2, <2>1, <2>2 DEF Begun, Serves
             <3>2. DeploysItsOwn(c)'
                   <4>1. ~calls'[c].mixed => calls'[c].label = "publish"
                         BY <3>1
                   <4>2. \A i \in DOMAIN project.order: ~(i < 1)
                         BY <1>1, OrderFacts
                   <4> QED BY <3>1, <4>1, <4>2 DEF DeploysItsOwn, CodeIsOwn, DefinitionIsOwn, Runs, Deployed, Running
             <3>3. ~Waited(c)'
                   BY <3>1 DEF Waited, Returned
             <3> QED BY <2>2, <3>1, <3>2, <3>3 DEF Serves, Preparing
       <2>3. CASE d # c
             <3>1. /\ calls'[d].label = calls[d].label /\ calls'[d].exec = calls[d].exec /\ calls'[d].at = calls[d].at
                   /\ calls'[d].verdict = calls[d].verdict /\ calls'[d].since = calls[d].since
                   /\ (~calls'[d].mixed => ~calls[d].mixed)
                   BY <1>2, <2>3 DEF Begun
             <3>2. DeploysItsOwn(d)'
                   BY <2>1, <3>1 DEF Serves, DeploysItsOwn, CodeIsOwn, DefinitionIsOwn, Runs, Running
             <3>3. (Waited(d)' <=> Waited(d)) /\ (OthersMeet(d)' <=> OthersMeet(d))
                   BY <3>1 DEF Waited, Returned, OthersMeet
             <3>4. PICK e: e = calls[d].exec
                   OBVIOUS
             <3>5. AllSucceeded(e) => AllSucceeded(e)'
                   BY <1>4, AllSucceededStays
             <3>6. AllSucceeded(calls[d].exec) => AllSucceeded(calls[d].exec)'
                   BY <3>1, <3>4, <3>5 DEF AllSucceeded
             <3> QED BY <2>1, <3>1, <3>2, <3>3, <3>6 DEF Serves
       <2> QED BY <2>2, <2>3
<1> QED BY <1>3, <1>5, <1>6, <1>8, <1>9, <1>10 DEF ServedInv, Served

\* A call on the way to its execution.
LEMMA ServedPrepares ==
    ASSUME ServedInv, Served, NEW c \in Caller, calls[c].label \in Preparing, Others(c),
           calls'[c].label \in Preparing \cup {"end"},
           calls'[c].exec = calls[c].exec, calls'[c].mixed = calls[c].mixed, calls'[c].verdict = calls[c].verdict,
           calls'[c].at \in project.from..Len(project.order),
           execs' = execs, jobs' = jobs, updates' = updates, project' = project,
           machine' \in Version, item' \in Item,
           DeploysItsOwn(c)'
    PROVE  ServedStep(c)
<1>1. calls[c].exec = 0
      BY DEF ServedInv, Serves
<1>2. Serves(c)'
      BY <1>1 DEF Serves, Preparing, Waited, Returned
<1> QED BY <1>2 DEF ServedStep, Busy, Preparing

\* A call is over, or looks at its execution again.
LEMMA ServedLooks ==
    ASSUME ServedInv, Served, NEW c \in Caller, Busy(calls[c]),
           execs' = execs, jobs' = jobs, updates' = updates, project' = project, machine' = machine, item' = item,
           NEW verdict \in {"raised", "SUCCEEDED", "FAILED"},
           \/ Finishes(c, verdict)
           \/ calls[c].label = "watch" /\ Goes(c, "watch"),
           verdict = "FAILED" => project.driver = "tasks",
           (verdict = "SUCCEEDED" /\ project.wait /\ calls[c].exec # 0) =>
              AllSucceeded(calls[c].exec) \/ OthersMeet(c)
    PROVE  ServedStep(c)
<1>1. /\ Others(c) /\ calls'[c].exec = calls[c].exec /\ calls'[c].at = calls[c].at /\ calls'[c].since = calls[c].since
      /\ calls'[c].mixed = calls[c].mixed
      /\ \/ calls'[c].label = "done" /\ calls'[c].verdict = verdict
         \/ calls[c].label = "watch" /\ calls'[c].label = "watch" /\ calls'[c].verdict = calls[c].verdict
      BY DEF Finishes, Goes, Kept
<1>2. Serves(c)
      BY DEF ServedInv
<1>3. DeploysItsOwn(c)'
      BY <1>1, <1>2 DEF Serves, DeploysItsOwn, CodeIsOwn, DefinitionIsOwn, Runs, Running, Deployed
<1>4. (AllSucceeded(calls[c].exec)' <=> AllSucceeded(calls[c].exec)) /\ (OthersMeet(c)' <=> OthersMeet(c))
      BY <1>1 DEF AllSucceeded, Succeeded, Of, OthersMeet, Steps
<1>5. Serves(c)'
      BY <1>1, <1>2, <1>3, <1>4 DEF Serves, Preparing, Waited, Returned
<1>6. machine' \in Version /\ item' \in Item /\ calls'[c].at \in project.from..Len(project.order)
      BY <1>1 DEF ServedInv, Typed, Item
<1> QED BY <1>1, <1>5, <1>6 DEF ServedStep

\* A call starts the execution.
LEMMA ServedExecutes ==
    ASSUME ServedInv, Served, NEW c \in Caller, calls[c].label = "execute",
           execs' = Append(execs, NewExec(c, "running")),
           jobs' = jobs, updates' = updates, project' = project, machine' = machine, item' = item,
           Others(c), calls'[c].exec = Len(execs) + 1, calls'[c].at = calls[c].at, calls'[c].mixed = calls[c].mixed,
           \/ project.wait /\ calls'[c].label = "watch" /\ calls'[c].verdict = calls[c].verdict
           \/ ~project.wait /\ calls'[c].label = "end" /\ calls'[c].verdict = calls[c].verdict
           \/ ~project.wait /\ calls'[c].label = "done" /\ calls'[c].verdict = "SUCCEEDED"
    PROVE  ServedStep(c)
<1>1. Serves(c) /\ calls[c].exec = 0 /\ Len(execs) \in Nat /\ execs \in Seq(Exec) /\ c \in Version
      BY DEF ServedInv, Serves, Preparing, Typed, Version
<1>2. execs'[calls'[c].exec].by = c
      <2> DEFINE x == NewExec(c, "running")
      <2>1. x \in Exec /\ x.by = c /\ execs' = Append(execs, x)
            BY <1>1, NewExecs
      <2> HIDE DEF x
      <2> QED BY <1>1, <2>1
<1>3. DeploysItsOwn(c)'
      BY <1>1 DEF Serves, DeploysItsOwn, CodeIsOwn, DefinitionIsOwn, Runs, Deployed
<1>4. ~Waited(c)'
      BY DEF Waited, Returned
<1>5. Serves(c)'
      BY <1>1, <1>2, <1>3, <1>4 DEF Serves, Preparing
<1>6. machine' \in Version /\ item' \in Item /\ calls'[c].at \in project.from..Len(project.order)
      BY DEF ServedInv, Typed, Item
<1> QED BY <1>1, <1>5, <1>6 DEF ServedStep, Busy

\* What a call changes of the current step, and what not.
LEMMA ItemCode ==
    ASSUME item \in Item, NEW s \in Step, NEW c \in Version, item' = [item EXCEPT ![s].code = c]
    PROVE  /\ item' \in Item /\ item'[s].code = c /\ item'[s].def = item[s].def
           /\ \A r \in Step: r # s => item'[r] = item[r]
<1> DEFINE x == [item[s] EXCEPT !.code = c]
<1>1. item[s] \in [code: Version, def: Version]
      BY DEF Item
<1>2. x \in [code: Version, def: Version] /\ x.code = c /\ x.def = item[s].def
      BY <1>1
<1>3. item' = [item EXCEPT ![s] = x]
      OBVIOUS
<1> HIDE DEF x
<1> QED BY <1>2, <1>3 DEF Item

LEMMA ItemDefinition ==
    ASSUME item \in Item, NEW s \in Step, NEW c \in Version, item' = [item EXCEPT ![s].def = c]
    PROVE  /\ item' \in Item /\ item'[s].def = c /\ item'[s].code = item[s].code
           /\ \A r \in Step: r # s => item'[r] = item[r]
<1> DEFINE x == [item[s] EXCEPT !.def = c]
<1>1. item[s] \in [code: Version, def: Version]
      BY DEF Item
<1>2. x \in [code: Version, def: Version] /\ x.def = c /\ x.code = item[s].code
      BY <1>1
<1>3. item' = [item EXCEPT ![s] = x]
      OBVIOUS
<1> HIDE DEF x
<1> QED BY <1>2, <1>3 DEF Item

LEMMA ServedTypes ==
    ASSUME ServedInv, Served, NEW c \in Caller
    PROVE  /\ Typed /\ calls \in [Caller -> Call] /\ calls[c] \in Call /\ Current(c) \in Step /\ item \in Item
           /\ c \in Version /\ machine \in Version /\ project.from = 1
           /\ calls[c].at \in project.from..Len(project.order)
           /\ DeploysItsOwn(c)
           /\ Len(project.order) \in Nat /\ calls[c].at \in Nat
           /\ \A i \in DOMAIN project.order: i \in Nat /\ project.order[i] \in Step /\ i <= Len(project.order)
                                             /\ i >= 1
<1>1. /\ Typed /\ DeploysItsOwn(c) /\ item \in Item /\ calls \in [Caller -> Call] /\ project \in Projects
      /\ machine \in Version /\ calls[c].at \in project.from..Len(project.order)
      BY DEF ServedInv, Serves, Typed, Item
<1>2. \A i \in DOMAIN project.order: i \in Nat /\ project.order[i] \in Step /\ i <= Len(project.order) /\ i >= 1
      BY <1>1, OrderFacts
<1> QED BY <1>1, <1>2, AtFacts, FromTheFirst DEF Version

-----------------------------------------------------------------------------
(* The calls of Step Functions *)

OnStates == project.driver = "states"

LEMMA StatesPublish ==
    ASSUME ServedInv, OnStates, NEW c \in Caller, Glue!Publish(c) \/ Glue!Lookup(c) \/ Glue!Register(c)
    PROVE  ServedStep(c)
<1> USE DEF service, Glue!service
<1>0. Served
      BY DEF OnStates, Served
<1>1. /\ Typed /\ calls \in [Caller -> Call] /\ calls[c] \in Call /\ Current(c) \in Step /\ item \in Item
      /\ c \in Version /\ machine \in Version /\ project.from = 1
      /\ calls[c].at \in project.from..Len(project.order)
      /\ DeploysItsOwn(c)
      /\ Len(project.order) \in Nat /\ calls[c].at \in Nat
      /\ \A i \in DOMAIN project.order: i \in Nat /\ project.order[i] \in Step /\ i <= Len(project.order) /\ i >= 1
      BY <1>0, ServedTypes
<1>2. \A i \in DOMAIN project.order: i = calls[c].at => project.order[i] = Current(c)
      BY DEF Current
<1>3. CASE Glue!Publish(c)
      <2>1. /\ project' = project /\ machine' = machine /\ updates' = updates /\ execs' = execs /\ jobs' = jobs
            /\ calls[c].label = "publish" /\ Goto(c, "lookup")
            /\ item' = [item EXCEPT ![Current(c)].code = c]
            BY <1>3 DEF Glue!Publish, Glue!Goto, Goto, Glue!Current, Current
      <2>2. /\ item' \in Item /\ item'[Current(c)].code = c /\ item'[Current(c)].def = item[Current(c)].def
            /\ \A r \in Step: r # Current(c) => item'[r] = item[r]
            BY <1>1, <2>1, ItemCode
      <2>3. Goes(c, "lookup")
            BY <1>1, <2>1, GotoGoes DEF Label
      <2>4. calls[c].exec = 0 /\ calls'[c].exec = 0
            BY <2>1, <2>3 DEF ServedInv, Serves, Preparing, Goes, Kept
      <2>5. DeploysItsOwn(c)'
            <3> SUFFICES ASSUME ~calls[c].mixed
                         PROVE  CodeIsOwn(c)' /\ DefinitionIsOwn(c)'
                BY <2>3 DEF DeploysItsOwn, Goes, Kept
            <3>1. calls'[c].label = "lookup" /\ calls'[c].at = calls[c].at /\ ~Runs(c)'
                  BY <2>3, <2>4 DEF Goes, Kept, Runs, Deployed, Running
            <3>2. CodeIsOwn(c)'
                  BY <1>1, <1>2, <2>1, <2>2, <3>1 DEF DeploysItsOwn, CodeIsOwn
            <3>3. DefinitionIsOwn(c)'
                  BY <1>1, <1>2, <2>1, <2>2, <3>1 DEF DeploysItsOwn, DefinitionIsOwn, OnStates
            <3> QED BY <3>2, <3>3
      <2> QED BY <1>0, <1>1, <2>1, <2>2, <2>3, <2>5, ServedPrepares DEF Preparing, Goes, Kept
<1>4. CASE Glue!Lookup(c)
      <2>1. /\ project' = project /\ machine' = machine /\ updates' = updates /\ execs' = execs /\ jobs' = jobs
            /\ calls[c].label = "lookup" /\ item' = item
            /\ Goto(c, "create") \/ Goto(c, "update")
            BY <1>4 DEF Glue!Lookup, Glue!Goto, Goto
      <2>2. Goes(c, "create") \/ Goes(c, "update")
            BY <1>1, <2>1, GotoGoes DEF Label
      <2>3. /\ Others(c) /\ calls'[c].label \in {"create", "update"} /\ calls'[c].at = calls[c].at
            /\ calls'[c].exec = calls[c].exec /\ calls'[c].mixed = calls[c].mixed /\ calls'[c].verdict = calls[c].verdict
            BY <2>2 DEF Goes, Kept
      <2>4. calls[c].exec = 0 /\ ~Runs(c)'
            BY <2>1, <2>3 DEF ServedInv, Serves, Preparing, Runs, Deployed, Running
      <2>5. DeploysItsOwn(c)'
            BY <1>1, <2>1, <2>3, <2>4 DEF DeploysItsOwn, CodeIsOwn, DefinitionIsOwn, OnStates
      <2> QED BY <1>0, <1>1, <2>1, <2>3, <2>5, ServedPrepares DEF Preparing
<1>5. CASE Glue!Register(c)
      <2>1. /\ project' = project /\ machine' = machine /\ updates' = updates /\ execs' = execs /\ jobs' = jobs
            /\ calls[c].label \in {"create", "update"}
            /\ \/ Finish(c, "raised") /\ item' = item
               \/ item' = [item EXCEPT ![Current(c)].def = c] /\ NextStep(c, "publish", "find")
            BY <1>5 DEF OnStates, Glue!Register, Glue!Finish, Finish, Glue!Current, Current, Glue!NextStep, NextStep
      <2>2. CASE Finish(c, "raised") /\ item' = item
            <3>1. Finishes(c, "raised") /\ Busy(calls[c])
                  BY <1>1, <2>1, <2>2, FinishFinishes DEF Busy
            <3> QED BY <1>0, <2>1, <2>2, <3>1, ServedLooks
      <2>3. CASE item' = [item EXCEPT ![Current(c)].def = c] /\ NextStep(c, "publish", "find")
            <3>1. /\ item' \in Item /\ item'[Current(c)].def = c /\ item'[Current(c)].code = item[Current(c)].code
                  /\ \A r \in Step: r # Current(c) => item'[r] = item[r]
                  BY <1>1, <2>3, ItemDefinition
            <3>2. Advances(c, "publish", "find")
                  BY <1>1, <2>3, NextStepAdvances DEF Label
            <3>3. /\ Others(c) /\ calls'[c].exec = calls[c].exec /\ calls'[c].mixed = calls[c].mixed
                  /\ calls'[c].verdict = calls[c].verdict /\ calls'[c].label \in {"publish", "find"}
                  /\ calls'[c].at \in project.from..Len(project.order)
                  BY <1>1, <3>2 DEF Advances, Turns
            <3>4. calls[c].exec = 0
                  BY <2>1 DEF ServedInv, Serves, Preparing
            <3>5. DeploysItsOwn(c)'
                  <4> SUFFICES ASSUME ~calls[c].mixed
                               PROVE  CodeIsOwn(c)' /\ DefinitionIsOwn(c)'
                      BY <3>3 DEF DeploysItsOwn
                  <4>1. \A i \in DOMAIN project.order: i <= calls[c].at =>
                           item'[project.order[i]].code = c /\ item'[project.order[i]].def = c
                        BY <1>1, <1>2, <2>1, <3>1 DEF DeploysItsOwn, CodeIsOwn, DefinitionIsOwn, OnStates
                  <4>2. CASE calls'[c].label = "publish" /\ calls'[c].at = calls[c].at + 1
                        BY <1>1, <2>1, <3>3, <3>4, <4>1, <4>2 DEF CodeIsOwn, DefinitionIsOwn, Runs, Deployed, Running
                  <4>3. CASE calls'[c].label = "find" /\ calls[c].at = Len(project.order)
                        BY <1>1, <2>1, <4>1, <4>3 DEF CodeIsOwn, DefinitionIsOwn
                  <4> QED BY <3>2, <4>2, <4>3 DEF Advances, Turns
            <3> QED BY <1>0, <1>1, <2>1, <3>1, <3>3, <3>5, ServedPrepares DEF Preparing
      <2> QED BY <2>1, <2>2, <2>3
<1> QED BY <1>3, <1>4, <1>5

LEMMA StatesMachine ==
    ASSUME ServedInv, OnStates, NEW c \in Caller,
           Glue!FindMachine(c) \/ Glue!RegisterMachine(c) \/ Glue!Execute(c) \/ Glue!Watch(c)
    PROVE  ServedStep(c)
<1> USE DEF service, Glue!service
<1>0. Served
      BY DEF OnStates, Served
<1>1. /\ calls \in [Caller -> Call] /\ calls[c] \in Call /\ item \in Item /\ c \in Version /\ machine \in Version
      /\ calls[c].at \in project.from..Len(project.order) /\ DeploysItsOwn(c)
      BY <1>0, ServedTypes
<1>2. ASSUME NEW label \in {"create_machine", "update_machine", "execute"}, Goto(c, label),
             calls[c].label \in {"find", "create_machine", "update_machine"},
             execs' = execs, jobs' = jobs, updates' = updates, project' = project, machine' \in Version, item' = item
      PROVE  ServedStep(c)
      <2>1. Goes(c, label)
            BY <1>1, <1>2, GotoGoes DEF Label
      <2>2. DeploysItsOwn(c)'
            BY <1>1, <1>2, <2>1 DEF DeploysItsOwn, CodeIsOwn, DefinitionIsOwn, Runs, Deployed, Goes, Kept
      <2> QED BY <1>0, <1>1, <1>2, <2>1, <2>2, ServedPrepares DEF Preparing, Goes, Kept
<1>3. CASE Glue!FindMachine(c)
      <2>1. /\ project' = project /\ machine' = machine /\ item' = item /\ updates' = updates /\ execs' = execs
            /\ jobs' = jobs /\ calls[c].label = "find" /\ (Goto(c, "create_machine") \/ Goto(c, "update_machine"))
            BY <1>3 DEF Glue!FindMachine, Glue!At, Glue!Goto, Goto
      <2> QED BY <1>1, <1>2, <2>1
<1>4. CASE Glue!RegisterMachine(c)
      <2>1. /\ project' = project /\ item' = item /\ updates' = updates /\ execs' = execs
            /\ jobs' = jobs /\ calls[c].label \in {"create_machine", "update_machine"}
            /\ \/ Finish(c, "raised") /\ machine' = machine
               \/ machine' = c /\ Goto(c, "execute")
            BY <1>4 DEF Glue!RegisterMachine, Glue!Goto, Goto, Glue!Finish, Finish
      <2>2. CASE Finish(c, "raised") /\ machine' = machine
            <3>1. Finishes(c, "raised") /\ Busy(calls[c])
                  BY <1>1, <2>1, <2>2, FinishFinishes DEF Busy
            <3> QED BY <1>0, <2>1, <2>2, <3>1, ServedLooks
      <2> QED BY <1>1, <1>2, <2>1, <2>2
<1>5. CASE Glue!Execute(c)
      <2> DEFINE n == Len(execs) + 1
                 label == IF project.wait THEN "watch" ELSE "done"
                 verdict == IF project.wait THEN calls[c].verdict ELSE "SUCCEEDED"
                 y == [calls[c] EXCEPT !.exec = n, !.label = label, !.verdict = verdict]
      <2>1. /\ project' = project /\ machine' = machine /\ item' = item /\ updates' = updates
            /\ execs' = Append(execs, NewExec(c, "running")) /\ jobs' = jobs /\ calls[c].label = "execute"
            /\ calls' = [calls EXCEPT ![c] = y]
            BY <1>1, <1>5 DEF Glue!Execute, Glue!At, Glue!NewExec, NewExec
      <2>2. /\ n \in Nat /\ label \in Label /\ verdict \in {"none", "raised"} \cup StepStatus
            /\ \/ project.wait /\ label = "watch" /\ verdict = calls[c].verdict
               \/ ~project.wait /\ label = "done" /\ verdict = "SUCCEEDED"
            <3>1. calls[c].verdict \in {"none", "raised"} \cup StepStatus
                  BY <1>1 DEF Call
            <3> QED BY <3>1 DEF ServedInv, Typed, Label, StepStatus
      <2> HIDE DEF n, label, verdict
      <2>3. /\ y \in Call /\ y.exec = n /\ y.label = label /\ y.verdict = verdict /\ y.at = calls[c].at
            /\ y.mixed = calls[c].mixed
            BY <1>1, <2>2 DEF Call
      <2> HIDE DEF y
      <2>4. Others(c) /\ calls'[c] = y
            BY <1>1, <2>1, <2>3, Moved
      <2> QED BY <1>0, <2>1, <2>2, <2>3, <2>4, ServedExecutes DEF n
<1>6. CASE Glue!Watch(c)
      <2>1. /\ project' = project /\ machine' = machine /\ item' = item /\ updates' = updates /\ execs' = execs
            /\ jobs' = jobs /\ calls[c].label = "watch"
            BY <1>6 DEF Glue!Watch, Glue!At
      <2>2. calls[c].exec \in DOMAIN execs
            BY <2>1 DEF ServedInv, Serves, Typed
      <2>3. Executes(calls[c].exec) /\ Busy(calls[c])
            BY <2>1, <2>2 DEF ServedInv, Busy
      <2>4. CASE execs[calls[c].exec].label = "running"
            <3>1. Poll(c)
                  BY <1>6, <2>4 DEF Glue!Watch, Glue!Poll, Poll, Glue!Finish, Finish
            <3>2. Goes(c, "watch") \/ Finishes(c, "raised")
                  BY <1>1, <2>1, <3>1, PollPolls
            <3> QED BY <1>0, <2>1, <2>3, <3>2, ServedLooks
      <2>5. CASE execs[calls[c].exec].label = "succeeded"
            <3>1. Finish(c, "SUCCEEDED")
                  BY <1>6, <2>5 DEF Glue!Watch, Glue!Finish, Finish
            <3>2. Finishes(c, "SUCCEEDED")
                  BY <1>1, <3>1, FinishFinishes DEF StepStatus
            <3> QED BY <1>0, <2>1, <2>3, <2>5, <3>2, ServedLooks DEF Executes
      <2>6. CASE execs[calls[c].exec].label = "failed"
            <3>1. Finish(c, "raised")
                  BY <1>6, <2>6 DEF Glue!Watch, Glue!Finish, Finish
            <3>2. Finishes(c, "raised")
                  BY <1>1, <3>1, FinishFinishes
            <3> QED BY <1>0, <2>1, <2>3, <3>2, ServedLooks
      <2> QED BY <2>3, <2>4, <2>5, <2>6 DEF Executes, OnStates
<1> QED BY <1>3, <1>4, <1>5, <1>6

LEMMA ServedGivesUp ==
    ASSUME ServedInv, Served, NEW c \in Caller, Raise(c)
    PROVE  ServedStep(c)
<1>1. Finishes(c, "raised") /\ Busy(calls[c])
      BY ServedTypes, FinishFinishes DEF Raise, Active, Busy
<1> QED BY <1>1, ServedLooks DEF Raise, service

LEMMA ServedComesToItsEnd ==
    ASSUME ServedInv, Served, NEW c \in Caller, End(c)
    PROVE  ServedStep(c)
<1>1. Finishes(c, "SUCCEEDED") /\ Busy(calls[c])
      BY ServedTypes, FinishFinishes DEF End, Busy, StepStatus
<1>2. project.wait => calls[c].exec = 0
      BY DEF End, ServedInv, Serves
<1> QED BY <1>1, <1>2, ServedLooks DEF End, service

-----------------------------------------------------------------------------
(* The calls of Snowflake tasks *)

OnTasks == project.driver = "tasks"

LEMMA TasksDeploy ==
    ASSUME ServedInv, OnTasks, NEW c \in Caller,
           Tasks!Publish(c) \/ Tasks!Suspend(c) \/ Tasks!Create(c)
    PROVE  ServedStep(c)
<1> USE DEF service, Tasks!service
<1>0. Served
      BY DEF OnTasks, Served
<1>1. /\ Typed /\ calls \in [Caller -> Call] /\ calls[c] \in Call /\ Current(c) \in Step /\ item \in Item
      /\ c \in Version /\ machine \in Version /\ project.from = 1
      /\ calls[c].at \in project.from..Len(project.order)
      /\ DeploysItsOwn(c)
      /\ Len(project.order) \in Nat /\ calls[c].at \in Nat
      /\ \A i \in DOMAIN project.order: i \in Nat /\ project.order[i] \in Step /\ i <= Len(project.order) /\ i >= 1
      BY <1>0, ServedTypes
<1>2. \A i \in DOMAIN project.order: i = calls[c].at => project.order[i] = Current(c)
      BY DEF Current
\* The next step, or the next command over all of them.
<1>3. ASSUME NEW label \in Preparing, NEW next \in Preparing \cup {"end"}, Advances(c, label, next),
             calls[c].label \in {"publish", "suspend", "create"},
             execs' = execs, jobs' = jobs, updates' = updates, project' = project, machine' = machine, item' \in Item,
             DeploysItsOwn(c)'
      PROVE  ServedStep(c)
      <2>1. /\ Others(c) /\ calls'[c].exec = calls[c].exec /\ calls'[c].mixed = calls[c].mixed
            /\ calls'[c].verdict = calls[c].verdict /\ calls'[c].label \in {label, next}
            /\ calls'[c].at \in project.from..Len(project.order)
            BY <1>1, <1>3 DEF Advances, Turns
      <2> QED BY <1>0, <1>1, <1>3, <2>1, ServedPrepares DEF Preparing
<1>4. CASE Tasks!Publish(c)
      <2>1. /\ project' = project /\ machine' = machine /\ updates' = updates /\ execs' = execs /\ jobs' = jobs
            /\ calls[c].label = "publish" /\ NextStep(c, "publish", "suspend")
            /\ item' = [item EXCEPT ![Current(c)].code = c]
            BY <1>4 DEF Tasks!Publish, Tasks!At, Tasks!NextStep, NextStep, Tasks!Current, Current
      <2>2. /\ item' \in Item /\ item'[Current(c)].code = c
            /\ \A r \in Step: r # Current(c) => item'[r] = item[r]
            BY <1>1, <2>1, ItemCode
      <2>3. Advances(c, "publish", "suspend")
            BY <1>1, <2>1, NextStepAdvances DEF Label
      <2>4. calls[c].exec = 0
            BY <2>1 DEF ServedInv, Serves, Preparing
      <2>5. DeploysItsOwn(c)'
            <3> SUFFICES ASSUME ~calls[c].mixed
                         PROVE  CodeIsOwn(c)' /\ DefinitionIsOwn(c)'
                BY <2>3 DEF DeploysItsOwn, Advances, Turns
            <3>1. \A i \in DOMAIN project.order: i <= calls[c].at => item'[project.order[i]].code = c
                  BY <1>1, <1>2, <2>1, <2>2 DEF DeploysItsOwn, CodeIsOwn
            <3>2. CASE calls'[c].label = "publish" /\ calls'[c].at = calls[c].at + 1 /\ calls'[c].exec = 0
                  BY <1>1, <2>1, <3>1, <3>2 DEF CodeIsOwn, DefinitionIsOwn, Runs, Deployed, Running, OnTasks
            <3>3. CASE calls'[c].label = "suspend" /\ calls[c].at = Len(project.order) /\ calls'[c].exec = 0
                  BY <1>1, <2>1, <3>1, <3>3 DEF CodeIsOwn, DefinitionIsOwn, Runs, Deployed, Running, OnTasks
            <3> QED BY <2>3, <2>4, <3>2, <3>3 DEF Advances, Turns
      <2> QED BY <1>3, <2>1, <2>2, <2>3, <2>5 DEF Preparing
<1>5. CASE Tasks!Suspend(c)
      <2>1. /\ project' = project /\ machine' = machine /\ updates' = updates /\ execs' = execs /\ jobs' = jobs
            /\ item' = item /\ calls[c].label = "suspend" /\ NextStep(c, "suspend", "create")
            BY <1>5 DEF Tasks!Suspend, Tasks!At, Tasks!NextStep, NextStep
      <2>2. Advances(c, "suspend", "create")
            BY <1>1, <2>1, NextStepAdvances DEF Label
      <2>3. calls[c].exec = 0
            BY <2>1 DEF ServedInv, Serves, Preparing
      <2>4. DeploysItsOwn(c)'
            <3> SUFFICES ASSUME ~calls[c].mixed
                         PROVE  CodeIsOwn(c)' /\ DefinitionIsOwn(c)'
                BY <2>2 DEF DeploysItsOwn, Advances, Turns
            <3>1. \A i \in DOMAIN project.order: item'[project.order[i]].code = c
                  BY <1>1, <2>1 DEF DeploysItsOwn, CodeIsOwn
            <3>2. /\ calls'[c].exec = 0 /\ calls'[c].label \in {"suspend", "create"}
                  /\ calls'[c].label = "create" => calls'[c].at = 1
                  BY <1>1, <2>2, <2>3 DEF Advances, Turns
            <3> QED BY <1>1, <2>1, <3>1, <3>2 DEF CodeIsOwn, DefinitionIsOwn, Runs, Deployed, Running, OnTasks
      <2> QED BY <1>1, <1>3, <2>1, <2>2, <2>4 DEF Preparing
<1>6. CASE Tasks!Create(c)
      <2>1. /\ project' = project /\ machine' = machine /\ updates' = updates /\ execs' = execs /\ jobs' = jobs
            /\ calls[c].label = "create"
            /\ \/ Finish(c, "raised") /\ item' = item
               \/ /\ item' = [item EXCEPT ![Current(c)].def = c]
                  /\ \E next \in {"end", "clock"}: NextStep(c, "create", next)
            BY <1>6 DEF Tasks!Create, Tasks!At, Tasks!NextStep, NextStep, Tasks!Current, Current, Tasks!Finish, Finish
      <2>2. CASE Finish(c, "raised") /\ item' = item
            <3>1. Finishes(c, "raised") /\ Busy(calls[c])
                  BY <1>1, <2>1, <2>2, FinishFinishes DEF Busy
            <3> QED BY <1>0, <2>1, <2>2, <3>1, ServedLooks
      <2>3. CASE /\ item' = [item EXCEPT ![Current(c)].def = c]
                 /\ \E next \in {"end", "clock"}: NextStep(c, "create", next)
            <3>1. PICK next \in {"end", "clock"}: NextStep(c, "create", next)
                  BY <2>3
            <3>2. /\ item' \in Item /\ item'[Current(c)].def = c /\ item'[Current(c)].code = item[Current(c)].code
                  /\ \A r \in Step: r # Current(c) => item'[r] = item[r]
                  BY <1>1, <2>3, ItemDefinition
            <3>3. Advances(c, "create", next)
                  BY <1>1, <3>1, NextStepAdvances DEF Label
            <3>4. calls[c].exec = 0
                  BY <2>1 DEF ServedInv, Serves, Preparing
            <3>5. DeploysItsOwn(c)'
                  <4> SUFFICES ASSUME ~calls[c].mixed
                               PROVE  CodeIsOwn(c)' /\ DefinitionIsOwn(c)'
                      BY <3>3 DEF DeploysItsOwn, Advances, Turns
                  <4>1. /\ \A i \in DOMAIN project.order: item'[project.order[i]].code = c
                        /\ \A i \in DOMAIN project.order: i <= calls[c].at => item'[project.order[i]].def = c
                        BY <1>1, <1>2, <2>1, <3>2 DEF DeploysItsOwn, CodeIsOwn, DefinitionIsOwn, OnTasks
                  <4>2. CASE calls'[c].label = "create" /\ calls'[c].at = calls[c].at + 1 /\ calls'[c].exec = 0
                        BY <1>1, <2>1, <4>1, <4>2 DEF CodeIsOwn, DefinitionIsOwn, Runs, Deployed, Running, OnTasks
                  <4>3. CASE calls'[c].label = next /\ calls[c].at = Len(project.order) /\ calls'[c].exec = 0
                        BY <1>1, <2>1, <4>1, <4>3 DEF CodeIsOwn, DefinitionIsOwn, Runs, Deployed, Running, OnTasks
                  <4> QED BY <3>3, <3>4, <4>2, <4>3 DEF Advances, Turns
            <3> QED BY <1>3, <2>1, <3>2, <3>3, <3>5 DEF Preparing
      <2> QED BY <2>1, <2>2, <2>3
<1> QED BY <1>4, <1>5, <1>6

\* A call that has deployed looks at the clock, resumes the tasks and starts.
LEMMA TasksRun ==
    ASSUME ServedInv, OnTasks, NEW c \in Caller, Tasks!Clock(c) \/ Tasks!Resume(c) \/ Tasks!Execute(c)
    PROVE  ServedStep(c)
<1> USE DEF service, Tasks!service
<1>0. Served
      BY DEF OnTasks, Served
<1>1. /\ Typed /\ calls \in [Caller -> Call] /\ calls[c] \in Call /\ item \in Item /\ machine \in Version
      /\ project.from = 1 /\ calls[c].at \in project.from..Len(project.order)
      /\ DeploysItsOwn(c) /\ Len(project.order) \in Nat /\ calls[c].at \in Nat
      BY <1>0, ServedTypes
<1>2. /\ project' = project /\ machine' = machine /\ updates' = updates /\ jobs' = jobs /\ item' = item
      BY DEF Tasks!Clock, Tasks!Resume, Tasks!Execute
<1>3. ASSUME Others(c), calls'[c].label \in {"resume", "execute"}, calls[c].label \in {"clock", "resume"},
             calls'[c].exec = calls[c].exec, calls'[c].mixed = calls[c].mixed, calls'[c].verdict = calls[c].verdict,
             calls'[c].at \in project.from..Len(project.order), execs' = execs
      PROVE  ServedStep(c)
      <2>1. DeploysItsOwn(c)'
            BY <1>1, <1>2, <1>3 DEF DeploysItsOwn, CodeIsOwn, DefinitionIsOwn, Runs, Deployed
      <2> QED BY <1>0, <1>1, <1>2, <1>3, <2>1, ServedPrepares DEF Preparing
<1>4. CASE Tasks!Clock(c)
      <2> DEFINE n == Len(jobs)
                 y == [calls[c] EXCEPT !.label = "resume", !.since = n]
      <2>1. calls[c].label = "clock" /\ calls' = [calls EXCEPT ![c] = y] /\ execs' = execs
            BY <1>4 DEF Tasks!Clock, Tasks!At
      <2>2. n \in Nat
            BY <1>1 DEF Typed
      <2> HIDE DEF n
      <2>3. /\ y \in Call /\ y.label = "resume" /\ y.exec = calls[c].exec /\ y.at = calls[c].at
            /\ y.mixed = calls[c].mixed /\ y.verdict = calls[c].verdict
            BY <1>1, <2>2 DEF Call, Label
      <2> HIDE DEF y
      <2>4. Others(c) /\ calls'[c] = y
            BY <1>1, <2>1, <2>3, Moved
      <2> QED BY <1>1, <1>3, <2>1, <2>3, <2>4
<1>5. CASE Tasks!Resume(c)
      <2>1. /\ calls[c].label = "resume" /\ execs' = execs
            /\ Finish(c, "raised") \/ NextStep(c, "resume", "execute")
            BY <1>5 DEF Tasks!Resume, Tasks!At, Tasks!NextStep, NextStep, Tasks!Finish, Finish
      <2>2. CASE Finish(c, "raised")
            <3>1. Finishes(c, "raised") /\ Busy(calls[c])
                  BY <1>1, <2>1, <2>2, FinishFinishes DEF Busy
            <3> QED BY <1>0, <1>2, <2>1, <3>1, ServedLooks
      <2>3. CASE NextStep(c, "resume", "execute")
            <3>1. Advances(c, "resume", "execute")
                  BY <1>1, <2>3, NextStepAdvances DEF Label
            <3> QED BY <1>1, <1>3, <2>1, <3>1 DEF Advances, Turns
      <2> QED BY <2>1, <2>2, <2>3
<1>6. CASE Tasks!Execute(c)
      <2> DEFINE n == Len(execs) + 1
                 label == IF project.wait THEN "watch" ELSE "end"
                 y == [calls[c] EXCEPT !.exec = n, !.label = label]
      <2>1. /\ execs' = Append(execs, NewExec(c, "running")) /\ calls[c].label = "execute"
            /\ calls' = [calls EXCEPT ![c] = y]
            BY <1>6 DEF Tasks!Execute, Tasks!At, Tasks!NewExec, NewExec
      <2>2. /\ n \in Nat /\ label \in Label
            /\ \/ project.wait /\ label = "watch"
               \/ ~project.wait /\ label = "end"
            BY <1>1 DEF Typed, Label
      <2> HIDE DEF n, label
      <2>3. /\ y \in Call /\ y.exec = n /\ y.label = label /\ y.verdict = calls[c].verdict /\ y.at = calls[c].at
            /\ y.mixed = calls[c].mixed
            BY <1>1, <2>2 DEF Call
      <2> HIDE DEF y
      <2>4. Others(c) /\ calls'[c] = y
            BY <1>1, <2>1, <2>3, Moved
      <2> QED BY <1>0, <1>2, <2>1, <2>2, <2>3, <2>4, ServedExecutes DEF n
<1> QED BY <1>4, <1>5, <1>6

LEMMA TasksWatch ==
    ASSUME ServedInv, OnTasks, NEW c \in Caller, Tasks!Watch(c)
    PROVE  ServedStep(c)
<1> USE DEF service, Tasks!service
<1>0. Served
      BY DEF OnTasks, Served
<1>1. calls \in [Caller -> Call]
      BY <1>0, ServedTypes
<1>2. /\ project' = project /\ machine' = machine /\ updates' = updates /\ jobs' = jobs /\ item' = item
      /\ execs' = execs /\ calls[c].label = "watch" /\ Busy(calls[c])
      BY DEF Tasks!Watch, Tasks!At, Busy
<1> DEFINE latest == UNION {Tasks!Latest(c, s): s \in Tasks!Steps}
           over == \A s \in Tasks!Steps: Tasks!Latest(c, s) # {} /\ \A j \in Tasks!Latest(c, s): ~Tasks!Live(j)
           verdict == IF \A j \in latest: jobs[j].state = "succeeded" THEN "SUCCEEDED" ELSE "FAILED"
<1>3. \/ Poll(c)
      \/ Finish(c, verdict) /\ (over \/ \E j \in latest: jobs[j].state = "failed")
      BY DEF Tasks!Watch, Tasks!Poll, Poll, Tasks!Finish, Finish
<1>4. CASE Poll(c)
      <2>1. Goes(c, "watch") \/ Finishes(c, "raised")
            BY <1>1, <1>2, <1>4, PollPolls
      <2> QED BY <1>0, <1>2, <2>1, ServedLooks
<1>5. CASE Finish(c, verdict) /\ (over \/ \E j \in latest: jobs[j].state = "failed")
      <2>1. verdict \in {"SUCCEEDED", "FAILED"}
            OBVIOUS
      <2>2. ASSUME verdict = "SUCCEEDED", ~OthersMeet(c)
            PROVE  AllSucceeded(calls[c].exec)
            <3>1. over /\ \A j \in latest: jobs[j].state = "succeeded"
                  <4>1. "SUCCEEDED" # "FAILED" /\ "succeeded" # "failed"
                        OBVIOUS
                  <4>2. \A j \in latest: jobs[j].state = "succeeded"
                        BY <2>2, <4>1
                  <4> QED BY <1>5, <4>1, <4>2
            <3>2. ASSUME NEW s \in Steps
                  PROVE  Succeeded(calls[c].exec, s, "write")
                  <4>1. s \in Tasks!Steps
                        BY DEF Steps, Tasks!Steps
                  <4>2. PICK j \in Tasks!Latest(c, s): TRUE
                        BY <3>1, <4>1
                  <4>3. j \in DOMAIN jobs /\ j > calls[c].since /\ jobs[j].step = s
                        BY <4>2 DEF Tasks!Latest
                  <4>4. jobs[j].state = "succeeded"
                        BY <3>1, <4>1, <4>2
                  <4>5. jobs[j].exec = calls[c].exec
                        BY <2>2, <4>3 DEF OthersMeet, OnTasks
                  <4> QED BY <4>3, <4>4, <4>5 DEF Succeeded, Of, ServedInv, OneEach
            <3> QED BY <3>2 DEF AllSucceeded
      <2> HIDE DEF verdict
      <2>3. Finishes(c, verdict)
            BY <1>1, <1>5, <2>1, FinishFinishes DEF StepStatus
      <2> QED BY <1>0, <1>2, <2>1, <2>2, <2>3, ServedLooks DEF OnTasks
<1> QED BY <1>3, <1>4, <1>5

-----------------------------------------------------------------------------
(* Every step of a project that the service runs *)

\* A step waits for those that it depends on.
LEMMA WavesFollow ==
    ASSUME project \in Projects, OnStates, NEW s \in Steps, NEW d \in project.after[s] \cap Steps
    PROVE  Glue!Wave[d] < Glue!Wave[s]
<1>1. \E wave \in [Steps -> 1..Len(project.order)]: Glue!InWaves(project, wave)
      BY WavesAssumption DEF OnStates, Steps
<1>2. Glue!Steps = Steps
      BY DEF Glue!Steps, Steps
<1>3. Glue!Wave \in [Steps -> 1..Len(project.order)] /\ Glue!InWaves(project, Glue!Wave)
      BY <1>1, <1>2 DEF Glue!Wave
<1>4. DOMAIN Glue!Wave = Steps
      BY <1>3
<1> QED BY <1>3, <1>4 DEF Glue!InWaves

ServedFrame ==
    project' = project /\ calls' = calls /\ item' = item /\ machine' = machine /\ updates' = updates

ServedOver(e) ==
    /\ ServedFrame /\ jobs' = jobs
    /\ \E label \in {"succeeded", "failed", "ended"}:
          /\ SetExec(e, label)
          /\ label = "succeeded" => AllSucceeded(e)
          /\ label = "ended" => project.driver = "tasks"

ServedTask(e, s) ==
    /\ ServedFrame /\ execs' = execs
    /\ execs[e].label = "running" /\ Of(e, s, "write") = {}
    /\ \A d \in project.after[s] \cap Steps: Succeeded(e, d, "write")
    /\ jobs' = Append(jobs, NewJob(e, s, "write"))

ServedBegin(c) ==
    /\ project' = project /\ item' = item /\ machine' = machine /\ updates' = updates
    /\ execs' = execs /\ jobs' = jobs
    /\ \E label \in {"publish", "clock"}: Begin(c, label, 0)

ServedNext ==
    \/ \E c \in Caller: ServedStep(c) \/ ServedBegin(c)
    \/ \E e \in DOMAIN execs: ServedOver(e) \/ \E s \in Steps: ServedTask(e, s)
    \/ Glue!Scheduled \/ Tasks!Scheduled
    \/ ServedFrame /\ execs' = execs /\ jobs' = jobs
    \/ \E j \in DOMAIN jobs: JobEnds(j)

LEMMA StatesCases ==
    ASSUME ServedInv, OnStates, Next
    PROVE  ServedNext
<1> USE DEF service, Glue!service
<1>0. Served /\ updates = {} /\ project \in Projects
      BY DEF OnStates, Served, ServedInv, Typed
<1>1. ~Workflows!Next
      BY DEF OnStates, Workflows!Next, Workflows!Start, Workflows!Continue, Workflows!Proceed,
         Workflows!Insert, Workflows!Look, Workflows!ExecutionRaises, Workflows!On
<1>2. ~Fabric!Next
      <2>1. ASSUME NEW c \in Caller, Fabric!Start(c) \/ Fabric!Continue(c)
            PROVE  FALSE
            BY <2>1 DEF OnStates, Fabric!Start, Fabric!Continue, Fabric!Blocked, Fabric!Look, Fabric!Create,
               Fabric!Update, Fabric!Send, Fabric!PollOperation, Fabric!Submit, Fabric!Wait, Fabric!At
      <2> QED BY <1>0, <2>1 DEF Fabric!Next
<1>3. ~Tasks!Next
      BY DEF OnStates, Tasks!Next, Tasks!Enable, Tasks!Scheduled, Tasks!Start, Tasks!Continue,
         Tasks!ExecutionEnds, Tasks!StartTask, Tasks!Publish, Tasks!Suspend, Tasks!Create, Tasks!Clock,
         Tasks!Resume, Tasks!Execute, Tasks!Watch, Tasks!At
<1>4. ASSUME NEW c \in Caller, Glue!Start(c)
      PROVE  ServedBegin(c)
      BY <1>4 DEF OnStates, ServedBegin, Glue!Start, Glue!Begin, Begin, Glue!Active, Active, Glue!Running, Running
<1>5. ASSUME NEW c \in Caller, Glue!Continue(c)
      PROVE  ServedStep(c)
      <2>1. Glue!End(c) => End(c)
            BY DEF Glue!End, End, Glue!Finish, Finish
      <2> QED BY <1>0, <1>5, <2>1, StatesPublish, StatesMachine, ServedComesToItsEnd
              DEF OnStates, Glue!Continue, Glue!StartJob, Glue!Wait, Glue!At
<1>6. ASSUME NEW e \in DOMAIN execs, Glue!ExecutionEnds(e)
      PROVE  ServedOver(e)
      <2>1. ServedFrame /\ jobs' = jobs
            BY <1>6 DEF Glue!ExecutionEnds, ServedFrame
      <2>2. \/ SetExec(e, "succeeded") /\ AllSucceeded(e)
            \/ SetExec(e, "failed")
            BY <1>6 DEF Glue!ExecutionEnds, Glue!SetExec, SetExec, Glue!Succeeded, Succeeded, Glue!Of, Of,
               AllSucceeded, Glue!Steps, Steps
      <2> QED BY <2>1, <2>2 DEF ServedOver
<1>7. ASSUME NEW e \in DOMAIN execs, NEW s \in Steps, Glue!StartTask(e, s)
      PROVE  ServedOver(e) \/ ServedTask(e, s)
      <2>1. ServedFrame /\ execs[e].label = "running" /\ Of(e, s, "write") = {}
            BY <1>7 DEF Glue!StartTask, ServedFrame, Glue!Of, Of
      <2>2. \/ jobs' = Append(jobs, NewJob(e, s, "write")) /\ execs' = execs
            \/ SetExec(e, "failed") /\ jobs' = jobs
            BY <1>7 DEF Glue!StartTask, Glue!SetExec, SetExec, Glue!NewJob, NewJob
      <2>3. \A d \in Steps: Glue!Wave[d] < Glue!Wave[s] => Succeeded(e, d, "write")
            BY <1>7 DEF Glue!StartTask, Glue!Succeeded, Succeeded, Glue!Of, Of, Glue!Steps, Steps
      <2>4. \A d \in project.after[s] \cap Steps: Succeeded(e, d, "write")
            BY <1>0, <2>3, WavesFollow
      <2> QED BY <2>1, <2>2, <2>4 DEF ServedOver, ServedTask
<1>8. ASSUME NEW c \in Caller, End(c) \/ Raise(c)
      PROVE  ServedStep(c)
      BY <1>0, <1>8, ServedGivesUp, ServedComesToItsEnd
<1>9. Glue!Next => ServedNext
      <2>1. Glue!Steps = Steps
            BY DEF Glue!Steps, Steps
      <2> QED BY <1>4, <1>5, <1>6, <1>7, <2>1 DEF Glue!Next, ServedNext
<1> QED BY <1>1, <1>2, <1>3, <1>8, <1>9 DEF Next, ServedNext

LEMMA TasksCases ==
    ASSUME ServedInv, OnTasks, Next
    PROVE  ServedNext
<1> USE DEF service, Tasks!service
<1>0. Served /\ updates = {} /\ project \in Projects /\ Tasks!Steps = Steps
      BY DEF OnTasks, Served, ServedInv, Typed, Tasks!Steps, Steps
<1>1. ~Workflows!Next
      BY DEF OnTasks, Workflows!Next, Workflows!Start, Workflows!Continue, Workflows!Proceed,
         Workflows!Insert, Workflows!Look, Workflows!ExecutionRaises, Workflows!On
<1>2. ~Fabric!Next
      <2>1. ASSUME NEW c \in Caller, Fabric!Start(c) \/ Fabric!Continue(c)
            PROVE  FALSE
            BY <2>1 DEF OnTasks, Fabric!Start, Fabric!Continue, Fabric!Blocked, Fabric!Look, Fabric!Create,
               Fabric!Update, Fabric!Send, Fabric!PollOperation, Fabric!Submit, Fabric!Wait, Fabric!At
      <2> QED BY <1>0, <2>1 DEF Fabric!Next
<1>3. ~Glue!Next
      BY DEF OnTasks, Glue!Next, Glue!Scheduled, Glue!Start, Glue!Continue, Glue!ExecutionEnds, Glue!StartTask
<1>4. ASSUME NEW c \in Caller, Tasks!Start(c)
      PROVE  ServedBegin(c)
      BY <1>4 DEF ServedBegin, Tasks!Start, Tasks!Begin, Begin, Tasks!Active, Active, Tasks!Running, Running
<1>5. ASSUME NEW c \in Caller, Tasks!Continue(c)
      PROVE  ServedStep(c)
      BY <1>5, TasksDeploy, TasksRun, TasksWatch DEF Tasks!Continue
<1>6. ASSUME NEW e \in DOMAIN execs, Tasks!ExecutionEnds(e)
      PROVE  ServedOver(e)
      BY <1>6 DEF Tasks!ExecutionEnds, ServedOver, ServedFrame, Tasks!SetExec, SetExec, OnTasks
<1>7. ASSUME NEW e \in DOMAIN execs, NEW s \in Steps, Tasks!StartTask(e, s)
      PROVE  ServedTask(e, s)
      <2>1. \A d \in project.after[s]: Succeeded(e, d, "write")
            BY <1>7 DEF Tasks!StartTask, Tasks!CanRun, Tasks!Succeeded, Succeeded, Tasks!Of, Of
      <2> QED BY <1>7, <2>1 DEF ServedTask, ServedFrame, Tasks!StartTask, Tasks!CanRun, Tasks!Of, Of,
                                Tasks!NewJob, NewJob
<1>8. ASSUME NEW c \in Caller, End(c) \/ Raise(c)
      PROVE  ServedStep(c)
      BY <1>0, <1>8, ServedGivesUp, ServedComesToItsEnd
<1>9. Tasks!Enable => ServedFrame /\ execs' = execs /\ jobs' = jobs
      BY DEF Tasks!Enable, ServedFrame
<1>10. Tasks!Next => ServedNext
      BY <1>0, <1>4, <1>5, <1>6, <1>7, <1>9 DEF Tasks!Next, ServedNext
<1> QED BY <1>1, <1>2, <1>3, <1>8, <1>10 DEF Next, ServedNext

LEMMA ServedKeeps ==
    ASSUME ServedInv, Served, Next
    PROVE  ServedInv' /\ Served'
<1>1. ServedNext
      BY StatesCases, TasksCases DEF Served, OnStates, OnTasks
<1>2. ASSUME NEW c \in Caller, ServedStep(c)
      PROVE  ServedInv' /\ Served'
      BY <1>2, ServedMoves
<1>3. ASSUME NEW c \in Caller, ServedBegin(c)
      PROVE  ServedInv' /\ Served'
      BY <1>3, ServedOpens DEF ServedBegin
<1>4. ASSUME NEW e \in DOMAIN execs, ServedOver(e)
      PROVE  ServedInv' /\ Served'
      BY <1>4, ServedEnds DEF ServedOver, ServedFrame
<1>5. ASSUME NEW e \in DOMAIN execs, NEW s \in Steps, ServedTask(e, s)
      PROVE  ServedInv' /\ Served'
      BY <1>5, ServedStarts DEF ServedTask, ServedFrame
<1>6. ASSUME ServedFrame, execs' = execs, jobs' = jobs
      PROVE  ServedInv' /\ Served'
      <2>1. Stay /\ SameCode
            BY <1>6 DEF Stay, SameCode
      <2>2. ASSUME NEW e \in DOMAIN execs'
            PROVE  Executes(e)'
            BY <1>6, <2>1, AllSucceededStays DEF ServedFrame, ServedInv, Executes
      <2>3. OneEach'
            BY <1>6 DEF ServedFrame, ServedInv, OneEach, Steps
      <2>4. execs' \in Seq(Exec) /\ jobs' \in Seq(Job)
            BY <1>6 DEF ServedInv, Typed
      <2> QED BY <1>6, <2>1, <2>2, <2>3, <2>4, ServedRests DEF ServedFrame
<1> QED BY <1>1, <1>2, <1>3, <1>4, <1>5, <1>6, ServedSchedules, ServedWaits DEF ServedNext

\* The job that a step adds is the first of its step, after those of the steps
\* that it depends on.
LEMMA ServedOrder ==
    ASSUME ServedInv, Served, Next, NEW j \in DOMAIN jobs' \ DOMAIN jobs
    PROVE  LET new == jobs'[j]
           IN  /\ Of(new.exec, new.step, "write") = {}
               /\ \A d \in project.after[new.step] \cap Selected:
                     \E k \in Of(new.exec, d, "write"): jobs[k].state = "succeeded"
<1>1. ServedNext
      BY StatesCases, TasksCases DEF Served, OnStates, OnTasks
<1>2. jobs' # jobs /\ ~(\E i \in DOMAIN jobs: JobEnds(i))
      BY JobEndsFlat DEF ServedInv, Typed
<1>3. \E e \in DOMAIN execs, s \in Steps: ServedTask(e, s)
      BY <1>1, <1>2 DEF ServedNext, ServedStep, ServedBegin, ServedOver, ServedFrame, Glue!Scheduled, Tasks!Scheduled
<1>4. PICK e \in DOMAIN execs, s \in Steps: ServedTask(e, s)
      BY <1>3
<1>5. s \in Step /\ "write" \in Op /\ Typed
      BY OrderFacts DEF Steps, ServedInv, Typed, Op
<1> DEFINE k == NewJob(e, s, "write")
<1>6. k \in Job /\ k.exec = e /\ k.step = s /\ jobs' = Append(jobs, k) /\ jobs \in Seq(Job)
      BY <1>4, <1>5, NewJobs DEF ServedTask, Typed
<1> HIDE DEF k
<1>7. jobs'[j] = k
      BY <1>6, Appended
<1>8. Selected = Steps
      BY <1>5, FromTheFirst DEF Typed
<1> QED BY <1>4, <1>6, <1>7, <1>8 DEF ServedTask, Succeeded

-----------------------------------------------------------------------------
(* How an execution of the workflow ends, and what it leaves running *)

\* Where the execution stopped, and which of its jobs may still be running.
Ends(e) ==
    /\ execs[e].label \in {"running", "succeeded", "failed", "raised", "cancelled"}
    /\ execs[e].op \in {"write", "record_failed"} => Of(e, Here(e), "record") = {}
    /\ execs[e].label = "failed" =>
          execs[e].op = "record_failed" \/ (execs[e].op = "flag" /\ Succeeded(e, Here(e), "flag"))
    /\ ~execs[e].lost =>
          \A j \in DOMAIN jobs:
             (jobs[j].exec = e /\ Live(j)) => j = execs[e].job /\ execs[e].label \notin {"succeeded", "failed"}

\* A job of the workflow runs what the workflow was deployed with.
Coded == \A j \in DOMAIN jobs: jobs[j].code = execs[jobs[j].exec].by /\ jobs[j].def = execs[jobs[j].exec].by

\* The same execution, as far as a step may change it.
SamePlace(x, y) == y.by = x.by /\ y.at = x.at /\ y.op = x.op /\ y.job = x.job /\ y.lost = x.lost

OthersRest(e) == DOMAIN execs' = DOMAIN execs /\ \A f \in DOMAIN execs: f # e => execs'[f] = execs[f]

\* The failure of a request, or of a job.
Erring(x, y) ==
    /\ y.by = x.by /\ y.at = x.at /\ y.lost = x.lost
    /\ \/ x.op = "write" /\ y.op = "record_failed" /\ y.job = 0 /\ y.label = "running"
       \/ x.op # "write" /\ y.op = x.op /\ y.job = x.job /\ y.label = "raised"

LEMMA ErrsFlat ==
    ASSUME EvidenceInv, NEW e \in DOMAIN execs, execs[e].label = "running", Workflows!Errs(e, FALSE)
    PROVE  OthersRest(e) /\ Erring(execs[e], execs'[e])
<1> DEFINE x == execs[e]
<1>1. x \in Exec /\ execs \in Seq(Exec)
      BY DEF EvidenceInv, Types
<1>2. x.lost \in BOOLEAN
      BY <1>1, ExecRecords
<1>3. CASE x.op = "write"
      <2> DEFINE y == [x EXCEPT !.op = "record_failed", !.job = 0, !.polls = 0, !.lost = x.lost \/ FALSE]
      <2>1. execs' = [execs EXCEPT ![e] = y]
            BY <1>3 DEF Workflows!Errs
      <2>2. y.by = x.by /\ y.at = x.at /\ y.op = "record_failed" /\ y.job = 0 /\ y.label = "running"
            BY <1>1 DEF Exec
      <2>3. y.lost = (x.lost \/ FALSE)
            BY <1>1 DEF Exec
      <2>4. (x.lost \/ FALSE) = x.lost
            BY <1>2
      <2> HIDE DEF y
      <2> QED BY <1>1, <1>3, <2>1, <2>2, <2>3, <2>4 DEF OthersRest, Erring
<1>4. CASE x.op # "write"
      <2> DEFINE y == [x EXCEPT !.label = "raised", !.lost = x.lost \/ FALSE]
      <2>1. execs' = [execs EXCEPT ![e] = y]
            BY <1>4 DEF Workflows!Errs
      <2>2. y.by = x.by /\ y.at = x.at /\ y.op = x.op /\ y.job = x.job /\ y.label = "raised"
            BY <1>1 DEF Exec
      <2>3. y.lost = (x.lost \/ FALSE)
            BY <1>1 DEF Exec
      <2>4. (x.lost \/ FALSE) = x.lost
            BY <1>2
      <2> HIDE DEF y
      <2> QED BY <1>1, <1>4, <2>1, <2>2, <2>3, <2>4 DEF OthersRest, Erring
<1> QED BY <1>3, <1>4

\* The insertion of a job, of which the answer may be lost.
Inserting(e, x, y, n, k) ==
    /\ k.exec = e /\ k.step = Here(e) /\ k.kind = x.op /\ k.state = "running" /\ k.code = x.by /\ k.def = x.by
    /\ y.by = x.by /\ y.at = x.at /\ y.label \in {"running", "raised"}
    /\ y.op = x.op \/ (x.op = "write" /\ y.op = "record_failed")
    /\ y.lost \/ (y.job = n /\ y.op = x.op /\ ~x.lost)

LEMMA InsertFlat ==
    ASSUME EvidenceInv, NEW e \in DOMAIN execs, Workflows!Insert(e)
    PROVE  /\ project' = project /\ calls' = calls /\ erased' = erased
           /\ OthersRest(e) /\ execs[e].label = "running" /\ execs[e].job = 0
           /\ \/ jobs' = jobs /\ Erring(execs[e], execs'[e])
              \/ \E k \in Job: jobs' = Append(jobs, k) /\ Inserting(e, execs[e], execs'[e], Len(jobs) + 1, k)
<1> USE DEF service, Workflows!service
<1> DEFINE x == execs[e]
           n == Len(jobs) + 1
           k == [Workflows!NewJob(e, Workflows!Doing(e), execs[e].op) EXCEPT !.code = execs[e].by, !.def = execs[e].by]
<1>1. /\ x \in Exec /\ x.at \in DOMAIN project.order /\ e \in Nat /\ execs \in Seq(Exec)
      /\ project' = project /\ x.label = "running" /\ x.job = 0 /\ calls' = calls /\ erased' = erased
      /\ jobs \in Seq(Job) /\ DOMAIN jobs = 1..Len(jobs) /\ Len(jobs) \in Nat
      BY DEF EvidenceInv, Types, Workflows!Insert, Workflows!On
<1>2. CASE jobs' = jobs /\ Workflows!Errs(e, FALSE)
      BY <1>1, <1>2, ErrsFlat
<1>3. CASE /\ jobs' = Append(jobs, k)
           /\ \/ execs' = [execs EXCEPT ![e].job = n]
              \/ execs' = [execs EXCEPT ![e].lost = TRUE]
              \/ Workflows!Errs(e, TRUE)
      <2>1. /\ k \in Job /\ k.exec = e /\ k.step = Here(e) /\ k.kind = x.op /\ k.state = "running"
            /\ k.code = x.by /\ k.def = x.by
            <3>1. x.op \in Op /\ x.by \in Version
                  BY <1>1 DEF Exec
            <3>2. project.order \in Seq(Step)
                  BY OrderFacts DEF EvidenceInv, Types
            <3>3. Here(e) \in Step
                  BY <1>1, <3>2 DEF Here
            <3> QED BY <1>1, <3>1, <3>3 DEF Workflows!NewJob, Workflows!Doing, Here, Job
      <2> HIDE DEF k
      <2>2. ASSUME NEW y, execs' = [execs EXCEPT ![e] = y],
                   /\ y.by = x.by /\ y.at = x.at /\ y.label \in {"running", "raised"}
                   /\ y.op = x.op \/ (x.op = "write" /\ y.op = "record_failed")
                   /\ y.lost \/ (y.job = n /\ y.op = x.op /\ ~x.lost)
            PROVE  OthersRest(e) /\ Inserting(e, x, execs'[e], n, k)
            <3>1. execs'[e] = y /\ OthersRest(e)
                  BY <1>1, <2>2 DEF OthersRest
            <3> QED BY <2>1, <2>2, <3>1 DEF Inserting
      <2>3. CASE execs' = [execs EXCEPT ![e].job = n]
            <3> DEFINE y == [execs[e] EXCEPT !.job = n]
            <3>1. y.by = x.by /\ y.at = x.at /\ y.label = x.label /\ y.op = x.op /\ y.job = n
                  /\ (x.lost => y.lost)
                  BY <1>1 DEF Exec
            <3>2. execs' = [execs EXCEPT ![e] = y]
                  BY <2>3
            <3> HIDE DEF y
            <3> QED BY <1>1, <1>3, <2>1, <2>2, <3>1, <3>2
      <2>4. CASE execs' = [execs EXCEPT ![e].lost = TRUE]
            <3> DEFINE y == [execs[e] EXCEPT !.lost = TRUE]
            <3>1. y.by = x.by /\ y.at = x.at /\ y.label = x.label /\ y.op = x.op /\ y.lost
                  BY <1>1 DEF Exec
            <3>2. execs' = [execs EXCEPT ![e] = y]
                  BY <2>4
            <3> HIDE DEF y
            <3> QED BY <1>1, <1>3, <2>1, <2>2, <3>1, <3>2
      <2>5. CASE Workflows!Errs(e, TRUE) /\ x.op = "write"
            <3> DEFINE y == [execs[e] EXCEPT !.op = "record_failed", !.job = 0, !.polls = 0,
                                             !.lost = execs[e].lost \/ TRUE]
            <3>1. y.by = x.by /\ y.at = x.at /\ y.label = x.label /\ y.op = "record_failed" /\ y.lost
                  BY <1>1 DEF Exec
            <3>2. execs' = [execs EXCEPT ![e] = y]
                  BY <2>5 DEF Workflows!Errs
            <3> HIDE DEF y
            <3> QED BY <1>1, <1>3, <2>1, <2>2, <2>5, <3>1, <3>2
      <2>6. CASE Workflows!Errs(e, TRUE) /\ x.op # "write"
            <3> DEFINE y == [execs[e] EXCEPT !.label = "raised", !.lost = execs[e].lost \/ TRUE]
            <3>1. y.by = x.by /\ y.at = x.at /\ y.label = "raised" /\ y.op = x.op /\ y.lost
                  BY <1>1 DEF Exec
            <3>2. execs' = [execs EXCEPT ![e] = y]
                  BY <2>6 DEF Workflows!Errs
            <3> HIDE DEF y
            <3> QED BY <1>1, <1>3, <2>1, <2>2, <3>1, <3>2
      <2> QED BY <1>3, <2>3, <2>4, <2>5, <2>6
<1> QED BY <1>2, <1>3 DEF Workflows!Insert, Workflows!MayLose

\* A look at the job that the execution waits for.
Going(x, y) == y.by = x.by /\ y.at = x.at /\ y.lost = x.lost /\ y.label = "running" /\ y.job = 0
               /\ y.op \in {"record", "check", "pass", "flag"}

Done(x, y) ==
    \/ SamePlace(x, y) /\ y.label = "succeeded"
    \/ /\ y.by = x.by /\ y.at = x.at + 1 /\ y.lost = x.lost /\ y.label = "running" /\ y.job = 0 /\ y.op = "write"

Looking(state, x, y) ==
    \/ state = "failed" /\ Erring(x, y)
    \/ state = "running" /\ SamePlace(x, y) /\ y.label \in {"running", "raised"}
    \/ state = "succeeded" /\ x.op \notin {"flag", "record_failed"} /\ (Going(x, y) \/ Done(x, y))
    \/ state = "succeeded" /\ x.op \in {"flag", "record_failed"} /\ SamePlace(x, y) /\ y.label = "failed"

LEMMA LookFlat ==
    ASSUME EvidenceInv, NEW e \in DOMAIN execs, Workflows!Look(e)
    PROVE  /\ project' = project /\ calls' = calls /\ erased' = erased /\ jobs' = jobs
           /\ OthersRest(e) /\ execs[e].label = "running" /\ execs[e].job # 0
           /\ Looking(jobs[execs[e].job].state, execs[e], execs'[e])
<1> USE DEF service, Workflows!service
<1> DEFINE x == execs[e]
           job == execs[e].job
<1>0. x \in Exec /\ e \in Nat /\ execs \in Seq(Exec) /\ Tells(e) /\ jobs \in Seq(Job)
      BY DEF EvidenceInv, Types
<1>1. /\ x \in Exec /\ x.at \in Nat /\ e \in Nat /\ execs \in Seq(Exec) /\ Tells(e)
      /\ project' = project /\ x.label = "running" /\ x.job # 0 /\ calls' = calls /\ erased' = erased
      /\ jobs' = jobs /\ jobs \in Seq(Job)
      BY <1>0 DEF Workflows!Look, Workflows!On, Exec
<1>2. job \in Of(e, Here(e), x.op) /\ job \in DOMAIN jobs /\ jobs[job] \in Job
      BY <1>1 DEF Tells, LooksAtItsOwn, Of
<1>3. jobs[job].state \in {"running", "succeeded", "failed"}
      BY <1>2 DEF Job
<1>4. CASE jobs[job].state = "failed"
      <2>1. Workflows!Errs(e, FALSE)
            BY <1>4 DEF Workflows!Look
      <2> QED BY <1>1, <1>4, <2>1, ErrsFlat DEF Looking
<1>5. ASSUME NEW y, execs' = [execs EXCEPT ![e] = y], Looking(jobs[job].state, x, y)
      PROVE  OthersRest(e) /\ Looking(jobs[job].state, x, execs'[e])
      BY <1>1, <1>5 DEF OthersRest
<1>6. CASE jobs[job].state = "running"
      <2>1. CASE execs' = [execs EXCEPT ![e].polls = @ + 1]
            <3> DEFINE y == [execs[e] EXCEPT !.polls = execs[e].polls + 1]
            <3>1. SamePlace(x, y) /\ y.label = x.label
                  BY <1>1 DEF Exec, SamePlace
            <3>2. execs' = [execs EXCEPT ![e] = y]
                  BY <2>1
            <3> HIDE DEF y
            <3> QED BY <1>1, <1>5, <1>6, <3>1, <3>2 DEF Looking
      <2>2. CASE Workflows!SetExec(e, "raised")
            <3> DEFINE y == [execs[e] EXCEPT !.label = "raised"]
            <3>1. SamePlace(x, y) /\ y.label = "raised"
                  BY <1>1 DEF Exec, SamePlace
            <3>2. execs' = [execs EXCEPT ![e] = y]
                  BY <2>2 DEF Workflows!SetExec
            <3> HIDE DEF y
            <3> QED BY <1>1, <1>5, <1>6, <3>1, <3>2 DEF Looking
      <2> QED BY <1>6, <2>1, <2>2 DEF Workflows!Look
<1>7. CASE jobs[job].state = "succeeded"
      <2>1. Workflows!Succeeds(e) /\ x.op \in Op
            BY <1>1, <1>7 DEF Workflows!Look, Exec
      <2>2. ASSUME NEW op \in {"record", "check", "pass", "flag"}, Workflows!Then(e, op),
                   x.op \notin {"flag", "record_failed"}
            PROVE  OthersRest(e) /\ Looking(jobs[job].state, x, execs'[e])
            <3> DEFINE y == [execs[e] EXCEPT !.op = op, !.job = 0, !.polls = 0]
            <3>1. y.by = x.by /\ y.at = x.at /\ y.lost = x.lost /\ y.label = x.label /\ y.job = 0 /\ y.op = op
                  BY <1>1 DEF Exec
            <3>2. execs' = [execs EXCEPT ![e] = y]
                  BY <2>2 DEF Workflows!Then
            <3> HIDE DEF y
            <3> QED BY <1>1, <1>5, <1>7, <2>2, <3>1, <3>2 DEF Looking, Going
      <2>3. ASSUME Workflows!StepDone(e), x.op \notin {"flag", "record_failed"}
            PROVE  OthersRest(e) /\ Looking(jobs[job].state, x, execs'[e])
            <3>1. CASE x.at = Len(project.order)
                  <4> DEFINE y == [execs[e] EXCEPT !.label = "succeeded"]
                  <4>1. SamePlace(x, y) /\ y.label = "succeeded"
                        BY <1>1 DEF Exec, SamePlace
                  <4>2. execs' = [execs EXCEPT ![e] = y]
                        BY <2>3, <3>1 DEF Workflows!StepDone
                  <4> HIDE DEF y
                  <4> QED BY <1>5, <1>7, <2>3, <4>1, <4>2 DEF Looking, Done
            <3>2. CASE x.at # Len(project.order)
                  <4> DEFINE y == [execs[e] EXCEPT !.at = execs[e].at + 1, !.op = "write", !.job = 0, !.polls = 0]
                  <4>1. y.by = x.by /\ y.at = x.at + 1 /\ y.lost = x.lost /\ y.label = x.label /\ y.job = 0
                        /\ y.op = "write"
                        BY <1>1 DEF Exec
                  <4>2. execs' = [execs EXCEPT ![e] = y]
                        BY <2>3, <3>2 DEF Workflows!StepDone
                  <4> HIDE DEF y
                  <4> QED BY <1>1, <1>5, <1>7, <2>3, <4>1, <4>2 DEF Looking, Done
            <3> QED BY <3>1, <3>2
      <2>4. CASE x.op \in {"flag", "record_failed"}
            <3> DEFINE y == [execs[e] EXCEPT !.label = "failed"]
            <3>1. SamePlace(x, y) /\ y.label = "failed"
                  BY <1>1 DEF Exec, SamePlace
            <3>2. execs' = [execs EXCEPT ![e] = y]
                  BY <2>1, <2>4 DEF Workflows!Succeeds, Workflows!SetExec
            <3> HIDE DEF y
            <3> QED BY <1>1, <1>5, <1>7, <2>4, <3>1, <3>2 DEF Looking
      <2>5. CASE x.op = "write"
            BY <1>1, <2>1, <2>2, <2>5 DEF Workflows!Succeeds
      <2>6. CASE x.op = "record"
            BY <1>1, <2>1, <2>2, <2>3, <2>6 DEF Workflows!Succeeds
      <2>7. CASE x.op = "check"
            BY <1>1, <2>1, <2>2, <2>7 DEF Workflows!Succeeds
      <2>8. CASE x.op = "pass"
            BY <1>1, <2>1, <2>3, <2>8 DEF Workflows!Succeeds
      <2> QED BY <1>1, <2>1, <2>4, <2>5, <2>6, <2>7, <2>8 DEF Op
<1> QED BY <1>1, <1>3, <1>4, <1>6, <1>7

ExecsInv == EvidenceInv /\ Coded /\ \A e \in DOMAIN execs: Ends(e)

\* An execution that is over stays as it is, and gets no further job.
OverStays ==
    \A e \in DOMAIN execs:
        /\ e \in DOMAIN execs' /\ execs'[e].by = execs[e].by
        /\ execs[e].label # "running" =>
              execs'[e] = execs[e] /\ \A j \in DOMAIN jobs': jobs'[j].exec = e => j \in DOMAIN jobs

LEMMA EndsKeeps ==
    ASSUME Stay, project' = project, NEW e, Ends(e),
           \A j \in DOMAIN jobs': jobs'[j].exec = e => j \in DOMAIN jobs,
           SamePlace(execs[e], execs'[e]),
           execs'[e].label = execs[e].label \/ execs'[e].label \in {"raised", "cancelled"}
    PROVE  Ends(e)'
<1>1. Here(e)' = Here(e)
      BY DEF Here, SamePlace
<1>2. \A s, k: Of(e, s, k)' = Of(e, s, k)
      BY DEF Stay, Of
<1>3. execs'[e].label \in {"running", "succeeded", "failed", "raised", "cancelled"}
      BY DEF Ends
<1>4. execs'[e].op \in {"write", "record_failed"} => Of(e, Here(e), "record")' = {}
      BY <1>1, <1>2 DEF Ends, SamePlace
<1>5. execs'[e].label = "failed" =>
         execs'[e].op = "record_failed" \/ (execs'[e].op = "flag" /\ Succeeded(e, Here(e), "flag")')
      BY <1>1, Stable DEF Ends, SamePlace
<1>6. ~execs'[e].lost =>
         \A j \in DOMAIN jobs':
            (jobs'[j].exec = e /\ Live(j)') => j = execs'[e].job /\ execs'[e].label \notin {"succeeded", "failed"}
      BY DEF Ends, SamePlace, Stay, Live
<1> QED BY <1>1, <1>3, <1>4, <1>5, <1>6 DEF Ends

LEMMA EndsMoves ==
    ASSUME EvidenceInv, EvidenceInv', NEW e \in DOMAIN execs, Ends(e), Workflows!Proceed(e)
    PROVE  Ends(e)'
<1>1. /\ project' = project /\ Tells(e) /\ execs[e].label = "running"
      /\ jobs \in Seq(Job) /\ DOMAIN jobs = 1..Len(jobs) /\ Len(jobs) \in Nat
      /\ execs[e].at \in Nat /\ execs[e].at \in DOMAIN project.order
      <2>1. project' = project /\ execs[e].label = "running"
            BY InsertFlat, LookFlat DEF Workflows!Proceed
      <2>2. execs[e] \in Exec /\ Tells(e) /\ execs[e].at \in DOMAIN project.order /\ jobs \in Seq(Job)
            BY DEF EvidenceInv, Types
      <2> QED BY <2>1, <2>2 DEF Exec
<1> DEFINE x == execs[e]
           y == execs'[e]
\* The execution stays in its step.
<1>2. ASSUME Stay, y.at = x.at, y.label \in {"running", "raised"},
             \A j \in DOMAIN jobs': jobs'[j].exec = e =>
                j \in DOMAIN jobs \/ (jobs'[j].kind = x.op /\ (y.lost \/ j = y.job)),
             y.op \in {"write", "record_failed"} =>
                x.op \in {"write", "record_failed"},
             ~y.lost => \A j \in DOMAIN jobs: jobs[j].exec = e /\ Live(j) => j = y.job \/ ~Live(j)'
      PROVE  Ends(e)'
      <2>1. Here(e)' = Here(e)
            BY <1>1, <1>2 DEF Here
      <2>2. y.op \in {"write", "record_failed"} => Of(e, Here(e), "record")' = {}
            BY <1>1, <1>2, <2>1 DEF Ends, Of, Stay
      <2>3. ~y.lost =>
               \A j \in DOMAIN jobs':
                  (jobs'[j].exec = e /\ Live(j)') => j = y.job /\ y.label \notin {"succeeded", "failed"}
            BY <1>2 DEF Stay, Live
      <2> QED BY <1>2, <2>1, <2>2, <2>3 DEF Ends
<1>3. ASSUME Workflows!Insert(e)
      PROVE  Ends(e)'
      <2>1. x.job = 0
            BY <1>3, InsertFlat
      <2>2. ~x.lost => \A j \in DOMAIN jobs: ~(jobs[j].exec = e /\ Live(j))
            BY <1>1, <2>1 DEF Ends
      <2>3. CASE jobs' = jobs /\ Erring(x, y)
            <3>1. Stay
                  BY <2>3 DEF Stay
            <3> QED BY <1>2, <2>2, <2>3, <3>1 DEF Erring
      <2>4. ASSUME NEW k \in Job, jobs' = Append(jobs, k), Inserting(e, x, y, Len(jobs) + 1, k)
            PROVE  Ends(e)'
            <3>1. /\ DOMAIN jobs' = 1..(Len(jobs) + 1) /\ jobs'[Len(jobs) + 1] = k
                  /\ \A j \in DOMAIN jobs: jobs'[j] = jobs[j] /\ j \in DOMAIN jobs'
                  /\ \A j \in DOMAIN jobs': j \in DOMAIN jobs \/ j = Len(jobs) + 1
                  BY <1>1, <2>4, Appended
            <3>2. Stay
                  BY <3>1 DEF Stay
            <3>3. CASE y.lost
                  BY <1>2, <2>4, <3>1, <3>2, <3>3 DEF Inserting
            <3>4. CASE ~y.lost
                  <4>1. y.job = Len(jobs) + 1 /\ y.op = x.op /\ ~x.lost
                        BY <2>4, <3>4 DEF Inserting
                  <4> QED BY <1>2, <2>2, <2>4, <3>1, <3>2, <4>1 DEF Inserting
            <3> QED BY <3>3, <3>4
      <2> QED BY <1>3, <2>3, <2>4, InsertFlat
<1>4. ASSUME Workflows!Look(e)
      PROVE  Ends(e)'
      <2>1. /\ jobs' = jobs /\ Looking(jobs[x.job].state, x, y) /\ x.job # 0
            BY <1>4, LookFlat
      <2>2. Stay
            BY <2>1 DEF Stay
      <2>3. jobs[x.job].state # "running" /\ ~x.lost => \A j \in DOMAIN jobs: ~(jobs[j].exec = e /\ Live(j))
            BY DEF Ends, Live
      <2>4. CASE jobs[x.job].state = "failed" /\ Erring(x, y)
            BY <1>2, <2>1, <2>2, <2>3, <2>4 DEF Erring
      <2>5. CASE SamePlace(x, y) /\ y.label \in {"running", "raised"}
            BY <1>1, <2>1, <2>2, <2>5, EndsKeeps
      <2>6. CASE jobs[x.job].state = "succeeded" /\ Going(x, y)
            BY <1>2, <2>1, <2>2, <2>3, <2>6 DEF Going
      <2>7. CASE jobs[x.job].state = "succeeded" /\ Done(x, y) /\ x.op \notin {"flag", "record_failed"}
            <3>1. CASE SamePlace(x, y) /\ y.label = "succeeded"
                  <4>1. Here(e)' = Here(e)
                        BY <1>1, <3>1 DEF Here, SamePlace
                  <4> QED BY <2>1, <2>3, <2>7, <3>1, <4>1 DEF Ends, SamePlace, Of, Live
            <3>2. CASE ~(SamePlace(x, y) /\ y.label = "succeeded")
                  <4>1. y.at = x.at + 1 /\ y.lost = x.lost /\ y.label = "running" /\ y.job = 0 /\ y.op = "write"
                        BY <2>7, <3>2 DEF Done
                  <4>2. Here(e)' = project.order[x.at + 1] /\ x.at + 1 \in DOMAIN project.order
                        <5>1. e \in DOMAIN execs'
                              BY <1>4, LookFlat DEF OthersRest
                        <5> QED BY <1>1, <4>1, <5>1 DEF Here, EvidenceInv, Types
                  <4>3. \A j \in DOMAIN jobs: jobs[j].exec = e => jobs[j].step # project.order[x.at + 1]
                        BY <1>1, <4>2, OrderFacts DEF Tells, NothingAhead, EvidenceInv, Types
                  <4>4. Of(e, Here(e), "record")' = {}
                        BY <2>1, <4>2, <4>3 DEF Of
                  <4> QED BY <2>1, <2>3, <2>7, <4>1, <4>4 DEF Ends, Live
            <3> QED BY <3>1, <3>2
      <2>8. CASE /\ jobs[x.job].state = "succeeded" /\ x.op \in {"flag", "record_failed"}
                 /\ SamePlace(x, y) /\ y.label = "failed"
            <3>1. Here(e)' = Here(e)
                  BY <1>1, <2>8 DEF Here, SamePlace
            <3>2. x.op = "flag" => Succeeded(e, Here(e), "flag")
                  BY <1>1, <2>1, <2>8 DEF Tells, LooksAtItsOwn, Succeeded
            <3>3. Succeeded(e, Here(e), "flag") => Succeeded(e, Here(e), "flag")'
                  BY <2>1, <3>1 DEF Succeeded, Of
            <3>4. Of(e, Here(e), "record")' = Of(e, Here(e), "record")
                  BY <2>1, <3>1 DEF Of
            <3> QED BY <2>1, <2>3, <2>8, <3>1, <3>2, <3>3, <3>4 DEF Ends, SamePlace, Live
      <2> QED BY <2>1, <2>4, <2>5, <2>6, <2>7, <2>8 DEF Looking
<1> QED BY <1>3, <1>4 DEF Workflows!Proceed

LEMMA WorkExecs ==
    ASSUME ExecsInv, ByWorkflow, Next
    PROVE  ExecsInv' /\ project' = project /\ Stay /\ SameCode /\ OverStays
<1> USE DEF service, Workflows!service
<1>1. EvidenceInv' /\ project' = project
      BY EvidenceStep, WhatMoves DEF ExecsInv
<1> DEFINE Goal == Stay /\ SameCode /\ OverStays /\ Coded' /\ \A e \in DOMAIN execs': Ends(e)'
<1>2. /\ jobs \in Seq(Job) /\ DOMAIN jobs = 1..Len(jobs) /\ Len(jobs) \in Nat
      /\ execs \in Seq(Exec) /\ DOMAIN execs = 1..Len(execs) /\ Len(execs) \in Nat
      /\ Owned /\ Coded /\ project \in Projects /\ \A e \in DOMAIN execs: Ends(e)
      BY DEF ExecsInv, EvidenceInv, Types
\* No execution gets a job.
<1>3. ASSUME Stay, SameCode, DOMAIN jobs' = DOMAIN jobs, DOMAIN execs' = DOMAIN execs,
             \A e \in DOMAIN execs:
                /\ SamePlace(execs[e], execs'[e])
                /\ execs'[e] = execs[e] \/ (execs[e].label = "running" /\ execs'[e].label \in {"raised", "cancelled"})
      PROVE  Goal
      <2>1. OverStays
            BY <1>3 DEF OverStays, SamePlace
      <2>2. Coded'
            BY <1>2, <1>3 DEF Coded, SameCode, Stay, SamePlace, Owned
      <2>3. \A e \in DOMAIN execs': Ends(e)'
            BY <1>1, <1>2, <1>3, EndsKeeps
      <2> QED BY <1>3, <2>1, <2>2, <2>3
<1>4. ASSUME UNCHANGED <<execs, jobs>>
      PROVE  Goal
      BY <1>3, <1>4 DEF Stay, SameCode, SamePlace
<1>5. ASSUME NEW j \in DOMAIN jobs, JobEnds(j)
      PROVE  Goal
      BY <1>2, <1>3, <1>5, JobEndsFlat DEF JobEnds, SamePlace
<1>6. ASSUME NEW e \in DOMAIN execs, Workflows!ExecutionRaises(e)
      PROVE  Goal
      <2> DEFINE x == [execs[e] EXCEPT !.label = "raised"]
      <2>1. jobs' = jobs /\ execs' = [execs EXCEPT ![e] = x] /\ execs[e].label = "running"
            BY <1>6 DEF Workflows!ExecutionRaises, Workflows!SetExec, Workflows!On
      <2>2. SamePlace(execs[e], x) /\ x.label = "raised"
            BY <1>2 DEF Exec, SamePlace
      <2> HIDE DEF x
      <2>3. DOMAIN execs' = DOMAIN execs /\ execs'[e] = x /\ \A f \in DOMAIN execs: f # e => execs'[f] = execs[f]
            BY <1>2, <2>1
      <2>4. Stay /\ SameCode /\ DOMAIN jobs' = DOMAIN jobs
            BY <2>1 DEF Stay, SameCode
      <2>5. \A f \in DOMAIN execs:
               /\ SamePlace(execs[f], execs'[f])
               /\ execs'[f] = execs[f] \/ (execs[f].label = "running" /\ execs'[f].label \in {"raised", "cancelled"})
            BY <2>1, <2>2, <2>3 DEF SamePlace
      <2> QED BY <1>3, <2>3, <2>4, <2>5
<1>7. ASSUME NEW c \in Caller, Workflows!CleanUp(c)
      PROVE  Goal
      <2>1. jobs' = jobs /\ execs' = [e \in DOMAIN execs |->
               IF execs[e].label = "running" THEN [execs[e] EXCEPT !.label = "cancelled"] ELSE execs[e]]
            BY <1>7 DEF Workflows!CleanUp
      <2>2. Stay /\ SameCode /\ DOMAIN jobs' = DOMAIN jobs /\ DOMAIN execs' = DOMAIN execs
            BY <2>1 DEF Stay, SameCode
      <2>3. ASSUME NEW f \in DOMAIN execs
            PROVE  /\ SamePlace(execs[f], execs'[f])
                   /\ execs'[f] = execs[f]
                      \/ (execs[f].label = "running" /\ execs'[f].label \in {"raised", "cancelled"})
            <3> DEFINE x == [execs[f] EXCEPT !.label = "cancelled"]
            <3>1. SamePlace(execs[f], x) /\ x.label = "cancelled"
                  BY <1>2 DEF Exec, SamePlace
            <3>2. execs'[f] = IF execs[f].label = "running" THEN x ELSE execs[f]
                  BY <2>1
            <3> HIDE DEF x
            <3> QED BY <3>1, <3>2 DEF SamePlace
      <2> QED BY <1>3, <2>2, <2>3
<1>8. ASSUME NEW c \in Caller, Workflows!Run(c)
      PROVE  Goal
      <2>1. CASE execs' = execs
            BY <1>4, <1>8, <2>1 DEF Workflows!Run
      <2>2. CASE execs' # execs
            <3> DEFINE x == NewExec(machine, "running")
            <3>1. jobs' = jobs /\ execs' = Append(execs, x)
                  BY <1>8, <2>2 DEF Workflows!Run, Workflows!NewExec, NewExec
            <3>2. x \in Exec /\ x.label = "running" /\ x.at = 1 /\ x.op = "write"
                  BY NewExecs DEF ExecsInv, EvidenceInv, Types
            <3> HIDE DEF x
            <3>3. /\ DOMAIN execs' = 1..(Len(execs) + 1) /\ execs'[Len(execs) + 1] = x
                  /\ \A e \in DOMAIN execs: e \in DOMAIN execs' /\ execs'[e] = execs[e]
                  /\ \A e \in DOMAIN execs': e \in DOMAIN execs \/ e = Len(execs) + 1
                  BY <1>2, <3>1, <3>2, Appended
            <3>4. Stay /\ SameCode
                  BY <3>1 DEF Stay, SameCode
            <3>5. OverStays /\ Coded'
                  BY <1>2, <3>1, <3>3 DEF OverStays, Coded, Owned
            <3>6. ASSUME NEW e \in DOMAIN execs'
                  PROVE  Ends(e)'
                  <4>1. CASE e \in DOMAIN execs
                        BY <1>1, <1>2, <3>1, <3>3, <3>4, <4>1, EndsKeeps DEF SamePlace
                  <4>2. CASE e = Len(execs) + 1
                        <5>1. \A j \in DOMAIN jobs': jobs'[j].exec # e
                              BY <1>2, <3>1, <4>2 DEF Owned
                        <5> QED BY <3>2, <3>3, <4>2, <5>1 DEF Ends, Of
                  <4> QED BY <3>3, <4>1, <4>2
            <3> QED BY <3>4, <3>5, <3>6
      <2> QED BY <2>1, <2>2
<1>9. ASSUME NEW e \in DOMAIN execs, Workflows!Proceed(e)
      PROVE  Goal
      <2>1. /\ OthersRest(e) /\ execs[e].label = "running" /\ execs'[e].by = execs[e].by
            /\ \/ jobs' = jobs
               \/ \E k \in Job: jobs' = Append(jobs, k) /\ k.exec = e /\ k.code = execs[e].by /\ k.def = execs[e].by
            BY <1>9, InsertFlat, LookFlat
            DEF Workflows!Proceed, ExecsInv, Erring, Inserting, Looking, Going, Done, SamePlace
      <2>2. /\ Stay /\ SameCode
            /\ \A j \in DOMAIN jobs': j \in DOMAIN jobs
                  \/ (jobs'[j].exec = e /\ jobs'[j].code = execs[e].by /\ jobs'[j].def = execs[e].by)
            <3>1. CASE jobs' = jobs
                  BY <3>1 DEF Stay, SameCode
            <3>2. ASSUME NEW k \in Job, jobs' = Append(jobs, k), k.exec = e, k.code = execs[e].by, k.def = execs[e].by
                  PROVE  <2>2
                  <4>1. /\ jobs'[Len(jobs) + 1] = k /\ \A j \in DOMAIN jobs: j \in DOMAIN jobs' /\ jobs'[j] = jobs[j]
                        /\ \A j \in DOMAIN jobs': j \in DOMAIN jobs \/ j = Len(jobs) + 1
                        BY <1>2, <3>2, Appended
                  <4> QED BY <3>2, <4>1 DEF Stay, SameCode
            <3> QED BY <2>1, <3>1, <3>2
      <2>3. OverStays
            BY <2>1, <2>2 DEF OverStays, OthersRest
      <2>4. Coded'
            <3>1. \A f \in DOMAIN execs: execs'[f].by = execs[f].by
                  BY <2>1 DEF OthersRest
            <3>2. ASSUME NEW j \in DOMAIN jobs', j \in DOMAIN jobs
                  PROVE  jobs'[j].code = execs'[jobs'[j].exec].by /\ jobs'[j].def = execs'[jobs'[j].exec].by
                  <4>1. jobs'[j].exec = jobs[j].exec /\ jobs[j].exec \in DOMAIN execs
                        BY <1>2, <2>2, <3>2 DEF Stay, Owned
                  <4> QED BY <1>2, <2>2, <3>1, <3>2, <4>1 DEF Coded, SameCode
            <3> QED BY <2>2, <3>1, <3>2 DEF Coded
      <2>5. ASSUME NEW f \in DOMAIN execs'
            PROVE  Ends(f)'
            <3>1. CASE f = e
                  BY <1>1, <1>2, <1>9, <3>1, EndsMoves DEF ExecsInv
            <3>2. CASE f # e
                  <4>1. f \in DOMAIN execs /\ execs'[f] = execs[f]
                        BY <2>1, <3>2 DEF OthersRest
                  <4> QED BY <1>1, <1>2, <2>2, <3>2, <4>1, EndsKeeps DEF SamePlace
            <3> QED BY <3>1, <3>2
      <2> QED BY <2>2, <2>3, <2>4, <2>5
<1>10. Goal
      BY <1>4, <1>5, <1>6, <1>7, <1>8, <1>9, WhatMoves
<1> QED BY <1>1, <1>10 DEF ExecsInv

\* A further job writes its target for the first time, if no answer is lost,
\* and after the steps before it.
LEMMA WorkOrder ==
    ASSUME ExecsInv, ByWorkflow, Next, NEW j \in DOMAIN jobs' \ DOMAIN jobs, jobs'[j].kind = "write"
    PROVE  LET new == jobs'[j]
           IN  /\ Of(new.exec, new.step, "write") = {} \/ execs[new.exec].lost
               /\ new.step = Here(new.exec) /\ new.exec \in DOMAIN execs
               /\ \A i \in DOMAIN project.order: i < execs[new.exec].at =>
                     Succeeded(new.exec, project.order[i], "write")
<1> USE DEF service, Workflows!service
<1>1. jobs \in Seq(Job) /\ \A e \in DOMAIN execs: Tells(e)
      BY DEF ExecsInv, EvidenceInv, Types
<1>2. PICK e \in DOMAIN execs: Workflows!Proceed(e)
      <2>1. ~UNCHANGED <<execs, jobs>> /\ jobs' # jobs
            OBVIOUS
      <2>2. ASSUME NEW e \in DOMAIN execs, Workflows!ExecutionRaises(e)
            PROVE  FALSE
            BY <2>1, <2>2 DEF Workflows!ExecutionRaises
      <2>3. ASSUME NEW c \in Caller, Workflows!Run(c) \/ Workflows!CleanUp(c)
            PROVE  FALSE
            BY <2>1, <2>3 DEF Workflows!Run, Workflows!CleanUp
      <2>4. ASSUME NEW i \in DOMAIN jobs, JobEnds(i)
            PROVE  FALSE
            BY <1>1, <2>4, JobEndsFlat DEF ExecsInv, EvidenceInv, Types
      <2> QED BY <2>1, <2>2, <2>3, <2>4, WhatMoves
<1>3. PICK k \in Job: jobs' = Append(jobs, k) /\ Inserting(e, execs[e], execs'[e], Len(jobs) + 1, k)
      BY <1>2, InsertFlat, LookFlat DEF Workflows!Proceed, ExecsInv
<1>4. jobs'[j] = k
      BY <1>1, <1>3, Appended
<1>5. k.exec = e /\ k.step = Here(e) /\ execs[e].op = "write" /\ execs[e].job = 0
      BY <1>2, <1>3, <1>4, InsertFlat, LookFlat DEF Inserting, Workflows!Proceed, ExecsInv
<1>6. Of(e, Here(e), "write") = {} \/ execs[e].lost
      <2>1. 0 \notin DOMAIN jobs
            BY <1>1
      <2> QED BY <1>1, <1>5, <2>1 DEF Tells, KnowsItsWrites, Of
<1>7. ASSUME NEW i \in DOMAIN project.order, i < execs[e].at
      PROVE  Succeeded(e, project.order[i], "write")
      BY <1>1, <1>7 DEF Tells, PlaceTells, Past, Succeeded, RowsAreTrue, Of
<1> QED BY <1>4, <1>5, <1>6, <1>7

-----------------------------------------------------------------------------
(* The flags of the command, in their order *)

FlowLabels ==
    {"reset_data", "reset_runs", "reset_quality", "deploy", "run", "wait", "runs", "quality",
     "cleanup", "cleanup_data", "cleanup_runs", "cleanup_quality", "end"}

Rank(label) ==
    CASE label = "reset_data" -> 1 [] label = "reset_runs" -> 2 [] label = "reset_quality" -> 3
      [] label = "deploy" -> 4 [] label = "run" -> 5 [] label = "wait" -> 6 [] label = "runs" -> 7
      [] label = "quality" -> 8 [] label = "cleanup" -> 9 [] label = "cleanup_data" -> 10
      [] label = "cleanup_runs" -> 11 [] label = "cleanup_quality" -> 12 [] label = "end" -> 13

\* The queries that delete what an execution has left.
Deletions == {"cleanup_data", "cleanup_runs", "cleanup_quality"}

LEMMA Ranks ==
    /\ Rank("reset_data") = 1 /\ Rank("reset_runs") = 2 /\ Rank("reset_quality") = 3
    /\ Rank("deploy") = 4 /\ Rank("run") = 5 /\ Rank("wait") = 6 /\ Rank("runs") = 7 /\ Rank("quality") = 8
    /\ Rank("cleanup") = 9 /\ Rank("cleanup_data") = 10 /\ Rank("cleanup_runs") = 11
    /\ Rank("cleanup_quality") = 12 /\ Rank("end") = 13
BY DEF Rank

LEMMA FlowIs ==
    /\ Len(Workflows!Flow) = 13 /\ DOMAIN Workflows!Flow = 1..13
    /\ \A i \in 1..13: Workflows!Flow[i] \in FlowLabels /\ Rank(Workflows!Flow[i]) = i
    /\ \A label \in FlowLabels: Rank(label) \in 1..13 /\ Workflows!Flow[Rank(label)] = label
<1>1. Len(Workflows!Flow) = 13 /\ DOMAIN Workflows!Flow = 1..13
      BY DEF Workflows!Flow
<1>2. /\ Workflows!Flow[1] = "reset_data" /\ Workflows!Flow[2] = "reset_runs"
      /\ Workflows!Flow[3] = "reset_quality" /\ Workflows!Flow[4] = "deploy" /\ Workflows!Flow[5] = "run"
      /\ Workflows!Flow[6] = "wait" /\ Workflows!Flow[7] = "runs" /\ Workflows!Flow[8] = "quality"
      /\ Workflows!Flow[9] = "cleanup" /\ Workflows!Flow[10] = "cleanup_data"
      /\ Workflows!Flow[11] = "cleanup_runs" /\ Workflows!Flow[12] = "cleanup_quality"
      /\ Workflows!Flow[13] = "end"
      BY DEF Workflows!Flow
<1>3. \A i \in 1..13: i = 1 \/ i = 2 \/ i = 3 \/ i = 4 \/ i = 5 \/ i = 6 \/ i = 7
                      \/ i = 8 \/ i = 9 \/ i = 10 \/ i = 11 \/ i = 12 \/ i = 13
      OBVIOUS
<1>5. \A i \in 1..13: Workflows!Flow[i] \in FlowLabels /\ Rank(Workflows!Flow[i]) = i
      BY <1>2, <1>3, Ranks DEF FlowLabels
<1>6. \A label \in FlowLabels: Rank(label) \in 1..13 /\ Workflows!Flow[Rank(label)] = label
      BY <1>2, Ranks DEF FlowLabels
<1> QED BY <1>1, <1>5, <1>6

\* The first flag that is asked for, and none between.
LEMMA FirstIs ==
    ASSUME NEW i \in 1..13
    PROVE  LET first == Workflows!FirstOf(i)
           IN  /\ first \in FlowLabels /\ i <= Rank(first)
               /\ \A m \in FlowLabels: i <= Rank(m) /\ Rank(m) < Rank(first) => ~Workflows!Asked(m)
<1> DEFINE asked == {j \in i..13: Workflows!Asked(Workflows!Flow[j])}
<1>1. Workflows!Flow[13] = "end" /\ Workflows!Asked("end")
      BY DEF Workflows!Flow, Workflows!Asked
<1>2. asked \in SUBSET Nat /\ asked # {}
      BY <1>1
<1>3. PICK n \in asked: \A m \in asked: n <= m
      BY <1>2, SmallestNatural
<1>4. \A k \in i..(n - 1): ~Workflows!Asked(Workflows!Flow[k])
      BY <1>3
<1> DEFINE P(j) == Workflows!Asked(Workflows!Flow[j]) /\ \A k \in i..(j - 1): ~Workflows!Asked(Workflows!Flow[k])
<1>5. n \in i..13 /\ P(n)
      BY <1>3, <1>4
<1>6. PICK j \in i..13: P(j) /\ Workflows!FirstOf(i) = Workflows!Flow[j]
      <2>1. Workflows!FirstOf(i) = Workflows!Flow[CHOOSE j \in i..13: P(j)]
            BY FlowIs DEF Workflows!FirstOf
      <2> DEFINE j == CHOOSE j \in i..13: P(j)
      <2>2. j \in i..13 /\ P(j)
            <3> HIDE DEF P
            <3> QED BY <1>5
      <2> QED BY <2>1, <2>2
<1>7. j \in 1..13 /\ Workflows!Flow[j] \in FlowLabels /\ Rank(Workflows!Flow[j]) = j
      BY <1>6, FlowIs
<1>8. ASSUME NEW m \in FlowLabels, i <= Rank(m), Rank(m) < j
      PROVE  ~Workflows!Asked(m)
      <2>1. Rank(m) \in i..(j - 1) /\ Workflows!Flow[Rank(m)] = m
            BY <1>7, <1>8, FlowIs
      <2> QED BY <1>6, <2>1
<1> QED BY <1>6, <1>7, <1>8

LEMMA NextIs ==
    ASSUME NEW label \in FlowLabels \ {"end"}
    PROVE  LET next == Workflows!NextFlag(label)
           IN  /\ next \in FlowLabels /\ Rank(label) < Rank(next)
               /\ \A m \in FlowLabels: Rank(label) < Rank(m) /\ Rank(m) < Rank(next) => ~Workflows!Asked(m)
<1>1. Rank(label) \in 1..13 /\ Rank(label) # 13 /\ Workflows!Flow[Rank(label)] = label
      <2>1. Workflows!Flow[13] = "end"
            BY DEF Workflows!Flow
      <2> QED BY <2>1, FlowIs
<1> DEFINE p == CHOOSE i \in 1..13: Workflows!Flow[i] = label
<1>2. p \in 1..13 /\ Workflows!Flow[p] = label
      BY <1>1
<1>3. p = Rank(label)
      BY <1>2, FlowIs
<1>4. Workflows!NextFlag(label) = Workflows!FirstOf(1 + p)
      BY FlowIs DEF Workflows!NextFlag
<1> HIDE DEF p
<1>5. 1 + Rank(label) \in 1..13 /\ Workflows!NextFlag(label) = Workflows!FirstOf(1 + Rank(label))
      BY <1>1, <1>3, <1>4
<1>6. \A m \in FlowLabels: Rank(m) \in 1..13
      BY FlowIs
<1> DEFINE n == 1 + Rank(label)
<1>7. /\ n \in 1..13 /\ Workflows!NextFlag(label) = Workflows!FirstOf(n)
      /\ Workflows!FirstOf(n) \in FlowLabels /\ n <= Rank(Workflows!FirstOf(n))
      /\ \A m \in FlowLabels: n <= Rank(m) /\ Rank(m) < Rank(Workflows!FirstOf(n)) => ~Workflows!Asked(m)
      BY <1>5, FirstIs
<1> QED BY <1>1, <1>6, <1>7

-----------------------------------------------------------------------------
(* What a call of the workflow may count on, of what it has behind it *)

Behind(c, label) ==
    \/ calls[c].label = "done" /\ calls[c].verdict = "SUCCEEDED"
    \/ calls[c].label \in FlowLabels /\ Rank(label) < Rank(calls[c].label)

\* The execution is over, and not by a deletion of the workflow.
Over(e) == e # 0 /\ e \in DOMAIN execs /\ execs[e].label \in {"succeeded", "failed", "raised"}

\* The row of a check that failed was read, unless it was deleted.
FlagRead(e, seen) ==
    (execs[e].label = "failed" /\ execs[e].op = "flag") =>
        \E f \in Of(e, Here(e), "flag"): jobs[f].state = "succeeded" /\ f \in seen \cup erased

\* What the jobs of these kinds have left is deleted.
Cleaned(e, kinds) ==
    \/ execs[e].label = "raised" \/ execs[e].lost
    \/ \A j \in DOMAIN jobs:
          jobs[j].exec = e /\ jobs[j].kind \in kinds => jobs[j].state = "failed" \/ j \in erased

CleanedBy(e, label) == Cleaned(e, Workflows!Deletes(label))

SeenIsOurs(c) ==
    \A j \in calls[c].seen:
        j \in DOMAIN jobs /\ jobs[j].state = "succeeded" /\ calls[c].exec \in {0, jobs[j].exec}

CountsOn(c) ==
    project.wait =>
        /\ Behind(c, "wait") => Over(calls[c].exec)
        /\ Behind(c, "quality") /\ "readback" \in project.flags => FlagRead(calls[c].exec, calls[c].seen)
        /\ "cleanup_data" \in project.flags =>
              \A m \in Deletions: Behind(c, m) => CleanedBy(calls[c].exec, m)

CallIs(c) ==
    /\ calls[c].label \in FlowLabels \cup {"idle", "done"}
    /\ calls[c].label = "done" => calls[c].verdict \in {"raised", "SUCCEEDED"}
    /\ calls[c].exec \in 0..Len(execs)
    /\ calls[c].label \in {"idle", "reset_data", "reset_runs", "reset_quality", "deploy", "run", "wait", "runs"} =>
          calls[c].seen = {}
    /\ SeenIsOurs(c)
    /\ CountsOn(c)

WorkInv ==
    /\ ExecsInv
    /\ calls \in [Caller -> Call]
    /\ updates = {}
    /\ \A j \in erased: j \in DOMAIN jobs /\ jobs[j].state = "succeeded"
    /\ \A c \in Caller: CallIs(c)

LEMMA BehindIs ==
    ASSUME NEW c, calls[c].label \in FlowLabels
    PROVE  /\ Behind(c, "wait") <=> calls[c].label \in {"runs", "quality", "cleanup", "end"} \cup Deletions
           /\ Behind(c, "quality") <=> calls[c].label \in {"cleanup", "end"} \cup Deletions
           /\ \A m \in Deletions: Behind(c, m) => calls[c].label \in {"end"} \cup Deletions
           /\ calls[c].label = "end" => \A m \in Deletions: Behind(c, m)
<1>2. calls[c].label # "done"
      BY DEF FlowLabels
<1>3. Behind(c, "wait") <=> calls[c].label \in {"runs", "quality", "cleanup", "end"} \cup Deletions
      BY <1>2, Ranks DEF Behind, FlowLabels, Deletions
<1>4. Behind(c, "quality") <=> calls[c].label \in {"cleanup", "end"} \cup Deletions
      BY <1>2, Ranks DEF Behind, FlowLabels, Deletions
<1>5. \A m \in Deletions: Behind(c, m) => calls[c].label \in {"end"} \cup Deletions
      BY <1>2, Ranks DEF Behind, FlowLabels, Deletions
<1>6. calls[c].label = "end" => \A m \in Deletions: Behind(c, m)
      BY <1>2, Ranks DEF Behind, FlowLabels, Deletions
<1> QED BY <1>3, <1>4, <1>5, <1>6

\* What a call counts on stays.
LEMMA CountedStays ==
    ASSUME Stay, OverStays, project' = project, erased \subseteq erased', NEW e, Over(e), Owned
    PROVE  /\ Over(e)'
           /\ \A seen, more: (seen \subseteq more /\ FlagRead(e, seen)) => FlagRead(e, more)'
           /\ \A kinds: Cleaned(e, kinds) => Cleaned(e, kinds)'
<1>1. /\ e \in DOMAIN execs /\ execs'[e] = execs[e] /\ e \in DOMAIN execs'
      /\ \A j \in DOMAIN jobs': jobs'[j].exec = e => j \in DOMAIN jobs
      BY DEF Over, OverStays
<1>2. Over(e)'
      BY <1>1 DEF Over
<1>3. ASSUME NEW seen, NEW more, seen \subseteq more, FlagRead(e, seen)
      PROVE  FlagRead(e, more)'
      <2> SUFFICES ASSUME execs[e].label = "failed", execs[e].op = "flag"
                   PROVE  \E f \in Of(e, Here(e), "flag")': jobs'[f].state = "succeeded" /\ f \in more \cup erased'
          BY <1>1 DEF FlagRead
      <2>1. PICK f \in Of(e, Here(e), "flag"): jobs[f].state = "succeeded" /\ f \in seen \cup erased
            BY <1>3 DEF FlagRead
      <2>2. Here(e)' = Here(e)
            BY <1>1 DEF Here
      <2>3. f \in Of(e, Here(e), "flag")' /\ jobs'[f].state = "succeeded"
            BY <2>1, <2>2 DEF Stay, Of
      <2> QED BY <1>3, <2>1, <2>3
<1>4. ASSUME NEW kinds, Cleaned(e, kinds)
      PROVE  Cleaned(e, kinds)'
      BY <1>1, <1>4 DEF Cleaned, Stay
<1> QED BY <1>2, <1>3, <1>4

\* A call that does nothing.
LEMMA CallRests ==
    ASSUME WorkInv, Stay, OverStays, project' = project, erased \subseteq erased', NEW c \in Caller,
           Len(execs) <= Len(execs'), Len(execs') \in Nat,
           calls'[c].label = calls[c].label, calls'[c].exec = calls[c].exec, calls'[c].seen = calls[c].seen,
           calls'[c].verdict = calls[c].verdict
    PROVE  CallIs(c)'
<1>1. CallIs(c) /\ Owned /\ Len(execs) \in Nat
      BY DEF WorkInv, ExecsInv, EvidenceInv, Types
<1>2. SeenIsOurs(c)'
      BY <1>1 DEF CallIs, SeenIsOurs, Stay
<1>3. \A m: Behind(c, m)' <=> Behind(c, m)
      BY DEF Behind
<1>4. /\ Behind(c, "quality") => Behind(c, "wait")
      /\ \A m \in Deletions: Behind(c, m) => Behind(c, "wait")
      BY BehindIs DEF Behind
<1>5. PICK e: e = calls[c].exec
      OBVIOUS
<1>6. PICK seen: seen = calls[c].seen
      OBVIOUS
<1>7. Over(e) => /\ Over(e)' /\ (FlagRead(e, seen) => FlagRead(e, seen)')
                 /\ \A m: CleanedBy(e, m) => CleanedBy(e, m)'
      BY <1>1, CountedStays DEF CleanedBy, Workflows!Deletes
<1>8. CountsOn(c)'
      BY <1>1, <1>3, <1>4, <1>5, <1>6, <1>7 DEF CallIs, CountsOn
<1>9. calls'[c].exec \in 0..Len(execs')
      BY <1>1 DEF CallIs
<1> QED BY <1>1, <1>2, <1>8, <1>9 DEF CallIs

LEMMA WorkCases ==
    ASSUME ByWorkflow, updates = {}, Next
    PROVE  /\ updates' = {}
           /\ \/ UNCHANGED <<calls, erased>>
              \/ \E c \in Caller: Workflows!Start(c) \/ Workflows!Continue(c) \/ End(c) \/ Raise(c)
<1> USE DEF ByWorkflow, service, Workflows!service, Fabric!service, Glue!service, Tasks!service
<1>1. ASSUME NEW c \in Caller, Workflows!Start(c) \/ Workflows!Continue(c)
      PROVE  updates' = {}
      BY <1>1 DEF Workflows!Start, Workflows!Continue, Workflows!CleanUpData, Workflows!Deploy, Workflows!Run,
         Workflows!WaitFor, Workflows!ReadBack, Workflows!CleanUp
<1>2. ASSUME NEW e \in DOMAIN execs, Workflows!Proceed(e) \/ Workflows!ExecutionRaises(e)
      PROVE  updates' = {} /\ UNCHANGED <<calls, erased>>
      BY <1>2 DEF Workflows!Proceed, Workflows!Insert, Workflows!Look, Workflows!ExecutionRaises
<1>3. ~Fabric!Next
      <2>1. ASSUME NEW c \in Caller, Fabric!Start(c) \/ Fabric!Continue(c)
            PROVE  FALSE
            BY <2>1 DEF Fabric!Start, Fabric!Continue, Fabric!Blocked, Fabric!Look, Fabric!Create, Fabric!Update,
               Fabric!Send, Fabric!PollOperation, Fabric!Submit, Fabric!Wait, Fabric!At
      <2> QED BY <2>1 DEF Fabric!Next
<1>4. ~Glue!Next
      BY DEF Glue!Next, Glue!Scheduled, Glue!Start, Glue!Continue, Glue!ExecutionEnds, Glue!StartTask
<1>5. ~Tasks!Next
      BY DEF Tasks!Next, Tasks!Enable, Tasks!Scheduled, Tasks!Start, Tasks!Continue, Tasks!ExecutionEnds,
         Tasks!StartTask, Tasks!Publish, Tasks!Suspend, Tasks!Create, Tasks!Clock, Tasks!Resume, Tasks!Execute,
         Tasks!Watch, Tasks!At
<1>6. ASSUME NEW j \in DOMAIN jobs, JobEnds(j)
      PROVE  updates' = {} /\ UNCHANGED <<calls, erased>>
      BY <1>6 DEF JobEnds
<1>7. ASSUME NEW c \in Caller, End(c) \/ Raise(c)
      PROVE  updates' = {}
      BY <1>7 DEF End, Raise
<1> QED BY <1>1, <1>2, <1>3, <1>4, <1>5, <1>6, <1>7 DEF Next, Workflows!Next

\* A call obeys one flag and goes on to the next one.
LEMMA CallTakes ==
    ASSUME WorkInv, Stay, OverStays, project' = project, erased \subseteq erased', NEW c \in Caller,
           NEW l \in FlowLabels \ {"end"}, calls[c].label = l, calls'[c].label = Workflows!NextFlag(l),
           NEW e, e = calls'[c].exec, e \in 0..Len(execs'), e = calls[c].exec \/ l = "run",
           NEW seen, seen = calls'[c].seen, calls[c].seen \subseteq seen,
           seen = calls[c].seen \/ l \in {"runs", "quality"},
           \A j \in seen: \/ j \in calls[c].seen
                          \/ j \in DOMAIN jobs /\ jobs[j].state = "succeeded" /\ e \in {0, jobs[j].exec},
           l = "wait" => Over(e)',
           l = "quality" /\ Over(e) => FlagRead(e, seen)',
           l \in Deletions /\ Over(e) => CleanedBy(e, l)'
    PROVE  CallIs(c)'
<1> DEFINE next == Workflows!NextFlag(l)
<1>1. CallIs(c) /\ Owned
      BY DEF WorkInv, ExecsInv, EvidenceInv, Types
<1>2. /\ next \in FlowLabels /\ Rank(l) < Rank(next)
      /\ \A m \in FlowLabels: Rank(l) < Rank(m) /\ Rank(m) < Rank(next) => ~Workflows!Asked(m)
      BY NextIs
<1> HIDE DEF next
<1>3. \A m \in FlowLabels: Rank(m) \in 1..13 /\ Workflows!Flow[Rank(m)] = m
      BY FlowIs
<1>4. ASSUME NEW m \in FlowLabels, Workflows!Asked(m), Behind(c, m)'
      PROVE  m = l \/ Behind(c, m)
      <2>1. next \in FlowLabels /\ calls'[c].label = next /\ "done" \notin FlowLabels
            BY <1>2 DEF next, FlowLabels
      <2>2. Rank(m) < Rank(next)
            BY <1>4, <2>1 DEF Behind
      <2>3. ~(Rank(l) < Rank(m))
            BY <1>2, <1>4, <2>2
      <2>4. Rank(m) = Rank(l) \/ Rank(m) < Rank(l)
            BY <1>3, <2>3
      <2>5. Rank(m) = Rank(l) => m = l
            BY <1>3
      <2> QED BY <2>4, <2>5 DEF Behind
<1>5. l = "run" => ~Behind(c, "wait") /\ ~Behind(c, "quality") /\ \A m \in Deletions: ~Behind(c, m)
      BY BehindIs DEF Deletions
<1>6. /\ Behind(c, "quality") \/ l = "quality" => Behind(c, "wait")
      /\ \A m \in Deletions: Behind(c, m) \/ l = m => Behind(c, "wait")
      BY BehindIs
<1>7. /\ Workflows!Asked("wait") <=> project.wait
      /\ Workflows!Asked("quality") <=> "readback" \in project.flags
      /\ \A m \in Deletions: Workflows!Asked(m) <=> "cleanup_data" \in project.flags
      BY DEF Workflows!Asked, Deletions
<1>8. {"wait", "quality"} \cup Deletions \subseteq FlowLabels
      BY DEF FlowLabels, Deletions
<1>9. PICK before: before = calls[c].seen
      OBVIOUS
<1>10. Over(e) => /\ Over(e)' /\ (FlagRead(e, before) => FlagRead(e, seen)')
                  /\ \A m: CleanedBy(e, m) => CleanedBy(e, m)'
      BY <1>1, <1>9, CountedStays DEF CleanedBy, Workflows!Deletes
<1>11. ASSUME project.wait
       PROVE  /\ Behind(c, "wait") => Over(e)
              /\ Behind(c, "quality") /\ "readback" \in project.flags => FlagRead(e, before)
              /\ "cleanup_data" \in project.flags => \A m \in Deletions: Behind(c, m) => CleanedBy(e, m)
       BY <1>1, <1>5, <1>9, <1>11 DEF CallIs, CountsOn
<1>12. ASSUME project.wait, Behind(c, "wait")'
       PROVE  Over(e)'
       BY <1>4, <1>7, <1>8, <1>10, <1>11, <1>12
<1>13. ASSUME project.wait, Behind(c, "quality")', "readback" \in project.flags
       PROVE  FlagRead(e, seen)'
       BY <1>4, <1>6, <1>7, <1>8, <1>10, <1>11, <1>13
<1>14. ASSUME project.wait, NEW m \in Deletions, Behind(c, m)', "cleanup_data" \in project.flags
       PROVE  CleanedBy(e, m)'
       BY <1>4, <1>6, <1>7, <1>8, <1>10, <1>11, <1>14
<1>15. CountsOn(c)'
       BY <1>12, <1>13, <1>14 DEF CountsOn
<1>16. calls'[c].label \in {"idle", "reset_data", "reset_runs", "reset_quality", "deploy", "run", "wait", "runs"} =>
          seen = {}
       <2>2. l \in {"reset_data", "reset_runs", "reset_quality", "deploy", "run", "wait", "runs", "quality", "cleanup"}
                   \cup Deletions
             BY DEF FlowLabels, Deletions
       <2>3. next # "idle" /\ calls'[c].label = next
             BY <1>2 DEF FlowLabels, next
       <2>4. CASE l \in {"runs", "quality", "cleanup"} \cup Deletions
             <3>1. Rank(l) >= 7
                   BY <2>4, Ranks DEF Deletions
             <3> QED BY <1>2, <1>3, <2>3, <3>1, Ranks
       <2>5. CASE l \in {"reset_data", "reset_runs", "reset_quality", "deploy", "run", "wait"}
             BY <1>1, <2>5 DEF CallIs
       <2> QED BY <2>2, <2>4, <2>5
<1>17. SeenIsOurs(c)'
       <2>1. CASE e = calls[c].exec
             BY <1>1, <2>1 DEF CallIs, SeenIsOurs, Stay
       <2>2. CASE l = "run"
             <3>1. seen = {}
                   BY <1>1, <2>2 DEF CallIs
             <3> QED BY <3>1 DEF SeenIsOurs
       <2> QED BY <2>1, <2>2
<1>18. calls'[c].label \in FlowLabels /\ calls'[c].label # "done"
       BY <1>2 DEF next, FlowLabels
<1> QED BY <1>15, <1>16, <1>17, <1>18 DEF CallIs

\* A call that ends, or fails.
LEMMA CallEnds ==
    ASSUME WorkInv, Stay, OverStays, project' = project, erased' = erased, NEW c \in Caller,
           NEW verdict \in {"raised", "SUCCEEDED"}, Finishes(c, verdict),
           verdict = "SUCCEEDED" => calls[c].label = "end",
           Len(execs) <= Len(execs'), Len(execs') \in Nat
    PROVE  CallIs(c)'
<1>1. CallIs(c) /\ Owned /\ Len(execs) \in Nat
      BY DEF WorkInv, ExecsInv, EvidenceInv, Types
<1>2. /\ calls'[c].label = "done" /\ calls'[c].verdict = verdict /\ calls'[c].exec = calls[c].exec
      /\ calls'[c].seen = calls[c].seen
      BY DEF Finishes
<1>3. SeenIsOurs(c)'
      BY <1>1, <1>2 DEF CallIs, SeenIsOurs, Stay
<1>4. PICK e: e = calls[c].exec
      OBVIOUS
<1>5. PICK seen: seen = calls[c].seen
      OBVIOUS
<1>6. Over(e) => /\ Over(e)' /\ (FlagRead(e, seen) => FlagRead(e, seen)')
                 /\ \A m: CleanedBy(e, m) => CleanedBy(e, m)'
      BY <1>1, CountedStays DEF CleanedBy, Workflows!Deletes
<1>7. CountsOn(c)'
      <2>1. CASE verdict = "raised"
            <3>1. \A m: ~Behind(c, m)'
                  BY <1>2, <2>1 DEF Behind, FlowLabels
            <3> QED BY <3>1 DEF CountsOn
      <2>2. CASE verdict = "SUCCEEDED"
            <3>1. Behind(c, "wait") /\ Behind(c, "quality") /\ \A m \in Deletions: Behind(c, m)
                  BY <2>2, BehindIs DEF FlowLabels
            <3> QED BY <1>1, <1>2, <1>4, <1>5, <1>6, <3>1 DEF CallIs, CountsOn
      <2> QED BY <2>1, <2>2
<1>8. calls'[c].exec \in 0..Len(execs')
      BY <1>1, <1>2 DEF CallIs
<1> QED BY <1>2, <1>3, <1>7, <1>8 DEF CallIs

\* The first flag of a call.
LEMMA CallStarts ==
    ASSUME WorkInv, Stay, OverStays, project' = project, erased' = erased, NEW c \in Caller,
           NEW e \in 0..Len(execs), Begun(c, Workflows!FirstOf(1), e), calls[c].label = "idle",
           execs' = execs
    PROVE  CallIs(c)'
<1> DEFINE first == Workflows!FirstOf(1)
<1>1. CallIs(c)
      BY DEF WorkInv
<1>2. /\ first \in FlowLabels
      /\ \A m \in FlowLabels: 1 <= Rank(m) /\ Rank(m) < Rank(first) => ~Workflows!Asked(m)
      <2>1. 1 \in 1..13
            OBVIOUS
      <2> QED BY <2>1, FirstIs
<1> HIDE DEF first
<1>3. calls'[c].label = first /\ calls'[c].exec = e /\ calls'[c].seen = {}
      BY <1>1 DEF Begun, first, CallIs
<1>4. \A m \in FlowLabels: Workflows!Asked(m) => ~Behind(c, m)'
      <2>1. first # "done"
            BY <1>2 DEF FlowLabels
      <2>2. \A m \in FlowLabels: Rank(m) \in 1..13
            BY FlowIs
      <2> QED BY <1>2, <1>3, <2>1, <2>2 DEF Behind
<1>5. /\ Workflows!Asked("wait") <=> project.wait
      /\ Workflows!Asked("quality") <=> "readback" \in project.flags
      /\ \A m \in Deletions: Workflows!Asked(m) <=> "cleanup_data" \in project.flags
      BY DEF Workflows!Asked, Deletions
<1>6. {"wait", "quality"} \cup Deletions \subseteq FlowLabels
      BY DEF FlowLabels, Deletions
<1>7. CountsOn(c)'
      BY <1>4, <1>5, <1>6 DEF CountsOn
<1>8. SeenIsOurs(c)'
      BY <1>3 DEF SeenIsOurs
<1>9. first # "done" /\ first \in FlowLabels
      BY <1>2 DEF FlowLabels
<1> QED BY <1>3, <1>7, <1>8, <1>9 DEF CallIs

LEMMA LengthGrows ==
    ASSUME execs \in Seq(Exec), execs' \in Seq(Exec), OverStays
    PROVE  Len(execs) <= Len(execs') /\ Len(execs) \in Nat /\ Len(execs') \in Nat
<1>1. /\ DOMAIN execs = 1..Len(execs) /\ DOMAIN execs' = 1..Len(execs')
      /\ Len(execs) \in Nat /\ Len(execs') \in Nat
      OBVIOUS
<1>2. \A e \in DOMAIN execs: e \in DOMAIN execs'
      BY DEF OverStays
<1>3. CASE Len(execs) = 0
      BY <1>1, <1>3
<1>4. CASE Len(execs) # 0
      <2>1. Len(execs) \in DOMAIN execs
            BY <1>1, <1>4
      <2> QED BY <1>1, <1>2, <2>1
<1> QED BY <1>1, <1>3, <1>4

\* What a step of a call makes of the calls and of the rows that are deleted.
LEMMA WorkCallKeeps ==
    ASSUME WorkInv, ExecsInv', ByWorkflow, Stay, OverStays, project' = project,
           NEW c \in Caller, Workflows!Start(c) \/ Workflows!Continue(c) \/ End(c) \/ Raise(c)
    PROVE  /\ calls' \in [Caller -> Call]
           /\ \A j \in erased': j \in DOMAIN jobs' /\ jobs'[j].state = "succeeded"
           /\ \A d \in Caller: CallIs(d)'
<1> USE DEF service, Workflows!service
<1> DEFINE Goal == /\ calls' \in [Caller -> Call]
                   /\ \A j \in erased': j \in DOMAIN jobs' /\ jobs'[j].state = "succeeded"
                   /\ \A d \in Caller: CallIs(d)'
<1>1. /\ calls \in [Caller -> Call] /\ CallIs(c) /\ FlowLabels \subseteq Label
      /\ \A e \in DOMAIN execs: Tells(e) /\ Ends(e)
      /\ jobs \in Seq(Job) /\ execs \in Seq(Exec) /\ execs' \in Seq(Exec)
      BY DEF WorkInv, ExecsInv, EvidenceInv, Types, FlowLabels, Label, Flag
<1>2. Len(execs) <= Len(execs') /\ Len(execs) \in Nat /\ Len(execs') \in Nat /\ DOMAIN execs = 1..Len(execs)
      BY <1>1, LengthGrows
<1>3. ASSUME erased' = erased
      PROVE  \A j \in erased': j \in DOMAIN jobs' /\ jobs'[j].state = "succeeded"
      BY <1>3 DEF WorkInv, Stay
<1>4. ASSUME Others(c), erased \subseteq erased', NEW d \in Caller, d # c
      PROVE  CallIs(d)'
      BY <1>2, <1>4, CallRests DEF Others
\* The call goes on to its next flag as it is.
<1>5. ASSUME NEW l \in FlowLabels \ {"end"}, calls[c].label = l, Goto(c, Workflows!NextFlag(l)),
             l \notin {"runs", "quality"}, erased \subseteq erased',
             l = "wait" => Over(calls[c].exec)',
             l \in Deletions /\ Over(calls[c].exec) => \A e: e = calls[c].exec => CleanedBy(e, l)'
      PROVE  calls' \in [Caller -> Call] /\ \A d \in Caller: CallIs(d)'
      <2>1. Workflows!NextFlag(l) \in Label
            BY <1>1, NextIs
      <2>2. Goes(c, Workflows!NextFlag(l))
            BY <1>1, <1>5, <2>1, GotoGoes
      <2>3. PICK e: e = calls[c].exec
            OBVIOUS
      <2>4. PICK seen: seen = calls[c].seen
            OBVIOUS
      <2>5. /\ calls'[c].label = Workflows!NextFlag(l) /\ e = calls'[c].exec /\ seen = calls'[c].seen
            /\ Others(c) /\ calls' \in [Caller -> Call]
            BY <2>2, <2>3, <2>4 DEF Goes, Kept, Others
      <2>6. e \in 0..Len(execs')
            BY <1>1, <1>2, <2>3 DEF CallIs
      <2>7. l = "wait" => Over(e)'
            BY <1>5, <2>3, <2>5 DEF Over
      <2>8. l \in Deletions /\ Over(e) => CleanedBy(e, l)'
            BY <1>5, <2>3 DEF Over
      <2>9. CallIs(c)'
            BY <1>5, <2>3, <2>4, <2>5, <2>6, <2>7, <2>8, CallTakes
      <2> QED BY <1>4, <1>5, <2>5, <2>9
\* The call is over.
<1>6. ASSUME NEW verdict \in {"raised", "SUCCEEDED"}, Finish(c, verdict), erased' = erased,
             verdict = "SUCCEEDED" => calls[c].label = "end"
      PROVE  Goal
      <2>1. Finishes(c, verdict)
            BY <1>1, <1>6, FinishFinishes DEF StepStatus
      <2>2. Others(c) /\ calls' \in [Caller -> Call]
            BY <2>1 DEF Finishes, Others
      <2>3. CallIs(c)'
            BY <1>2, <1>6, <2>1, CallEnds
      <2> QED BY <1>3, <1>4, <1>6, <2>2, <2>3
<1>7. CASE End(c) \/ Raise(c)
      BY <1>6, <1>7 DEF End, Raise
<1>8. CASE Workflows!Start(c)
      <2>1. PICK e \in {0} \cup DOMAIN execs: Begin(c, Workflows!FirstOf(1), e)
            BY <1>8 DEF Workflows!Start, Begin, Workflows!Begin, Active, Workflows!Active, Running, Workflows!Running
      <2>2. /\ execs' = execs /\ erased' = erased /\ e \in 0..Len(execs) /\ e \in Nat
            BY <1>2, <1>8, <2>1 DEF Workflows!Start
      <2>3. Workflows!FirstOf(1) \in Label
            <3>1. 1 \in 1..13
                  OBVIOUS
            <3> QED BY <1>1, <3>1, FirstIs
      <2>4. Begun(c, Workflows!FirstOf(1), e) /\ calls[c].label = "idle"
            BY <1>1, <2>1, <2>2, <2>3, BeginBegins
      <2>5. CallIs(c)'
            BY <2>2, <2>4, CallStarts
      <2>6. ASSUME NEW d \in Caller, d # c
            PROVE  CallIs(d)'
            <3>1. /\ calls'[d].label = calls[d].label /\ calls'[d].exec = calls[d].exec
                  /\ calls'[d].seen = calls[d].seen /\ calls'[d].verdict = calls[d].verdict
                  BY <2>4, <2>6 DEF Begun
            <3> QED BY <1>2, <2>2, <3>1, CallRests
      <2>7. calls' \in [Caller -> Call]
            BY <2>4 DEF Begun
      <2> QED BY <1>3, <2>2, <2>5, <2>6, <2>7
<1>9. CASE Workflows!CleanUpData(c, calls[c].label)
      <2>1. PICK l: l = calls[c].label
            OBVIOUS
      <2> DEFINE rows == {j \in DOMAIN jobs: jobs[j].kind \in Workflows!Deletes(l) /\ jobs[j].state = "succeeded"}
      <2>2. /\ l \in FlowLabels \ {"end"} /\ l \notin {"wait", "runs", "quality"}
            /\ Goto(c, Workflows!NextFlag(l)) /\ execs' = execs /\ jobs' = jobs
            /\ erased' = erased \cup rows
            <3>1. /\ Workflows!Deletes(l) # {} /\ Goto(c, Workflows!NextFlag(l)) /\ execs' = execs /\ jobs' = jobs
                  /\ erased' = erased \cup rows
                  BY <1>9, <2>1 DEF Workflows!CleanUpData, Workflows!Goto, Goto
            <3>2. l \in {"reset_data", "reset_runs", "reset_quality"} \cup Deletions
                  BY <3>1 DEF Workflows!Deletes, Deletions
            <3> QED BY <3>1, <3>2 DEF FlowLabels, Deletions
      <2>3. erased \subseteq erased' /\ \A j \in erased': j \in DOMAIN jobs' /\ jobs'[j].state = "succeeded"
            BY <2>2 DEF WorkInv
      <2>4. ASSUME NEW e, e = calls[c].exec, Over(e)
            PROVE  CleanedBy(e, l)'
            <3>1. CASE execs[e].label = "raised" \/ execs[e].lost
                  BY <2>2, <3>1 DEF CleanedBy, Cleaned
            <3>2. CASE execs[e].label # "raised" /\ ~execs[e].lost
                  <4>1. \A j \in DOMAIN jobs: jobs[j].exec = e => ~Live(j)
                        BY <1>1, <2>4, <3>2 DEF Over, Ends
                  <4>2. \A j \in DOMAIN jobs: jobs[j] \in Job
                        BY <1>1
                  <4>3. \A j \in DOMAIN jobs: jobs[j].state \in {"running", "succeeded", "failed"}
                        BY <4>2 DEF Job
                  <4> QED BY <2>2, <4>1, <4>3 DEF CleanedBy, Cleaned, Live, Workflows!Deletes
            <3> QED BY <3>1, <3>2
      <2>5. /\ calls[c].label = l /\ l # "wait" /\ l \notin {"runs", "quality"}
            /\ l \in Deletions /\ Over(calls[c].exec) => \A e: e = calls[c].exec => CleanedBy(e, l)'
            BY <2>1, <2>2, <2>4
      <2> QED BY <1>5, <2>2, <2>3, <2>5
<1>10. CASE Workflows!Deploy(c)
      <2>1. /\ calls[c].label = "deploy" /\ Goto(c, Workflows!NextFlag("deploy")) /\ erased' = erased
            /\ "deploy" \in FlowLabels \ {"end"}
            BY <1>10 DEF Workflows!Deploy, Workflows!At, Workflows!Goto, Goto, FlowLabels
      <2> QED BY <1>3, <1>5, <2>1 DEF Deletions
<1>11. CASE Workflows!CleanUp(c)
      <2>1. /\ calls[c].label = "cleanup" /\ Goto(c, Workflows!NextFlag("cleanup")) /\ erased' = erased
            /\ "cleanup" \in FlowLabels \ {"end"}
            BY <1>11 DEF Workflows!CleanUp, Workflows!At, Workflows!Goto, Goto, FlowLabels
      <2> QED BY <1>3, <1>5, <2>1 DEF Deletions
<1>12. CASE Workflows!WaitFor(c)
      <2>1. calls[c].label = "wait" /\ erased' = erased /\ execs' = execs /\ "wait" \in FlowLabels \ {"end"}
            BY <1>12 DEF Workflows!WaitFor, Workflows!At, FlowLabels
      <2>2. CASE Finish(c, "raised")
            BY <1>6, <2>1, <2>2
      <2>3. CASE ~Finish(c, "raised")
            <3>1. /\ calls[c].exec # 0 /\ execs[calls[c].exec].label \notin {"running", "cancelled"}
                  /\ Goto(c, Workflows!NextFlag("wait"))
                  BY <1>12, <2>3 DEF Workflows!WaitFor, Workflows!Finish, Finish, Workflows!Goto, Goto
            <3>2. calls[c].exec \in DOMAIN execs
                  BY <1>1, <1>2, <3>1 DEF CallIs
            <3>3. Over(calls[c].exec)
                  BY <1>1, <3>1, <3>2 DEF Over, Ends
            <3>4. calls'[c].exec = calls[c].exec
                  <4>1. Workflows!NextFlag("wait") \in Label
                        BY <1>1, <2>1, NextIs
                  <4> QED BY <1>1, <3>1, <4>1, GotoGoes DEF Goes, Kept
            <3>5. Over(calls[c].exec)'
                  BY <2>1, <3>3, <3>4 DEF Over
            <3> QED BY <1>3, <1>5, <2>1, <3>1, <3>5 DEF Deletions
      <2> QED BY <2>2, <2>3
<1>13. CASE Workflows!Run(c)
      <2>1. calls[c].label = "run" /\ erased' = erased /\ jobs' = jobs /\ "run" \in FlowLabels \ {"end"}
            BY <1>13 DEF Workflows!Run, Workflows!At, FlowLabels
      <2>2. CASE machine = None
            BY <1>6, <1>13, <2>1, <2>2 DEF Workflows!Run, Workflows!Finish, Finish
      <2>3. CASE machine # None
            <3> DEFINE n == IF calls[c].exec = 0 THEN Len(execs) + 1 ELSE calls[c].exec
                       next == Workflows!NextFlag("run")
                       y == [calls[c] EXCEPT !.label = next, !.exec = n]
            <3>1. calls' = [calls EXCEPT ![c] = y] /\ Len(execs') = Len(execs) + 1
                  <4>1. calls' = [calls EXCEPT ![c] = y]
                        BY <1>13, <2>3 DEF Workflows!Run
                  <4>2. execs' = Append(execs, Workflows!NewExec(machine, "running"))
                        BY <1>13, <2>3 DEF Workflows!Run
                  <4> QED BY <1>1, <4>1, <4>2
            <3>2. n \in 0..Len(execs') /\ n \in Nat /\ next \in Label
                  BY <1>1, <1>2, <2>1, <3>1, NextIs DEF CallIs
            <3>3. PICK e: e = n
                  OBVIOUS
            <3>4. PICK seen: seen = calls[c].seen
                  OBVIOUS
            <3> HIDE DEF n, next
            <3>5. y \in Call /\ y.label = next /\ y.exec = e /\ y.seen = seen
                  <4>1. calls[c] \in Call
                        BY <1>1
                  <4> QED BY <3>2, <3>3, <3>4, <4>1 DEF Call
            <3> HIDE DEF y
            <3>6. Others(c) /\ calls'[c] = y /\ calls' \in [Caller -> Call]
                  BY <1>1, <3>1, <3>5, Moved DEF Others
            <3>7. CallIs(c)'
                  BY <2>1, <3>2, <3>3, <3>4, <3>5, <3>6, CallTakes DEF next, Deletions
            <3> QED BY <1>3, <1>4, <2>1, <3>6, <3>7
      <2> QED BY <2>2, <2>3
<1>14. CASE Workflows!ReadBack(c, calls[c].label)
      <2>1. PICK l: l = calls[c].label
            OBVIOUS
      <2>2. PICK e: e = calls[c].exec
            OBVIOUS
      <2> DEFINE kinds == IF l = "runs" THEN {"record", "record_failed"} ELSE {"pass", "flag"}
                 rows == {j \in DOMAIN jobs \ erased:
                            jobs[j].kind \in kinds /\ jobs[j].state = "succeeded" /\ e \in {0, jobs[j].exec}}
                 next == Workflows!NextFlag(l)
      <2>3. PICK seen: seen = calls[c].seen \cup rows
            OBVIOUS
      <2> DEFINE y == [calls[c] EXCEPT !.label = next, !.seen = seen]
      <2>4. /\ l \in {"runs", "quality"} /\ l \in FlowLabels \ {"end"} /\ execs' = execs /\ jobs' = jobs
            /\ erased' = erased
            BY <1>14, <2>1 DEF Workflows!ReadBack, FlowLabels
      <2>5. calls' = [calls EXCEPT ![c] = y]
            <3>1. calls' = [calls EXCEPT ![c] = [calls[c] EXCEPT !.label = next, !.seen = calls[c].seen \cup rows]]
                  BY <1>14, <2>1, <2>2 DEF Workflows!ReadBack
            <3> QED BY <2>3, <3>1
      <2>6. next \in Label
            BY <1>1, <2>4, NextIs
      <2> HIDE DEF next
      <2>7. seen \subseteq Nat
            <3>1. calls[c] \in Call
                  BY <1>1
            <3>2. calls[c].seen \subseteq Nat
                  BY <3>1 DEF Call
            <3>3. DOMAIN jobs \subseteq Nat
                  BY <1>1
            <3> QED BY <2>3, <3>2, <3>3
      <2>8. y \in Call /\ y.label = next /\ y.exec = e /\ y.seen = seen
            <3>1. calls[c] \in Call
                  BY <1>1
            <3> QED BY <2>2, <2>6, <2>7, <3>1 DEF Call
      <2> HIDE DEF y
      <2>9. Others(c) /\ calls'[c] = y /\ calls' \in [Caller -> Call]
            BY <1>1, <2>5, <2>8, Moved DEF Others
      <2>10. \A j \in seen: \/ j \in calls[c].seen
                            \/ j \in DOMAIN jobs /\ jobs[j].state = "succeeded" /\ e \in {0, jobs[j].exec}
            BY <2>3
      <2>11. l = "quality" /\ Over(e) => FlagRead(e, seen)'
            <3> SUFFICES ASSUME l = "quality", Over(e), execs[e].label = "failed", execs[e].op = "flag"
                         PROVE  \E f \in Of(e, Here(e), "flag")': jobs'[f].state = "succeeded" /\ f \in seen \cup erased'
                BY <2>4 DEF FlagRead
            <3>1. PICK f \in Of(e, Here(e), "flag"): jobs[f].state = "succeeded"
                  BY <1>1 DEF Over, Ends, Succeeded
            <3>2. f \in seen \cup erased
                  BY <2>3, <3>1 DEF Of
            <3>3. Of(e, Here(e), "flag")' = Of(e, Here(e), "flag")
                  BY <2>4 DEF Of, Here
            <3> QED BY <2>4, <3>1, <3>2, <3>3
      <2>12. e \in 0..Len(execs')
            BY <1>1, <2>2, <2>4 DEF CallIs
      <2>13. /\ calls[c].label = l /\ calls'[c].label = Workflows!NextFlag(l) /\ e = calls'[c].exec
             /\ seen = calls'[c].seen /\ calls[c].seen \subseteq seen
             BY <2>1, <2>3, <2>8, <2>9 DEF next
      <2>14. CallIs(c)'
            BY <2>2, <2>4, <2>10, <2>11, <2>12, <2>13, CallTakes DEF Deletions
      <2> QED BY <1>3, <1>4, <2>4, <2>9, <2>14
<1> QED BY <1>7, <1>8, <1>9, <1>10, <1>11, <1>12, <1>13, <1>14 DEF Workflows!Continue

LEMMA WorkKeeps ==
    ASSUME WorkInv, ByWorkflow, Next
    PROVE  WorkInv' /\ ByWorkflow'
<1>1. ExecsInv' /\ project' = project /\ Stay /\ OverStays
      BY WorkExecs DEF WorkInv
<1>2. updates' = {}
      BY WorkCases DEF WorkInv
<1>3. CASE UNCHANGED <<calls, erased>>
      <2>1. /\ calls' \in [Caller -> Call] /\ Len(execs) <= Len(execs') /\ Len(execs') \in Nat
            BY <1>1, <1>3, LengthGrows DEF WorkInv, ExecsInv, EvidenceInv, Types
      <2>2. \A d \in Caller: CallIs(d)'
            BY <1>1, <1>3, <2>1, CallRests
      <2>3. \A j \in erased': j \in DOMAIN jobs' /\ jobs'[j].state = "succeeded"
            BY <1>1, <1>3 DEF WorkInv, Stay
      <2> QED BY <1>1, <1>2, <2>1, <2>2, <2>3 DEF WorkInv, ByWorkflow
<1>4. ASSUME NEW c \in Caller, Workflows!Start(c) \/ Workflows!Continue(c) \/ End(c) \/ Raise(c)
      PROVE  WorkInv' /\ ByWorkflow'
      BY <1>1, <1>2, <1>4, WorkCallKeeps DEF WorkInv, ByWorkflow
<1> QED BY <1>3, <1>4, WorkCases DEF WorkInv

LEMMA WorkInit ==
    ASSUME Init, ByWorkflow
    PROVE  WorkInv
<1>1. EvidenceInv
      BY EvidenceInit
<1>2. /\ execs = <<>> /\ jobs = <<>> /\ erased = {} /\ updates = {} /\ project \in Projects
      BY DEF Init
<1>3. ExecsInv
      BY <1>1, <1>2 DEF ExecsInv, Coded
<1>4. ASSUME NEW c \in Caller
      PROVE  calls[c] \in Call /\ calls[c].label = "idle" /\ calls[c].exec = 0 /\ calls[c].seen = {}
      <2>1. project.from \in Nat
            BY <1>2, ProjectsAssumption DEF Project
      <2>2. \A t, f \in BOOLEAN: [label |-> "idle", exec |-> 0, at |-> project.from, job |-> 0, polls |-> 0, since |-> 0,
               ok |-> t, statuses |-> {}, seen |-> {}, verdict |-> "none", mixed |-> f] \in Call
            BY <2>1 DEF Call, Label
      <2>3. TRUE \in BOOLEAN /\ FALSE \in BOOLEAN
            BY Zenon
      <2>4. calls[c] = [label |-> "idle", exec |-> 0, at |-> project.from, job |-> 0, polls |-> 0, since |-> 0,
               ok |-> TRUE, statuses |-> {}, seen |-> {}, verdict |-> "none", mixed |-> FALSE]
            BY DEF Init
      <2>5. calls[c] \in Call
            BY <2>2, <2>3, <2>4, Zenon
      <2>6. calls[c].label = "idle" /\ calls[c].exec = 0 /\ calls[c].seen = {}
            BY <2>4
      <2> QED BY <2>5, <2>6
<1>5. calls \in [Caller -> Call]
      <2>1. calls = [c \in Caller |-> calls[c]]
            BY DEF Init
      <2> QED BY <1>4, <2>1
<1>6. \A c \in Caller: CallIs(c)
      <2>1. Len(execs) = 0
            BY <1>2
      <2>2. \A c \in Caller: \A m: ~Behind(c, m)
            BY <1>4 DEF Behind, FlowLabels
      <2> QED BY <1>4, <2>1, <2>2 DEF CallIs, SeenIsOurs, CountsOn
<1> QED BY <1>2, <1>3, <1>5, <1>6 DEF WorkInv

\* What a call of the workflow is told is true.
LEMMA WorkServes ==
    ASSUME WorkInv, ByWorkflow
    PROVE  SuccessIsOurs /\ NothingRunsAfterAVerdict /\ RunsWhatItDeployed
<1>1. /\ project \in Projects /\ jobs \in Seq(Job) /\ \A e \in DOMAIN execs: Tells(e) /\ Ends(e)
      BY DEF WorkInv, ExecsInv, EvidenceInv, Types
<1>2. RunsWhatItDeployed
      BY DEF RunsWhatItDeployed, WorkInv, ExecsInv, Coded
<1>3. ASSUME NEW c \in Caller, Waited(c), NEW e, e = calls[c].exec
      PROVE  /\ Over(e)
             /\ "readback" \in project.flags => FlagRead(e, calls[c].seen)
             /\ "cleanup_data" \in project.flags => \A m \in Deletions: CleanedBy(e, m)
      <2>1. project.wait /\ \A m: Behind(c, m)
            BY <1>3 DEF Waited, Returned, WorkInv, CallIs, Behind
      <2> QED BY <1>3, <2>1 DEF WorkInv, CallIs, CountsOn
<1>4. NothingRunsAfterAVerdict
      <2> SUFFICES ASSUME NEW c \in Caller, Waited(c), NEW e, e = calls[c].exec,
                          execs[e].label # "raised", ~execs[e].lost,
                          NEW j \in DOMAIN jobs, jobs[j].exec = e
                   PROVE  /\ ~Live(j)
                          /\ "cleanup_data" \in project.flags =>
                                jobs[j].state = "failed" \/ jobs[j].kind = "check" \/ j \in erased
          BY DEF NothingRunsAfterAVerdict, ByWorkflow
      <2>1. Over(e) /\ ("cleanup_data" \in project.flags => \A m \in Deletions: CleanedBy(e, m))
            BY <1>3
      <2>2. ~Live(j)
            BY <1>1, <2>1 DEF Over, Ends
      <2>3. jobs[j] \in Job
            BY <1>1
      <2>4. \/ jobs[j].kind = "check"
            \/ \E m \in Deletions: jobs[j].kind \in Workflows!Deletes(m)
            BY <2>3 DEF Job, Op, Deletions, Workflows!Deletes
      <2> QED BY <2>1, <2>2, <2>4 DEF CleanedBy, Cleaned
<1>5. SuccessIsOurs
      <2> SUFFICES ASSUME NEW c \in Caller, Waited(c)
                   PROVE  ReadbackIsTrue(c)
          BY DEF SuccessIsOurs, ByWorkflow
      <2>1. PICK e: e = calls[c].exec
            OBVIOUS
      <2>2. Over(e) /\ ("readback" \in project.flags => FlagRead(e, calls[c].seen)) /\ e # 0
            BY <1>3, <2>1 DEF Over
      <2>3. ASSUME "readback" \in project.flags, Accepts(c), NEW s \in Steps
            PROVE  /\ Succeeded(e, s, "write")
                   /\ \/ project.rules = 0 \/ CleanCheck(e, s)
                      \/ s = project.order[Len(project.order)] /\ execs[e].label = "raised"
                      \/ Of(e, s, "flag") \cap erased # {}
            <3>1. \A t \in Steps: \E j \in Of(e, t, "record"): j \in calls[c].seen
                  <4> SUFFICES ASSUME NEW t \in Steps
                               PROVE  \E j \in Of(e, t, "record"): j \in calls[c].seen
                      OBVIOUS
                  <4>1. PICK j \in calls[c].seen: jobs[j].step = t /\ jobs[j].kind = "record"
                        BY <2>3 DEF Accepts
                  <4>2. j \in DOMAIN jobs /\ jobs[j].exec = e
                        BY <2>1, <2>2 DEF WorkInv, CallIs, SeenIsOurs
                  <4> QED BY <4>1, <4>2 DEF Of
            <3>2. Tells(e) /\ Ends(e) /\ execs[e].at \in DOMAIN project.order
                  BY <1>1, <2>2 DEF Over, WorkInv, ExecsInv, EvidenceInv, Types
            <3>3. Succeeded(e, s, "write")
                  BY <2>3, <3>1, <3>2 DEF Tells, RowsAreTrue, Of
            <3>4. PICK i \in DOMAIN project.order: s = project.order[i]
                  BY <2>3 DEF Steps
            <3>5. /\ DOMAIN project.order = 1..Len(project.order) /\ Len(project.order) \in Nat
                  /\ \A m, n \in DOMAIN project.order: project.order[m] = project.order[n] => m = n
                  /\ project.rules \in Nat
                  BY <1>1, OrderFacts
            <3>6. \A n \in DOMAIN project.order: n <= execs[e].at
                  <4> SUFFICES ASSUME NEW n \in DOMAIN project.order
                               PROVE  n <= execs[e].at
                      OBVIOUS
                  <4>1. project.order[n] \in Steps
                        BY DEF Steps
                  <4>2. PICK j \in Of(e, project.order[n], "record"): TRUE
                        BY <3>1, <4>1
                  <4> QED BY <3>2, <3>5, <4>2 DEF Tells, NothingAhead, Of
            <3>7. execs[e].at = Len(project.order)
                  <4>1. Len(project.order) \in DOMAIN project.order
                        BY <3>2, <3>5
                  <4> QED BY <3>2, <3>5, <3>6, <4>1
            <3>8. ASSUME project.rules # 0, Past(e, s)
                  PROVE  CleanCheck(e, s)
                  BY <3>2, <3>5, <3>8 DEF Past, Succeeded, Tells, RowsAreTrue, Of
            <3>9. CASE i < execs[e].at \/ execs[e].label = "succeeded"
                  <4>1. Past(e, s)
                        BY <3>2, <3>4, <3>9 DEF Tells, PlaceTells
                  <4> QED BY <3>3, <3>8, <4>1
            <3>10. CASE ~(i < execs[e].at)
                  <4>1. i = execs[e].at /\ s = Here(e) /\ s = project.order[Len(project.order)]
                        BY <3>2, <3>4, <3>5, <3>6, <3>7, <3>10 DEF Here
                  <4>2. CASE execs[e].label = "raised"
                        BY <3>3, <4>1, <4>2
                  <4>3. CASE execs[e].label = "failed"
                        <5>1. execs[e].op # "record_failed"
                              BY <2>3, <3>1, <3>2, <4>1 DEF Ends
                        <5>2. execs[e].op = "flag"
                              BY <3>2, <4>3, <5>1 DEF Ends
                        <5>3. PICK f \in Of(e, s, "flag"): f \in calls[c].seen \cup erased
                              BY <2>2, <2>3, <4>1, <4>3, <5>2 DEF FlagRead
                        <5>4. f \notin calls[c].seen
                              BY <2>3, <5>3 DEF Accepts, Of
                        <5> QED BY <3>3, <5>3, <5>4
                  <4> QED BY <2>2, <3>9, <4>2, <4>3 DEF Over
            <3> QED BY <3>9, <3>10
      <2>4. execs[e].label # "running"
            BY <2>2 DEF Over
      <2> QED BY <2>1, <2>3, <2>4 DEF ReadbackIsTrue
<1> QED BY <1>2, <1>4, <1>5

-----------------------------------------------------------------------------
(* Every driver *)

\* What holds of the calls, the executions and the jobs, by the driver.
Driven ==
    \/ ByWorkflow /\ WorkInv
    \/ OnFabric /\ FabricInv
    \/ OnGlue /\ GlueInv
    \/ Served /\ ServedInv

LEMMA TypedInit ==
    ASSUME Init
    PROVE  /\ Typed /\ Meet /\ RunsWhatItDeployed /\ updates = {}
           /\ execs = <<>> /\ jobs = <<>> /\ DOMAIN execs = {} /\ DOMAIN jobs = {}
           /\ \A s \in Step: item[s].code = None /\ item[s].def = None
           /\ \A c \in Caller:
                 /\ calls[c].label = "idle" /\ calls[c].exec = 0 /\ calls[c].verdict = "none"
                 /\ calls[c].at = project.from /\ ~calls[c].mixed /\ ~Busy(calls[c])
<1>1. /\ execs = <<>> /\ jobs = <<>> /\ updates = {} /\ project \in Projects /\ machine \in Version
      BY DEF Init, Version
<1>2. item \in [Step -> [code: Version, def: Version]] /\ \A s \in Step: item[s].code = None /\ item[s].def = None
      BY DEF Init, Version
<1>3. project.from \in Nat /\ project.from <= Len(project.order) /\ Len(project.order) \in Nat
      BY <1>1, OrderFacts, ProjectsAssumption DEF Project
<1>4. ASSUME NEW c \in Caller
      PROVE  /\ calls[c] \in Call /\ calls[c].label = "idle" /\ calls[c].exec = 0 /\ calls[c].verdict = "none"
             /\ calls[c].at = project.from /\ ~calls[c].mixed
      <2>1. \A t, f \in BOOLEAN: [label |-> "idle", exec |-> 0, at |-> project.from, job |-> 0, polls |-> 0, since |-> 0,
               ok |-> t, statuses |-> {}, seen |-> {}, verdict |-> "none", mixed |-> f] \in Call
            BY <1>3 DEF Call, Label
      <2>2. TRUE \in BOOLEAN /\ FALSE \in BOOLEAN
            BY Zenon
      <2>3. calls[c] = [label |-> "idle", exec |-> 0, at |-> project.from, job |-> 0, polls |-> 0, since |-> 0,
               ok |-> TRUE, statuses |-> {}, seen |-> {}, verdict |-> "none", mixed |-> FALSE]
            BY DEF Init
      <2>4. calls[c] \in Call
            BY <2>1, <2>2, <2>3, Zenon
      <2>5. /\ calls[c].label = "idle" /\ calls[c].exec = 0 /\ calls[c].verdict = "none"
            /\ calls[c].at = project.from /\ ~calls[c].mixed
            BY <2>3
      <2> QED BY <2>4, <2>5
<1>5. calls \in [Caller -> Call]
      <2>1. calls = [c \in Caller |-> calls[c]]
            BY DEF Init
      <2> QED BY <1>4, <2>1
<1>6. DOMAIN execs = {} /\ DOMAIN jobs = {} /\ execs \in Seq(Exec) /\ jobs \in Seq(Job) /\ Len(execs) = 0
      BY <1>1
<1>7. Typed
      BY <1>1, <1>2, <1>3, <1>4, <1>5, <1>6 DEF Typed, Owned
<1>8. Meet /\ \A c \in Caller: ~Busy(calls[c])
      BY <1>1, <1>4 DEF Meet, About, Busy
<1>9. RunsWhatItDeployed
      BY <1>6 DEF RunsWhatItDeployed
<1> QED BY <1>1, <1>2, <1>4, <1>6, <1>7, <1>8, <1>9

LEMMA DrivenInit == Init => Driven
<1> SUFFICES ASSUME Init
             PROVE  Driven
    OBVIOUS
<1>1. project.driver \in Driver /\ project \in Projects
      BY ProjectsAssumption DEF Init, Project
<1>2. CASE ByWorkflow
      BY <1>2, WorkInit DEF Driven
<1>3. CASE Loop
      <2>1. ASSUME NEW c \in Caller
            PROVE  Loops(c)
            <3>1. calls[c].label = "idle" /\ calls[c].exec = 0 /\ calls[c].verdict = "none"
                  /\ calls[c].at = project.from /\ ~Busy(calls[c]) /\ DOMAIN jobs = {}
                  BY TypedInit
            <3> QED BY <3>1 DEF Loops, Ahead, AwaitsItsOwn, AwaitsAll, PassesInOrder, Walking
      <2>2. LoopInv
            BY <2>1, TypedInit DEF LoopInv
      <2>3. FabricItems
            BY TypedInit DEF FabricItems, Known
      <2>4. \A c \in Caller: Registered(c)
            BY TypedInit DEF Registered
      <2> QED BY <1>3, <2>2, <2>3, <2>4, TypedInit DEF Loop, OnFabric, OnGlue, FabricInv, GlueInv, Driven
<1>4. CASE Served
      <2>1. ASSUME NEW c \in Caller
            PROVE  Serves(c)
            <3>1. calls[c].label = "idle" /\ calls[c].exec = 0 /\ calls[c].at = 1
                  BY <1>1, <1>4, TypedInit, FromTheFirst
            <3> QED BY <3>1 DEF Serves, Waited, Returned, DeploysItsOwn, CodeIsOwn, DefinitionIsOwn, Runs, Deployed,
                       Running
      <2>2. OneEach /\ \A e \in DOMAIN execs: Executes(e)
            BY TypedInit DEF OneEach
      <2> QED BY <1>4, <2>1, <2>2, TypedInit DEF ServedInv, Driven
<1> QED BY <1>1, <1>2, <1>3, <1>4 DEF Driver, ByWorkflow, Loop, Served

LEMMA DrivenRests ==
    ASSUME Driven, UNCHANGED vars
    PROVE  Driven'
<1> USE DEF vars, service
<1>1. /\ project' = project /\ item' = item /\ machine' = machine /\ updates' = updates
      /\ execs' = execs /\ jobs' = jobs /\ erased' = erased /\ calls' = calls
      OBVIOUS
<1>2. ASSUME Typed
      PROVE  Typed'
      BY <1>1, <1>2 DEF Typed, Owned
<1>3. ASSUME Meet
      PROVE  Meet'
      BY <1>1, <1>3 DEF Meet, About, Busy
<1>4. ASSUME RunsWhatItDeployed
      PROVE  RunsWhatItDeployed'
      BY <1>1, <1>4 DEF RunsWhatItDeployed
<1>5. ASSUME Typed, LoopInv
      PROVE  LoopInv'
      <2>1. Stay /\ \A c \in Caller: Alike(c)
            BY <1>1 DEF Stay, Alike
      <2>2. \A c \in Caller: Loops(c)'
            BY <1>1, <1>5, <2>1, LoopsStays DEF LoopInv
      <2> QED BY <1>1, <1>5, <2>2 DEF LoopInv
<1>6. ASSUME FabricItems
      PROVE  FabricItems'
      BY <1>1, <1>6 DEF FabricItems, Sent, Known, Current
<1>7. ASSUME \A c \in Caller: Registered(c)
      PROVE  \A c \in Caller: Registered(c)'
      BY <1>1, <1>7 DEF Registered, Current
<1>8. ASSUME OneEach /\ \A e \in DOMAIN execs: Executes(e)
      PROVE  OneEach' /\ \A e \in DOMAIN execs': Executes(e)'
      BY <1>1, <1>8 DEF OneEach, Executes, AllSucceeded, Succeeded, Of, Steps
<1>9. ASSUME \A c \in Caller: Serves(c)
      PROVE  \A c \in Caller: Serves(c)'
      BY <1>1, <1>9 DEF Serves, Preparing, Waited, Returned, OthersMeet, DeploysItsOwn, CodeIsOwn, DefinitionIsOwn,
         Runs, Deployed, Running, AllSucceeded, Succeeded, Of, Steps
<1>10. ASSUME ByWorkflow, WorkInv
       PROVE  WorkInv'
       <2>1. EvidenceInv'
             BY <1>10, EvidenceStep DEF WorkInv, ExecsInv
       <2>2. Stay /\ OverStays /\ \A e \in DOMAIN execs: SamePlace(execs[e], execs'[e])
             BY <1>1 DEF Stay, OverStays, SamePlace
       <2>3. ExecsInv'
             BY <1>1, <1>10, <2>1, <2>2, EndsKeeps DEF WorkInv, ExecsInv, Coded
       <2>4. \A c \in Caller: CallIs(c)'
             BY <1>1, <1>10, <2>2, LengthGrows, CallRests DEF WorkInv, ExecsInv, EvidenceInv, Types
       <2> QED BY <1>1, <1>10, <2>3, <2>4 DEF WorkInv
<1>11. CASE ByWorkflow /\ WorkInv
       BY <1>1, <1>10, <1>11 DEF Driven, ByWorkflow
<1>12. CASE OnFabric /\ FabricInv
       BY <1>1, <1>2, <1>3, <1>4, <1>5, <1>6, <1>12 DEF Driven, OnFabric, FabricInv
<1>13. CASE OnGlue /\ GlueInv
       BY <1>1, <1>2, <1>3, <1>4, <1>5, <1>7, <1>13 DEF Driven, OnGlue, GlueInv
<1>14. CASE Served /\ ServedInv
       BY <1>1, <1>2, <1>3, <1>4, <1>8, <1>9, <1>14 DEF Driven, Served, ServedInv
<1> QED BY <1>11, <1>12, <1>13, <1>14 DEF Driven

LEMMA DrivenStep == Driven /\ [Next]_vars => Driven'
<1> SUFFICES ASSUME Driven, [Next]_vars
             PROVE  Driven'
    OBVIOUS
<1>1. CASE Next
      BY <1>1, WorkKeeps, FabricKeeps, GlueKeeps, ServedKeeps DEF Driven
<1>2. CASE UNCHANGED vars
      BY <1>2, DrivenRests
<1> QED BY <1>1, <1>2

LEMMA DrivenHolds == Driven => SuccessIsOurs /\ NothingRunsAfterAVerdict /\ RunsWhatItDeployed
BY WorkServes, LoopSuccess, ServedHolds DEF Driven, OnFabric, OnGlue, Loop, FabricInv, GlueInv

\* A new job comes after those that its step depends on.
InOrder(j) ==
    LET new == jobs'[j]
        place(s) == CHOOSE i \in DOMAIN project.order: project.order[i] = s
    IN  new.kind = "write" =>
          /\ Of(new.exec, new.step, "write") = {} \/ (project.driver = "workflows" /\ execs[new.exec].lost)
          /\ \A d \in project.after[new.step] \cap Selected:
                \/ AsExpected(new.exec, d)
                \/ /\ project.driver \in {"fabric", "glue"} /\ ~project.wait
                   /\ Of(new.exec, d, "write") # {}
                \/ project.driver \in {"workflows", "fabric", "glue"} /\ place(d) >= place(new.step)
                \/ project.driver = "fabric" /\ ~project.stop

LEMMA DrivenOrder ==
    ASSUME Driven, Next, NEW j \in DOMAIN jobs' \ DOMAIN jobs
    PROVE  InOrder(j)
<1> DEFINE place(s) == CHOOSE i \in DOMAIN project.order: project.order[i] = s
<1>1. CASE ByWorkflow /\ WorkInv
      <2> SUFFICES ASSUME jobs'[j].kind = "write"
                   PROVE  InOrder(j)
          BY DEF InOrder
      <2>1. PICK e \in DOMAIN execs: e = jobs'[j].exec
            BY <1>1, WorkOrder DEF WorkInv
      <2>2. /\ Of(e, Here(e), "write") = {} \/ execs[e].lost
            /\ jobs'[j].step = Here(e)
            /\ \A i \in DOMAIN project.order: i < execs[e].at => Succeeded(e, project.order[i], "write")
            BY <1>1, <2>1, WorkOrder DEF WorkInv
      <2>3. /\ project \in Projects /\ execs[e].at \in DOMAIN project.order
            /\ \A i, k \in DOMAIN project.order: project.order[i] = project.order[k] => i = k
            /\ DOMAIN project.order = 1..Len(project.order) /\ Len(project.order) \in Nat
            BY <1>1, OrderFacts DEF WorkInv, ExecsInv, EvidenceInv, Types
      <2>4. \A i \in DOMAIN project.order: place(project.order[i]) = i
            BY <2>3
      <2> HIDE DEF place
      <2>5. project.from \in Nat \ {0}
            BY <2>3, ProjectsAssumption DEF Project
      <2>6. ASSUME NEW d \in project.after[Here(e)] \cap Selected, ~(place(d) >= place(Here(e)))
            PROVE  \E k \in Of(e, d, "write"): jobs[k].state = "succeeded"
            <3>1. PICK i \in project.from..Len(project.order): d = project.order[i]
                  BY <2>6 DEF Selected
            <3>2. i \in DOMAIN project.order
                  BY <2>3, <2>5, <3>1
            <3>3. place(d) = i /\ place(Here(e)) = execs[e].at
                  BY <2>3, <2>4, <3>1, <3>2 DEF Here
            <3>4. i < execs[e].at
                  BY <2>3, <2>6, <3>2, <3>3
            <3> QED BY <2>2, <3>1, <3>2, <3>4 DEF Succeeded
      <2>7. \A s \in Step: project.expects[s] = "SUCCEEDED"
            BY <1>1, <2>3, ProjectsAssumption DEF ByWorkflow
      <2>8. \A d \in project.after[Here(e)] \cap Selected: d \in Step
            BY <2>3, <2>5, OrderFacts DEF Selected
      <2>9. \A d \in project.after[Here(e)] \cap Selected: AsExpected(e, d) \/ place(d) >= place(Here(e))
            BY <2>6, <2>7, <2>8 DEF AsExpected
      <2> QED BY <1>1, <2>1, <2>2, <2>9 DEF InOrder, ByWorkflow, place
<1>2. CASE (OnFabric /\ FabricInv) \/ (OnGlue /\ GlueInv)
      <2>0. Typed /\ LoopInv /\ Loop
            BY <1>2 DEF OnFabric, OnGlue, Loop, FabricInv, GlueInv
      <2>1. ASSUME NEW i \in DOMAIN jobs, JobEnds(i)
            PROVE  FALSE
            BY <2>0, <2>1, JobEndsFlat DEF Typed
      <2>2. PICK c \in Caller: LoopStep(c) /\ project' = project
            <3>1. CASE OnFabric /\ FabricInv
                  <4>1. ASSUME NEW c \in Caller, Fabric!Start(c)
                        PROVE  FALSE
                        BY <4>1 DEF Fabric!Start
                  <4>2. ASSUME NEW u \in updates, Fabric!OperationEnds(u)
                        PROVE  FALSE
                        BY <4>2 DEF Fabric!OperationEnds
                  <4> QED BY <2>1, <3>1, <4>1, <4>2, FabricCases DEF FabricStep
            <3>2. CASE OnGlue /\ GlueInv
                  <4>1. ASSUME NEW c \in Caller, Glue!Start(c)
                        PROVE  FALSE
                        BY <4>1 DEF Glue!Start, Glue!service
                  <4>2. \A c \in Caller: Glue!Publish(c) \/ Glue!Lookup(c) \/ Glue!Register(c)
                           \/ Glue!RegisterMachine(c) \/ Glue!StartJob(c) \/ Glue!Wait(c) \/ End(c) \/ Raise(c)
                           => GlueStep(c)
                        BY <3>2, GluePublishes, GlueSubmits, GlueWaits, GlueEnds, GlueRaises
                  <4> QED BY <2>1, <3>2, <4>1, <4>2, GlueCases DEF GlueStep, GlueInv
            <3> QED BY <1>2, <3>1, <3>2
      <2>3. /\ Of(jobs'[j].exec, jobs'[j].step, "write") = {}
            /\ \A d \in project.after[jobs'[j].step] \cap Selected:
                  \/ AsExpected(jobs'[j].exec, d) \/ (~project.wait /\ Of(jobs'[j].exec, d, "write") # {})
                  \/ place(d) >= place(jobs'[j].step)
                  \/ project.driver = "fabric" /\ ~project.stop
            BY <2>0, <2>2, LoopOrder
      <2> HIDE DEF place
      <2> QED BY <2>0, <2>3 DEF InOrder, Loop, place
<1>3. CASE Served /\ ServedInv
      <2>1. /\ Of(jobs'[j].exec, jobs'[j].step, "write") = {}
            /\ \A d \in project.after[jobs'[j].step] \cap Selected:
                  \E k \in Of(jobs'[j].exec, d, "write"): jobs[k].state = "succeeded"
            BY <1>3, ServedOrder
      <2>2. \A d \in Selected: project.expects[d] = "SUCCEEDED"
            <3>1. project \in Projects
                  BY <1>3 DEF ServedInv, Typed
            <3>2. Selected \subseteq Step
                  BY <1>3, <3>1, FromTheFirst, OrderFacts DEF Steps
            <3> QED BY <1>3, <3>1, <3>2, FromTheFirst
      <2> QED BY <2>1, <2>2 DEF InOrder, AsExpected
<1> QED BY <1>1, <1>2, <1>3 DEF Driven

-----------------------------------------------------------------------------

\* A call that waited, or any call on Fabric, that returned SUCCEEDED had every
\* selected step come, in its own execution, to what the project expects of it
\* (to a success of its job, unless the project expects it failed, blocked or
\* running), for every project, driver and number of calls: wait_for_job_run, the loop of the Fabric smoke,
\* wait_for_state_machine, the watcher of the task graph, and the readback plan
\* of the workflow.
THEOREM SuccessesAreOurs == Spec => []SuccessIsOurs
<1>1. Driven => SuccessIsOurs
      BY DrivenHolds
<1> QED BY <1>1, DrivenInit, DrivenStep, PTL DEF Spec

\* When a call that waited has returned nothing of its execution goes on, nor
\* is there anything left that its cleanup should have deleted.
THEOREM VerdictsAreFinal == Spec => []NothingRunsAfterAVerdict
<1>1. Driven => NothingRunsAfterAVerdict
      BY DrivenHolds
<1> QED BY <1>1, DrivenInit, DrivenStep, PTL DEF Spec

\* A call that meets no other one runs the code and the definition that it
\* deployed itself, by any of the adapters.
THEOREM CallsRunWhatTheyDeploy == Spec => []RunsWhatItDeployed
<1>1. Driven => RunsWhatItDeployed
      BY DrivenHolds
<1> QED BY <1>1, DrivenInit, DrivenStep, PTL DEF Spec

\* An execution writes each target once, unless the workflow lost an answer,
\* and after the steps that it depends on have come to what the project expects
\* of them, by the order of the project or by the graph that the service follows.
THEOREM StepsAreInOrder == Spec => StepsRunOnceInOrder
<1> DEFINE A == \A j \in DOMAIN jobs' \ DOMAIN jobs: InOrder(j)
<1>1. Driven /\ [Next]_vars => [A]_vars
      BY DrivenOrder
<1>2. [][A]_vars <=> StepsRunOnceInOrder
      BY DEF StepsRunOnceInOrder, InOrder
<1> HIDE DEF A
<1> QED BY <1>1, <1>2, DrivenInit, DrivenStep, PTL DEF Spec

=============================================================================
