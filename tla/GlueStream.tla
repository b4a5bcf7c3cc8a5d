------------------------------ MODULE GlueStream ------------------------------
(***************************************************************************)
(* The job that render_streaming_glue_job generates for an available-now   *)
(* stream: a query whose foreachBatch callback counts a micro-batch, runs  *)
(* the quality rules over it, appends it and records it; then job.commit   *)
(* and the evidence of the run.  The checkpoint of the query, kept by      *)
(* Spark, is the job's progress: the offset log says which batch was       *)
(* planned last, the commit log which callback returned last, and a batch  *)
(* that was planned and not committed is run again with the same rows.     *)
(* Glue runs one execution of the job at a time.                           *)
(***************************************************************************)
EXTENDS PlatformTables

Pc == {"idle", "streaming", "gate", "sift", "clean", "written", "committed", "stated",
       "failing", "done", "crashed"}

Live == {r \in Run: pc[r] \notin {"idle", "done", "crashed"}}

Init == Fresh("aws", {c \in Contracts: c.stream})

\* The preamble, the stream batch table, and the start of the query.
Start(r) ==
    /\ pc[r] = "idle" /\ Live = {}
    /\ Goto(r, "streaming")
    /\ low' = [low EXCEPT ![r] = bookmark]
    /\ top' = [top EXCEPT ![r] = source]
    /\ UNCHANGED <<data, control, base, step, applied, cand, late>>

\* Spark runs the planned batch again, or plans one of the rows that were there
\* at the start.
NextBatch(r) ==
    /\ pc[r] = "streaming" /\ bookmark < top[r]
    /\ Goto(r, "gate")
    /\ applied' = [applied EXCEPT ![r] = {}]
    /\ step' = [step EXCEPT ![r] = 1]
    /\ planned' \in IF bookmark < planned THEN {planned} ELSE (bookmark + 1)..top[r]
    /\ UNCHANGED <<data, locking, now, stateLog, runLog, bookmark, staged, reads,
                   low, base, top, cand, late>>

-----------------------------------------------------------------------------
(* _process_batch *)

RulesOf(severity) ==
    {i \in DOMAIN contract.rules: /\ contract.rules[i].severity = severity
                                  /\ ~contract.rules[i].expression}

\* The rows of the batch that the rules so far have left.
BatchRows(r) == (bookmark + 1)..planned \ Filtered(r, planned)

\* Those that fail one of the rules.
Offending(r, rules) == {n \in BatchRows(r): \E i \in rules: n \in contract.rules[i].bad}

CheckAbort(r) ==
    /\ pc[r] = "gate"
    /\ Goto(r, IF Offending(r, RulesOf("abort")) = {} THEN "sift" ELSE "failing")
    /\ UNCHANGED <<data, control, locals, late>>

Quarantine(r) ==
    /\ pc[r] = "sift"
    /\ Goto(r, "clean")
    /\ quarantined' = [quarantined EXCEPT ![r] = @ \cup Offending(r, RulesOf("quarantine"))]
    /\ applied' = [applied EXCEPT ![r] = RulesOf("quarantine")]
    /\ UNCHANGED <<given, source, wrote, control, low, base, top, step, cand, late>>

Pending(r) == {i \in DOMAIN contract.rules: i >= step[r] /\ contract.rules[i].expression}

\* The expressions, one by one, as in the batch job.
Evaluate(r) ==
    /\ pc[r] = "clean"
    /\ \E i \in Pending(r):
          LET rule == contract.rules[i]
              bad  == Offending(r, {i})
          IN  /\ \A j \in Pending(r): i <= j
              /\ step' = [step EXCEPT ![r] = i + 1]
              /\ Goto(r, IF rule.severity = "abort" /\ bad # {} THEN "failing" ELSE "clean")
              /\ IF rule.severity = "quarantine"
                 THEN /\ quarantined' = [quarantined EXCEPT ![r] = @ \cup bad]
                      /\ applied' = [applied EXCEPT ![r] = @ \cup {i}]
                 ELSE UNCHANGED <<quarantined, applied>>
    /\ UNCHANGED <<given, source, wrote, control, low, base, top, cand, late>>

\* The append; the count and the row of ctrl_ingestion_streams follow.
Write(r) ==
    /\ pc[r] = "clean" /\ Pending(r) = {}
    /\ Goto(r, "written")
    /\ wrote' = [wrote EXCEPT ![r] = @ \cup BatchRows(r)]
    /\ UNCHANGED <<given, source, quarantined, control, locals, late>>

\* The callback returns, and Spark commits the batch.
CommitBatch(r) ==
    /\ pc[r] = "written"
    /\ Goto(r, "streaming")
    /\ bookmark' = planned
    /\ UNCHANGED <<data, locking, now, stateLog, runLog, planned, staged, reads, locals, late>>

-----------------------------------------------------------------------------

\* awaitTermination returns, and job.commit() follows.
Exhausted(r) ==
    /\ pc[r] = "streaming" /\ bookmark >= top[r]
    /\ Goto(r, "committed")
    /\ UNCHANGED <<data, control, locals, late>>

\* The state row of a stream never has a watermark.
RecordState(r) ==
    /\ pc[r] = "committed"
    /\ Goto(r, "stated")
    /\ AppendState(r, "SUCCESS", None)
    /\ UNCHANGED <<data, locking, now, runLog, progress, locals, late>>

LogOutcome(r) ==
    /\ pc[r] = "stated"
    /\ Goto(r, "done")
    /\ LogRun(r, "SUCCESS", 0)
    /\ UNCHANGED <<data, locking, now, stateLog, progress, locals, late>>

\* A statement, the callback or the query raises.
Raise(r) ==
    /\ pc[r] \in {"streaming", "gate", "sift", "clean", "written", "committed", "stated"}
    /\ Goto(r, "failing")
    /\ UNCHANGED <<data, control, locals, late>>

\* The except block, whose own failure is printed.
LogFailure(r) ==
    /\ pc[r] = "failing"
    /\ Goto(r, "done")
    /\ LogRun(r, "FAILED", 0) \/ UNCHANGED runLog
    /\ UNCHANGED <<data, locking, now, stateLog, progress, locals, late>>

Next ==
    \/ \E r \in Run:
          \/ Start(r) \/ NextBatch(r) \/ CheckAbort(r) \/ Quarantine(r) \/ Evaluate(r)
          \/ Write(r) \/ CommitBatch(r) \/ Exhausted(r) \/ RecordState(r) \/ LogOutcome(r)
          \/ Raise(r) \/ LogFailure(r) \/ Crash(r)
    \/ Arrive

Spec == Init /\ [][Next]_vars

=============================================================================
