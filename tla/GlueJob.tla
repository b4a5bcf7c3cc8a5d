------------------------------- MODULE GlueJob -------------------------------
(***************************************************************************)
(* The batch job that _render_batch_glue_job generates for AWS Glue: read  *)
(* past the bookmark, quality rules, append, job.commit, and then the      *)
(* evidence.  The rules of Glue Data Quality come first, abort before      *)
(* quarantine, and then the SQL expressions in the order of the contract,  *)
(* each over the rows that the rules before it have left.  The job takes   *)
(* no lock and reads no watermark: its progress is the bookmark, a file    *)
(* list that Glue fixes when the source is read.  Glue runs one execution  *)
(* of a job at a time unless the job asks for more, which the generated    *)
(* job does not.                                                           *)
(***************************************************************************)
EXTENDS PlatformTables

Pc == {"idle", "gate", "sift", "clean", "written", "committed", "stated", "failing", "done", "crashed"}

Live == {r \in Run: pc[r] \notin {"idle", "done", "crashed"}}

Init == Fresh("aws", {c \in Contracts: ~c.stream})

\* The preamble and the read: the files after the bookmark.
Read(r) ==
    /\ pc[r] = "idle" /\ Live = {}
    /\ low' = [low EXCEPT ![r] = bookmark]
    /\ top' = [top EXCEPT ![r] = source]
    /\ Goto(r, IF source = bookmark THEN "written" ELSE "gate")   \* no columns: skip
    /\ UNCHANGED <<data, control, base, step, applied, cand, late>>

\* The rules of Glue Data Quality with a severity.
RulesOf(severity) ==
    {i \in DOMAIN contract.rules: /\ contract.rules[i].severity = severity
                                  /\ ~contract.rules[i].expression}

\* The rows the run read, and has not filtered out, that fail one of the rules.
Offending(r, rules) ==
    {n \in View(r, top[r]): \E i \in rules: n \in contract.rules[i].bad}

\* The abort rules of Glue Data Quality are evaluated on the whole input.
CheckAbort(r) ==
    /\ pc[r] = "gate"
    /\ Goto(r, IF Offending(r, RulesOf("abort")) = {} THEN "sift" ELSE "failing")
    /\ UNCHANGED <<data, control, locals, late>>

\* The rows that fail one of its quarantine rules are put aside and dropped, in
\* one go.
Quarantine(r) ==
    /\ pc[r] = "sift"
    /\ Goto(r, "clean")
    /\ quarantined' = [quarantined EXCEPT ![r] = Offending(r, RulesOf("quarantine"))]
    /\ applied' = [applied EXCEPT ![r] = RulesOf("quarantine")]
    /\ UNCHANGED <<given, source, wrote, control, low, base, top, step, cand, late>>

\* The expressions that are still to be evaluated.
Pending(r) == {i \in DOMAIN contract.rules: i >= step[r] /\ contract.rules[i].expression}

\* An expression, over the rows that are left: abort raises, quarantine puts
\* aside and filters, warn records.
Evaluate(r) ==
    /\ pc[r] = "clean"
    /\ \E i \in Pending(r):
          LET rule == contract.rules[i]
              bad  == Offending(r, {i})
          IN  /\ \A j \in Pending(r): i <= j
              /\ step' = [step EXCEPT ![r] = i + 1]
              /\ Goto(r, IF rule.severity = "abort" /\ bad # {} THEN "failing" ELSE "clean")
              /\ IF rule.severity = "quarantine"
                 THEN /\ quarantined' = [quarantined EXCEPT ![r] = @ \cup bad]
                      /\ applied' = [applied EXCEPT ![r] = @ \cup {i}]
                 ELSE UNCHANGED <<quarantined, applied>>
    /\ UNCHANGED <<given, source, wrote, control, low, base, top, cand, late>>

\* The append, and the snapshot that follows it.
Write(r) ==
    /\ pc[r] = "clean" /\ Pending(r) = {}
    /\ Goto(r, "written")
    /\ wrote' = [wrote EXCEPT ![r] = View(r, top[r])]
    /\ UNCHANGED <<given, source, quarantined, control, locals, late>>

\* Mutant: the commit takes the bookmark to what the source holds by now.
CommitSource(r) ==
    /\ pc[r] = "written"
    /\ Goto(r, "committed")
    /\ bookmark' = source
    /\ UNCHANGED <<data, locking, now, stateLog, runLog, planned, staged, reads, locals, late>>

\* job.commit(): from here on the rows are not read again.
Commit(r) ==
    /\ pc[r] = "written"
    /\ Goto(r, "committed")
    /\ bookmark' = top[r]
    /\ UNCHANGED <<data, locking, now, stateLog, runLog, planned, staged, reads, locals, late>>

Outcome(r) == IF top[r] = low[r] THEN "SKIPPED" ELSE "SUCCESS"

\* The state row; a skipped run and a run left without rows have no watermark.
RecordState(r) ==
    /\ pc[r] = "committed"
    /\ Goto(r, "stated")
    /\ cand' = [cand EXCEPT ![r] = MaxWatermark(View(r, top[r]))]
    /\ AppendState(r, Outcome(r), cand'[r])
    /\ UNCHANGED <<data, locking, now, runLog, progress, low, base, top, step, applied, late>>

\* Lineage and the run row end the try block.
LogOutcome(r) ==
    /\ pc[r] = "stated"
    /\ Goto(r, "done")
    /\ LogRun(r, Outcome(r), 0)
    /\ UNCHANGED <<data, locking, now, stateLog, progress, locals, late>>

Raise(r) ==
    /\ pc[r] \in {"gate", "sift", "clean", "written", "committed", "stated"}
    /\ Goto(r, "failing")
    /\ UNCHANGED <<data, control, locals, late>>

\* The except block, whose own failure is printed.
LogFailure(r) ==
    /\ pc[r] = "failing"
    /\ Goto(r, "done")
    /\ LogRun(r, "FAILED", 0) \/ UNCHANGED runLog
    /\ UNCHANGED <<data, locking, now, stateLog, progress, locals, late>>

Next ==
    \/ \E r \in Run:
          \/ Read(r) \/ CheckAbort(r) \/ Quarantine(r) \/ Evaluate(r) \/ Write(r)
          \/ Commit(r) \/ RecordState(r) \/ LogOutcome(r) \/ Raise(r) \/ LogFailure(r) \/ Crash(r)
    \/ Arrive

Spec == Init /\ [][Next]_vars

=============================================================================
