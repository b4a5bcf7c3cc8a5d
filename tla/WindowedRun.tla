----------------------------- MODULE WindowedRun -----------------------------
(***************************************************************************)
(* ingest_windowed_databricks_contract: one child run per window, in       *)
(* order, each of which reads the watermark of the target, ingests the     *)
(* rows of its window beyond it, and overwrites the one state row.  The    *)
(* child's steps are those of IngestRun, without the lock.                 *)
(***************************************************************************)
EXTENDS PlatformTables

\* The windows as the rows they hold; stop_on_failure; and the idempotency key:
\* none, one per window (from the contract), or one for all (from the options).
CONSTANT WindowPlans

WindowPlan == [windows: Seq(SUBSET Row), stop: BOOLEAN, key: {"none", "window", "options"}]

Pc == {"idle", "next", "prepared", "ready", "written", "measured", "logged", "skipping", "skipLogged",
       "failing", "failLogged", "done", "crashed"}

Init == Fresh("databricks", WindowPlans)

Windows == contract.windows

\* The rows of the child's window beyond the watermark it read.
ChildView(r) == Windows[step[r]] \cap ((low[r] + 1)..source)

\* The window loop starts with its list of windows.
Plan(r) ==
    /\ pc[r] = "idle"
    /\ Goto(r, "next")
    /\ top' = [top EXCEPT ![r] = source]
    /\ UNCHANGED <<data, control, low, base, step, applied, cand, late>>

\* prepare_contract_source_view reads the watermark of the state row.
Prepare(r) ==
    /\ pc[r] = "next" /\ step[r] <= Len(Windows)
    /\ Goto(r, "prepared")
    /\ LET previous == IF stateLog = <<>> THEN None ELSE stateLog[Len(stateLog)].watermark
       IN low' = [low EXCEPT ![r] = IF previous = None THEN 0 ELSE previous]
    /\ UNCHANGED <<data, control, base, top, step, applied, cand, late>>

\* An exception of the preparation leaves the loop.
PrepareFails(r) ==
    /\ pc[r] = "next" /\ step[r] <= Len(Windows)
    /\ Goto(r, "done")
    /\ UNCHANGED <<data, control, locals, late>>

\* child_plan.idempotency_key or options.idempotency_key.
SameKey(r, row) ==
    \/ contract.key = "options"
    \/ contract.key = "window" /\ row.part = step[r]

CheckKey(r) ==
    /\ pc[r] = "prepared"
    /\ LET found == \E row \in runLog: row.status = "SUCCESS" /\ SameKey(r, row)
       IN Goto(r, IF found THEN "skipping" ELSE "ready")
    /\ UNCHANGED <<data, control, locals, late>>

\* The child's write evaluates the view of its window.
Write(r) ==
    /\ pc[r] = "ready"
    /\ Goto(r, "written")
    /\ wrote' = [wrote EXCEPT ![r] = @ \cup ChildView(r)]
    /\ UNCHANGED <<given, source, quarantined, control, locals, late>>

\* collect_watermark_candidate evaluates it once more.
Measure(r) ==
    /\ pc[r] = "written"
    /\ Goto(r, "measured")
    /\ cand' = [cand EXCEPT ![r] = MaxWatermark(ChildView(r))]
    /\ late' = late \cup (ChildView(r) \ wrote[r])
    /\ UNCHANGED <<data, control, low, base, top, step, applied>>

LogSuccess(r) ==
    /\ pc[r] = "measured"
    /\ Goto(r, "logged")
    /\ LogRun(r, "SUCCESS", step[r])
    /\ UNCHANGED <<data, locking, now, stateLog, progress, locals, late>>

\* The state row, and on to the next window.
RecordSuccess(r) ==
    /\ pc[r] = "logged"
    /\ Goto(r, "next")
    /\ AppendState(r, "SUCCESS", cand[r])
    /\ step' = [step EXCEPT ![r] = @ + 1]
    /\ UNCHANGED <<data, locking, now, runLog, progress, low, base, top, applied, cand, late>>

LogSkip(r) ==
    /\ pc[r] = "skipping"
    /\ Goto(r, "skipLogged")
    /\ LogRun(r, "SKIPPED", step[r])
    /\ UNCHANGED <<data, locking, now, stateLog, progress, locals, late>>

\* A SKIPPED child is no failure; its state row has no watermark.
RecordSkip(r) ==
    /\ pc[r] = "skipLogged"
    /\ Goto(r, "next")
    /\ AppendState(r, "SKIPPED", None)
    /\ step' = [step EXCEPT ![r] = @ + 1]
    /\ UNCHANGED <<data, locking, now, runLog, progress, low, base, top, applied, cand, late>>

\* A statement of the child raises.
Raise(r) ==
    /\ pc[r] \in {"prepared", "ready", "written", "measured", "logged", "skipping", "skipLogged"}
    /\ Goto(r, "failing")
    /\ UNCHANGED <<data, control, locals, late>>

LogFailure(r) ==
    /\ pc[r] = "failing"
    /\ Goto(r, "failLogged")
    /\ LogRun(r, "FAILED", step[r])
    /\ UNCHANGED <<data, locking, now, stateLog, progress, locals, late>>

\* Mutant: stop_on_failure is not asked.
RecordFailureGoOn(r) ==
    /\ pc[r] = "failLogged"
    /\ Goto(r, "next")
    /\ AppendState(r, "FAILED", None)
    /\ step' = [step EXCEPT ![r] = @ + 1]
    /\ UNCHANGED <<data, locking, now, runLog, progress, low, base, top, applied, cand, late>>

\* The child returns FAILED: the loop breaks, unless stop_on_failure is off.
RecordFailure(r) ==
    /\ pc[r] = "failLogged"
    /\ Goto(r, IF contract.stop THEN "done" ELSE "next")
    /\ AppendState(r, "FAILED", None)
    /\ step' = [step EXCEPT ![r] = @ + 1]
    /\ UNCHANGED <<data, locking, now, runLog, progress, low, base, top, applied, cand, late>>

\* The summary of the windows is returned.
Finish(r) ==
    /\ pc[r] = "next" /\ step[r] > Len(Windows)
    /\ Goto(r, "done")
    /\ UNCHANGED <<data, control, locals, late>>

Next ==
    \/ \E r \in Run:
          \/ Plan(r) \/ Prepare(r) \/ PrepareFails(r) \/ CheckKey(r)
          \/ Write(r) \/ Measure(r) \/ LogSuccess(r) \/ RecordSuccess(r) \/ LogSkip(r) \/ RecordSkip(r)
          \/ Raise(r) \/ LogFailure(r) \/ RecordFailure(r) \/ Finish(r) \/ Crash(r)
    \/ Arrive

Spec == Init /\ [][Next]_vars

-----------------------------------------------------------------------------

WindowOf(n) == {w \in DOMAIN Windows: n \in Windows[w]}

\* The row arrived after a run had started that reported its window as done.
DoneBefore(n) ==
    \E row \in runLog: row.status = "SUCCESS" /\ row.part \in WindowOf(n) /\ n > top[row.run]

\* The windows do not follow the order of the watermark column: a later row
\* is in an earlier window.
Disordered(n) ==
    \E m \in Row: m > n /\ \E v \in WindowOf(m), w \in WindowOf(n): v < w

\* The watermark passes over an undelivered row of the windows only if a child
\* run of its window FAILED and stop_on_failure is off, if the row arrived too
\* late for the child run that reported its window as done (or between the
\* child's write and its candidate), or if the windows are cut along another
\* column than the watermark.
WindowsPassOverOpenly ==
    platform = "databricks" /\ stateLog # <<>> /\ stateLog[Len(stateLog)].watermark # None =>
        \A n \in 1..stateLog[Len(stateLog)].watermark \ UNION {wrote[r]: r \in Run}:
            \/ WindowOf(n) = {}
            \/ \E row \in runLog:
                  row.status = "FAILED" /\ row.part \in WindowOf(n) /\ ~contract.stop
            \/ DoneBefore(n)
            \/ n \in late
            \/ Disordered(n)

=============================================================================
