--------------------------- MODULE FabricNotebook ----------------------------
(***************************************************************************)
(* The notebook that render_lakehouse_notebook generates: lock, read,      *)
(* quality gate, append, evidence, with one except and one finally block.  *)
(* The dataframe is lazy, so each action on it reads the source anew.  The *)
(* notebook writes a watermark but never filters its source by one.  An    *)
(* available-now stream is first materialized, by a query of its own, at a *)
(* path that is the same for every run and is cleared before.              *)
(***************************************************************************)
EXTENDS PlatformTables

Working == {"locked", "cleared", "streamed", "gate", "quarantining", "written", "measured", "stated", "logged"}
Terminal == {"done", "leaked", "crashed"}
Pc == {"idle", "merged", "failing", "failed"} \cup Working \cup Terminal

Init == Fresh("fabric", Contracts)

Unlocked(r) ==
    /\ pc[r] = "idle"
    /\ ~contract.lock
    /\ Goto(r, "locked")
    /\ UNCHANGED <<data, control, locals, late>>

\* The MERGE of _cf_acquire_lock.
Acquire(r) ==
    /\ pc[r] = "idle"
    /\ contract.lock
    /\ Goto(r, "merged")
    /\ lock' = AcquireLock(lock, r, now)
    /\ lease' = [lease EXCEPT ![r] = IF Acquirable(lock, now) THEN now + TTL ELSE 0]
    /\ UNCHANGED <<data, held, now, stateLog, runLog, progress, locals, late>>

\* The read-back: _cf_lock_acquired is set only if the row is the run's own.
ReadBack(r) ==
    /\ pc[r] = "merged"
    /\ Goto(r, IF LockConfirmed(lock, r) THEN "locked" ELSE "failing")
    /\ held' = [held EXCEPT ![r] = LockConfirmed(lock, r)]
    /\ UNCHANGED <<data, lock, lease, now, stateLog, runLog, progress, locals, late>>

-----------------------------------------------------------------------------

\* The rows of df as the next action on it finds them, and whether the path of
\* a materialized stream is there: without it the action raises.
Df(r) ==
    IF ~contract.stream THEN View(r, source)
    ELSE IF reads[r] THEN staged \ Filtered(r, MaxRow) ELSE {}

Offending(r) == Df(r) \cap contract.rules[step[r]].bad

Readable(r) == reads[r] => staged # {}

Newcomers(r) == IF contract.stream THEN {} ELSE Arrived(r)

\* Some other run is between its stream and its last action on df.
Disturbs(r) == \E q \in Run \ {r}: pc[q] \in {"streamed", "gate", "quarantining", "written"}

\* The path is cleared; a failure to clear it is passed over.
Clear(r) ==
    /\ pc[r] = "locked"
    /\ contract.stream
    /\ Goto(r, "cleared")
    /\ staged' \in {{}, staged}
    /\ late' = IF Disturbs(r) THEN late \cup (staged \ staged') ELSE late
    /\ UNCHANGED <<data, locking, now, stateLog, runLog, bookmark, planned, reads, locals>>

\* The query takes the rows up to n off the stream and appends them at the path.
Take(r, n) ==
    LET batch == (bookmark + 1)..n
    IN  /\ low' = [low EXCEPT ![r] = bookmark]
        /\ top' = [top EXCEPT ![r] = n]
        /\ bookmark' = n
        /\ staged' = staged \cup batch
        /\ late' = IF Disturbs(r) THEN late \cup batch ELSE late
        /\ UNCHANGED <<data, locking, now, stateLog, runLog, planned, reads, base, step,
                       applied, cand>>

\* awaitTermination returns when all rows are taken.
Stream(r) == pc[r] = "cleared" /\ Goto(r, "streamed") /\ Take(r, source)

\* The query raises after some of its batches.
StreamFails(r) ==
    /\ pc[r] = "cleared"
    /\ Goto(r, "failing")
    /\ \E n \in bookmark..source: Take(r, n)

\* Mutant: the path is cleared once the query is through.
LoadAfterClearing(r) ==
    /\ pc[r] = "streamed"
    /\ Goto(r, "gate")
    /\ staged' = {}
    /\ UNCHANGED <<data, locking, now, stateLog, runLog, bookmark, planned, reads, locals, late>>

\* df is what is at the path, or an empty dataframe if there is no path.
Load(r) ==
    /\ pc[r] = "streamed"
    /\ Goto(r, "gate")
    /\ reads' = [reads EXCEPT ![r] = staged # {}]
    /\ UNCHANGED <<data, locking, now, stateLog, runLog, bookmark, planned, staged, locals, late>>

\* Any other source is bound to df, and _cf_rows_read = df.count().
Count(r) ==
    /\ pc[r] = "locked"
    /\ ~contract.stream
    /\ Goto(r, "gate")
    /\ top' = [top EXCEPT ![r] = source]
    /\ UNCHANGED <<data, control, low, base, step, applied, cand, late>>

\* Mutant: an abort rule is recorded as a warning.
EvaluateMildly(r) ==
    /\ pc[r] = "gate" /\ step[r] <= Len(contract.rules) /\ Readable(r)
    /\ LET passes == Offending(r) = {} \/ contract.rules[step[r]].severity # "quarantine"
       IN /\ Goto(r, IF passes THEN "gate" ELSE "quarantining")
          /\ step' = [step EXCEPT ![r] = IF passes THEN @ + 1 ELSE @]
    /\ UNCHANGED <<data, control, low, base, top, applied, cand, late>>

\* The next rule of the gate counts its failing rows.
Evaluate(r) ==
    /\ pc[r] = "gate" /\ step[r] <= Len(contract.rules) /\ Readable(r)
    /\ LET severity == contract.rules[step[r]].severity
           passes == Offending(r) = {} \/ severity = "warn"
       IN /\ Goto(r, IF passes THEN "gate"
                     ELSE IF severity = "abort" THEN "failing" ELSE "quarantining")
          /\ step' = [step EXCEPT ![r] = IF passes THEN @ + 1 ELSE @]
    /\ UNCHANGED <<data, control, low, base, top, applied, cand, late>>

\* The failing rows are collected and inserted one by one; df is filtered.
Quarantine(r) ==
    /\ pc[r] = "quarantining" /\ Readable(r)
    /\ Goto(r, "gate")
    /\ quarantined' = [quarantined EXCEPT ![r] = @ \cup Offending(r)]
    /\ applied' = [applied EXCEPT ![r] = @ \cup {step[r]}]
    /\ step' = [step EXCEPT ![r] = @ + 1]
    /\ UNCHANGED <<given, source, wrote, control, low, base, top, cand, late>>

\* One of the inserts raises: the rows before it stay in the quarantine table.
QuarantineFails(r) ==
    /\ pc[r] = "quarantining" /\ Readable(r)
    /\ Goto(r, "failing")
    /\ \E m \in Row:
          quarantined' = [quarantined EXCEPT ![r] = @ \cup {n \in Offending(r): n < m}]
    /\ UNCHANGED <<given, source, wrote, control, locals, late>>

\* The schema policy is checked, and df is appended to the table.
Write(r) ==
    /\ pc[r] = "gate" /\ step[r] > Len(contract.rules) /\ Readable(r)
    /\ Goto(r, "written")
    /\ wrote' = [wrote EXCEPT ![r] = Df(r)]
    /\ late' = late \cup Newcomers(r)
    /\ UNCHANGED <<given, source, quarantined, control, locals>>

\* _cf_state_watermark_candidate: MAX over df, evaluated once more.
Measure(r) ==
    /\ pc[r] = "written" /\ Readable(r)
    /\ Goto(r, "measured")
    /\ cand' = [cand EXCEPT ![r] = MaxWatermark(Df(r))]
    /\ late' = late \cup Newcomers(r)
    /\ UNCHANGED <<data, control, low, base, top, step, applied>>

\* The state row; schema, metadata, operations and access evidence follow it.
RecordState(r) ==
    /\ pc[r] = "measured"
    /\ Goto(r, "stated")
    /\ AppendState(r, "SUCCESS", cand[r])
    /\ UNCHANGED <<data, locking, now, runLog, progress, locals, late>>

\* Mutant: the run row is written before the state row.
LogSuccessEarly(r) ==
    /\ pc[r] = "measured"
    /\ Goto(r, "stated")
    /\ LogRun(r, "SUCCESS", 0)
    /\ UNCHANGED <<data, locking, now, stateLog, progress, locals, late>>

\* The last statement of the try block.
LogSuccess(r) ==
    /\ pc[r] = "stated"
    /\ Goto(r, "logged")
    /\ LogRun(r, "SUCCESS", 0)
    /\ UNCHANGED <<data, locking, now, stateLog, progress, locals, late>>

-----------------------------------------------------------------------------

\* A statement of the try block raises before it takes effect.
Raise(r) ==
    /\ pc[r] \in {"merged", "locked", "cleared", "streamed", "gate", "quarantining", "written", "measured", "stated"}
    /\ Goto(r, "failing")
    /\ UNCHANGED <<data, control, locals, late>>

\* The except block: quality and error evidence and the FAILED run row, which
\* says write_committed = False whatever was written; no state row.
LogFailure(r) ==
    /\ pc[r] = "failing"
    /\ Goto(r, "failed")
    /\ LogRun(r, "FAILED", 0)
    /\ UNCHANGED <<data, locking, now, stateLog, progress, locals, late>>

\* One of its inserts raises.
HandlerRaises(r) ==
    /\ pc[r] = "failing"
    /\ Goto(r, "failed")
    /\ UNCHANGED <<data, control, locals, late>>

\* The finally block: _cf_release_lock does nothing unless the lock was acquired.
Release(r) ==
    /\ pc[r] \in {"logged", "failed"}
    /\ Goto(r, "done")
    /\ lock' = IF held[r] THEN ReleaseLock(lock, r) ELSE lock
    /\ held' = [held EXCEPT ![r] = FALSE]
    /\ UNCHANGED <<data, lease, now, stateLog, runLog, progress, locals, late>>

\* Its UPDATE raises; the exception is printed.
ReleaseFails(r) ==
    /\ pc[r] \in {"logged", "failed"} /\ held[r]
    /\ Goto(r, "leaked")
    /\ held' = [held EXCEPT ![r] = FALSE]
    /\ UNCHANGED <<data, lock, lease, now, stateLog, runLog, progress, locals, late>>

Next ==
    \/ \E r \in Run:
          \/ Unlocked(r) \/ Acquire(r) \/ ReadBack(r)
          \/ Clear(r) \/ Stream(r) \/ StreamFails(r) \/ Load(r)
          \/ Count(r) \/ Evaluate(r) \/ Quarantine(r) \/ QuarantineFails(r)
          \/ Write(r) \/ Measure(r) \/ RecordState(r) \/ LogSuccess(r)
          \/ Raise(r) \/ LogFailure(r) \/ HandlerRaises(r)
          \/ Release(r) \/ ReleaseFails(r) \/ Crash(r)
    \/ Arrive
    \/ Tick

Spec == Init /\ [][Next]_vars

=============================================================================
